---------------------------- MODULE MCSignalSet ----------------------------
(* Model values of the descriptors and the signals. *)
EXTENDS SignalSet
CONSTANTS a, b, s1, s2
=============================================================================

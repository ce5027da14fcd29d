--------------------------- MODULE MCEpollReactor ---------------------------
(* Instances of EpollReactor for TLC. *)
EXTENDS EpollReactor, TLC

CONSTANTS a, b

Symmetry == Permutations(Fds)
=============================================================================

--------------------------- MODULE MCStreamSocket ---------------------------
(* Model values of the descriptors. *)
EXTENDS StreamSocket
CONSTANTS f1, f2
=============================================================================

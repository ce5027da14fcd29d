----------------------------- MODULE MCAcceptor -----------------------------
(* Model values of the descriptors and the sockets. *)
EXTENDS Acceptor
CONSTANTS f1, f2, f3, s1, s2
=============================================================================

------------------------------ MODULE MCStrand ------------------------------
(* Instances of Strand for TLC. *)
EXTENDS Strand

CONSTANTS w1, w2, c1, s1, s2, j1, j2, j3, j4
=============================================================================

---------------------------- MODULE MCExecutor ----------------------------
(* Instances of Executor for TLC. *)
EXTENDS Executor, TLC

CONSTANTS w1, w2, c1, j1, j2, j3

Symmetry == Permutations(Workers) \cup Permutations(Jobs \ TimerTicks)
=============================================================================

--------------------------- MODULE SerialExecutor ---------------------------
(***************************************************************************)
(* What a Strand promises for the jobs submitted through it: they are      *)
(* executed one at a time and in the order of their submission.  The only  *)
(* job that overtakes is one that the executing job dispatches: it runs at *)
(* once, inside its caller.                                                *)
(***************************************************************************)
EXTENDS Integers, Sequences

CONSTANT Jobs

VARIABLES pending,  \* jobs submitted and not started, oldest first
          active    \* the executing job and the jobs nested in it

vars == <<pending, active>>

Init == pending = <<>> /\ active = <<>>

Submit(j) == pending' = Append(pending, j) /\ UNCHANGED active

Start == /\ active = <<>> /\ pending # <<>>
         /\ active' = <<Head(pending)>> /\ pending' = Tail(pending)

(* A job dispatched to an idle strand is submitted and started at once.    *)
SubmitAndStart(j) ==
    active = <<>> /\ pending = <<>> /\ active' = <<j>> /\ UNCHANGED pending

Nest(j) == active # <<>> /\ active' = Append(active, j) /\ UNCHANGED pending

Finish == /\ active # <<>>
          /\ active' = SubSeq(active, 1, Len(active) - 1) /\ UNCHANGED pending

Next == Start \/ Finish \/ \E j \in Jobs : Submit(j) \/ SubmitAndStart(j) \/ Nest(j)

Spec == Init /\ [][Next]_vars
=============================================================================

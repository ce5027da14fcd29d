------------------------------- MODULE Strand -------------------------------
(***************************************************************************)
(* Strand (executor/strand.hpp, impl/strand.ipp): jobs submitted to a      *)
(* strand are executed one at a time by the workers of an executor.        *)
(*                                                                         *)
(* The executor is modelled by what the strand uses of it: a set of posted *)
(* ExecutePendingJobs() operations that its workers execute, and other     *)
(* operations, from which the strand is called as well.  The critical      *)
(* sections of a strand's mtx_ are single steps; the call of               *)
(* executor_.Post() that follows one in Post() is a step of its own.       *)
(***************************************************************************)
EXTENDS Integers, Sequences, FiniteSets

CONSTANTS
    Workers, Clients,   \* threads inside and outside the executor's Run()
    Strands,            \* strands of the same executor type
    Jobs,               \* each is submitted at most once
    NoStrand,
    Observed,           \* any one of the strands
    CrossDispatch       \* a job of one strand calls Dispatch() of another

Threads == Workers \cup Clients

ASSUME StrandAssumption ==
    Workers \cap Clients = {} /\ NoStrand \notin Strands
    /\ Observed \in Strands /\ CrossDispatch \in BOOLEAN

VARIABLES
    jobs_, is_running_,     \* StrandInfo
    context_marker_,        \* ExecutionContext<Strand>, thread local
    posted,     \* ExecutePendingJobs() operations in the executor, per strand
    inTask,     \* the worker executes an operation that is not a strand's
    trigger,    \* the strand for which the thread is about to call executor_.Post()
    draining,   \* the strand whose jobs the thread executes
    nest,       \* the jobs the thread executes, innermost last, with their strands
    fresh, done

vars == <<jobs_, is_running_, context_marker_, posted, inTask, trigger, draining, nest, fresh, done>>

Init ==
    /\ jobs_ = [s \in Strands |-> <<>>] /\ is_running_ = [s \in Strands |-> FALSE]
    /\ context_marker_ = [t \in Threads |-> FALSE]
    /\ posted = [s \in Strands |-> 0] /\ inTask = [t \in Threads |-> FALSE]
    /\ trigger = [t \in Threads |-> NoStrand] /\ draining = [t \in Threads |-> NoStrand]
    /\ nest = [t \in Threads |-> <<>>]
    /\ fresh = Jobs /\ done = {}

-----------------------------------------------------------------------------
IsExecutorContext(t) == t \in Workers
IsContinuationAlways(t) == TRUE
IsContinuation(t) == context_marker_[t]

(* The thread is in user code: a client, a task, or a job of a strand. *)
Calling(t) ==
    /\ trigger[t] = NoStrand
    /\ t \in Clients \/ (draining[t] = NoStrand /\ inTask[t]) \/ nest[t] # <<>>

(* A worker that is about to take the next operation of the executor. *)
Idle(t) == t \in Workers /\ ~inTask[t] /\ draining[t] = NoStrand

Enqueue(s, j) == jobs_' = [jobs_ EXCEPT ![s] = Append(@, j)]

-----------------------------------------------------------------------------
PostAlwaysTriggers(t, s, j) ==
    /\ Calling(t) /\ j \in fresh
    /\ Enqueue(s, j)
    /\ trigger' = [trigger EXCEPT ![t] = s]
    /\ is_running_' = [is_running_ EXCEPT ![s] = TRUE]
    /\ fresh' = fresh \ {j}
    /\ UNCHANGED <<context_marker_, posted, inTask, draining, nest, done>>

(* Post(), and Dispatch() outside the executor: enqueue the job; who finds *)
(* the strand not running has to post its execution.                       *)
Post(t, s, j) ==
    /\ Calling(t) /\ j \in fresh
    /\ Enqueue(s, j)
    /\ trigger' = [trigger EXCEPT ![t] = IF is_running_[s] THEN NoStrand ELSE s]
    /\ is_running_' = [is_running_ EXCEPT ![s] = TRUE]
    /\ fresh' = fresh \ {j}
    /\ UNCHANGED <<context_marker_, posted, inTask, draining, nest, done>>

PostTrigger(t) ==
    /\ trigger[t] # NoStrand
    /\ posted' = [posted EXCEPT ![trigger[t]] = @ + 1]
    /\ trigger' = [trigger EXCEPT ![t] = NoStrand]
    /\ UNCHANGED <<jobs_, is_running_, context_marker_, inTask, draining, nest, fresh, done>>

(* Dispatch() of a job while this thread executes a job: run it directly.  *)
(* IsContinuation() cannot tell of which strand the executing job is.      *)
DispatchDirect(t, s, j) ==
    /\ Calling(t) /\ IsExecutorContext(t) /\ j \in fresh
    /\ IsContinuation(t)
    /\ CrossDispatch \/ draining[t] \in {s, NoStrand}
    /\ nest' = [nest EXCEPT ![t] = Append(@, <<s, j>>)]
    /\ fresh' = fresh \ {j}
    /\ UNCHANGED <<jobs_, is_running_, context_marker_, posted, inTask, trigger, draining, done>>

(* Dispatch() while another thread is responsible for the strand.          *)
DispatchEnqueue(t, s, j) ==
    /\ Calling(t) /\ IsExecutorContext(t) /\ j \in fresh
    /\ ~IsContinuation(t) /\ is_running_[s]
    /\ Enqueue(s, j)
    /\ fresh' = fresh \ {j}
    /\ UNCHANGED <<is_running_, context_marker_, posted, inTask, trigger, draining, nest, done>>

(* Dispatch() to a strand nobody is responsible for: this thread executes  *)
(* the job, and then the pending ones.                                     *)
DispatchNow(t, s, j) ==
    /\ Calling(t) /\ IsExecutorContext(t) /\ j \in fresh
    /\ ~IsContinuation(t) /\ ~is_running_[s]
    /\ is_running_' = [is_running_ EXCEPT ![s] = TRUE]
    /\ context_marker_' = [context_marker_ EXCEPT ![t] = TRUE]
    /\ draining' = [draining EXCEPT ![t] = s] /\ nest' = [nest EXCEPT ![t] = <<<<s, j>>>>]
    /\ fresh' = fresh \ {j}
    /\ UNCHANGED <<jobs_, posted, inTask, trigger, done>>

-----------------------------------------------------------------------------
(* The executor's part: a worker takes an operation that was posted.       *)

RunTask(t) ==
    /\ Idle(t)
    /\ inTask' = [inTask EXCEPT ![t] = TRUE]
    /\ UNCHANGED <<jobs_, is_running_, context_marker_, posted, trigger, draining, nest, fresh, done>>

FinishTask(t) ==
    /\ inTask[t] /\ Calling(t) /\ draining[t] = NoStrand
    /\ inTask' = [inTask EXCEPT ![t] = FALSE]
    /\ UNCHANGED <<jobs_, is_running_, context_marker_, posted, trigger, draining, nest, fresh, done>>

(* ExecutePendingJobs() starts. *)
ExecutePendingJobs(t, s) ==
    /\ Idle(t) /\ posted[s] > 0
    /\ posted' = [posted EXCEPT ![s] = @ - 1]
    /\ draining' = [draining EXCEPT ![t] = s]
    /\ context_marker_' = [context_marker_ EXCEPT ![t] = TRUE]
    /\ UNCHANGED <<jobs_, is_running_, inTask, trigger, nest, fresh, done>>

(* The loop of ExecutePendingJobs(): the next job, ...                     *)
AtLoop(t, s) == draining[t] = s /\ s \in Strands /\ nest[t] = <<>> /\ trigger[t] = NoStrand

NextJobFromBack(t, s) ==
    /\ AtLoop(t, s) /\ jobs_[s] # <<>>
    /\ nest' = [nest EXCEPT ![t] = <<<<s, jobs_[s][Len(jobs_[s])]>>>>]
    /\ jobs_' = [jobs_ EXCEPT ![s] = SubSeq(@, 1, Len(@) - 1)]
    /\ UNCHANGED <<is_running_, context_marker_, posted, inTask, trigger, draining, fresh, done>>

NextJob(t, s) ==
    /\ AtLoop(t, s) /\ jobs_[s] # <<>>
    /\ nest' = [nest EXCEPT ![t] = <<<<s, Head(jobs_[s])>>>>]
    /\ jobs_' = [jobs_ EXCEPT ![s] = Tail(@)]
    /\ UNCHANGED <<is_running_, context_marker_, posted, inTask, trigger, draining, fresh, done>>

NoMoreJobsForgets(t, s) ==
    /\ AtLoop(t, s) /\ jobs_[s] = <<>>
    /\ draining' = [draining EXCEPT ![t] = NoStrand]
    /\ context_marker_' = [context_marker_ EXCEPT ![t] = FALSE]
    /\ UNCHANGED <<jobs_, is_running_, posted, inTask, trigger, nest, fresh, done>>

(* ... or none is left, and the strand is given up in the same critical    *)
(* section.                                                                *)
NoMoreJobs(t, s) ==
    /\ AtLoop(t, s) /\ jobs_[s] = <<>>
    /\ is_running_' = [is_running_ EXCEPT ![s] = FALSE]
    /\ draining' = [draining EXCEPT ![t] = NoStrand]
    /\ context_marker_' = [context_marker_ EXCEPT ![t] = FALSE]
    /\ UNCHANGED <<jobs_, posted, inTask, trigger, nest, fresh, done>>

(* The innermost job returns. *)
FinishJob(t) ==
    /\ nest[t] # <<>> /\ Calling(t)
    /\ done' = done \cup {nest[t][Len(nest[t])][2]}
    /\ nest' = [nest EXCEPT ![t] = SubSeq(@, 1, Len(@) - 1)]
    /\ UNCHANGED <<jobs_, is_running_, context_marker_, posted, inTask, trigger, draining, fresh>>

-----------------------------------------------------------------------------
Call(t) == \E s \in Strands, j \in Jobs :
    Post(t, s, j) \/ DispatchDirect(t, s, j) \/ DispatchEnqueue(t, s, j) \/ DispatchNow(t, s, j)

Work(t) ==
    \/ PostTrigger(t) \/ FinishTask(t) \/ FinishJob(t)
    \/ \E s \in Strands : ExecutePendingJobs(t, s) \/ NextJob(t, s) \/ NoMoreJobs(t, s)

Next == \E t \in Threads : Call(t) \/ Work(t) \/ RunTask(t)

Spec == Init /\ [][Next]_vars

(* The threads are scheduled, every job returns, and the executor executes *)
(* what is posted to it (what the runs of Executor check) instead of other *)
(* tasks for ever.                                                         *)
Fairness ==
    /\ \A t \in Threads : WF_vars(Work(t))
    /\ \A s \in Strands : SF_vars(\E t \in Workers : ExecutePendingJobs(t, s))

FairSpec == Spec /\ Fairness

-----------------------------------------------------------------------------
(* The types of the strand's state. *)
TypeOK ==
    /\ jobs_ \in [Strands -> Seq(Jobs)] /\ is_running_ \in [Strands -> BOOLEAN]
    /\ context_marker_ \in [Threads -> BOOLEAN]
    /\ posted \in [Strands -> Nat] /\ inTask \in [Threads -> BOOLEAN]
    /\ trigger \in [Threads -> Strands \cup {NoStrand}]
    /\ draining \in [Threads -> Strands \cup {NoStrand}]
    /\ nest \in [Threads -> Seq(Strands \X Jobs)]
    /\ fresh \subseteq Jobs /\ done \subseteq Jobs

(* The context marker tells exactly the threads that execute a strand.     *)
MarkerInv ==
    \A t \in Threads : /\ context_marker_[t] <=> draining[t] # NoStrand
                       /\ nest[t] # <<>> => draining[t] # NoStrand

(* A thread is responsible for executing the jobs of a strand when it is   *)
(* about to post ExecutePendingJobs(), or inside it.                       *)
Responsible(t, s) == trigger[t] = s \/ draining[t] = s

(* is_running_ means that exactly one is responsible, a thread or a posted *)
(* ExecutePendingJobs(); otherwise nobody is, and nothing is pending.  A   *)
(* job posted while the last one returns is therefore never left behind,   *)
(* and never executed by a second thread.                                  *)
OneResponsible ==
    \A s \in Strands :
        /\ \A t, u \in Threads : Responsible(t, s) /\ Responsible(u, s) => t = u
        /\ \A t \in Threads : ~(trigger[t] = s /\ draining[t] = s)
        /\ posted[s] \in {0, 1}
        /\ posted[s] = 1 => \A t \in Threads : ~Responsible(t, s)
        /\ is_running_[s] <=> posted[s] = 1 \/ \E t \in Threads : Responsible(t, s)
        /\ jobs_[s] # <<>> => is_running_[s]

(* A strand's jobs are executed by one thread at a time: the one inside    *)
(* ExecutePendingJobs() or Dispatch() of the strand.                       *)
Serial ==
    \A t \in Threads : \A i \in 1..Len(nest[t]) : draining[t] = nest[t][i][1]

(* No two threads execute jobs of one strand at the same time, whatever    *)
(* the jobs dispatch to.                                                   *)
NoTwoJobsAtOnce ==
    \A t, u \in Threads : \A i \in 1..Len(nest[t]), k \in 1..Len(nest[u]) :
        nest[t][i][1] = nest[u][k][1] => t = u

(* Every job that is submitted is executed. *)
JobsExecuted == \A j \in Jobs : j \notin fresh ~> j \in done

(* The jobs of a strand are executed as SerialExecutor says: one at a time *)
(* and in the order of their submission, whatever the other strands do.    *)
Executing == {t \in Threads : draining[t] = Observed}
Names(calls) == [i \in 1..Len(calls) |-> calls[i][2]]
ActiveJobs == IF Executing = {} THEN <<>> ELSE Names(nest[CHOOSE t \in Executing : TRUE])

Promise == INSTANCE SerialExecutor WITH pending <- jobs_[Observed], active <- ActiveJobs

SerialExecution == Promise!Spec
=============================================================================

------------------------------ MODULE Executor ------------------------------
(***************************************************************************)
(* IO_Executor (executor/io_executor.hpp, impl/io_executor.ipp): a shared  *)
(* queue of operations executed by the threads that call Run() or          *)
(* RunOne().  A null operation in the queue is the token of the reactor:   *)
(* the worker that pops it polls epoll and pushes it back.                 *)
(*                                                                         *)
(* A step is what a thread does between two points at which another thread *)
(* can see its effects: a critical section of mtx_, an access to the       *)
(* atomic job_count_, the system calls of the reactor, the body of an      *)
(* operation.  mtx_ is held across steps only inside ProcessNextOperation  *)
(* (pc = "loop"); the other critical sections are single steps.            *)
(***************************************************************************)
EXTENDS Integers, Sequences, FiniteSets

CONSTANTS
    Workers,        \* threads that call Run() or RunOne()
    Clients,        \* threads that only call the other methods
    Jobs,           \* operations; each is submitted at most once
    NullTask,       \* the empty operation, the reactor's token
    NoThread,       \* mtx_ is free
    NoJob,          \* no operation in hand
    single_thread_, \* concurrency_hint = 1
    JobCountMod,    \* 2^32 in the code: job_count_ is an uint32
    ReactorAtConstruction,  \* ENABLE_REACTOR_SERVICE in the constructor
    LateReactor,    \* an i/o object may ask for the reactor later
    ReactorMayFail, \* epoll_wait() may return an error other than EINTR
    StopAllowed,    \* the user calls Stop() (and Restart() afterwards)
    RunOneAllowed,  \* workers also call RunOne()
    TimerTicks,     \* operations of the level-triggered timerfd: the reactor
                    \* queues them although no arrival was counted for them
    MaxGuards       \* bound on the WorkGuards alive at once

Threads == Workers \cup Clients

ASSUME ThreadsAssumption == Workers \cap Clients = {} /\ NoThread \notin Threads
ASSUME JobsAssumption == NullTask \notin Jobs /\ NoJob \notin Jobs /\ NullTask # NoJob
                         /\ TimerTicks \subseteq Jobs
ASSUME NumbersAssumption == JobCountMod \in Nat \ {0} /\ MaxGuards \in Nat
ASSUME FlagsAssumption ==
    /\ single_thread_ \in BOOLEAN /\ ReactorAtConstruction \in BOOLEAN
    /\ LateReactor \in BOOLEAN /\ ReactorMayFail \in BOOLEAN
    /\ StopAllowed \in BOOLEAN /\ RunOneAllowed \in BOOLEAN

VARIABLES
    operation_queue_, job_count_, stop_requested_, cv_wait_count_,
    reactor_service_, reactor_needs_interrupt_, mtx_,
    cvBlocked,      \* workers asleep on cv_, not yet notified
    unblock_fd_,    \* the reactor's eventfd is readable
    pc, runOne,     \* where a thread is; whether it is in RunOne()
    op,             \* the operation a thread is executing or posting
    blocking,       \* the reactor was entered with an infinite timeout
    private_op_queue_, private_job_count_,  \* ThreadInfo of a worker
    armed,          \* async operations started and not yet reported ready
    fresh, done,    \* operations not yet submitted; operations executed
    guards,         \* WorkGuards alive
    reactor_error   \* some reactor run has failed

shared == <<operation_queue_, job_count_, stop_requested_, cv_wait_count_,
            reactor_service_, reactor_needs_interrupt_, mtx_, cvBlocked, unblock_fd_>>
local  == <<pc, runOne, op, blocking, private_op_queue_, private_job_count_>>
env    == <<armed, fresh, done, guards, reactor_error>>
vars   == <<shared, local, env>>

Operations == Jobs \cup {NullTask}

(* The constructor; the workers have not called Run() yet. *)
Init ==
    /\ reactor_service_ = ReactorAtConstruction
    /\ operation_queue_ = IF ReactorAtConstruction THEN <<NullTask>> ELSE <<>>
    /\ job_count_ = 0 /\ stop_requested_ = FALSE /\ cv_wait_count_ = 0
    /\ reactor_needs_interrupt_ = FALSE /\ mtx_ = NoThread
    /\ cvBlocked = {} /\ unblock_fd_ = FALSE
    /\ pc = [t \in Threads |-> "out"] /\ runOne = [t \in Threads |-> FALSE]
    /\ op = [t \in Threads |-> NoJob] /\ blocking = [t \in Threads |-> FALSE]
    /\ private_op_queue_ = [t \in Threads |-> <<>>]
    /\ private_job_count_ = [t \in Threads |-> 0]
    /\ armed = {} /\ fresh = Jobs /\ done = {} /\ guards = 0
    /\ reactor_error = FALSE

-----------------------------------------------------------------------------
(* Helpers: each fixes the next value of the variables it names. *)

Goto(t, label) == pc' = [pc EXCEPT ![t] = label]

(* cv_.notify_one(): one sleeping worker, if there is any, starts to wake. *)
NotifyOne ==
    \/ cvBlocked = {} /\ UNCHANGED cvBlocked
    \/ \E w \in cvBlocked : cvBlocked' = cvBlocked \ {w}

WakeOneWithoutInterrupt == NotifyOne /\ UNCHANGED unblock_fd_

(* A waiting worker is preferred to an interrupt of the reactor.           *)
WakeOne ==
    \/ cv_wait_count_ # 0 /\ NotifyOne /\ UNCHANGED unblock_fd_
    \/ /\ cv_wait_count_ = 0
       /\ unblock_fd_' = (unblock_fd_ \/ (reactor_service_ /\ reactor_needs_interrupt_))
       /\ UNCHANGED cvBlocked

WakeAll ==
    /\ cvBlocked' = {}
    /\ unblock_fd_' = (unblock_fd_ \/ (reactor_service_ /\ reactor_needs_interrupt_))

DoNotWake == UNCHANGED <<cvBlocked, unblock_fd_>>

AddJobs(n) == job_count_' = (job_count_ + n) % JobCountMod

(* Push an operation and wake a thread, as one critical section. *)
EnqueueLocked(o) ==
    /\ mtx_ = NoThread
    /\ operation_queue_' = Append(operation_queue_, o)
    /\ WakeOne

(* Stop(): the critical section. *)
StopLocked ==
    /\ mtx_ = NoThread
    /\ stop_requested_' = TRUE
    /\ WakeAll

(* The private queue of a worker is moved to the end of the shared queue.  *)
TransferredForgets(w) == operation_queue_
Transferred(w) == operation_queue_ \o private_op_queue_[w]

ClearPrivate(w) == private_op_queue_' = [private_op_queue_ EXCEPT ![w] = <<>>]

InRun(w) == pc[w] # "out"
InOperation(t) == pc[t] = "running"
Outside(t) == t \in Clients /\ pc[t] = "out"
-----------------------------------------------------------------------------
(* Calls made by threads outside Run(): by the clients.                    *)

(* Post(), Dispatch(): the arrival is counted before the queue is locked.  *)
Post(c, j) ==
    /\ Outside(c) /\ j \in fresh \ TimerTicks
    /\ AddJobs(1)
    /\ op' = [op EXCEPT ![c] = j] /\ fresh' = fresh \ {j} /\ Goto(c, "posting")
    /\ UNCHANGED <<operation_queue_, stop_requested_, cv_wait_count_, reactor_service_,
                   reactor_needs_interrupt_, mtx_, cvBlocked, unblock_fd_, runOne, blocking,
                   private_op_queue_, private_job_count_, armed, done, guards, reactor_error>>

PostEnqueue(c) ==
    /\ pc[c] = "posting"
    /\ EnqueueLocked(op[c])
    /\ op' = [op EXCEPT ![c] = NoJob] /\ Goto(c, "out")
    /\ UNCHANGED <<job_count_, stop_requested_, cv_wait_count_, reactor_service_,
                   reactor_needs_interrupt_, mtx_, runOne, blocking,
                   private_op_queue_, private_job_count_, env>>

(* WorkGuard: an arrival without an operation, and its completion.         *)
GuardCreate(c) ==
    /\ Outside(c) /\ guards < MaxGuards
    /\ AddJobs(1) /\ guards' = guards + 1
    /\ UNCHANGED <<operation_queue_, stop_requested_, cv_wait_count_, reactor_service_,
                   reactor_needs_interrupt_, mtx_, cvBlocked, unblock_fd_, local,
                   armed, fresh, done, reactor_error>>

GuardDestroy(c) ==
    /\ Outside(c) /\ guards > 0
    /\ AddJobs(-1) /\ guards' = guards - 1
    /\ Goto(c, IF job_count_ = 0 THEN "stopping" ELSE "out")
    /\ UNCHANGED <<operation_queue_, stop_requested_, cv_wait_count_, reactor_service_,
                   reactor_needs_interrupt_, mtx_, cvBlocked, unblock_fd_, runOne, op, blocking,
                   private_op_queue_, private_job_count_, armed, fresh, done, reactor_error>>

RestartPushesToken(c) ==
    /\ StopAllowed /\ Outside(c) /\ mtx_ = NoThread
    /\ stop_requested_ /\ \A w \in Workers : ~InRun(w)
    /\ stop_requested_' = FALSE /\ operation_queue_' = Append(operation_queue_, NullTask)
    /\ UNCHANGED <<job_count_, cv_wait_count_, reactor_service_,
                   reactor_needs_interrupt_, mtx_, cvBlocked, unblock_fd_, local, env>>

(* Restart(); its warning forbids the call while some Run() is unfinished. *)
Restart(c) ==
    /\ StopAllowed /\ Outside(c) /\ mtx_ = NoThread
    /\ stop_requested_ /\ \A w \in Workers : ~InRun(w)
    /\ stop_requested_' = FALSE
    /\ UNCHANGED <<operation_queue_, job_count_, cv_wait_count_, reactor_service_,
                   reactor_needs_interrupt_, mtx_, cvBlocked, unblock_fd_, local, env>>

-----------------------------------------------------------------------------
(* Calls a client makes, or an operation from within a worker.             *)

MayCall(t) == Outside(t) \/ InOperation(t)

(* Stop() called by the user. *)
Stop(t) ==
    /\ StopAllowed /\ MayCall(t)
    /\ StopLocked
    /\ UNCHANGED <<operation_queue_, job_count_, cv_wait_count_, reactor_service_,
                   reactor_needs_interrupt_, mtx_, local, env>>

(* An i/o object starts an asynchronous operation: OnStartOfOperation()    *)
(* of the reactor counts its arrival.                                      *)
StartAsync(t, j) ==
    /\ MayCall(t) /\ reactor_service_ /\ j \in fresh \ TimerTicks
    /\ AddJobs(1) /\ armed' = armed \cup {j} /\ fresh' = fresh \ {j}
    /\ UNCHANGED <<operation_queue_, stop_requested_, cv_wait_count_, reactor_service_,
                   reactor_needs_interrupt_, mtx_, cvBlocked, unblock_fd_, local,
                   done, guards, reactor_error>>

(* EnqueuePostJobArrival(): queue an operation whose arrival has been      *)
(* counted; on the private queue only within a single-threaded executor.   *)
EnqueuePostJobArrival(t, j) ==
    /\ MayCall(t) /\ j \in armed
    /\ armed' = armed \ {j}
    /\ \/ /\ single_thread_ /\ InOperation(t)
          /\ private_op_queue_' = [private_op_queue_ EXCEPT ![t] = Append(@, j)]
          /\ UNCHANGED <<operation_queue_, cvBlocked, unblock_fd_>>
       \/ /\ ~(single_thread_ /\ InOperation(t))
          /\ EnqueueLocked(j) /\ UNCHANGED private_op_queue_
    /\ UNCHANGED <<job_count_, stop_requested_, cv_wait_count_, reactor_service_,
                   reactor_needs_interrupt_, mtx_, pc, runOne, op, blocking,
                   private_job_count_, fresh, done, guards, reactor_error>>

(* PostPeriodic() in mode kImmediate: queued and counted under the lock,   *)
(* on the shared queue even within a worker.                               *)
PostImmediate(t, j) ==
    /\ MayCall(t) /\ j \in fresh \ TimerTicks
    /\ EnqueueLocked(j) /\ AddJobs(1) /\ fresh' = fresh \ {j}
    /\ UNCHANGED <<stop_requested_, cv_wait_count_, reactor_service_, reactor_needs_interrupt_,
                   mtx_, local, armed, done, guards, reactor_error>>

(* StartReactorTask(): the queue is accessed without the lock.  Racing     *)
(* with a critical section, the push may be lost.                          *)
StartReactorTask ==
    \/ /\ ~stop_requested_
       /\ operation_queue_' = Append(operation_queue_, NullTask)
       /\ WakeOne
    \/ /\ stop_requested_ \/ mtx_ # NoThread
       /\ UNCHANGED operation_queue_ /\ DoNotWake

UseReactorService(t) ==
    /\ LateReactor /\ MayCall(t) /\ ~reactor_service_
    /\ reactor_service_' = TRUE
    /\ StartReactorTask
    /\ UNCHANGED <<job_count_, stop_requested_, cv_wait_count_, reactor_needs_interrupt_,
                   mtx_, local, env>>

-----------------------------------------------------------------------------
(* Calls made by an operation while a worker executes it.                  *)

(* Post() within Run(): the operation goes to the private queue.           *)
PostPrivate(w, j) ==
    /\ InOperation(w) /\ j \in fresh \ TimerTicks
    /\ fresh' = fresh \ {j}
    /\ private_job_count_' = [private_job_count_ EXCEPT ![w] = @ + 1]
    /\ private_op_queue_' = [private_op_queue_ EXCEPT ![w] = Append(@, j)]
    /\ UNCHANGED <<shared, pc, runOne, op, blocking, armed, done, guards, reactor_error>>

(* Dispatch() within Run(): the operation is executed on the spot.         *)
DispatchInline(w, j) ==
    /\ InOperation(w) /\ j \in fresh \ TimerTicks
    /\ fresh' = fresh \ {j} /\ done' = done \cup {j}
    /\ UNCHANGED <<shared, local, armed, guards, reactor_error>>

-----------------------------------------------------------------------------
(* Run(), RunOne() and ProcessNextOperation().                             *)

(* Entry of Run() or RunOne(): without jobs the executor is stopped.       *)
Run(w, one) ==
    /\ pc[w] = "out" /\ (one => RunOneAllowed)
    /\ runOne' = [runOne EXCEPT ![w] = one]
    /\ Goto(w, IF job_count_ = 0 THEN "stopping" ELSE "enter")
    /\ UNCHANGED <<shared, op, blocking, private_op_queue_, private_job_count_, env>>

(* The Stop() of a thread that found no jobs, of a worker that completed   *)
(* an operation, or of a client that destroyed a guard.                    *)
StopForLackOfJobs(t) ==
    /\ pc[t] \in {"stopping", "op_stop"}
    /\ StopLocked
    /\ Goto(t, IF pc[t] = "stopping" THEN "out" ELSE "op_done")
    /\ runOne' = [runOne EXCEPT ![t] = @ /\ pc[t] = "op_stop"]
    /\ UNCHANGED <<operation_queue_, job_count_, cv_wait_count_, reactor_service_,
                   reactor_needs_interrupt_, mtx_, op, blocking,
                   private_op_queue_, private_job_count_, env>>

Lock(w) ==
    /\ pc[w] = "enter" /\ mtx_ = NoThread
    /\ mtx_' = w /\ Goto(w, "loop")
    /\ UNCHANGED <<operation_queue_, job_count_, stop_requested_, cv_wait_count_, reactor_service_,
                   reactor_needs_interrupt_, cvBlocked, unblock_fd_, runOne, op, blocking,
                   private_op_queue_, private_job_count_, env>>

AtLoop(w) == pc[w] = "loop" /\ mtx_ = w

(* Stopped, or RunOne() found the queue empty: the call returns.           *)
Leave(w) ==
    /\ AtLoop(w)
    /\ stop_requested_ \/ (runOne[w] /\ operation_queue_ = <<>>)
    /\ mtx_' = NoThread /\ Goto(w, "out") /\ runOne' = [runOne EXCEPT ![w] = FALSE]
    /\ UNCHANGED <<operation_queue_, job_count_, stop_requested_, cv_wait_count_, reactor_service_,
                   reactor_needs_interrupt_, cvBlocked, unblock_fd_, op, blocking,
                   private_op_queue_, private_job_count_, env>>

(* The queue is empty: sleep on cv_, which releases the lock.              *)
WaitForWork(w) ==
    /\ AtLoop(w) /\ ~stop_requested_ /\ ~runOne[w] /\ operation_queue_ = <<>>
    /\ cv_wait_count_' = cv_wait_count_ + 1
    /\ cvBlocked' = cvBlocked \cup {w} /\ mtx_' = NoThread /\ Goto(w, "waiting")
    /\ UNCHANGED <<operation_queue_, job_count_, stop_requested_, reactor_service_,
                   reactor_needs_interrupt_, unblock_fd_, runOne, op, blocking,
                   private_op_queue_, private_job_count_, env>>

(* cv_.wait() may return although nobody notified. *)
SpuriousWake(w) ==
    /\ w \in cvBlocked
    /\ cvBlocked' = cvBlocked \ {w}
    /\ UNCHANGED <<operation_queue_, job_count_, stop_requested_, cv_wait_count_, reactor_service_,
                   reactor_needs_interrupt_, mtx_, unblock_fd_, local, env>>

(* The woken worker takes the lock again and evaluates the predicate,      *)
(* which looks at the queue and not at stop_requested_.                    *)
Woken(w) ==
    /\ pc[w] = "waiting" /\ w \notin cvBlocked /\ mtx_ = NoThread
    /\ \/ /\ operation_queue_ = <<>>
          /\ cvBlocked' = cvBlocked \cup {w}
          /\ UNCHANGED <<cv_wait_count_, mtx_, pc>>
       \/ /\ operation_queue_ # <<>>
          /\ cv_wait_count_' = cv_wait_count_ - 1
          /\ mtx_' = w /\ Goto(w, "loop") /\ UNCHANGED cvBlocked
    /\ UNCHANGED <<operation_queue_, job_count_, stop_requested_, reactor_service_,
                   reactor_needs_interrupt_, unblock_fd_, runOne, op, blocking,
                   private_op_queue_, private_job_count_, env>>

(* Pop the front operation; wake another thread for what is left in the    *)
(* queue unless the executor is meant for one thread; release the lock.    *)
PopFront(w) ==
    /\ AtLoop(w) /\ ~stop_requested_ /\ operation_queue_ # <<>>
    /\ operation_queue_' = Tail(operation_queue_)
    /\ \/ ~single_thread_ /\ Tail(operation_queue_) # <<>> /\ WakeOne
       \/ (single_thread_ \/ Tail(operation_queue_) = <<>>) /\ DoNotWake
    /\ mtx_' = NoThread

StartOperation(w) ==
    /\ PopFront(w) /\ Head(operation_queue_) # NullTask
    /\ op' = [op EXCEPT ![w] = Head(operation_queue_)] /\ Goto(w, "running")
    /\ UNCHANGED <<job_count_, stop_requested_, cv_wait_count_, reactor_service_,
                   reactor_needs_interrupt_, runOne, blocking,
                   private_op_queue_, private_job_count_, env>>

StartReactor(w) ==
    /\ PopFront(w) /\ Head(operation_queue_) = NullTask
    /\ reactor_needs_interrupt_' = (Tail(operation_queue_) = <<>>)
    /\ blocking' = [blocking EXCEPT ![w] = (Tail(operation_queue_) = <<>>)]
    /\ Goto(w, "reactor")
    /\ UNCHANGED <<job_count_, stop_requested_, cv_wait_count_, reactor_service_, runOne, op,
                   private_op_queue_, private_job_count_, env>>
(* The reactor appends the handler of a ready i/o source, or of the timer, *)
(* to the private queue of the worker that runs it.                        *)
ReactorReady(w, j) ==
    /\ pc[w] = "reactor" /\ j \in armed \cup (fresh \cap TimerTicks)
    /\ armed' = armed \ {j} /\ fresh' = fresh \ {j}
    /\ private_op_queue_' = [private_op_queue_ EXCEPT ![w] = Append(@, j)]
    /\ UNCHANGED <<shared, pc, runOne, op, blocking, private_job_count_, done, guards, reactor_error>>

(* The reactor returns: interrupted through its eventfd, which it drains,  *)
(* or with events, or at once when its timeout is zero.                    *)
ReactorReturn(w) ==
    /\ pc[w] = "reactor"
    /\ \/ unblock_fd_ /\ unblock_fd_' = FALSE
       \/ (private_op_queue_[w] # <<>> \/ ~blocking[w]) /\ UNCHANGED unblock_fd_
    /\ AddJobs(private_job_count_[w])
    /\ private_job_count_' = [private_job_count_ EXCEPT ![w] = 0]
    /\ Goto(w, "reactor_done") /\ blocking' = [blocking EXCEPT ![w] = FALSE]
    /\ UNCHANGED <<operation_queue_, stop_requested_, cv_wait_count_, reactor_service_,
                   reactor_needs_interrupt_, mtx_, cvBlocked, runOne, op,
                   private_op_queue_, env>>

(* epoll_wait() fails: Run() returns the error at once, and the null task  *)
(* is not pushed back.                                                     *)
ReactorFail(w) ==
    /\ ReactorMayFail /\ pc[w] = "reactor" /\ private_op_queue_[w] = <<>>
    /\ reactor_error' = TRUE /\ Goto(w, "out")
    /\ runOne' = [runOne EXCEPT ![w] = FALSE] /\ blocking' = [blocking EXCEPT ![w] = FALSE]
    /\ UNCHANGED <<shared, op, private_op_queue_, private_job_count_,
                   armed, fresh, done, guards>>

(* The null task goes back to the end of the queue. *)
TokenReturnedInFront(queue) == <<NullTask>> \o queue
TokenReturnedUnlessStopped(queue) == IF stop_requested_ THEN queue ELSE Append(queue, NullTask)
TokenReturned(queue) == Append(queue, NullTask)

FinishReactor(w) ==
    /\ pc[w] = "reactor_done" /\ mtx_ = NoThread
    /\ operation_queue_' = TokenReturned(Transferred(w))
    /\ ClearPrivate(w)
    /\ reactor_needs_interrupt_' = FALSE
    /\ mtx_' = w /\ Goto(w, "loop")
    /\ UNCHANGED <<job_count_, stop_requested_, cv_wait_count_, reactor_service_, cvBlocked,
                   unblock_fd_, runOne, op, blocking, private_job_count_, env>>

CompletedNever(n) == IF n > 0 THEN n ELSE -1
Completed(n) == n - 1

(* The operation returns.  Its completion and the arrivals it caused are   *)
(* merged into one update of job_count_; without arrivals the update is    *)
(* OnJobCompletion(), which stops the executor when the count was zero.    *)
FinishOperation(w) ==
    /\ InOperation(w)
    /\ done' = done \cup {op[w]} /\ op' = [op EXCEPT ![w] = NoJob]
    /\ AddJobs(Completed(private_job_count_[w]))
    /\ Goto(w, IF private_job_count_[w] = 0 /\ job_count_ = 0 THEN "op_stop" ELSE "op_done")
    /\ private_job_count_' = [private_job_count_ EXCEPT ![w] = 0]
    /\ UNCHANGED <<operation_queue_, stop_requested_, cv_wait_count_, reactor_service_,
                   reactor_needs_interrupt_, mtx_, cvBlocked, unblock_fd_, runOne, blocking,
                   private_op_queue_, armed, fresh, guards, reactor_error>>

(* Relock, transfer the private queue without waking anybody, and process  *)
(* the next operation, or return from RunOne().                            *)
AfterOperation(w) ==
    /\ pc[w] = "op_done" /\ mtx_ = NoThread
    /\ operation_queue_' = Transferred(w)
    /\ ClearPrivate(w)
    /\ mtx_' = IF runOne[w] THEN NoThread ELSE w
    /\ Goto(w, IF runOne[w] THEN "out" ELSE "loop") /\ runOne' = [runOne EXCEPT ![w] = FALSE]
    /\ UNCHANGED <<job_count_, stop_requested_, cv_wait_count_, reactor_service_,
                   reactor_needs_interrupt_, cvBlocked, unblock_fd_, op, blocking,
                   private_job_count_, env>>

-----------------------------------------------------------------------------
Client(c) ==
    \/ \E j \in Jobs : Post(c, j)
    \/ PostEnqueue(c) \/ GuardCreate(c) \/ GuardDestroy(c) \/ Restart(c)

Caller(t) ==
    \/ \E j \in Jobs : StartAsync(t, j) \/ EnqueuePostJobArrival(t, j) \/ PostImmediate(t, j)
    \/ Stop(t) \/ UseReactorService(t)

(* What a worker does on its own once it is in Run(). *)
Step(w) ==
    \/ Lock(w) \/ Leave(w) \/ WaitForWork(w) \/ Woken(w)
    \/ StartOperation(w) \/ StartReactor(w) \/ ReactorReturn(w) \/ FinishReactor(w)
    \/ FinishOperation(w) \/ AfterOperation(w)

Worker(w) ==
    \/ \E one \in BOOLEAN : Run(w, one)
    \/ \E j \in Jobs : PostPrivate(w, j) \/ DispatchInline(w, j) \/ ReactorReady(w, j)
    \/ Step(w) \/ SpuriousWake(w) \/ ReactorFail(w)

Next ==
    \/ \E c \in Clients : Client(c)
    \/ \E t \in Threads : Caller(t) \/ StopForLackOfJobs(t)
    \/ \E w \in Workers : Worker(w)

Spec == Init /\ [][Next]_vars

(* The threads are scheduled, a thread that waits for a free mtx_ gets it, *)
(* epoll_wait() returns when it has something to report, and every         *)
(* operation returns.  Calls of the user, failures and i/o events are not  *)
(* assumed to happen.                                                      *)
Fairness ==
    /\ \A w \in Workers : WF_vars(Step(w))
    /\ \A t \in Threads : WF_vars(StopForLackOfJobs(t))
    /\ \A c \in Clients : WF_vars(PostEnqueue(c))

(* The same, and no thread is passed over at mtx_ forever: a failure to    *)
(* make progress is then one of the executor and not of the scheduler.     *)
LockFairness ==
    /\ \A w \in Workers : SF_vars(Lock(w)) /\ SF_vars(Woken(w)) /\ SF_vars(FinishReactor(w))
                          /\ SF_vars(AfterOperation(w))
    /\ \A t \in Threads : SF_vars(StopForLackOfJobs(t))
    /\ \A c \in Clients : SF_vars(PostEnqueue(c))

FairSpec == Spec /\ Fairness
StrongFairSpec == FairSpec /\ LockFairness

-----------------------------------------------------------------------------
Labels == {"out", "posting", "stopping", "enter", "loop", "waiting", "running",
           "reactor", "reactor_done", "op_stop", "op_done"}

(* The types of the executor's and of its threads' state. *)
TypeOK ==
    /\ operation_queue_ \in Seq(Operations)
    /\ job_count_ \in 0..JobCountMod - 1
    /\ cv_wait_count_ \in Int
    /\ stop_requested_ \in BOOLEAN /\ reactor_service_ \in BOOLEAN
    /\ reactor_needs_interrupt_ \in BOOLEAN /\ unblock_fd_ \in BOOLEAN
    /\ reactor_error \in BOOLEAN
    /\ mtx_ \in Workers \cup {NoThread}
    /\ cvBlocked \subseteq Workers
    /\ pc \in [Threads -> Labels]
    /\ runOne \in [Threads -> BOOLEAN] /\ blocking \in [Threads -> BOOLEAN]
    /\ op \in [Threads -> Jobs \cup {NoJob}]
    /\ private_op_queue_ \in [Threads -> Seq(Jobs)]
    /\ private_job_count_ \in [Threads -> Nat]
    /\ armed \subseteq Jobs /\ fresh \subseteq Jobs /\ done \subseteq Jobs
    /\ guards \in Nat

(* A thread holds an operation exactly while it posts or executes it. *)
OperationInHand ==
    \A t \in Threads : op[t] # NoJob <=> pc[t] \in {"posting", "running"}

(* mtx_ is owned exactly by the worker that is inside ProcessNextOperation *)
(* with the lock: the unlock/relock pairs around the reactor, the operation *)
(* and cv_.wait() never let two workers at the queue.                      *)
MutualExclusion ==
    \A w \in Workers : pc[w] = "loop" <=> mtx_ = w

(* The code comments `only one thread gets to execute the reactor Run()',  *)
(* with a todo asking how this is ensured.  It is, because the null task   *)
(* is a token: either it is in the queue, once, or one worker has it.      *)
HasToken(w) == pc[w] \in {"reactor", "reactor_done"}
Tokens(queue) == {i \in 1..Len(queue) : queue[i] = NullTask}
QueuedTokens == Tokens(operation_queue_)

SingleReactorRunner ==
    /\ \A v, w \in Workers : HasToken(v) /\ HasToken(w) => v = w
    /\ \A i, k \in QueuedTokens : i = k
    /\ \A w \in Workers : HasToken(w) => QueuedTokens = {}

TokenExists == QueuedTokens # {} \/ \E w \in Workers : HasToken(w)

(* The inductive invariant behind SingleReactorRunner: besides it, the     *)
(* types, the exclusion on mtx_, and that there is no token before there   *)
(* is a reactor, since UseReactorService() then creates one.               *)
TokenNeedsReactor == TokenExists => reactor_service_

(* Only an error of the reactor loses the token: in every other step an    *)
(* executor whose reactor is being served continues to serve it, through   *)
(* transfers, Stop(), Restart() and RunOne().                              *)
ReactorStaysServed == [][TokenExists => TokenExists' \/ (reactor_error' /\ ~reactor_error)]_vars

(* The places an operation can be in. *)
Positions(queue, j) == {i \in 1..Len(queue) : queue[i] = j}
Places(j) ==
    {<<"queue", NoThread, i>> : i \in Positions(operation_queue_, j)}
    \cup (UNION {{<<"private", t, i>> : i \in Positions(private_op_queue_[t], j)} : t \in Threads})
    \cup {<<"hand", t, 0>> : t \in {u \in Threads : op[u] = j}}
    \cup {<<"armed", NoThread, 0>> : k \in {j} \cap armed}
    \cup {<<"fresh", NoThread, 0>> : k \in {j} \cap fresh}
    \cup {<<"done", NoThread, 0>> : k \in {j} \cap done}

(* No operation is lost or duplicated on its way through the shared and    *)
(* the private queues, whatever is stopped, restarted or interrupted.      *)
NoOperationLost == \A j \in Jobs : Cardinality(Places(j)) = 1

(* job_count_ (and the part of it workers have not published yet) counts   *)
(* the arrivals without completion: queued, armed, executing and being     *)
(* posted operations, and the guards.  With it OnJobCompletion() always    *)
(* finds a count of at least one.                                          *)
Outstanding ==
    Cardinality({i \in 1..Len(operation_queue_) : operation_queue_[i] # NullTask})
    + Cardinality(UNION {{t} \X (1..Len(private_op_queue_[t])) : t \in Threads})
    + Cardinality({t \in Threads : op[t] # NoJob}) + Cardinality(armed) + guards

Unpublished == Cardinality(UNION {{t} \X (1..private_job_count_[t]) : t \in Threads})

JobCountIsOutstanding ==
    TimerTicks = {} => (job_count_ + Unpublished) % JobCountMod = Outstanding % JobCountMod

(* A worker that will look at the queue again without being woken first.   *)
Awake(w) ==
    \/ pc[w] \in {"enter", "loop", "running", "reactor_done", "op_stop", "op_done"}
    \/ pc[w] = "waiting" /\ w \notin cvBlocked
    \/ pc[w] = "reactor" /\ (~blocking[w] \/ unblock_fd_ \/ private_op_queue_[w] # <<>>)

(* No lost wakeup: the choice WakeOne() makes between cv_ and the eventfd, *)
(* from a waiter count and an interrupt flag that lag behind, never leaves *)
(* an operation in the queue while all the workers in Run() sleep.         *)
NoStrandedWork ==
    (operation_queue_ # <<>> /\ ~stop_requested_ /\ \E w \in Workers : InRun(w))
        => \E w \in Workers : Awake(w) \/ pc[w] = "stopping"

(* Every submitted operation is executed, unless the executor is stopped   *)
(* or no worker runs it.                                                   *)
Submitted(j) == j \notin fresh \cup armed \cup done
SubmittedJobsRun ==
    \A j \in Jobs : Submitted(j) ~> (j \in done \/ stop_requested_ \/ \A w \in Workers : ~InRun(w))

(* The documentation of Stop(): it `wakes up threads blocked in            *)
(* Run()/RunOne(), which should return as soon as the stop "signal" is     *)
(* caught'.                                                                *)
StopReleasesWorkers ==
    \A w \in Workers : stop_requested_ ~> (~InRun(w) \/ ~stop_requested_)

(* The documentation of Run() and of the work guard: Run() returns when    *)
(* there is no work left.                                                  *)
RunReturnsWithoutWork ==
    \A w \in Workers : (Outstanding = 0 /\ InRun(w)) ~> (Outstanding > 0 \/ ~InRun(w))
=============================================================================

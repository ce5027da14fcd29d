----------------------------- MODULE SignalSet -----------------------------
(***************************************************************************)
(* BasicSignalSet (signalset/basic_signalset.hpp, impl/basic_signalset     *)
(* .ipp) on top of the reactor (module EpollReactor).                      *)
(*                                                                         *)
(* A set is known by its signalfd, which is registered level-triggered and *)
(* is readable while a signal of the set is pending.  A pending signal is  *)
(* taken by whoever reads first: two sets may contain the same signal, and *)
(* Wait() reads beside WaitAsync().  The jobs that the reactor counts in   *)
(* the executor are left out.                                              *)
(***************************************************************************)
EXTENDS Integers, FiniteSets

CONSTANTS
    Fds, NoFd, Capacity, OneThread,     \* as in EpollReactor
    Signals,
    MaxPosted,      \* bound: completions posted for a set
    CancelsAgain,   \* Cancel() may be called again for a wait it has cancelled
    Observed        \* the descriptor SignalsDelivered watches

VARIABLES
    operations_, used_operations_end_, epoll_events_, wake, op_queue, queue, run, report,
    reg, handle, jobs, open, watch, interest, edge, unblock_fd_,    \* see EpollReactor
    signal_set_, is_wait_ongoing_, speculative_read_,
    wait_completion_handler_,   \* whether it holds a callback
    posted, cancelled,          \* completions in the executor's queue, by whom posted
    pending,                    \* kernel: signals that nobody has read
    empty,                      \* an empty handler was posted or called: std::terminate()
    waiting                     \* history: callbacks owed

Readable(f) == signal_set_[f] \cap pending # {}
Bit(b) == IF b THEN 1 ELSE 0

R == INSTANCE EpollReactor WITH
         Directions <- {"read"}, RegisterInLoop <- FALSE, Unblocks <- FALSE, Level <- Fds,
         JobBound <- 0,
         ready <- [f \in Fds |-> IF Readable(f) THEN {"read"} ELSE {}],
         ongoing <- [f \in Fds |-> IF is_wait_ongoing_[f] THEN {"read"} ELSE {}]

ASSUME SignalSetAssumption ==
    /\ Capacity \in Nat \ {0} /\ NoFd \notin Fds /\ OneThread \in BOOLEAN
    /\ MaxPosted \in Nat \ {0} /\ CancelsAgain \in BOOLEAN /\ Observed \in Fds

kernel  == <<open, watch, interest, edge, unblock_fd_>>
loop    == <<epoll_events_, wake, op_queue, queue>>
reactor == <<operations_, used_operations_end_, loop, run, report, reg, handle, jobs, kernel>>
set     == <<signal_set_, is_wait_ongoing_, speculative_read_, wait_completion_handler_>>
others  == <<posted, cancelled, empty, waiting>>
gvars   == <<reactor, set, others, pending>>

SignalSetInit ==
    /\ signal_set_ = [f \in Fds |-> {}] /\ is_wait_ongoing_ = [f \in Fds |-> FALSE]
    /\ speculative_read_ = [f \in Fds |-> FALSE]
    /\ wait_completion_handler_ = [f \in Fds |-> FALSE]
    /\ posted = [f \in Fds |-> 0] /\ cancelled = [f \in Fds |-> 0]
    /\ pending = {} /\ empty = FALSE /\ waiting = [f \in Fds |-> 0]
    /\ R!Init

-----------------------------------------------------------------------------
Raise(s) ==
    /\ s \notin pending
    /\ pending' = pending \cup {s}
    /\ UNCHANGED <<reactor, set, others>>

(* The constructor from signals: AcquireNativeHandle(), RegisterToReactor()*)
(* (Register below).  It aborts the program when the reactor is full.      *)
AcquireNativeHandle(f, signals) ==
    /\ f \notin open /\ R!Free # {} /\ waiting[f] = 0
    /\ open' = open \cup {f}
    /\ signal_set_' = [signal_set_ EXCEPT ![f] = signals]
    /\ UNCHANGED <<operations_, used_operations_end_, loop, run, report, reg, handle, jobs, watch,
                   interest, edge, unblock_fd_, is_wait_ongoing_, speculative_read_,
                   wait_completion_handler_, others, pending>>

Register ==
    /\ UNCHANGED <<set, others, pending>>
    /\ (\E f \in Fds : R!FindFreeOperationSlot(f)) \/ R!EpollAdd \/ R!WriteEntry

(* The set's mutex, that of its entry, is free.                            *)
MayCall(f) == handle[f] # -1 /\ R!ThreadFree /\ run[handle[f]] # "locked"

(* The destructor, not called while a callback of the set is.              *)
Destroy(f) ==
    /\ MayCall(f) /\ ~operations_[handle[f]].execution_in_progress_
    /\ is_wait_ongoing_' = [is_wait_ongoing_ EXCEPT ![f] = FALSE]
    /\ speculative_read_' = [speculative_read_ EXCEPT ![f] = FALSE]
    /\ wait_completion_handler_' = [wait_completion_handler_ EXCEPT ![f] = FALSE]
    /\ waiting' = [waiting EXCEPT ![f] = posted[f] + cancelled[f]]
    /\ UNCHANGED <<signal_set_, posted, cancelled, empty, pending>>
    /\ R!Deregister(f)

Add(f, s) ==
    /\ MayCall(f) /\ s \notin signal_set_[f]
    /\ signal_set_' = [signal_set_ EXCEPT ![f] = @ \cup {s}]
    /\ UNCHANGED <<reactor, is_wait_ongoing_, speculative_read_, wait_completion_handler_, others,
                   pending>>

(* DoReadSignalsSync() that finds a signal.                                *)
Reads(f) == \E s \in signal_set_[f] \cap pending : pending' = pending \ {s}

Wait(f) ==
    /\ MayCall(f) /\ Reads(f)
    /\ UNCHANGED <<reactor, set, others>>

-----------------------------------------------------------------------------
(* DoReadSignalsAsync() when it has to wait: the callback is stored and    *)
(* the reactor told (RegisterReactorEvent).  In the reactor's handler it   *)
(* is moved to where it is already, which std::function survives.          *)
RegisterReactorEventOnce(f) ==
    IF is_wait_ongoing_[f] THEN UNCHANGED <<operations_, jobs, watch, interest, edge>>
    ELSE R!OnStartOfOperation(f, handle[f], "read", {}, {})
RegisterReactorEvent(f) == R!OnStartOfOperation(f, handle[f], "read", {}, {})

Stored(f) == wait_completion_handler_' = [wait_completion_handler_ EXCEPT ![f] = TRUE]

StartWait(f) ==
    /\ is_wait_ongoing_' = [is_wait_ongoing_ EXCEPT ![f] = TRUE]
    /\ speculative_read_' = [speculative_read_ EXCEPT ![f] = FALSE]
    /\ Stored(f)
    /\ RegisterReactorEvent(f)
    /\ UNCHANGED <<used_operations_end_, loop, run, reg, handle, open, unblock_fd_,
                   signal_set_, posted, cancelled, empty, pending>>

(* A completion that is posted: a signal was there, or a wait is ongoing.  *)
Post(f) ==
    /\ posted[f] < MaxPosted
    /\ posted' = [posted EXCEPT ![f] = @ + 1]
    /\ UNCHANGED <<reactor, signal_set_, is_wait_ongoing_, wait_completion_handler_, cancelled, empty>>

RefusedNever(f) == FALSE
Refused(f) == is_wait_ongoing_[f]

WaitAsync(f) ==
    /\ MayCall(f)
    /\ waiting' = [waiting EXCEPT ![f] = @ + 1]
    /\ \/ Refused(f) /\ Post(f) /\ UNCHANGED <<speculative_read_, pending>>
       \/ /\ ~Refused(f) /\ speculative_read_[f] /\ Reads(f) /\ Post(f)
          /\ speculative_read_' = [speculative_read_ EXCEPT ![f] = FALSE]
       \/ /\ ~Refused(f) /\ ~(speculative_read_[f] /\ Readable(f))
          /\ StartWait(f) /\ UNCHANGED report

(* Cancel(): the callback is moved to an operation that calls it; the wait *)
(* is still said to be ongoing.                                            *)
StillMonitored(f) == UNCHANGED operations_
RemoveMonitoredEvent(f) ==
    operations_' = [operations_ EXCEPT ![handle[f]].monitored_events_ = @ \ {"read"}]

Cancel(f) ==
    /\ MayCall(f) /\ is_wait_ongoing_[f]
    /\ wait_completion_handler_[f] \/ CancelsAgain
    /\ RemoveMonitoredEvent(f)
    /\ cancelled' = [cancelled EXCEPT ![f] = @ + Bit(wait_completion_handler_[f])]
    /\ empty' = (empty \/ ~wait_completion_handler_[f])
    /\ wait_completion_handler_' = [wait_completion_handler_ EXCEPT ![f] = FALSE]
    /\ UNCHANGED <<used_operations_end_, loop, run, report, reg, handle, jobs, kernel,
                   signal_set_, is_wait_ongoing_, speculative_read_, posted, waiting, pending>>

RunPosted(f) ==
    /\ R!ThreadFree /\ R!NoneExecuting
    /\ \/ posted[f] > 0 /\ posted' = [posted EXCEPT ![f] = @ - 1] /\ UNCHANGED cancelled
       \/ cancelled[f] > 0 /\ cancelled' = [cancelled EXCEPT ![f] = @ - 1] /\ UNCHANGED posted
    /\ waiting' = [waiting EXCEPT ![f] = @ - 1]
    /\ UNCHANGED <<reactor, set, empty, pending>>

-----------------------------------------------------------------------------
(* OnReactorEvent(), under the entry's mutex: a signal is read and the     *)
(* callback called unlocked, or none is there any more and the wait goes   *)
(* on, or nobody waits and the event is ignored.  The callback called is   *)
(* the stored one, which stays.                                            *)
WaitComplete(t) ==
    LET f == operations_[t].handler_ IN
    /\ R!Reporting(t, "read") /\ is_wait_ongoing_[f] /\ Reads(f)
    /\ is_wait_ongoing_' = [is_wait_ongoing_ EXCEPT ![f] = FALSE]
    /\ speculative_read_' = [speculative_read_ EXCEPT ![f] = FALSE]
    /\ empty' = (empty \/ ~wait_completion_handler_[f])
    /\ waiting' = [waiting EXCEPT ![f] = @ - 1]
    /\ run' = [run EXCEPT ![t] = "callback"]
    /\ UNCHANGED <<operations_, used_operations_end_, loop, reg, handle, jobs, kernel,
                   signal_set_, wait_completion_handler_, posted, cancelled>>

WaitAgain(t) ==
    LET f == operations_[t].handler_ IN
    /\ R!Reporting(t, "read") /\ is_wait_ongoing_[f] /\ ~Readable(f)
    /\ StartWait(f) /\ UNCHANGED waiting

EventIgnored(t) ==
    LET f == operations_[t].handler_ IN
    /\ R!Reporting(t, "read") /\ ~is_wait_ongoing_[f]
    /\ speculative_read_' = [speculative_read_ EXCEPT ![f] = TRUE]
    /\ operations_' = [operations_ EXCEPT ![t].monitored_events_ = @ \cup {"read"}]
    /\ UNCHANGED <<used_operations_end_, loop, run, reg, handle, jobs, kernel,
                   signal_set_, is_wait_ongoing_, wait_completion_handler_, others, pending>>

Operation(t) ==
    \/ WaitComplete(t) \/ WaitAgain(t) \/ EventIgnored(t)
    \/ /\ UNCHANGED <<set, others, pending>>
       /\ \/ R!SkipDeregistered(t) \/ R!SkipNothingToReport(t) \/ R!CallHandler(t)
          \/ R!CallbackReturns(t) \/ R!HandlerReturns(t)

HandleEvents ==
    /\ UNCHANGED <<set, others, pending>>
    /\ R!WaitForEvents \/ \E ev \in epoll_events_ : R!HandleSingleEvent(ev)

Call(f) ==
    \/ \E signals \in SUBSET Signals \ {{}} : AcquireNativeHandle(f, signals)
    \/ \E s \in Signals : Add(f, s)
    \/ Wait(f) \/ WaitAsync(f) \/ Cancel(f) \/ Destroy(f)

SignalSetNext ==
    /\ ~empty
    /\ \/ Register \/ HandleEvents
       \/ \E s \in Signals : Raise(s)
       \/ \E f \in Fds : Call(f) \/ RunPosted(f)
       \/ \E t \in R!Tags : Operation(t)

SignalSetSpec == SignalSetInit /\ [][SignalSetNext]_gvars

(* As in EpollReactor: the reactor is polled and what is posted executed.  *)
SignalSetFairSpec ==
    /\ SignalSetSpec
    /\ WF_gvars(~empty /\ Register) /\ SF_gvars(~empty /\ HandleEvents)
    /\ \A t \in R!Tags : SF_gvars(~empty /\ Operation(t))

-----------------------------------------------------------------------------
(* Each callback given to WaitAsync() is stored or posted: none is dropped *)
(* or called twice, though a Cancel() or another reader may come between   *)
(* the event and the handler.                                              *)
WaitsAccounted ==
    \A f \in Fds : waiting[f] = posted[f] + cancelled[f]
                       + Bit(is_wait_ongoing_[f] /\ wait_completion_handler_[f])

(* No empty std::function is called: the reactor does not report an event  *)
(* to a set whose callback Cancel() has moved away.                        *)
NoEmptyHandler == ~empty

(* A pending signal of a set that waits is read and the callback called,   *)
(* unless another reader takes it: with a level-triggered descriptor no    *)
(* event is lost to the unlocked callback, on any number of threads.       *)
Owed(f) == is_wait_ongoing_[f] /\ wait_completion_handler_[f] /\ Readable(f)
SignalsDelivered == Owed(Observed) ~> ~Owed(Observed)
=============================================================================

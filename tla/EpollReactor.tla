---------------------------- MODULE EpollReactor ----------------------------
(***************************************************************************)
(* EpollReactor (reactor/epoll_reactor.hpp): the table of operation        *)
(* entries through which i/o objects are told of the readiness of their    *)
(* file descriptors.                                                       *)
(*                                                                         *)
(* The thread inside HandleEvents() waits on an edge-triggered epoll and   *)
(* posts, per entry, an operation that workers of the executor execute;    *)
(* i/o objects register, start operations and deregister meanwhile.  The   *)
(* critical sections of an entry's mtx_ are single steps, except that the  *)
(* posted operation holds it over several (run = "locked") and releases it *)
(* around the user's callback (run = "callback").                          *)
(*                                                                         *)
(* The i/o object is modelled as the sockets use the reactor: operations   *)
(* are attempted speculatively, and started when they would block.         *)
(***************************************************************************)
EXTENDS Integers, FiniteSets, FiniteSetsExt

CONSTANTS
    Fds, NoFd,      \* file descriptors; the kernel reuses them once closed
    Capacity,       \* handler_count: size of operations_
    Directions,     \* the readiness that i/o objects are interested in
    OneThread,      \* the reactor, the posted operations and the calls of the
                    \* i/o objects all run on the one thread of the executor
    RegisterInLoop, \* Register() is only called by the thread that polls the reactor
    Unblocks,       \* another thread interrupts the wait by Unblock()
    Level,          \* descriptors registered without kEdge: those of signal sets
    JobBound        \* the jobs counted per entry saturate at this bound

Tags == 0..(Capacity - 1)
NoTag == -1

ASSUME ReactorAssumption ==
    /\ Capacity \in Nat \ {0} /\ NoFd \notin Fds
    /\ Directions \subseteq {"read", "write"} /\ "read" \in Directions
    /\ OneThread \in BOOLEAN /\ RegisterInLoop \in BOOLEAN /\ Unblocks \in BOOLEAN
    /\ Level \subseteq Fds /\ JobBound \in Nat

VARIABLES
    operations_, used_operations_end_,
    epoll_events_, wake,    \* fetched events not yet handled; the unblock event among them
    op_queue, queue,        \* operations of this HandleEvents(); those in the executor
    run, report,            \* the posted operation: where it is, what it still has to report
    reg,                    \* the Register() in progress, under registration_mtx_
    handle, ongoing,        \* i/o object: reactor_handle_, operations in progress
    jobs,                   \* executor jobs counted for the entry, less those completed
    open, watch, interest, ready, edge, unblock_fd_    \* kernel

entries == <<operations_, used_operations_end_, reg>>
loop    == <<epoll_events_, wake, op_queue, queue>>
handler == <<run, report>>
object  == <<handle, ongoing, jobs>>
kernel  == <<open, watch, interest, ready, edge, unblock_fd_>>
vars    == <<entries, loop, handler, object, kernel>>

NotRegistering == [fd |-> NoFd, tag |-> 0, added |-> FALSE]

OperationEntry == [
    io_source_ : Fds \cup {NoFd}, handler_ : Fds \cup {NoFd},
    monitored_events_ : SUBSET Directions, captured_events_ : SUBSET Directions,
    async_operation_ongoing_ : BOOLEAN, valid_ : BOOLEAN,
    execution_in_progress_ : BOOLEAN, handler_posted_ : BOOLEAN,
    release_handler_memory_ : BOOLEAN, close_io_source_ : BOOLEAN]

Init ==
    /\ operations_ = [t \in Tags |-> [
           io_source_ |-> NoFd, handler_ |-> NoFd,
           monitored_events_ |-> {}, captured_events_ |-> {},
           async_operation_ongoing_ |-> FALSE, valid_ |-> FALSE,
           execution_in_progress_ |-> FALSE, handler_posted_ |-> FALSE,
           release_handler_memory_ |-> FALSE, close_io_source_ |-> FALSE]]
    /\ used_operations_end_ = 0 /\ reg = NotRegistering
    /\ epoll_events_ = {} /\ wake = FALSE /\ op_queue = {} /\ queue = {}
    /\ run = [t \in Tags |-> "idle"] /\ report = [t \in Tags |-> {}]
    /\ handle = [f \in Fds |-> NoTag] /\ ongoing = [f \in Fds |-> {}]
    /\ jobs = [t \in Tags |-> 0]
    /\ open = {} /\ watch = [f \in Fds |-> NoTag]
    /\ interest = [f \in Fds |-> {}] /\ ready = [f \in Fds |-> {}]
    /\ edge = {} /\ unblock_fd_ = FALSE

-----------------------------------------------------------------------------
(* What the one thread of the executor may do next, when there is only one.*)

Registering == reg # NotRegistering
HandlingEvents == epoll_events_ # {} \/ wake
ThreadFree == OneThread =>
    ~Registering /\ ~HandlingEvents /\ \A t \in Tags : run[t] # "locked"
PollerFree == RegisterInLoop => ~Registering /\ ~HandlingEvents
NoneExecuting == OneThread => \A t \in Tags : run[t] = "idle"
Drained == OneThread => queue = {}

(* executor_.OnJobArrival() and the executor's OnJobCompletion().          *)
Add(t, n) == [jobs EXCEPT ![t] = Max({-JobBound, Min({JobBound, @ + n})})]

-----------------------------------------------------------------------------
(* The kernel: descriptors, their readiness, the epoll interest list.      *)

(* A socket is created or accepted; an accepted one may be ready already.  *)
Open(f) ==
    /\ f \notin open
    /\ open' = open \cup {f}
    /\ \E r \in SUBSET Directions : ready' = [ready EXCEPT ![f] = r]
    /\ UNCHANGED <<entries, loop, handler, object, watch, interest, edge, unblock_fd_>>

BecomeReady(f, events) ==
    /\ f \in open
    /\ ready' = [ready EXCEPT ![f] = @ \cup events]
    /\ edge' = IF watch[f] # NoTag /\ events \cap interest[f] # {} THEN edge \cup {f} ELSE edge
    /\ UNCHANGED <<entries, loop, handler, object, open, watch, interest, unblock_fd_>>

(* EPOLL_CTL_ADD and EPOLL_CTL_MOD, edge-triggered: a descriptor that is   *)
(* ready already is reported.                                              *)
EpollSet(f, tag, events, isReady) ==
    /\ watch' = [watch EXCEPT ![f] = tag]
    /\ interest' = [interest EXCEPT ![f] = events]
    /\ edge' = IF isReady \cap events # {} THEN edge \cup {f} ELSE edge

EpollRemove(f) ==
    /\ watch' = [watch EXCEPT ![f] = NoTag]
    /\ interest' = [interest EXCEPT ![f] = {}]
    /\ edge' = edge \ {f}

-----------------------------------------------------------------------------
(* RegisterImpl(), under registration_mtx_: the search for a slot, the     *)
(* registration with epoll, the write of the entry without its mtx_.       *)

InUse(t) == operations_[t].valid_ \/ operations_[t].handler_posted_
Searched == {t \in Tags : t <= used_operations_end_}
Free == {t \in Searched : ~InUse(t)}

(* FindFreeOperationSlot(): the first free entry becomes a used one.       *)
LastUsedForgetsFound(found) == Max({t \in Searched : InUse(t)} \cup {-1})
LastUsed(found) == Max({t \in Searched : InUse(t)} \cup found)

UpdateUsedEnd(found) ==
    used_operations_end_' = IF used_operations_end_ = Capacity THEN Capacity
                            ELSE LastUsed(found) + 1

FindFreeOperationSlot(f) ==
    /\ f \in open /\ handle[f] = NoTag /\ watch[f] = NoTag
    /\ ThreadFree /\ PollerFree /\ ~Registering
    /\ \A t \in Tags : operations_[t].close_io_source_ => operations_[t].io_source_ # f
    /\ Free # {}
    /\ reg' = [fd |-> f, tag |-> Min(Free), added |-> FALSE]
    /\ UpdateUsedEnd({Min(Free)})
    /\ UNCHANGED <<operations_, loop, handler, object, kernel>>

(* No slot is left: the socket closes its descriptor (AssignNativeHandle). *)
CapacityExceeded(f) ==
    /\ f \in open /\ handle[f] = NoTag /\ watch[f] = NoTag
    /\ ThreadFree /\ PollerFree /\ ~Registering
    /\ \A t \in Tags : operations_[t].close_io_source_ => operations_[t].io_source_ # f
    /\ Free = {}
    /\ UpdateUsedEnd({})
    /\ open' = open \ {f}
    /\ UNCHANGED <<operations_, reg, loop, handler, object, watch, interest, ready, edge, unblock_fd_>>

EpollAdd ==
    /\ Registering /\ ~reg.added
    /\ reg' = [reg EXCEPT !.added = TRUE]
    /\ EpollSet(reg.fd, reg.tag, {"read"}, ready[reg.fd])
    /\ UNCHANGED <<operations_, used_operations_end_, loop, handler, object, open, ready, unblock_fd_>>

EpollAddFails ==
    /\ Registering /\ ~reg.added
    /\ reg' = NotRegistering
    /\ open' = open \ {reg.fd}
    /\ UNCHANGED <<operations_, used_operations_end_, loop, handler, object,
                   watch, interest, ready, edge, unblock_fd_>>

WriteEntry ==
    /\ Registering /\ reg.added
    /\ operations_' = [operations_ EXCEPT ![reg.tag] = [@ EXCEPT
           !.io_source_ = reg.fd, !.handler_ = reg.fd, !.valid_ = TRUE,
           !.monitored_events_ = {"read"}, !.captured_events_ = {},
           !.handler_posted_ = FALSE]]
    /\ handle' = [handle EXCEPT ![reg.fd] = reg.tag]
    /\ reg' = NotRegistering
    /\ UNCHANGED <<used_operations_end_, loop, handler, ongoing, jobs, kernel>>

-----------------------------------------------------------------------------
(* DerigsterImpl(tag, true), as BasicSocket and BasicSignalSet call it.    *)
StillOpenNever(f, busy) == open \ {f}
StillOpen(f, busy) == IF busy THEN open ELSE open \ {f}

Deregistered(o, busy) == [o EXCEPT
    !.handler_ = IF busy THEN o.handler_ ELSE NoFd,
    !.release_handler_memory_ = o.release_handler_memory_ \/ busy,
    !.close_io_source_ = o.close_io_source_ \/ busy,
    !.valid_ = FALSE]

Deregister(f) ==
    LET t == handle[f]
        busy == operations_[t].execution_in_progress_ IN
    /\ t # NoTag /\ ThreadFree /\ run[t] # "locked"
    /\ EpollRemove(f)
    /\ operations_' = [operations_ EXCEPT ![t] = Deregistered(@, busy)]
    /\ open' = StillOpen(f, busy)
    /\ handle' = [handle EXCEPT ![f] = NoTag]
    /\ ongoing' = [ongoing EXCEPT ![f] = {}]
    /\ UNCHANGED <<used_operations_end_, reg, loop, handler, jobs, ready, unblock_fd_>>

-----------------------------------------------------------------------------
(* OnStartOfOperation(): of several operations only the first is counted.  *)
(* An object that has tried in vain to receive then consumes the captured  *)
(* readiness (ReadEventConsumed), under the same lock.                     *)
Started(o, e, consumed) == [o EXCEPT
    !.monitored_events_ = o.monitored_events_ \cup {e},
    !.captured_events_ = o.captured_events_ \ consumed,
    !.async_operation_ongoing_ = TRUE]

OnStartOfOperation(f, t, e, stillReady, consumed) ==
    LET o == operations_[t] IN
    /\ jobs' = IF o.async_operation_ongoing_ THEN jobs ELSE Add(t, 1)
    /\ IF e = "write" /\ e \notin o.monitored_events_
       THEN EpollSet(f, t, o.monitored_events_ \cup {e, "read"}, stillReady)
       ELSE UNCHANGED <<watch, interest, edge>>
    /\ operations_' = [operations_ EXCEPT ![t] = Started(@, e, consumed)]

(* An i/o object starts an operation: it has tried, and found the          *)
(* descriptor not ready or not ready for all of it, or it does not try: a  *)
(* ReceiveAsync() on a socket whose captured events do not say readable.   *)
StartOperation(f, e, tried) ==
    LET t == handle[f]
        left == IF tried THEN ready[f] \ {e} ELSE ready[f] IN
    /\ t # NoTag /\ ThreadFree /\ run[t] # "locked" /\ e \notin ongoing[f]
    /\ tried \/ (e = "read" /\ "read" \notin operations_[t].captured_events_)
    /\ ongoing' = [ongoing EXCEPT ![f] = @ \cup {e}]
    /\ ready' = [ready EXCEPT ![f] = left]
    /\ OnStartOfOperation(f, t, e, left, IF tried THEN {e} \cap {"read"} ELSE {})
    /\ UNCHANGED <<used_operations_end_, reg, loop, handler, handle, open, unblock_fd_>>

(* RemoveEventImpl(): a read that is in progress is no longer to be        *)
(* reported; epoll goes on reporting it.                                   *)
RemoveMonitoredEvent(f) ==
    LET t == handle[f] IN
    /\ t # NoTag /\ ThreadFree /\ run[t] # "locked" /\ "read" \in ongoing[f]
    /\ operations_' = [operations_ EXCEPT ![t].monitored_events_ = @ \ {"read"}]
    /\ UNCHANGED <<used_operations_end_, reg, loop, handler, object, kernel>>

(* An operation that is tried and completes at once uses up the readiness. *)
CompleteAtOnce(f, e) ==
    /\ handle[f] # NoTag /\ ThreadFree /\ run[handle[f]] # "locked"
    /\ e \notin ongoing[f] /\ e \in ready[f]
    /\ ready' = [ready EXCEPT ![f] = @ \ {e}]
    /\ UNCHANGED <<entries, loop, handler, object, open, watch, interest, edge, unblock_fd_>>

-----------------------------------------------------------------------------
(* HandleEventsImpl(): one epoll_wait(), then its events in their order.   *)

Unblock ==
    /\ Unblocks /\ ~unblock_fd_
    /\ unblock_fd_' = TRUE
    /\ UNCHANGED <<entries, loop, handler, object, open, watch, interest, ready, edge>>

Reported == {f \in edge \cup Level : ready[f] \cap interest[f] # {}}

WaitForEvents ==
    /\ ~HandlingEvents /\ ThreadFree /\ PollerFree /\ NoneExecuting /\ Drained
    /\ Reported # {} \/ unblock_fd_
    /\ epoll_events_' = {[tag |-> watch[f], events |-> ready[f] \cap interest[f]] : f \in Reported}
    /\ wake' = unblock_fd_
    /\ edge' = {}
    /\ UNCHANGED <<entries, op_queue, queue, handler, object, open, watch, interest, ready, unblock_fd_>>

(* HandleSingleEvent(): record the readiness, post the handler if it is    *)
(* wanted and not posted already.  After the last event the executor takes *)
(* over the posted operations.                                             *)
WantedAgain(o, captured) == o.valid_ /\ captured \cap o.monitored_events_ # {}
Wanted(o, captured) == o.valid_ /\ ~o.handler_posted_ /\ captured \cap o.monitored_events_ # {}

Captured(o, events, post) == [o EXCEPT
    !.captured_events_ = events,
    !.handler_posted_ = o.handler_posted_ \/ post]

HandleSingleEvent(ev) ==
    LET t == ev.tag
        post == Wanted(operations_[t], ev.events)
        pushed == IF post THEN op_queue \cup {t} ELSE op_queue
        last == epoll_events_ = {ev} /\ ~wake IN
    /\ ev \in epoll_events_ /\ run[t] # "locked"
    /\ operations_' = [operations_ EXCEPT ![t] = Captured(@, ev.events, post)]
    /\ epoll_events_' = epoll_events_ \ {ev}
    /\ op_queue' = IF last THEN {} ELSE pushed
    /\ queue' = IF last THEN queue \cup pushed ELSE queue
    /\ UNCHANGED <<used_operations_end_, reg, wake, handler, object, kernel>>

(* HandleUnblock(), and the return that follows it at once.                *)
HandleUnblock ==
    /\ wake
    /\ unblock_fd_' = FALSE /\ wake' = FALSE
    /\ epoll_events_' = {}
    /\ op_queue' = {} /\ queue' = queue \cup op_queue
    /\ UNCHANGED <<entries, handler, object, open, watch, interest, ready, edge>>

-----------------------------------------------------------------------------
(* MakeIoEventOpertaionHandler(): the posted operation, and the executor's *)
(* OnJobCompletion() when it has returned.                                 *)

Execute(t) ==
    /\ t \in queue /\ run[t] = "idle" /\ ThreadFree /\ NoneExecuting
    /\ queue' = queue \ {t}

(* The entry was deregistered meanwhile: nothing is called. *)
SkipDeregistered(t) ==
    /\ Execute(t) /\ ~operations_[t].valid_
    /\ jobs' = Add(t, -1)
    /\ UNCHANGED <<entries, epoll_events_, wake, op_queue, handler, handle, ongoing, kernel>>

EventsToReport(t) == operations_[t].captured_events_ \cap operations_[t].monitored_events_

(* The end of the critical section: the cleanup Deregister() left to it.   *)
LeftPosted(o) == [o EXCEPT
    !.execution_in_progress_ = FALSE,
    !.handler_ = IF o.release_handler_memory_ THEN NoFd ELSE @,
    !.release_handler_memory_ = FALSE, !.close_io_source_ = FALSE]

LeftWithHandler(o) == [o EXCEPT
    !.execution_in_progress_ = FALSE, !.release_handler_memory_ = FALSE,
    !.close_io_source_ = FALSE, !.handler_posted_ = FALSE]

Left(o) == [o EXCEPT
    !.execution_in_progress_ = FALSE,
    !.handler_ = IF o.release_handler_memory_ THEN NoFd ELSE @,
    !.release_handler_memory_ = FALSE, !.close_io_source_ = FALSE,
    !.handler_posted_ = FALSE]

Leave(t) ==
    LET o == operations_[t] IN
    /\ operations_' = [operations_ EXCEPT ![t] = Left(@)]
    /\ open' = IF o.close_io_source_ THEN open \ {o.io_source_} ELSE open
    /\ jobs' = Add(t, -1)

SkipNothingToReport(t) ==
    /\ Execute(t) /\ operations_[t].valid_ /\ EventsToReport(t) = {}
    /\ Leave(t)
    /\ UNCHANGED <<used_operations_end_, reg, epoll_events_, wake, op_queue, handler,
                   handle, ongoing, watch, interest, ready, edge, unblock_fd_>>

Executing(o, events) == [o EXCEPT
    !.monitored_events_ = o.monitored_events_ \ events,
    !.async_operation_ongoing_ = FALSE,
    !.execution_in_progress_ = TRUE]

CallHandler(t) ==
    /\ Execute(t) /\ operations_[t].valid_ /\ EventsToReport(t) # {}
    /\ operations_' = [operations_ EXCEPT ![t] = Executing(@, EventsToReport(t))]
    /\ run' = [run EXCEPT ![t] = "locked"]
    /\ report' = [report EXCEPT ![t] = EventsToReport(t)]
    /\ UNCHANGED <<used_operations_end_, reg, epoll_events_, wake, op_queue, object, kernel>>

(* The object's handler takes the events in turn, a read first.            *)
Reporting(t, e) ==
    /\ run[t] = "locked" /\ e \in report[t]
    /\ e = "write" => "read" \notin report[t]
    /\ report' = [report EXCEPT ![t] = @ \ {e}]

(* The operation in progress completes; its callback is called unlocked.   *)
Complete(t, e) ==
    LET f == operations_[t].handler_ IN
    /\ Reporting(t, e) /\ e \in ongoing[f] /\ e \in ready[f]
    /\ ongoing' = [ongoing EXCEPT ![f] = @ \ {e}]
    /\ \E r \in {ready[f], ready[f] \ {e}} : ready' = [ready EXCEPT ![f] = r]
    /\ run' = [run EXCEPT ![t] = "callback"]
    /\ UNCHANGED <<entries, loop, handle, jobs, open, watch, interest, edge, unblock_fd_>>

(* It would block, or is not finished, and is started again.               *)
Continue(t, e) ==
    LET f == operations_[t].handler_ IN
    /\ Reporting(t, e) /\ e \in ongoing[f]
    /\ ready' = [ready EXCEPT ![f] = @ \ {e}]
    /\ OnStartOfOperation(f, t, e, ready[f] \ {e}, {})
    /\ UNCHANGED <<used_operations_end_, reg, loop, run, handle, ongoing, open, unblock_fd_>>

(* No operation is in progress: the object calls OnEventIgnored(), or does *)
(* nothing.                                                                *)
OnEventIgnored(t, e) ==
    LET f == operations_[t].handler_ IN
    /\ Reporting(t, e) /\ e \notin ongoing[f]
    /\ \/ /\ operations_' = [operations_ EXCEPT ![t].monitored_events_ = @ \cup {e}]
          /\ jobs' = Add(t, 1)
       \/ UNCHANGED <<operations_, jobs>>
    /\ UNCHANGED <<used_operations_end_, reg, loop, run, handle, ongoing, kernel>>

CallbackReturns(t) ==
    /\ run[t] = "callback" /\ ThreadFree
    /\ run' = [run EXCEPT ![t] = "locked"]
    /\ UNCHANGED <<entries, loop, report, object, kernel>>

HandlerReturns(t) ==
    /\ run[t] = "locked" /\ report[t] = {}
    /\ Leave(t)
    /\ run' = [run EXCEPT ![t] = "idle"]
    /\ UNCHANGED <<used_operations_end_, reg, loop, report, handle, ongoing,
                   watch, interest, ready, edge, unblock_fd_>>

-----------------------------------------------------------------------------
Environment ==
    \/ Unblock
    \/ \E f \in Fds :
        \/ Open(f) \/ FindFreeOperationSlot(f) \/ CapacityExceeded(f) \/ Deregister(f)
        \/ RemoveMonitoredEvent(f)
        \/ \E events \in SUBSET Directions \ {{}} : BecomeReady(f, events)
        \/ \E e \in Directions : CompleteAtOnce(f, e)
        \/ \E e \in Directions, tried \in BOOLEAN : StartOperation(f, e, tried)

Register == EpollAdd \/ EpollAddFails \/ WriteEntry

HandleEvents == WaitForEvents \/ HandleUnblock \/ \E ev \in epoll_events_ : HandleSingleEvent(ev)

Operation(t) ==
    \/ SkipDeregistered(t) \/ SkipNothingToReport(t) \/ CallHandler(t)
    \/ CallbackReturns(t) \/ HandlerReturns(t)
    \/ \E e \in Directions : Complete(t, e) \/ Continue(t, e) \/ OnEventIgnored(t, e)

Next == Environment \/ Register \/ HandleEvents \/ \E t \in Tags : Operation(t)

Spec == Init /\ [][Next]_vars

(* The queue of the executor is first in, first out: the reactor is polled *)
(* and what it posts is executed again and again, whatever else runs on    *)
(* the same thread.  Register() and the user's callbacks return.           *)
FairSpec == Spec /\ WF_vars(Register) /\ SF_vars(HandleEvents)
                 /\ \A t \in Tags : SF_vars(Operation(t))

-----------------------------------------------------------------------------
(* The types of the entries and of the kernel's state. *)
TypeOK ==
    /\ operations_ \in [Tags -> OperationEntry] /\ used_operations_end_ \in 0..Capacity
    /\ epoll_events_ \subseteq [tag : Tags, events : SUBSET Directions] /\ wake \in BOOLEAN
    /\ op_queue \subseteq Tags /\ queue \subseteq Tags
    /\ run \in [Tags -> {"idle", "locked", "callback"}]
    /\ report \in [Tags -> SUBSET Directions]
    /\ reg \in [fd : Fds \cup {NoFd}, tag : Tags, added : BOOLEAN]
    /\ handle \in [Fds -> Tags \cup {NoTag}] /\ ongoing \in [Fds -> SUBSET Directions]
    /\ jobs \in [Tags -> -JobBound..JobBound]
    /\ open \subseteq Fds /\ watch \in [Fds -> Tags \cup {NoTag}]
    /\ interest \in [Fds -> SUBSET Directions] /\ ready \in [Fds -> SUBSET Directions]
    /\ edge \subseteq Fds /\ unblock_fd_ \in BOOLEAN

(* At most one operation per entry is posted or executing, and while it is *)
(* the entry is marked so and is not given to another descriptor.          *)
Outstanding(t) == t \in queue \/ t \in op_queue \/ run[t] # "idle"

OneOperationPerEntry ==
    \A t \in Tags :
        /\ Outstanding(t) => operations_[t].handler_posted_ /\ ~(Registering /\ reg.tag = t)
        /\ ~(t \in queue /\ t \in op_queue)
        /\ run[t] # "idle" => t \notin queue /\ t \notin op_queue
        /\ operations_[t].execution_in_progress_ <=> run[t] # "idle"

(* The descriptor of a registered entry, and the descriptor and handler of *)
(* an executing one, are not closed or released; a descriptor in epoll's   *)
(* interest list belongs to the one entry whose tag is reported for it.    *)
DescriptorsAlive ==
    \A t \in Tags : LET o == operations_[t] IN
        /\ o.valid_ => /\ o.io_source_ \in open /\ watch[o.io_source_] = t
                       /\ handle[o.io_source_] = t
        /\ o.valid_ \/ o.execution_in_progress_ =>
               o.io_source_ \in open /\ o.handler_ = o.io_source_
        /\ \A f \in Fds : watch[f] = t =>
               (o.valid_ /\ o.io_source_ = f) \/ (reg.added /\ reg.fd = f /\ reg.tag = t)

(* Deregister() cleans up at once, or leaves it to the executing handler   *)
(* and to nobody else.                                                     *)
CleanedUp ==
    \A t \in Tags : LET o == operations_[t] IN
        /\ o.close_io_source_ \/ o.release_handler_memory_ => o.execution_in_progress_ /\ ~o.valid_
        /\ ~o.valid_ => IF o.execution_in_progress_
                       THEN o.close_io_source_ /\ o.release_handler_memory_
                       ELSE o.handler_ = NoFd

(* The search for a free entry may stop at used_operations_end_.           *)
UnusedBeyondEnd ==
    \A t \in Tags : t >= used_operations_end_ => ~InUse(t) /\ ~(Registering /\ reg.tag = t)

(* handler_posted_ means that an operation is posted or executing.         *)
PostedMeansOutstanding == \A t \in Tags : operations_[t].handler_posted_ => Outstanding(t)

(* Executor jobs are counted for the operations that wait for an event, so *)
(* that the executor does not run out of work before they complete.        *)
WaitingIsCounted ==
    \A f \in Fds : handle[f] # NoTag /\ ongoing[f] # {} /\ ~Outstanding(handle[f])
                   => jobs[handle[f]] > 0

(* An operation whose descriptor is ready is completed or the readiness    *)
(* used up: no edge is lost.                                               *)
ReadyIsReported ==
    \A f \in Fds, e \in Directions :
        e \in ongoing[f] /\ e \in ready[f] ~> e \notin ongoing[f] \/ e \notin ready[f]

(* A handler that Deregister() found executing is released, its descriptor *)
(* closed.                                                                 *)
CleanupCompletes ==
    \A t \in Tags : operations_[t].close_io_source_ ~> ~operations_[t].close_io_source_
=============================================================================

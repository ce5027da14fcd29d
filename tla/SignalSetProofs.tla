-------------------------- MODULE SignalSetProofs ---------------------------
(***************************************************************************)
(* Proofs about SignalSet, for any number of sets, signals and threads, as *)
(* long as Cancel() is not called again for a wait it has cancelled.       *)
(*                                                                         *)
(* The first part is about the sets, given what they need to know of the   *)
(* reactor; the second part takes that from EpollReactorProofs.            *)
(***************************************************************************)
EXTENDS SignalSet, TLAPS

SetTypes ==
    /\ is_wait_ongoing_ \in [Fds -> BOOLEAN] /\ wait_completion_handler_ \in [Fds -> BOOLEAN]
    /\ posted \in [Fds -> Nat] /\ cancelled \in [Fds -> Nat] /\ waiting \in [Fds -> Int]

(* A handler that has released the mutex has nothing left to report. *)
NothingLeft == \A t \in R!Tags : run[t] # "locked" => report[t] = {}

(* The event of a wait that Cancel() has ended is neither monitored nor    *)
(* being reported.                                                         *)
CancelledIsSilent ==
    \A f \in Fds : is_wait_ongoing_[f] /\ ~wait_completion_handler_[f] =>
        "read" \notin operations_[handle[f]].monitored_events_ /\ report[handle[f]] = {}

(* The reactor: a registered set has an entry of its own, which knows it,  *)
(* and only a registered set waits, on its own entry.                      *)
ReactorTypes ==
    /\ operations_ \in [R!Tags -> R!OperationEntry] /\ open \subseteq Fds
    /\ run \in [R!Tags -> {"idle", "locked", "callback"}] /\ report \in [R!Tags -> SUBSET {"read"}]
    /\ handle \in [Fds -> R!Tags \cup {-1}]
    /\ epoll_events_ \subseteq [tag : R!Tags, events : SUBSET {"read"}]

SetsRegistered ==
    /\ \A f \in Fds : handle[f] # -1 =>
           /\ handle[f] \in R!Tags /\ operations_[handle[f]].handler_ = f
           /\ \A g \in Fds : handle[g] = handle[f] => g = f
           /\ R!Registering => reg.tag # handle[f] /\ reg.fd # f
    /\ \A f \in Fds : is_wait_ongoing_[f] => handle[f] # -1
    /\ \A t \in R!Tags : run[t] # "idle" =>
           /\ operations_[t].handler_ \in Fds
           /\ is_wait_ongoing_[operations_[t].handler_] => handle[operations_[t].handler_] = t

WaitInv == SetTypes /\ NothingLeft /\ CancelledIsSilent /\ NoEmptyHandler /\ WaitsAccounted
SetInv == /\ ReactorTypes /\ SetsRegistered
          /\ SetTypes /\ NothingLeft /\ CancelledIsSilent /\ NoEmptyHandler /\ WaitsAccounted

ReactorStep ==
    \/ \E f \in Fds : R!FindFreeOperationSlot(f) \/ R!Deregister(f)
    \/ R!EpollAdd \/ R!WriteEntry \/ R!WaitForEvents
    \/ \E ev \in epoll_events_ : R!HandleSingleEvent(ev)
    \/ \E t \in R!Tags :
        \/ R!SkipDeregistered(t) \/ R!SkipNothingToReport(t) \/ R!CallHandler(t)
        \/ R!CallbackReturns(t) \/ R!HandlerReturns(t)

-----------------------------------------------------------------------------
(* What is reported and to whom.                                           *)
LEMMA SilentKept ==
  ASSUME CancelledIsSilent,
         \A f \in Fds : is_wait_ongoing_'[f] /\ ~wait_completion_handler_'[f] =>
             /\ is_wait_ongoing_[f] /\ ~wait_completion_handler_[f] /\ handle'[f] = handle[f]
             /\ "read" \notin operations_[handle[f]].monitored_events_ =>
                    /\ "read" \notin operations_'[handle[f]].monitored_events_
                    /\ report[handle[f]] = {} => report'[handle[f]] = {}
  PROVE  CancelledIsSilent'
  BY Zenon DEF CancelledIsSilent

(* The reactor leaves the events of a cancelled wait alone. *)
LEMMA ReactorSilent ==
  ASSUME SetInv, ReactorStep, UNCHANGED <<is_wait_ongoing_, wait_completion_handler_>>
  PROVE  NothingLeft' /\ CancelledIsSilent'
  <1> USE DEF R!entries, R!loop, R!handler, R!object, R!kernel
  <1>1. /\ operations_ \in [R!Tags -> R!OperationEntry] /\ run \in [R!Tags -> {"idle", "locked", "callback"}]
        /\ report \in [R!Tags -> SUBSET {"read"}] /\ handle \in [Fds -> R!Tags \cup {-1}]
        /\ epoll_events_ \subseteq [tag : R!Tags, events : SUBSET {"read"}]
    BY Zenon DEF SetInv, ReactorTypes
  <1>2. \A f \in Fds : is_wait_ongoing_[f] => handle[f] \in R!Tags
    BY Zenon DEF SetInv, SetsRegistered
  <1>3. ASSUME UNCHANGED <<operations_, run, report, handle>> PROVE NothingLeft' /\ CancelledIsSilent'
    BY <1>3, Zenon DEF SetInv, NothingLeft, CancelledIsSilent
  <1>4. ASSUME NEW f \in Fds, R!Deregister(f) PROVE NothingLeft' /\ CancelledIsSilent'
    <2>1. PICK t \in R!Tags : handle[f] = t
      BY <1>1, <1>4, Zenon DEF R!Deregister, R!NoTag
    <2>2. /\ UNCHANGED <<run, report>> /\ handle' = [handle EXCEPT ![f] = -1]
          /\ \A u \in R!Tags : operations_'[u].monitored_events_ = operations_[u].monitored_events_
      BY <1>1, <1>4, <2>1 DEF R!Deregister, R!NoTag, R!Deregistered, R!OperationEntry
    <2>3. ~is_wait_ongoing_[f]
      BY <1>4 DEF R!Deregister, SetInv, SetTypes
    <2>4. CancelledIsSilent'
      BY <1>1, <1>2, <2>2, <2>3, SilentKept, Zenon DEF SetInv
    <2>5. QED
      BY <2>2, <2>4, Zenon DEF SetInv, NothingLeft
  <1>5. ASSUME R!WriteEntry PROVE NothingLeft' /\ CancelledIsSilent'
    <2>1. /\ UNCHANGED <<run, report>> /\ handle' = [handle EXCEPT ![reg.fd] = reg.tag]
          /\ operations_' = [operations_ EXCEPT ![reg.tag] = [@ EXCEPT
                 !.io_source_ = reg.fd, !.handler_ = reg.fd, !.valid_ = TRUE,
                 !.monitored_events_ = {"read"}, !.captured_events_ = {}, !.handler_posted_ = FALSE]]
          /\ R!Registering
      BY <1>5, Zenon DEF R!WriteEntry
    <2>2. \A f \in Fds : is_wait_ongoing_[f] => reg.tag # handle[f] /\ reg.fd # f
      BY <2>1, Zenon DEF SetInv, SetsRegistered
    <2>3. \A f \in Fds : is_wait_ongoing_[f] =>
              handle'[f] = handle[f] /\ operations_'[handle[f]] = operations_[handle[f]]
      BY <1>1, <1>2, <2>1, <2>2, Zenon
    <2>4. CancelledIsSilent'
      BY <2>1, <2>3, SilentKept, Zenon DEF SetInv
    <2>5. QED
      BY <2>1, <2>4, Zenon DEF SetInv, NothingLeft
  <1>6. ASSUME NEW ev \in epoll_events_, R!HandleSingleEvent(ev) PROVE NothingLeft' /\ CancelledIsSilent'
    <2>1. ev.tag \in R!Tags
      BY <1>1, Zenon
    <2>2. /\ UNCHANGED <<run, report, handle>>
          /\ \A u \in R!Tags : operations_'[u].monitored_events_ = operations_[u].monitored_events_
      BY <1>1, <1>6, <2>1 DEF R!HandleSingleEvent, R!Captured, R!OperationEntry
    <2>3. CancelledIsSilent'
      BY <1>2, <2>2, SilentKept, Zenon DEF SetInv
    <2>4. QED
      BY <2>2, <2>3, Zenon DEF SetInv, NothingLeft
  <1>7. ASSUME NEW t \in R!Tags, R!SkipNothingToReport(t) \/ R!HandlerReturns(t)
        PROVE  NothingLeft' /\ CancelledIsSilent'
    <2>1. /\ UNCHANGED <<report, handle>> /\ run' \in {run, [run EXCEPT ![t] = "idle"]}
          /\ run' # run => report[t] = {}
      BY <1>7, Zenon DEF R!SkipNothingToReport, R!HandlerReturns
    <2>2. \A u \in R!Tags : operations_'[u].monitored_events_ = operations_[u].monitored_events_
      <3>1. operations_' = [operations_ EXCEPT ![t] = R!Left(@)]
        BY <1>7, Zenon DEF R!SkipNothingToReport, R!HandlerReturns, R!Leave
      <3>2. QED
        BY <1>1, <3>1 DEF R!Left, R!OperationEntry
    <2>3. CancelledIsSilent'
      BY <1>2, <2>1, <2>2, SilentKept, Zenon DEF SetInv
    <2>4. QED
      BY <1>1, <2>1, <2>3, Zenon DEF SetInv, NothingLeft
  <1>8. ASSUME NEW t \in R!Tags, R!CallHandler(t) PROVE NothingLeft' /\ CancelledIsSilent'
    <2>1. /\ UNCHANGED handle /\ run' = [run EXCEPT ![t] = "locked"]
          /\ report' = [report EXCEPT ![t] = R!EventsToReport(t)]
          /\ operations_' = [operations_ EXCEPT ![t] = R!Executing(@, R!EventsToReport(t))]
      BY <1>8, Zenon DEF R!CallHandler
    <2>2. \A u \in R!Tags : operations_'[u].monitored_events_ \subseteq operations_[u].monitored_events_
      BY <1>1, <2>1 DEF R!Executing, R!OperationEntry
    <2>3. R!EventsToReport(t) \subseteq operations_[t].monitored_events_ /\ R!EventsToReport(t) \subseteq {"read"}
      BY <1>1 DEF R!EventsToReport, R!OperationEntry
    <2>4. CancelledIsSilent'
      <3>1. \A f \in Fds : is_wait_ongoing_[f] /\ "read" \notin operations_[handle[f]].monitored_events_ =>
                  (report[handle[f]] = {} => report'[handle[f]] = {})
        BY <1>1, <1>2, <2>1, <2>3
      <3>2. QED
        BY <1>2, <2>1, <2>2, <3>1, SilentKept, Zenon DEF SetInv
    <2>5. QED
      BY <1>1, <2>1, <2>4, Zenon DEF SetInv, NothingLeft
  <1>9. ASSUME NEW t \in R!Tags, R!CallbackReturns(t) PROVE NothingLeft' /\ CancelledIsSilent'
    BY <1>1, <1>9, Zenon DEF SetInv, NothingLeft, CancelledIsSilent, R!CallbackReturns
  <1>10. QED
    BY <1>3, <1>4, <1>5, <1>6, <1>7, <1>8, <1>9, Zenon DEF ReactorStep, R!FindFreeOperationSlot,
       R!EpollAdd, R!WaitForEvents, R!SkipDeregistered

-----------------------------------------------------------------------------
(* The steps of SignalSet.                                                 *)
LEMMA SetReactorStep ==
  ASSUME SetInv, ReactorStep, UNCHANGED <<set, others, pending>>
  PROVE  WaitInv'
  <1>1. NothingLeft' /\ CancelledIsSilent'
    BY ReactorSilent, Zenon DEF set
  <1>2. QED
    BY <1>1, Zenon DEF SetInv, WaitInv, SetTypes, NoEmptyHandler, WaitsAccounted, set, others

(* Signals are raised and read, sets created and added to. *)
LEMMA SetKernelStep ==
  ASSUME SetInv, UNCHANGED <<operations_, run, report, handle, is_wait_ongoing_, wait_completion_handler_, others>>
  PROVE  WaitInv'
  BY Zenon DEF SetInv, WaitInv, SetTypes, NothingLeft, CancelledIsSilent, NoEmptyHandler, WaitsAccounted, others

(* Callbacks are posted and run; the reactor is not involved. *)
LEMMA SetPostStep ==
  ASSUME SetInv, NEW f \in Fds, NEW n \in Nat, NEW c \in Nat, NEW d \in Int,
         posted' = [posted EXCEPT ![f] = n], cancelled' = [cancelled EXCEPT ![f] = c],
         waiting' = [waiting EXCEPT ![f] = @ + d], n + c = posted[f] + cancelled[f] + d,
         UNCHANGED <<reactor, is_wait_ongoing_, wait_completion_handler_, empty>>
  PROVE  WaitInv'
  <1>2. NothingLeft' /\ CancelledIsSilent' /\ NoEmptyHandler'
    BY Zenon DEF SetInv, NothingLeft, CancelledIsSilent, NoEmptyHandler, reactor
  <1>3. SetTypes'
    BY DEF SetInv, SetTypes
  <1>4. WaitsAccounted'
    <2> SUFFICES ASSUME NEW g \in Fds
                 PROVE  waiting'[g] = posted'[g] + cancelled'[g] + Bit(is_wait_ongoing_[g] /\ wait_completion_handler_[g])
      BY Zenon DEF WaitsAccounted, Bit
    <2>1. PICK b \in {0, 1} : b = Bit(is_wait_ongoing_[g] /\ wait_completion_handler_[g])
      BY Zenon DEF Bit
    <2>2. waiting[g] = posted[g] + cancelled[g] + b
      BY <2>1, Zenon DEF SetInv, WaitsAccounted
    <2>3. waiting'[g] = posted'[g] + cancelled'[g] + b
      BY <2>2 DEF SetInv, SetTypes
    <2>4. QED
      BY <2>1, <2>3, Zenon
  <1>5. QED
    BY <1>2, <1>3, <1>4, Zenon DEF WaitInv

LEMMA SetRunPosted ==
  ASSUME SetInv, NEW f \in Fds, RunPosted(f)
  PROVE  WaitInv'
  <1>1. /\ UNCHANGED <<reactor, is_wait_ongoing_, wait_completion_handler_, empty>>
        /\ waiting' = [waiting EXCEPT ![f] = @ + (0 - 1)]
    <2>1. UNCHANGED <<reactor, is_wait_ongoing_, wait_completion_handler_, empty>>
      BY Zenon DEF RunPosted, set
    <2>2. waiting[f] - 1 = waiting[f] + (0 - 1)
      BY DEF SetInv, SetTypes
    <2>3. waiting' = [waiting EXCEPT ![f] = waiting[f] - 1]
      BY Zenon DEF RunPosted
    <2>4. QED
      BY <2>1, <2>2, <2>3, Zenon
  <1>2. PICK n \in Nat, c \in Nat :
          /\ posted' = [posted EXCEPT ![f] = n] /\ cancelled' = [cancelled EXCEPT ![f] = c]
          /\ n + c = posted[f] + cancelled[f] + (0 - 1)
    <2>1. CASE posted[f] > 0 /\ posted' = [posted EXCEPT ![f] = @ - 1] /\ UNCHANGED cancelled
      <3>1. posted[f] - 1 \in Nat /\ cancelled[f] \in Nat
            /\ (posted[f] - 1) + cancelled[f] = posted[f] + cancelled[f] + (0 - 1)
        BY <2>1 DEF SetInv, SetTypes
      <3>2. cancelled' = [cancelled EXCEPT ![f] = cancelled[f]] 
        BY <2>1, Zenon DEF SetInv, SetTypes
      <3>3. QED
        BY <2>1, <3>1, <3>2, Zenon
    <2>2. CASE cancelled[f] > 0 /\ cancelled' = [cancelled EXCEPT ![f] = @ - 1] /\ UNCHANGED posted
      <3>1. posted[f] \in Nat /\ cancelled[f] - 1 \in Nat
            /\ posted[f] + (cancelled[f] - 1) = posted[f] + cancelled[f] + (0 - 1)
        BY <2>2 DEF SetInv, SetTypes
      <3>2. posted' = [posted EXCEPT ![f] = posted[f]] 
        BY <2>2, Zenon DEF SetInv, SetTypes
      <3>3. QED
        BY <2>2, <3>1, <3>2, Zenon
    <2>3. QED
      BY <2>1, <2>2, Zenon DEF RunPosted
  <1>3. PICK d \in Int : d = 0 - 1
    OBVIOUS
  <1>4. QED
    BY <1>1, <1>2, <1>3, SetPostStep, Zenon

(* Only the set f changes. *)
LEMMA AccountedFor ==
  ASSUME WaitsAccounted, NEW f \in Fds,
         \A g \in Fds : g # f =>
             /\ waiting'[g] = waiting[g] /\ posted'[g] = posted[g] /\ cancelled'[g] = cancelled[g]
             /\ is_wait_ongoing_'[g] = is_wait_ongoing_[g]
             /\ wait_completion_handler_'[g] = wait_completion_handler_[g],
         waiting'[f] = posted'[f] + cancelled'[f] + Bit(is_wait_ongoing_'[f] /\ wait_completion_handler_'[f])
  PROVE  WaitsAccounted'
  BY Zenon DEF WaitsAccounted, Bit

LEMMA SetStartWait ==
  ASSUME SetInv, NEW f \in Fds, handle[f] # -1, StartWait(f),
         report' \in [R!Tags -> SUBSET {"read"}], \A t \in R!Tags : report'[t] \subseteq report[t],
         waiting' \in [Fds -> Int], \A g \in Fds : g # f => waiting'[g] = waiting[g],
         waiting'[f] = posted[f] + cancelled[f] + 1
  PROVE  WaitInv'
  <1>2. /\ is_wait_ongoing_' = [is_wait_ongoing_ EXCEPT ![f] = TRUE]
        /\ wait_completion_handler_' = [wait_completion_handler_ EXCEPT ![f] = TRUE]
        /\ UNCHANGED <<run, handle, posted, cancelled, empty>>
        /\ operations_' = [operations_ EXCEPT ![handle[f]] = R!Started(@, "read", {})]
    BY Zenon DEF StartWait, Stored, RegisterReactorEvent, R!OnStartOfOperation
  <1>3. SetTypes' /\ NoEmptyHandler'
    BY <1>2, Zenon DEF SetInv, SetTypes, NoEmptyHandler
  <1>4. NothingLeft'
    BY <1>2 DEF SetInv, NothingLeft
  <1>5. CancelledIsSilent'
    <2>1. operations_ \in [R!Tags -> R!OperationEntry]
      BY Zenon DEF SetInv, ReactorTypes
    <2>2. ASSUME NEW g \in Fds, is_wait_ongoing_'[g], ~wait_completion_handler_'[g]
          PROVE  /\ is_wait_ongoing_[g] /\ ~wait_completion_handler_[g] /\ g # f
                 /\ handle[g] \in R!Tags /\ handle[g] # handle[f]
      <3>1. is_wait_ongoing_[g] /\ ~wait_completion_handler_[g] /\ g # f
        BY <1>2, <2>2, Zenon DEF SetInv, SetTypes
      <3>2. handle[g] # -1 /\ handle[g] \in R!Tags
        BY <3>1, Zenon DEF SetInv, SetsRegistered
      <3>3. handle[g] # handle[f]
        BY <3>1, <3>2, Zenon DEF SetInv, SetsRegistered
      <3>4. QED
        BY <3>1, <3>2, <3>3, Zenon
    <2>3. \A t \in R!Tags : report[t] = {} => report'[t] = {}
      OBVIOUS
    <2>4. \A t \in R!Tags : t # handle[f] => operations_'[t] = operations_[t]
      BY <1>2, <2>1, Zenon
    <2>5. QED
      BY <1>2, <2>2, <2>3, <2>4, SilentKept, Zenon DEF SetInv
  <1>6. WaitsAccounted'
    BY <1>2, AccountedFor, Zenon DEF SetInv, SetTypes, Bit
  <1>7. QED
    BY <1>3, <1>4, <1>5, <1>6, Zenon DEF WaitInv

LEMMA SetWaitAsync ==
  ASSUME SetInv, NEW f \in Fds, WaitAsync(f)
  PROVE  WaitInv'
  <1>1. waiting' = [waiting EXCEPT ![f] = @ + 1] /\ handle[f] # -1
    BY Zenon DEF WaitAsync, MayCall
  <1>2. CASE Post(f)
    <2>1. posted[f] + 1 \in Nat /\ posted[f] + 1 + cancelled[f] = posted[f] + cancelled[f] + 1
      BY DEF SetInv, SetTypes
    <2>2. cancelled' = [cancelled EXCEPT ![f] = cancelled[f]] /\ cancelled[f] \in Nat
      BY <1>2, Zenon DEF Post, SetInv, SetTypes
    <2>3. /\ posted' = [posted EXCEPT ![f] = posted[f] + 1]
          /\ UNCHANGED <<reactor, is_wait_ongoing_, wait_completion_handler_, empty>>
      BY <1>2, Zenon DEF Post
    <2>4. PICK n \in Nat, c \in Nat, d \in Int : n = posted[f] + 1 /\ c = cancelled[f] /\ d = 1
      BY <2>1, <2>2
    <2>5. QED
      BY <1>1, <2>1, <2>2, <2>3, <2>4, SetPostStep, Zenon
  <1>3. CASE ~is_wait_ongoing_[f] /\ StartWait(f) /\ UNCHANGED report
    <2>1. waiting' \in [Fds -> Int] /\ \A g \in Fds : g # f => waiting'[g] = waiting[g]
      BY <1>1 DEF SetInv, SetTypes
    <2>2. waiting[f] = posted[f] + cancelled[f] + 0
      BY <1>3, Zenon DEF SetInv, WaitsAccounted, Bit
    <2>3. waiting'[f] = posted[f] + cancelled[f] + 1
      BY <1>1, <2>2 DEF SetInv, SetTypes
    <2>4. /\ report' \in [R!Tags -> SUBSET {"read"}] /\ \A t \in R!Tags : report'[t] \subseteq report[t]
      BY <1>3, Zenon DEF SetInv, ReactorTypes
    <2>5. QED
      BY <1>1, <1>3, <2>1, <2>3, <2>4, SetStartWait, Zenon
  <1>4. QED
    BY <1>2, <1>3, Zenon DEF WaitAsync, Refused

LEMMA SetCancel ==
  ASSUME SetInv, ~CancelsAgain, NEW f \in Fds, Cancel(f)
  PROVE  WaitInv'
  <1>1. /\ handle[f] # -1 /\ run[handle[f]] # "locked" /\ is_wait_ongoing_[f] /\ wait_completion_handler_[f]
        /\ operations_' = [operations_ EXCEPT ![handle[f]].monitored_events_ = @ \ {"read"}]
        /\ cancelled' = [cancelled EXCEPT ![f] = @ + 1] /\ ~empty'
        /\ wait_completion_handler_' = [wait_completion_handler_ EXCEPT ![f] = FALSE]
        /\ UNCHANGED <<used_operations_end_, loop, run, report, reg, handle, jobs, kernel,
                       is_wait_ongoing_, posted, waiting>>
    <2>1. wait_completion_handler_[f]
      BY Zenon DEF Cancel
    <2>2. QED
      BY <2>1, Zenon DEF Cancel, MayCall, RemoveMonitoredEvent, Bit, SetInv, NoEmptyHandler
  <1>2. /\ handle[f] \in R!Tags /\ operations_ \in [R!Tags -> R!OperationEntry]
        /\ report \in [R!Tags -> SUBSET {"read"}]
    BY <1>1, Zenon DEF SetInv, SetsRegistered, ReactorTypes
  <1>3. PICK t \in R!Tags : handle[f] = t
    BY <1>2, Zenon
  <1>5. SetTypes' /\ NoEmptyHandler' /\ NothingLeft'
    <2>1. cancelled' \in [Fds -> Nat]
      BY <1>1 DEF SetInv, SetTypes
    <2>2. QED
      BY <1>1, <2>1, Zenon DEF SetInv, SetTypes, NoEmptyHandler, NothingLeft
  <1>6. CancelledIsSilent'
    <2>1. /\ \A u \in R!Tags : operations_'[u].monitored_events_ \subseteq operations_[u].monitored_events_
          /\ "read" \notin operations_'[t].monitored_events_
      BY <1>1, <1>2, <1>3 DEF R!OperationEntry
    <2>2. report'[t] = {}
      BY <1>1, <1>3, Zenon DEF SetInv, NothingLeft
    <2>3. \A g \in Fds : is_wait_ongoing_[g] => handle[g] \in R!Tags
      BY Zenon DEF SetInv, SetsRegistered
    <2>4. ASSUME NEW g \in Fds, is_wait_ongoing_'[g], ~wait_completion_handler_'[g]
          PROVE  "read" \notin operations_'[handle[g]].monitored_events_ /\ report'[handle[g]] = {}
      <3>1. CASE g = f
        <4>1. handle[g] = t
          BY <1>3, <3>1, Zenon
        <4>2. QED
          BY <2>1, <2>2, <4>1
      <3>2. CASE g # f
        <4>1. is_wait_ongoing_[g] /\ ~wait_completion_handler_[g]
          BY <1>1, <2>4, <3>2, Zenon DEF SetInv, SetTypes
        <4>2. "read" \notin operations_[handle[g]].monitored_events_ /\ report[handle[g]] = {}
          BY <4>1, Zenon DEF SetInv, CancelledIsSilent
        <4>3. handle[g] \in R!Tags /\ report' = report
          BY <1>1, <2>3, <4>1, Zenon
        <4>4. QED
          BY <2>1, <4>2, <4>3
      <3>3. QED
        BY <3>1, <3>2, Zenon
    <2>5. handle' = handle
      BY <1>1, Zenon
    <2>6. QED
      BY <2>4, <2>5, Zenon DEF CancelledIsSilent
  <1>7. WaitsAccounted'
    <2>1. waiting[f] = posted[f] + cancelled[f] + 1
      BY <1>1, Zenon DEF SetInv, WaitsAccounted, Bit
    <2>2. waiting'[f] = posted'[f] + cancelled'[f] + 0
      BY <1>1, <2>1 DEF SetInv, SetTypes
    <2>3. QED
      BY <1>1, <2>2, AccountedFor, Zenon DEF SetInv, SetTypes, Bit
  <1>8. QED
    BY <1>5, <1>6, <1>7, Zenon DEF WaitInv

LEMMA SetDestroy ==
  ASSUME SetInv, NEW f \in Fds, Destroy(f)
  PROVE  WaitInv'
  <1>1. /\ is_wait_ongoing_' = [is_wait_ongoing_ EXCEPT ![f] = FALSE]
        /\ wait_completion_handler_' = [wait_completion_handler_ EXCEPT ![f] = FALSE]
        /\ waiting' = [waiting EXCEPT ![f] = posted[f] + cancelled[f]]
        /\ UNCHANGED <<posted, cancelled, empty>> /\ R!Deregister(f) /\ handle[f] # -1
    BY Zenon DEF Destroy, MayCall
  <1>3. SetTypes' /\ NoEmptyHandler'
    <2>1. waiting' \in [Fds -> Int]
      BY <1>1 DEF SetInv, SetTypes
    <2>2. QED
      BY <1>1, <2>1, Zenon DEF SetInv, SetTypes, NoEmptyHandler
  <1>4. /\ UNCHANGED <<run, report>> /\ \A g \in Fds : g # f => handle'[g] = handle[g]
        /\ \A u \in R!Tags : operations_'[u].monitored_events_ = operations_[u].monitored_events_
    <2>1. /\ handle[f] \in R!Tags /\ operations_ \in [R!Tags -> R!OperationEntry]
          /\ handle \in [Fds -> R!Tags \cup {-1}]
      BY <1>1, Zenon DEF SetInv, SetsRegistered, ReactorTypes
    <2>2. PICK t \in R!Tags : handle[f] = t
      BY <2>1, Zenon
    <2>3. PICK busy : operations_' = [operations_ EXCEPT ![t] = R!Deregistered(@, busy)]
      BY <1>1, <2>2, Zenon DEF R!Deregister
    <2>4. \A u \in R!Tags : operations_'[u].monitored_events_ = operations_[u].monitored_events_
      BY <2>1, <2>3 DEF R!Deregistered, R!OperationEntry
    <2>5. QED
      BY <1>1, <2>1, <2>4, Zenon DEF R!Deregister, R!handler, R!NoTag
  <1>5. NothingLeft'
    BY <1>4, Zenon DEF SetInv, NothingLeft
  <1>6. CancelledIsSilent'
    <2>1. \A g \in Fds : is_wait_ongoing_[g] => handle[g] \in R!Tags
      BY Zenon DEF SetInv, SetsRegistered
    <2>2. \A g \in Fds : is_wait_ongoing_'[g] =>
            g # f /\ is_wait_ongoing_[g] /\ wait_completion_handler_'[g] = wait_completion_handler_[g]
      BY <1>1, Zenon DEF SetInv, SetTypes
    <2>3. QED
      BY <1>4, <2>1, <2>2, SilentKept, Zenon DEF SetInv
  <1>7. WaitsAccounted'
    <2>1. waiting'[f] = posted'[f] + cancelled'[f] + 0
      BY <1>1 DEF SetInv, SetTypes
    <2>2. QED
      BY <1>1, <2>1, AccountedFor, Zenon DEF SetInv, SetTypes, Bit
  <1>8. QED
    BY <1>3, <1>5, <1>6, <1>7, Zenon DEF WaitInv

(* The handler of a waiting set that still has something to report has the *)
(* callback of the wait.                                                   *)
LEMMA ReportedIsStored ==
  ASSUME SetInv, NEW t \in R!Tags, R!Reporting(t, "read"), NEW f, f = operations_[t].handler_
  PROVE  /\ f \in Fds /\ run[t] = "locked" /\ report' = [report EXCEPT ![t] = @ \ {"read"}]
         /\ report' \in [R!Tags -> SUBSET {"read"}] /\ report'[t] = {}
         /\ \A u \in R!Tags : report'[u] \subseteq report[u]
         /\ is_wait_ongoing_[f] => handle[f] = t /\ handle[f] # -1 /\ wait_completion_handler_[f]
  <1>1. run[t] = "locked" /\ "read" \in report[t] /\ report' = [report EXCEPT ![t] = @ \ {"read"}]
    BY Zenon DEF R!Reporting
  <1>2. report \in [R!Tags -> SUBSET {"read"}]
    BY Zenon DEF SetInv, ReactorTypes
  <1>3. /\ report' \in [R!Tags -> SUBSET {"read"}] /\ report'[t] = {}
        /\ \A u \in R!Tags : report'[u] \subseteq report[u]
    BY <1>1, <1>2
  <1>4. f \in Fds /\ (is_wait_ongoing_[f] => handle[f] = t)
    BY <1>1, Zenon DEF SetInv, SetsRegistered
  <1>5. is_wait_ongoing_[f] => handle[f] # -1 /\ wait_completion_handler_[f]
    BY <1>1, <1>4, Zenon DEF SetInv, SetsRegistered, CancelledIsSilent
  <1>6. QED
    BY <1>1, <1>3, <1>4, <1>5, Zenon

LEMMA SetWaitComplete ==
  ASSUME SetInv, NEW t \in R!Tags, WaitComplete(t)
  PROVE  WaitInv'
  <1>1. PICK f : f = operations_[t].handler_
    BY Zenon
  <1>2. /\ f \in Fds /\ report' = [report EXCEPT ![t] = @ \ {"read"}] /\ report'[t] = {}
        /\ handle[f] = t /\ wait_completion_handler_[f] /\ is_wait_ongoing_[f]
        /\ \A u \in R!Tags : report'[u] \subseteq report[u]
    BY <1>1, ReportedIsStored, Zenon DEF WaitComplete
  <1>3. /\ is_wait_ongoing_' = [is_wait_ongoing_ EXCEPT ![f] = FALSE]
        /\ waiting' = [waiting EXCEPT ![f] = @ - 1] /\ run' = [run EXCEPT ![t] = "callback"]
        /\ UNCHANGED <<operations_, handle, wait_completion_handler_, posted, cancelled>>
        /\ ~empty'
    BY <1>1, <1>2, Zenon DEF WaitComplete, SetInv, NoEmptyHandler
  <1>5. SetTypes' /\ NoEmptyHandler'
    <2>1. waiting' \in [Fds -> Int]
      BY <1>2, <1>3 DEF SetInv, SetTypes
    <2>2. QED
      BY <1>2, <1>3, <2>1, Zenon DEF SetInv, SetTypes, NoEmptyHandler
  <1>6. run \in [R!Tags -> {"idle", "locked", "callback"}] /\ report \in [R!Tags -> SUBSET {"read"}]
    BY Zenon DEF SetInv, ReactorTypes
  <1>7. NothingLeft'
    BY <1>2, <1>3, <1>6, Zenon DEF SetInv, NothingLeft
  <1>8. CancelledIsSilent'
    <2>1. \A g \in Fds : is_wait_ongoing_'[g] => is_wait_ongoing_[g] /\ handle[g] \in R!Tags
      BY <1>2, <1>3, Zenon DEF SetInv, SetsRegistered, SetTypes
    <2>2. \A u \in R!Tags : report[u] = {} => report'[u] = {}
      BY <1>2
    <2>3. QED
      BY <1>3, <2>1, <2>2, SilentKept, Zenon DEF SetInv
  <1>9. WaitsAccounted'
    <2>1. waiting[f] = posted[f] + cancelled[f] + 1
      BY <1>2, Zenon DEF SetInv, WaitsAccounted, Bit
    <2>2. waiting'[f] = posted'[f] + cancelled'[f] + 0
      BY <1>2, <1>3, <2>1 DEF SetInv, SetTypes
    <2>3. QED
      BY <1>2, <1>3, <2>2, AccountedFor, Zenon DEF SetInv, SetTypes, Bit
  <1>10. QED
    BY <1>5, <1>7, <1>8, <1>9, Zenon DEF WaitInv

LEMMA SetWaitAgain ==
  ASSUME SetInv, NEW t \in R!Tags, WaitAgain(t)
  PROVE  WaitInv'
  <1>1. PICK f : f = operations_[t].handler_
    BY Zenon
  <1>2. /\ f \in Fds /\ report' \in [R!Tags -> SUBSET {"read"}]
        /\ \A u \in R!Tags : report'[u] \subseteq report[u]
        /\ handle[f] # -1 /\ wait_completion_handler_[f] /\ is_wait_ongoing_[f]
    BY <1>1, ReportedIsStored, Zenon DEF WaitAgain
  <1>3. StartWait(f) /\ waiting' = waiting /\ waiting \in [Fds -> Int]
    BY <1>1, Zenon DEF WaitAgain, SetInv, SetTypes
  <1>4. waiting[f] = posted[f] + cancelled[f] + 1
    BY <1>2, Zenon DEF SetInv, WaitsAccounted, Bit
  <1>5. QED
    BY <1>2, <1>3, <1>4, SetStartWait, Zenon

LEMMA SetEventIgnored ==
  ASSUME SetInv, NEW t \in R!Tags, EventIgnored(t)
  PROVE  WaitInv'
  <1>1. PICK f : f = operations_[t].handler_
    BY Zenon
  <1>2. /\ f \in Fds /\ report' \in [R!Tags -> SUBSET {"read"}]
        /\ run[t] = "locked" /\ \A u \in R!Tags : report'[u] \subseteq report[u]
    BY <1>1, ReportedIsStored, Zenon DEF EventIgnored
  <1>3. /\ ~is_wait_ongoing_[f]
        /\ operations_' = [operations_ EXCEPT ![t].monitored_events_ = @ \cup {"read"}]
        /\ UNCHANGED <<used_operations_end_, loop, run, reg, handle, jobs, kernel,
                       is_wait_ongoing_, wait_completion_handler_, others>>
    BY <1>1, Zenon DEF EventIgnored
  <1>4. operations_ \in [R!Tags -> R!OperationEntry]
    BY Zenon DEF SetInv, ReactorTypes
  <1>6. SetTypes' /\ NoEmptyHandler' /\ WaitsAccounted'
    BY <1>3, Zenon DEF SetInv, SetTypes, NoEmptyHandler, WaitsAccounted, others
  <1>7. NothingLeft'
    BY <1>2, <1>3 DEF SetInv, NothingLeft
  <1>8. CancelledIsSilent'
    <2>1. \A g \in Fds : is_wait_ongoing_[g] => handle[g] \in R!Tags /\ handle[g] # t
      BY <1>1, <1>3, ZenonT(30) DEF SetInv, SetsRegistered
    <2>2. \A u \in R!Tags : report[u] = {} => report'[u] = {}
      BY <1>2
    <2>3. \A u \in R!Tags : u # t => operations_'[u] = operations_[u]
      BY <1>3, <1>4, Zenon
    <2>4. QED
      BY <1>3, <2>1, <2>2, <2>3, SilentKept, Zenon DEF SetInv
  <1>9. QED
    BY <1>6, <1>7, <1>8, Zenon DEF WaitInv

LEMMA SetStep ==
  ASSUME ~CancelsAgain, SetInv, SignalSetNext
  PROVE  WaitInv'
  <1>1. ASSUME ReactorStep, UNCHANGED <<set, others, pending>> PROVE WaitInv'
    BY <1>1, SetReactorStep, Zenon
  <1>2. CASE Register \/ HandleEvents
    BY <1>1, <1>2, Zenon DEF Register, HandleEvents, ReactorStep
  <1>3. ASSUME NEW s, Raise(s) PROVE WaitInv'
    BY <1>3, SetKernelStep, Zenon DEF Raise, reactor, set
  <1>4. ASSUME NEW f \in Fds, Call(f) \/ RunPosted(f) PROVE WaitInv'
    <2>1. ASSUME NEW signals, AcquireNativeHandle(f, signals) PROVE WaitInv'
      BY <2>1, SetKernelStep, Zenon DEF AcquireNativeHandle
    <2>2. ASSUME NEW s \in Signals, Add(f, s) PROVE WaitInv'
      BY <2>2, SetKernelStep, Zenon DEF Add, reactor
    <2>3. CASE Wait(f)
      BY <2>3, SetKernelStep, Zenon DEF Wait, reactor, set
    <2>4. QED
      BY <1>4, <2>1, <2>2, <2>3, SetWaitAsync, SetCancel, SetDestroy, SetRunPosted, Zenon DEF Call
  <1>5. ASSUME NEW t \in R!Tags, Operation(t) PROVE WaitInv'
    BY <1>1, <1>5, SetWaitComplete, SetWaitAgain, SetEventIgnored, Zenon DEF Operation, ReactorStep
  <1>6. QED
    BY <1>2, <1>3, <1>4, <1>5, Zenon DEF SignalSetNext

-----------------------------------------------------------------------------
(* The reactor.                                                            *)
RP == INSTANCE EpollReactorProofs WITH
          Directions <- {"read"}, RegisterInLoop <- FALSE, Unblocks <- FALSE, Level <- Fds,
          JobBound <- 0,
          ready <- [f \in Fds |-> IF Readable(f) THEN {"read"} ELSE {}],
          ongoing <- [f \in Fds |-> IF is_wait_ongoing_[f] THEN {"read"} ELSE {}]

LEMMA ReactorConstants == RP!ReactorAssumption
  BY SignalSetAssumption DEF RP!ReactorAssumption

LEMMA ReactorStarts == R!Init => RP!ReactorInv
  <1>1. R!Init => RP!Init
    BY Zenon DEF R!Init, RP!Init, R!Tags, RP!Tags, R!NotRegistering, RP!NotRegistering, R!NoTag, RP!NoTag
  <1>2. QED
    BY <1>1, ReactorConstants, RP!ReactorInit, Zenon DEF RP!ReactorAssumption

(* The steps of the reactor that SignalSet takes as they are. *)
LEMMA ReactorKept == ASSUME RP!ReactorInv, ReactorStep PROVE RP!ReactorInv'
  <1> USE ReactorConstants DEF RP!ReactorAssumption, R!Tags, RP!Tags, R!NoTag, RP!NoTag,
          R!Registering, RP!Registering, R!NotRegistering, RP!NotRegistering,
          R!HandlingEvents, RP!HandlingEvents, R!ThreadFree, RP!ThreadFree,
          R!PollerFree, RP!PollerFree, R!NoneExecuting, RP!NoneExecuting, R!Drained, RP!Drained,
          R!entries, RP!entries, R!loop, RP!loop, R!handler, RP!handler, R!object, RP!object,
          R!kernel, RP!kernel, R!Add, RP!Add, R!Min, RP!Min, R!Max, RP!Max
  <1>1. ASSUME NEW f \in Fds, R!FindFreeOperationSlot(f) PROVE RP!ReactorInv'
    <2>1. RP!FindFreeOperationSlot(f)
      BY <1>1, Zenon DEF R!FindFreeOperationSlot, RP!FindFreeOperationSlot, R!Free, RP!Free,
         R!Searched, RP!Searched, R!InUse, RP!InUse, R!UpdateUsedEnd, RP!UpdateUsedEnd, R!LastUsed,
         RP!LastUsed
    <2>2. QED
      BY <2>1, RP!FindFreeOperationSlotStep, Zenon
  <1>2. ASSUME NEW f \in Fds, R!Deregister(f) PROVE RP!ReactorInv'
    <2>1. RP!Deregister(f)
      BY <1>2, Zenon DEF R!Deregister, RP!Deregister, R!EpollRemove, RP!EpollRemove,
         R!Deregistered, RP!Deregistered, R!StillOpen, RP!StillOpen
    <2>2. QED
      BY <2>1, RP!DeregisterStep, Zenon
  <1>3. ASSUME R!EpollAdd PROVE RP!ReactorInv'
    <2>1. RP!EpollAdd
      BY <1>3, Zenon DEF R!EpollAdd, RP!EpollAdd, R!EpollSet, RP!EpollSet
    <2>2. QED
      BY <2>1, RP!EpollAddStep, Zenon
  <1>4. ASSUME R!WriteEntry PROVE RP!ReactorInv'
    <2>1. RP!WriteEntry
      BY <1>4, Zenon DEF R!WriteEntry, RP!WriteEntry
    <2>2. QED
      BY <2>1, RP!WriteEntryStep, Zenon
  <1>5. ASSUME R!WaitForEvents PROVE RP!ReactorInv'
    <2>1. RP!WaitForEvents
      BY <1>5, Zenon DEF R!WaitForEvents, RP!WaitForEvents, R!Reported, RP!Reported
    <2>2. QED
      BY <2>1, RP!WaitForEventsStep, Zenon
  <1>6. ASSUME NEW ev \in epoll_events_, R!HandleSingleEvent(ev) PROVE RP!ReactorInv'
    <2>1. RP!HandleSingleEvent(ev)
      BY <1>6, Zenon DEF R!HandleSingleEvent, RP!HandleSingleEvent, R!Wanted, RP!Wanted,
         R!Captured, RP!Captured
    <2>2. QED
      BY <2>1, RP!HandleSingleEventStep, Zenon
  <1>7. ASSUME NEW t \in R!Tags, R!SkipDeregistered(t) PROVE RP!ReactorInv'
    <2>1. RP!SkipDeregistered(t)
      BY <1>7, Zenon DEF R!SkipDeregistered, RP!SkipDeregistered, R!Execute, RP!Execute
    <2>2. QED
      BY <2>1, RP!SkipDeregisteredStep, Zenon
  <1>8. ASSUME NEW t \in R!Tags, R!SkipNothingToReport(t) PROVE RP!ReactorInv'
    <2>1. RP!SkipNothingToReport(t)
      BY <1>8, Zenon DEF R!SkipNothingToReport, RP!SkipNothingToReport, R!Execute, RP!Execute,
         R!EventsToReport, RP!EventsToReport, R!Leave, RP!Leave, R!Left, RP!Left
    <2>2. QED
      BY <2>1, RP!SkipNothingToReportStep, Zenon
  <1>9. ASSUME NEW t \in R!Tags, R!CallHandler(t) PROVE RP!ReactorInv'
    <2>1. RP!CallHandler(t)
      BY <1>9, Zenon DEF R!CallHandler, RP!CallHandler, R!Execute, RP!Execute,
         R!EventsToReport, RP!EventsToReport, R!Executing, RP!Executing
    <2>2. QED
      BY <2>1, RP!CallHandlerStep, Zenon
  <1>10. ASSUME NEW t \in R!Tags, R!CallbackReturns(t) PROVE RP!ReactorInv'
    <2>1. RP!CallbackReturns(t)
      BY <1>10, Zenon DEF R!CallbackReturns, RP!CallbackReturns
    <2>2. QED
      BY <2>1, RP!CallbackReturnsStep, Zenon
  <1>11. ASSUME NEW t \in R!Tags, R!HandlerReturns(t) PROVE RP!ReactorInv'
    <2>1. RP!HandlerReturns(t)
      BY <1>11, Zenon DEF R!HandlerReturns, RP!HandlerReturns, R!Leave, RP!Leave, R!Left, RP!Left
    <2>2. QED
      BY <2>1, RP!HandlerReturnsStep, Zenon
  <1>12. QED
    BY <1>1, <1>2, <1>3, <1>4, <1>5, <1>6, <1>7, <1>8, <1>9, <1>10, <1>11, Zenon DEF ReactorStep

(* Readiness comes and goes, descriptors are opened. *)
LEMMA ReactorReadiness ==
  ASSUME RP!ReactorInv, open \subseteq open', open' \subseteq Fds,
         UNCHANGED <<operations_, used_operations_end_, loop, run, report, reg, handle, jobs, watch,
                     interest, edge, unblock_fd_, is_wait_ongoing_>>
  PROVE  RP!ReactorInv'
  <1>1. UNCHANGED <<RP!entries, RP!loop, RP!handler, RP!object, watch, interest>>
    BY Zenon DEF RP!entries, RP!loop, RP!handler, RP!object, loop
  <1>2. edge' \subseteq Fds /\ unblock_fd_' \in BOOLEAN
    BY Zenon DEF RP!ReactorInv, RP!TypeOK
  <1>3. [f \in Fds |-> IF Readable(f) THEN {"read"} ELSE {}]' \in [Fds -> SUBSET {"read"}]
    OBVIOUS
  <1>4. QED
    BY <1>1, <1>2, <1>3, ReactorConstants, RP!KernelStep, Zenon DEF RP!ReactorAssumption

(* StartWait(): the operation is started on the entry of the set. *)
LEMMA ReactorStarted ==
  ASSUME RP!ReactorInv, SetTypes, NEW f \in Fds, handle[f] # -1, StartWait(f),
         report' \in [R!Tags -> SUBSET {"read"}]
  PROVE  RP!ReactorInv'
  <1>1. PICK t \in RP!Tags : handle[f] = t
    BY Zenon DEF RP!ReactorInv, RP!TypeOK, RP!NoTag
  <1>2. RP!OnStartOfOperation(f, t, "read", {}, {})
    <2>1. R!OnStartOfOperation(f, t, "read", {}, {})
      BY <1>1, Zenon DEF StartWait, RegisterReactorEvent
    <2>2. QED
      BY <2>1, Zenon DEF R!OnStartOfOperation, RP!OnStartOfOperation, R!Started, RP!Started,
         R!Add, RP!Add, R!EpollSet, RP!EpollSet, R!Min, RP!Min, R!Max, RP!Max
  <1>3. UNCHANGED <<used_operations_end_, reg, RP!loop, run, handle, open, unblock_fd_>>
    BY Zenon DEF StartWait, loop, RP!loop
  <1>4. [g \in Fds |-> IF Readable(g) THEN {"read"} ELSE {}]' \in [Fds -> SUBSET {"read"}]
    OBVIOUS
  <1>5. /\ [g \in Fds |-> IF is_wait_ongoing_[g] THEN {"read"} ELSE {}]' \in [Fds -> SUBSET {"read"}]
        /\ \A g \in Fds : g # f => [h \in Fds |-> IF is_wait_ongoing_[h] THEN {"read"} ELSE {}]'[g]
                                   = [h \in Fds |-> IF is_wait_ongoing_[h] THEN {"read"} ELSE {}][g]
    BY DEF StartWait, SetTypes
  <1>6. report' \in [RP!Tags -> SUBSET {"read"}]
    BY Zenon DEF R!Tags, RP!Tags
  <1>7. QED
    BY <1>1, <1>2, <1>3, <1>4, <1>5, <1>6, ReactorConstants, RP!OnStartOfOperationStep, Zenon
       DEF RP!ReactorAssumption

(* Cancel() and EventIgnored(): only what is monitored changes. *)
LEMMA ReactorMonitors ==
  ASSUME RP!ReactorInv, NEW t \in R!Tags, NEW events \in SUBSET {"read"}, RP!Monitors(t, events),
         report' \in [R!Tags -> SUBSET {"read"}],
         UNCHANGED <<used_operations_end_, loop, run, reg, handle, jobs, kernel, is_wait_ongoing_>>
  PROVE  RP!ReactorInv'
  <1>1. UNCHANGED <<used_operations_end_, reg, RP!loop, run, handle,
                    [g \in Fds |-> IF is_wait_ongoing_[g] THEN {"read"} ELSE {}], open, watch, interest,
                    edge, unblock_fd_>>
    BY Zenon DEF loop, RP!loop, kernel
  <1>2. [g \in Fds |-> IF Readable(g) THEN {"read"} ELSE {}]' \in [Fds -> SUBSET {"read"}]
    OBVIOUS
  <1>3. jobs' \in [RP!Tags -> -0..0]
    BY Zenon DEF RP!ReactorInv, RP!TypeOK
  <1>4. QED
    BY <1>1, <1>2, <1>3, ReactorConstants, RP!MonitoredStep, Zenon DEF RP!ReactorAssumption, R!Tags, RP!Tags

(* WaitComplete(): the entry is unlocked. *)
LEMMA ReactorUnlocked ==
  ASSUME RP!ReactorInv, SetTypes, NEW t \in R!Tags, WaitComplete(t)
  PROVE  RP!ReactorInv'
  <1>1. /\ run[t] # "idle" /\ run' = [run EXCEPT ![t] = "callback"]
        /\ report' = [report EXCEPT ![t] = @ \ {"read"}]
        /\ UNCHANGED <<RP!entries, RP!loop, handle, jobs, open, watch, interest, edge, unblock_fd_>>
    BY Zenon DEF WaitComplete, R!Reporting, RP!entries, RP!loop, loop, kernel
  <1>2. report' \in [RP!Tags -> SUBSET {"read"}]
    BY <1>1, Zenon DEF RP!ReactorInv, RP!TypeOK
  <1>3. [g \in Fds |-> IF Readable(g) THEN {"read"} ELSE {}]' \in [Fds -> SUBSET {"read"}]
    OBVIOUS
  <1>4. /\ [g \in Fds |-> IF is_wait_ongoing_[g] THEN {"read"} ELSE {}]' \in [Fds -> SUBSET {"read"}]
        /\ \A g \in Fds : [h \in Fds |-> IF is_wait_ongoing_[h] THEN {"read"} ELSE {}]'[g]
                  \subseteq [h \in Fds |-> IF is_wait_ongoing_[h] THEN {"read"} ELSE {}][g]
    BY DEF WaitComplete, SetTypes
  <1>5. t \in RP!Tags
    BY Zenon DEF R!Tags, RP!Tags
  <1>6. QED
    BY <1>1, <1>2, <1>3, <1>4, <1>5, ReactorConstants, RP!UnlockStep, Zenon DEF RP!ReactorAssumption

(* A registered set has an entry of its own, which knows it. *)
LEMMA Registered ==
  ASSUME RP!ReactorInv, NEW f \in Fds, handle[f] # -1
  PROVE  /\ handle[f] \in R!Tags /\ operations_[handle[f]].handler_ = f
         /\ \A g \in Fds : handle[g] = handle[f] => g = f
         /\ R!Registering => reg.tag # handle[f] /\ reg.fd # f
  <1>1. /\ handle[f] \in RP!Tags /\ operations_[handle[f]].valid_ /\ operations_[handle[f]].io_source_ = f
        /\ \A g \in Fds : handle[g] = handle[f] => operations_[handle[g]].io_source_ = g
    BY ZenonT(30) DEF RP!ReactorInv, RP!Consistent, RP!TypeOK, RP!HandlesHold, RP!NoTag
  <1>2. operations_[handle[f]].handler_ = f
    BY <1>1, Zenon DEF RP!ReactorInv, RP!Consistent, RP!DescriptorsAlive
  <1>3. RP!Registering => reg.tag # handle[f] /\ reg.fd # f
    BY <1>1, Zenon DEF RP!ReactorInv, RP!Consistent, RP!RegistrationHolds, RP!InUse, RP!NoTag
  <1>4. QED
    BY <1>1, <1>2, <1>3, Zenon DEF R!Tags, RP!Tags, R!Registering, RP!Registering, R!NotRegistering,
       RP!NotRegistering

(* A wait is ongoing only on a registered set. *)
LEMMA WaitingIsRegistered ==
  ASSUME RP!ReactorInv, NEW f \in Fds, is_wait_ongoing_[f]
  PROVE  handle[f] # -1
  <1>1. [g \in Fds |-> IF is_wait_ongoing_[g] THEN {"read"} ELSE {}][f] # {}
    OBVIOUS
  <1>2. QED
    BY <1>1, Zenon DEF RP!ReactorInv, RP!Consistent, RP!HandlesHold, RP!NoTag

(* A handler that executes for a waiting set executes on its entry. *)
LEMMA ExecutingSet ==
  ASSUME RP!ReactorInv, NEW t \in R!Tags, run[t] # "idle"
  PROVE  /\ operations_[t].handler_ \in Fds
         /\ is_wait_ongoing_[operations_[t].handler_] => handle[operations_[t].handler_] = t
  <1>1. /\ operations_[t].handler_ \in Fds
        /\ [g \in Fds |-> IF is_wait_ongoing_[g] THEN {"read"} ELSE {}][operations_[t].handler_] # {}
              => handle[operations_[t].handler_] = t
    BY ReactorConstants, RP!ExecutingObject, Zenon DEF RP!ReactorAssumption, R!Tags, RP!Tags
  <1>2. QED
    BY <1>1

-----------------------------------------------------------------------------
(* Both parts together.                                                    *)
LEMMA SetFacts ==
  ASSUME RP!ReactorInv, WaitInv
  PROVE  SetInv
  <1>1. ReactorTypes
    BY Zenon DEF ReactorTypes, RP!ReactorInv, RP!TypeOK, R!Tags, RP!Tags, RP!NoTag, R!OperationEntry, RP!OperationEntry
  <1>2. SetsRegistered
    BY Registered, WaitingIsRegistered, ExecutingSet, Zenon DEF SetsRegistered
  <1>3. QED
    BY <1>1, <1>2, Zenon DEF SetInv, WaitInv

LEMMA SetInit == SignalSetInit => RP!ReactorInv /\ WaitInv
  <1> SUFFICES ASSUME SignalSetInit PROVE RP!ReactorInv /\ WaitInv
    BY Zenon
  <1>1. RP!ReactorInv
    BY ReactorStarts, Zenon DEF SignalSetInit
  <1>2. SetTypes
    BY DEF SignalSetInit, SetTypes
  <1>3. NothingLeft /\ CancelledIsSilent /\ NoEmptyHandler
    BY Zenon DEF SignalSetInit, R!Init, NothingLeft, CancelledIsSilent, NoEmptyHandler
  <1>4. WaitsAccounted
    BY DEF SignalSetInit, WaitsAccounted, Bit
  <1>5. QED
    BY <1>1, <1>2, <1>3, <1>4, Zenon DEF WaitInv

LEMMA SetReactor ==
  ASSUME RP!ReactorInv, SetInv, ~CancelsAgain, SignalSetNext
  PROVE  RP!ReactorInv'
  <1> USE DEF reactor, kernel, set
  <1>0. open \subseteq Fds /\ SetTypes
    BY Zenon DEF SetInv, ReactorTypes
  <1>1. CASE ReactorStep
    BY <1>1, ReactorKept, Zenon
  <1>2. ASSUME NEW s, Raise(s) PROVE RP!ReactorInv'
    BY <1>0, <1>2, ReactorReadiness, Zenon DEF Raise
  <1>3. ASSUME NEW f \in Fds, Call(f) \/ RunPosted(f) PROVE RP!ReactorInv'
    <2>1. ASSUME NEW signals, AcquireNativeHandle(f, signals) PROVE RP!ReactorInv'
      <3>1. open \subseteq open' /\ open' \subseteq Fds
        BY <1>0, <2>1, Zenon DEF AcquireNativeHandle
      <3>2. QED
        BY <2>1, <3>1, ReactorReadiness, Zenon DEF AcquireNativeHandle
    <2>2. ASSUME (\E s \in Signals : Add(f, s)) \/ Wait(f) \/ RunPosted(f) PROVE RP!ReactorInv'
      BY <1>0, <2>2, ReactorReadiness, Zenon DEF Add, Wait, RunPosted
    <2>3. CASE WaitAsync(f)
      <3>1. CASE Post(f)
        BY <1>0, <3>1, ReactorReadiness, Zenon DEF Post
      <3>2. CASE StartWait(f) /\ UNCHANGED report
        BY <1>0, <2>3, <3>2, ReactorStarted, Zenon DEF WaitAsync, MayCall, SetInv, ReactorTypes
      <3>3. QED
        BY <2>3, <3>1, <3>2, Zenon DEF WaitAsync
    <2>4. CASE Cancel(f)
      <3>1. /\ handle[f] # -1 /\ operations_' = [operations_ EXCEPT ![handle[f]].monitored_events_ = @ \ {"read"}]
            /\ UNCHANGED <<used_operations_end_, loop, run, report, reg, handle, jobs, kernel, is_wait_ongoing_>>
        BY <2>4, Zenon DEF Cancel, MayCall, RemoveMonitoredEvent
      <3>2. PICK t \in R!Tags : handle[f] = t
        BY <3>1, Zenon DEF SetInv, SetsRegistered
      <3>3. operations_[t].monitored_events_ \ {"read"} \in SUBSET {"read"}
        BY DEF SetInv, ReactorTypes, R!OperationEntry
      <3>4. PICK events \in SUBSET {"read"} : events = operations_[t].monitored_events_ \ {"read"}
        BY <3>3, Zenon
      <3>5. RP!Monitors(t, events)
        BY <3>1, <3>2, <3>4, Zenon DEF RP!Monitors
      <3>6. QED
        BY <3>1, <3>5, ReactorMonitors, Zenon DEF SetInv, ReactorTypes
    <2>5. CASE Destroy(f)
      BY <1>1, <2>5, Zenon DEF Destroy, ReactorStep
    <2>6. QED
      BY <1>3, <2>1, <2>2, <2>3, <2>4, <2>5, Zenon DEF Call
  <1>4. ASSUME NEW t \in R!Tags, Operation(t) PROVE RP!ReactorInv'
    <2>1. CASE WaitComplete(t)
      BY <1>0, <2>1, ReactorUnlocked, Zenon
    <2>2. CASE WaitAgain(t)
      <3>1. PICK f : f = operations_[t].handler_
        BY Zenon
      <3>2. f \in Fds /\ report' \in [R!Tags -> SUBSET {"read"}] /\ handle[f] # -1 /\ StartWait(f)
        BY <2>2, <3>1, ReportedIsStored, Zenon DEF WaitAgain
      <3>3. QED
        BY <1>0, <3>2, ReactorStarted, Zenon
    <2>3. CASE EventIgnored(t)
      <3>1. PICK f : f = operations_[t].handler_
        BY Zenon
      <3>2. /\ report' \in [R!Tags -> SUBSET {"read"}]
            /\ operations_' = [operations_ EXCEPT ![t].monitored_events_ = @ \cup {"read"}]
            /\ UNCHANGED <<used_operations_end_, loop, run, reg, handle, jobs, kernel, is_wait_ongoing_>>
        BY <2>3, <3>1, ReportedIsStored, Zenon DEF EventIgnored
      <3>3. operations_[t].monitored_events_ \cup {"read"} \in SUBSET {"read"}
        BY DEF SetInv, ReactorTypes, R!OperationEntry
      <3>4. PICK events \in SUBSET {"read"} : events = operations_[t].monitored_events_ \cup {"read"}
        BY <3>3, Zenon
      <3>5. RP!Monitors(t, events)
        BY <3>2, <3>4, Zenon DEF RP!Monitors
      <3>6. QED
        BY <3>2, <3>5, ReactorMonitors, Zenon
    <2>4. QED
      BY <1>1, <1>4, <2>1, <2>2, <2>3, Zenon DEF Operation, ReactorStep
  <1>5. QED
    BY <1>1, <1>2, <1>3, <1>4, Zenon DEF SignalSetNext, Register, HandleEvents, ReactorStep

LEMMA SetInvariant ==
  ASSUME ~CancelsAgain
  PROVE  SignalSetSpec => [](RP!ReactorInv /\ WaitInv)
  <1>1. ASSUME RP!ReactorInv, WaitInv, [SignalSetNext]_gvars PROVE RP!ReactorInv' /\ WaitInv'
    <2>1. SetInv
      BY <1>1, SetFacts, Zenon
    <2>2. CASE UNCHANGED gvars
      <3>1. open \subseteq Fds
        BY <2>1, Zenon DEF SetInv, ReactorTypes
      <3>2. QED
        BY <1>1, <2>1, <2>2, <3>1, ReactorReadiness, SetKernelStep, Zenon DEF gvars, reactor, kernel, set, others
    <2>3. CASE SignalSetNext
      BY <1>1, <2>1, <2>3, SetReactor, SetStep, Zenon
    <2>4. QED
      BY <1>1, <2>2, <2>3, Zenon
  <1>2. QED
    BY <1>1, SetInit, PTL DEF SignalSetSpec

(* Every callback given to WaitAsync() is stored or posted and is called   *)
(* once, whatever Cancel(), the destructor, Wait() in another thread and   *)
(* the reactor's handler do in between.                                    *)
THEOREM SignalSetWaitsAccounted ==
  ASSUME ~CancelsAgain
  PROVE  SignalSetSpec => []WaitsAccounted
  <1>1. WaitInv => WaitsAccounted
    BY Zenon DEF WaitInv
  <1>2. QED
    BY <1>1, SetInvariant, PTL

(* No empty callback is called: an event of a wait that Cancel() has ended *)
(* is not reported to the set.                                             *)
THEOREM SignalSetNoEmptyHandler ==
  ASSUME ~CancelsAgain
  PROVE  SignalSetSpec => []NoEmptyHandler
  <1>1. WaitInv => NoEmptyHandler
    BY Zenon DEF WaitInv
  <1>2. QED
    BY <1>1, SetInvariant, PTL

(* The reactor's table stays sound under the sets' calls: one operation    *)
(* per entry, its descriptor open while it is registered or executes, and  *)
(* Deregister() cleaned up after.                                          *)
THEOREM SignalSetReactorSafe ==
  ASSUME ~CancelsAgain
  PROVE  SignalSetSpec => [](R!OneOperationPerEntry /\ R!DescriptorsAlive /\ R!CleanedUp)
  <1>1. RP!ReactorInv => RP!OneOperationPerEntry /\ RP!DescriptorsAlive /\ RP!CleanedUp
    BY Zenon DEF RP!ReactorInv, RP!Consistent
  <1>2. RP!OneOperationPerEntry => R!OneOperationPerEntry
    BY Zenon DEF RP!OneOperationPerEntry, R!OneOperationPerEntry, RP!Outstanding, R!Outstanding, RP!Tags, R!Tags,
       RP!Registering, R!Registering, RP!NotRegistering, R!NotRegistering
  <1>3. RP!DescriptorsAlive /\ RP!CleanedUp => R!DescriptorsAlive /\ R!CleanedUp
    BY Zenon DEF RP!DescriptorsAlive, R!DescriptorsAlive, RP!CleanedUp, R!CleanedUp, RP!Tags, R!Tags
  <1>4. QED
    BY <1>1, <1>2, <1>3, SetInvariant, PTL
=============================================================================

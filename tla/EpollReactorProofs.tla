------------------------- MODULE EpollReactorProofs -------------------------
(***************************************************************************)
(* Proofs about EpollReactor, for any descriptors, any capacity of the     *)
(* table and every configuration of threads.                               *)
(***************************************************************************)
EXTENDS EpollReactor, TLAPS, WellFoundedInduction

(* What the safety invariants need of each other: a Register() in progress *)
(* has an open, unregistered descriptor and an entry nobody uses; the tag  *)
(* an object holds is that of its entry; and an entry deregistered while   *)
(* it executes is the only one that still knows its descriptor.            *)
Closing(t) == operations_[t].execution_in_progress_ /\ ~operations_[t].valid_

RegistrationHolds ==
    Registering =>
        /\ reg.fd \in open /\ handle[reg.fd] = NoTag /\ ~InUse(reg.tag)
        /\ reg.added => watch[reg.fd] = reg.tag

HandlesHold ==
    \A f \in Fds :
        /\ handle[f] # NoTag => operations_[handle[f]].valid_ /\ operations_[handle[f]].io_source_ = f
        /\ ongoing[f] # {} => handle[f] # NoTag
        /\ interest[f] # {} => watch[f] # NoTag

ClosingHolds ==
    \A t \in Tags : Closing(t) =>
        /\ handle[operations_[t].io_source_] = NoTag
        /\ Registering => reg.fd # operations_[t].io_source_
        /\ \A u \in Tags : Closing(u) /\ u # t => operations_[u].io_source_ # operations_[t].io_source_

Consistent ==
    /\ OneOperationPerEntry /\ DescriptorsAlive /\ CleanedUp /\ UnusedBeyondEnd
    /\ RegistrationHolds /\ HandlesHold /\ ClosingHolds

ReactorInv == TypeOK /\ Consistent

-----------------------------------------------------------------------------
(* Greatest and least elements, and the saturating count of jobs.          *)

LEMMA LeastExists ==
  ASSUME NEW S \in SUBSET Nat, S # {}
  PROVE  \E x \in S : \A y \in S : x <= y
  <1>1. PICK x \in S : \A y \in S : ~(<<y, x>> \in OpToRel(<, Nat))
    BY NatLessThanWellFounded, WFMin, Zenon
  <1>2. \A y \in S : ~(y < x)
    BY <1>1, Zenon DEF OpToRel
  <1>3. QED
    BY <1>2

LEMMA MinTag ==
  ASSUME NEW S \in SUBSET Tags, S # {}
  PROVE  Min(S) \in S
  <1>1. S \in SUBSET Nat
    BY ReactorAssumption DEF Tags
  <1>2. PICK x \in S : \A y \in S : x <= y
    BY <1>1, LeastExists, Zenon
  <1>3. QED
    BY <1>2, Zenon DEF Min

LEMMA MaxTag ==
  ASSUME NEW S \in SUBSET Tags, S # {}
  PROVE  Max(S) \in S /\ \A y \in S : y <= Max(S)
  <1> DEFINE D == {Capacity - y : y \in S}
  <1>1. S \subseteq Int /\ D \in SUBSET Nat /\ D # {}
    <2>1. \A y \in S : y \in Int /\ Capacity - y \in Nat
      BY ReactorAssumption DEF Tags
    <2>2. QED
      BY <2>1, Zenon
  <1>2. PICK d \in D : \A y \in D : d <= y
    <2> HIDE DEF D
    <2>1. QED
      BY <1>1, LeastExists, Zenon
  <1>3. PICK x \in S : d = Capacity - x
    BY Zenon
  <1>4. \A y \in S : x >= y
    <2>1. SUFFICES ASSUME NEW y \in S PROVE x >= y
      BY Zenon
    <2>2. Capacity - x <= Capacity - y
      BY <1>2, <1>3, Zenon
    <2>3. QED
      BY <2>2, <1>1, ReactorAssumption
  <1>5. Max(S) \in S /\ \A y \in S : Max(S) >= y
    BY <1>4, Zenon DEF Max
  <1>6. QED
    BY <1>5, <1>1, Zenon

LEMMA AddType ==
  ASSUME jobs \in [Tags -> -JobBound..JobBound], NEW t \in Tags, NEW n \in {-1, 1}
  PROVE  Add(t, n) \in [Tags -> -JobBound..JobBound]
  <1> DEFINE x == jobs[t] + n
             m == Min({JobBound, x})
  <1>1. JobBound \in Int /\ -JobBound \in Int /\ x \in Int /\ -JobBound <= JobBound
    BY ReactorAssumption
  <1>2. m \in {JobBound, x} /\ m <= JobBound
    <2> HIDE DEF x
    <2>1. \E y \in {JobBound, x} : \A z \in {JobBound, x} : y <= z
      BY <1>1
    <2>2. QED
      BY <2>1, <1>1, Zenon DEF Min
  <1>3. Max({-JobBound, m}) \in -JobBound..JobBound
    <2> HIDE DEF m, x
    <2>0. m \in Int
      BY <1>1, <1>2, Zenon
    <2>1. \E y \in {-JobBound, m} : \A z \in {-JobBound, m} : y >= z
      BY <1>1, <2>0
    <2>2. Max({-JobBound, m}) \in {-JobBound, m} /\ Max({-JobBound, m}) >= -JobBound
      BY <2>1, <1>1, <2>0, Zenon DEF Max
    <2>3. QED
      BY <2>2, <1>1, <1>2, <2>0
  <1>4. QED
    BY <1>3, Zenon DEF Add

LEMMA ReactorInit == Init => ReactorInv
  <1> SUFFICES ASSUME Init PROVE ReactorInv
    BY Zenon
  <1> USE ReactorAssumption
  <1>1. 0 \in Tags /\ NoTag \notin Tags /\ NoFd \notin Fds
    BY DEF Tags, NoTag
  <1>2. TypeOK
    <2>1. operations_ \in [Tags -> OperationEntry]
      BY <1>1, Zenon DEF Init, OperationEntry
    <2>2. reg \in [fd : Fds \cup {NoFd}, tag : Tags, added : BOOLEAN]
      BY <1>1, Zenon DEF Init, NotRegistering
    <2>3. wake \in BOOLEAN /\ unblock_fd_ \in BOOLEAN
      BY Zenon DEF Init
    <2>4. jobs \in [Tags -> -JobBound..JobBound]
      BY DEF Init
    <2>5. used_operations_end_ \in 0..Capacity
      BY DEF Init
    <2>6. QED
      BY <2>1, <2>2, <2>3, <2>4, <2>5, Zenon DEF Init, TypeOK
  <1>3. OneOperationPerEntry
    BY Zenon DEF Init, OneOperationPerEntry, Outstanding
  <1>4. DescriptorsAlive
    BY <1>1, Zenon DEF Init, DescriptorsAlive
  <1>5. CleanedUp
    BY Zenon DEF Init, CleanedUp
  <1>6. UnusedBeyondEnd
    BY Zenon DEF Init, UnusedBeyondEnd, InUse, Registering
  <1>7. RegistrationHolds /\ HandlesHold /\ ClosingHolds
    BY Zenon DEF Init, RegistrationHolds, HandlesHold, ClosingHolds, Closing, Registering
  <1>8. QED
    BY <1>2, <1>3, <1>4, <1>5, <1>6, <1>7, Zenon DEF ReactorInv, Consistent

-----------------------------------------------------------------------------
(* The actions, one lemma each.  Frame conditions and abbreviations are    *)
(* expanded everywhere.                                                    *)
LEMMA NoTagIsNoTag == NoTag \notin Tags
  BY ReactorAssumption DEF NoTag, Tags

USE ReactorAssumption, NoTagIsNoTag DEF NoTag, NotRegistering, Registering, InUse, OperationEntry,
    entries, loop, handler, object, kernel

LEMMA EntryType ==
  ASSUME operations_ \in [Tags -> OperationEntry], NEW t \in Tags, NEW o \in OperationEntry
  PROVE  [operations_ EXCEPT ![t] = o] \in [Tags -> OperationEntry]
  BY Zenon

(* Readiness comes and goes without a change to the table. *)
LEMMA KernelStep ==
  ASSUME ReactorInv,
         UNCHANGED <<entries, loop, handler, object, watch, interest>>, open \subseteq open',
         open' \subseteq Fds, edge' \subseteq Fds, ready' \in [Fds -> SUBSET Directions],
         unblock_fd_' \in BOOLEAN
  PROVE  ReactorInv'
  <1>1. TypeOK'
    BY Zenon DEF ReactorInv, TypeOK
  <1>2. Consistent'
    BY DEF ReactorInv, TypeOK, Consistent, OneOperationPerEntry, DescriptorsAlive, CleanedUp,
       UnusedBeyondEnd, RegistrationHolds, HandlesHold, ClosingHolds, Outstanding, Closing
  <1>3. QED
    BY <1>1, <1>2, Zenon DEF ReactorInv

LEMMA UnblockStep ==
  ASSUME ReactorInv, Unblock
  PROVE  ReactorInv'
  BY KernelStep, Zenon DEF Unblock, ReactorInv, TypeOK

LEMMA OpenStep ==
  ASSUME ReactorInv, NEW f \in Fds, Open(f)
  PROVE  ReactorInv'
  BY KernelStep DEF Open, ReactorInv, TypeOK

LEMMA BecomeReadyStep ==
  ASSUME ReactorInv, NEW f \in Fds, NEW events \in SUBSET Directions, BecomeReady(f, events)
  PROVE  ReactorInv'
  <1>1. ready' \in [Fds -> SUBSET Directions]
    BY Zenon DEF ReactorInv, TypeOK, BecomeReady
  <1>2. edge' \subseteq Fds
    BY Zenon DEF ReactorInv, TypeOK, BecomeReady
  <1>3. QED
    BY <1>1, <1>2, KernelStep, Zenon DEF BecomeReady, ReactorInv, TypeOK

LEMMA CompleteAtOnceStep ==
  ASSUME ReactorInv, NEW f \in Fds, NEW e \in Directions, CompleteAtOnce(f, e)
  PROVE  ReactorInv'
  BY KernelStep, Zenon DEF CompleteAtOnce, ReactorInv, TypeOK

-----------------------------------------------------------------------------
(* Register(). *)

(* The new end is beyond the entry found and every entry in use. *)
LEMMA UsedEnd ==
  ASSUME ReactorInv, NEW found \in SUBSET Free, UpdateUsedEnd(found),
         found # {} \/ Free = {}
  PROVE  /\ used_operations_end_' \in 0..Capacity
         /\ \A t \in Tags : t >= used_operations_end_' => ~InUse(t) /\ t \notin found
  <1> DEFINE S == {t \in Searched : InUse(t)} \cup found
  <1>1. used_operations_end_ \in 0..Capacity /\ Tags \subseteq Int /\ 0 \in Tags
    BY DEF ReactorInv, TypeOK, Tags
  <1>2. S \in SUBSET Tags /\ S # {}
    <2>1. 0 \in Searched
      BY <1>1 DEF Searched
    <2>2. QED
      BY <2>1, Zenon DEF Free, Searched
  <1>3. CASE used_operations_end_ = Capacity
    BY <1>1, <1>3 DEF UpdateUsedEnd, Tags
  <1>4. CASE used_operations_end_ # Capacity
    <2>1. used_operations_end_' = Max(S) + 1
      BY <1>4, Zenon DEF UpdateUsedEnd, LastUsed
    <2>2. Max(S) \in S /\ \A y \in S : y <= Max(S)
      <3> HIDE DEF S
      <3>1. QED
        BY <1>2, MaxTag, Zenon
    <2>3. Max(S) \in Tags
      BY <1>2, <2>2, Zenon
    <2>4. used_operations_end_' \in 0..Capacity
      BY <2>1, <2>3 DEF Tags
    <2>5. ASSUME NEW t \in Tags, t >= used_operations_end_' PROVE ~InUse(t) /\ t \notin found
      <3>1. t \notin S
        <4> DEFINE m == Max(S)
        <4>1. m \in Int /\ t \in Int /\ t >= m + 1 /\ \A y \in S : y <= m
          BY <2>1, <2>2, <2>3, <2>5, <1>1, Zenon
        <4> HIDE DEF m, S
        <4>2. QED
          BY <4>1
      <3>2. CASE t \in Searched
        <4> HIDE DEF InUse
        <4>1. QED
          BY <3>1, <3>2, Zenon
      <3>3. CASE t \notin Searched
        <4>1. t >= used_operations_end_
          BY <3>3, <1>1 DEF Searched
        <4>2. QED
          BY <3>1, <4>1, Zenon DEF ReactorInv, Consistent, UnusedBeyondEnd
      <3>4. QED
        BY <3>2, <3>3, Zenon
    <2>6. QED
      BY <2>4, <2>5, Zenon
  <1>5. QED
    BY <1>3, <1>4, Zenon

LEMMA FindFreeOperationSlotStep ==
  ASSUME ReactorInv, NEW f \in Fds, FindFreeOperationSlot(f)
  PROVE  ReactorInv'
  <1>1. Min(Free) \in Free /\ Min(Free) \in Tags
    <2>1. Free \in SUBSET Tags /\ Free # {}
      BY Zenon DEF Free, Searched, FindFreeOperationSlot
    <2>2. QED
      BY <2>1, MinTag, Zenon
  <1>2. ~InUse(Min(Free))
    <2> HIDE DEF InUse
    <2>1. QED
      BY <1>1, Zenon DEF Free
  <1>3. /\ used_operations_end_' \in 0..Capacity
        /\ \A t \in Tags : t >= used_operations_end_' => ~InUse(t) /\ t # Min(Free)
    <2>1. UpdateUsedEnd({Min(Free)}) /\ {Min(Free)} \in SUBSET Free /\ {Min(Free)} # {}
      BY <1>1, Zenon DEF FindFreeOperationSlot
    <2> HIDE DEF InUse
    <2>2. QED
      BY <2>1, UsedEnd, Zenon
  <1>4. reg' = [fd |-> f, tag |-> Min(Free), added |-> FALSE]
    BY Zenon DEF FindFreeOperationSlot
  <1>5. UNCHANGED <<operations_, loop, handler, object, kernel>>
    BY Zenon DEF FindFreeOperationSlot
  <1>6. TypeOK'
    <2>1. reg' \in [fd : Fds \cup {NoFd}, tag : Tags, added : BOOLEAN]
      BY <1>1, <1>4, Zenon
    <2>2. QED
      BY <1>3, <1>5, <2>1, Zenon DEF ReactorInv, TypeOK
  <1>7. OneOperationPerEntry' /\ UnusedBeyondEnd' /\ RegistrationHolds'
    <2> DEFINE m == Min(Free)
    <2>1. m \in Tags /\ ~InUse(m) /\ reg' = [fd |-> f, tag |-> m, added |-> FALSE]
      BY <1>1, <1>2, <1>4, Zenon
    <2>2. \A t \in Tags : t >= used_operations_end_' => ~InUse(t) /\ t # m
      BY <1>3, Zenon
    <2>3. f \in open /\ handle[f] = NoTag
      BY Zenon DEF FindFreeOperationSlot
    <2> HIDE DEF m
    <2>4. QED
      BY <1>5, <2>1, <2>2, <2>3, Zenon DEF ReactorInv, Consistent, TypeOK, OneOperationPerEntry,
         Outstanding,
         UnusedBeyondEnd, RegistrationHolds
  <1>8. DescriptorsAlive' /\ CleanedUp' /\ HandlesHold' /\ ClosingHolds'
    BY <1>5 DEF ReactorInv, Consistent, TypeOK, DescriptorsAlive, CleanedUp, HandlesHold,
       ClosingHolds,
        Closing, RegistrationHolds, FindFreeOperationSlot
  <1>9. QED
    BY <1>6, <1>7, <1>8, Zenon DEF ReactorInv, Consistent

LEMMA CapacityExceededStep ==
  ASSUME ReactorInv, NEW f \in Fds, CapacityExceeded(f)
  PROVE  ReactorInv'
  <1>1. /\ used_operations_end_' \in 0..Capacity
        /\ \A t \in Tags : t >= used_operations_end_' => ~InUse(t)
    <2>1. UpdateUsedEnd({}) /\ Free = {}
      BY Zenon DEF CapacityExceeded
    <2> HIDE DEF InUse
    <2>2. QED
      BY <2>1, UsedEnd, Zenon
  <1>2. TypeOK'
    BY <1>1, Zenon DEF ReactorInv, TypeOK, CapacityExceeded
  <1>3. \A t \in Tags : operations_[t].valid_ \/ operations_[t].execution_in_progress_
                        => operations_[t].io_source_ # f
    BY DEF ReactorInv, Consistent, TypeOK, DescriptorsAlive, CleanedUp, CapacityExceeded
  <1>4. DescriptorsAlive'
    BY <1>3 DEF ReactorInv, Consistent, TypeOK, DescriptorsAlive, CapacityExceeded
  <1>5. UnusedBeyondEnd' /\ RegistrationHolds'
    BY <1>1, Zenon DEF UnusedBeyondEnd, RegistrationHolds, CapacityExceeded
  <1>6. OneOperationPerEntry' /\ CleanedUp' /\ HandlesHold' /\ ClosingHolds'
    BY Zenon DEF ReactorInv, Consistent, TypeOK, OneOperationPerEntry, Outstanding, CleanedUp,
       HandlesHold,
       ClosingHolds, Closing, CapacityExceeded
  <1>7. QED
    BY <1>2, <1>4, <1>5, <1>6, Zenon DEF ReactorInv, Consistent

(* A descriptor that is not registered is closed by its owner. *)
LEMMA CloseUnregisteredStep ==
  ASSUME ReactorInv, NEW f \in Fds, handle[f] = NoTag, ~Registering,
         \A t \in Tags : operations_[t].close_io_source_ => operations_[t].io_source_ # f,
         open' = open \ {f}, ready' \in [Fds -> SUBSET Directions],
         UNCHANGED <<entries, loop, handler, object, watch, interest, edge, unblock_fd_>>
  PROVE  ReactorInv'
  <1>1. TypeOK'
    BY Zenon DEF ReactorInv, TypeOK
  <1>2. \A t \in Tags : operations_[t].valid_ \/ operations_[t].execution_in_progress_
                        => operations_[t].io_source_ # f
    BY DEF ReactorInv, Consistent, TypeOK, DescriptorsAlive, CleanedUp
  <1>3. DescriptorsAlive' /\ UnusedBeyondEnd' /\ RegistrationHolds'
    BY <1>2 DEF ReactorInv, Consistent, TypeOK, DescriptorsAlive, UnusedBeyondEnd, RegistrationHolds
  <1>4. OneOperationPerEntry' /\ CleanedUp' /\ HandlesHold' /\ ClosingHolds'
    BY Zenon DEF ReactorInv, Consistent, TypeOK, OneOperationPerEntry, Outstanding, CleanedUp,
       HandlesHold, ClosingHolds, Closing
  <1>5. QED
    BY <1>1, <1>3, <1>4, Zenon DEF ReactorInv, Consistent

(* The descriptor being registered is the source of no entry. *)
LEMMA RegisteringSource ==
  ASSUME ReactorInv, Registering
  PROVE  /\ reg.fd \in Fds /\ reg.tag \in Tags
         /\ \A t \in Tags : operations_[t].valid_ \/ operations_[t].execution_in_progress_
                            => operations_[t].io_source_ # reg.fd
         /\ \A t \in Tags : watch[reg.fd] = t => reg.added /\ reg.tag = t
  <1>1. reg.fd \in Fds /\ reg.tag \in Tags
    BY Zenon DEF ReactorInv, Consistent, TypeOK, RegistrationHolds
  <1>2. QED
    BY <1>1 DEF ReactorInv, Consistent, TypeOK, RegistrationHolds, DescriptorsAlive,
       ClosingHolds, Closing

LEMMA EpollAddStep ==
  ASSUME ReactorInv, EpollAdd
  PROVE  ReactorInv'
  <1>1. /\ reg.fd \in Fds /\ reg.tag \in Tags
        /\ \A t \in Tags : operations_[t].valid_ => operations_[t].io_source_ # reg.fd
    BY RegisteringSource, Zenon DEF EpollAdd
  <1>2. reg' = [fd |-> reg.fd, tag |-> reg.tag, added |-> TRUE]
    BY Zenon DEF EpollAdd, ReactorInv, TypeOK
  <1>3. TypeOK'
    <2>1. watch' \in [Fds -> Tags \cup {NoTag}] /\ interest' \in [Fds -> SUBSET Directions]
      BY <1>1 DEF ReactorInv, TypeOK, EpollAdd, EpollSet
    <2>2. edge' \subseteq Fds
      BY <1>1, Zenon DEF ReactorInv, TypeOK, EpollAdd, EpollSet
    <2>3. reg' \in [fd : Fds \cup {NoFd}, tag : Tags, added : BOOLEAN]
      BY <1>1, <1>2, Zenon
    <2>4. QED
      BY <2>1, <2>2, <2>3, Zenon DEF ReactorInv, TypeOK, EpollAdd
  <1>4. DescriptorsAlive'
    BY <1>1, <1>2 DEF ReactorInv, Consistent, TypeOK, DescriptorsAlive, EpollAdd, EpollSet
  <1>5. RegistrationHolds' /\ HandlesHold' /\ ClosingHolds'
    BY <1>1, <1>2 DEF ReactorInv, Consistent, TypeOK, RegistrationHolds, HandlesHold,
       ClosingHolds, Closing,
       EpollAdd, EpollSet
  <1>6. OneOperationPerEntry' /\ CleanedUp' /\ UnusedBeyondEnd'
    BY <1>2, Zenon DEF ReactorInv, Consistent, TypeOK, OneOperationPerEntry, Outstanding, CleanedUp,
       UnusedBeyondEnd, EpollAdd
  <1>7. QED
    BY <1>3, <1>4, <1>5, <1>6, Zenon DEF ReactorInv, Consistent

LEMMA EpollAddFailsStep ==
  ASSUME ReactorInv, EpollAddFails
  PROVE  ReactorInv'
  <1>1. /\ reg.fd \in Fds
        /\ \A t \in Tags : operations_[t].valid_ \/ operations_[t].execution_in_progress_
                           => operations_[t].io_source_ # reg.fd
        /\ \A t \in Tags : watch[reg.fd] # t
    BY RegisteringSource, Zenon DEF EpollAddFails
  <1>2. TypeOK'
    <2>1. reg' \in [fd : Fds \cup {NoFd}, tag : Tags, added : BOOLEAN]
      BY DEF EpollAddFails, Tags
    <2>2. QED
      BY <2>1, Zenon DEF ReactorInv, TypeOK, EpollAddFails
  <1>3. DescriptorsAlive'
    BY <1>1 DEF ReactorInv, Consistent, TypeOK, DescriptorsAlive, EpollAddFails
  <1>4. OneOperationPerEntry' /\ CleanedUp' /\ UnusedBeyondEnd'
    BY Zenon DEF ReactorInv, Consistent, TypeOK, OneOperationPerEntry, Outstanding, CleanedUp,
       UnusedBeyondEnd, EpollAddFails
  <1>5. RegistrationHolds' /\ HandlesHold' /\ ClosingHolds'
    BY Zenon DEF ReactorInv, Consistent, TypeOK, RegistrationHolds, HandlesHold, ClosingHolds, Closing,
       EpollAddFails
  <1>6. QED
    BY <1>2, <1>3, <1>4, <1>5, Zenon DEF ReactorInv, Consistent

LEMMA WriteEntryStep ==
  ASSUME ReactorInv, WriteEntry
  PROVE  ReactorInv'
  <1>1. /\ reg.fd \in Fds /\ reg.tag \in Tags
        /\ \A t \in Tags : operations_[t].valid_ \/ operations_[t].execution_in_progress_
                           => operations_[t].io_source_ # reg.fd
    BY RegisteringSource, Zenon DEF WriteEntry
  <1>2. ~InUse(reg.tag) /\ ~operations_[reg.tag].execution_in_progress_
    BY <1>1, Zenon DEF ReactorInv, Consistent, RegistrationHolds, OneOperationPerEntry, Outstanding,
       WriteEntry
  <1> DEFINE o == operations_[reg.tag]
             n == [o EXCEPT !.io_source_ = reg.fd, !.handler_ = reg.fd, !.valid_ = TRUE,
                            !.monitored_events_ = {"read"}, !.captured_events_ = {},
                            !.handler_posted_ = FALSE]
  <1>3. o \in OperationEntry
    BY <1>1, Zenon DEF ReactorInv, TypeOK
  <1>4. /\ n \in OperationEntry /\ n.io_source_ = reg.fd /\ n.handler_ = reg.fd /\ n.valid_
        /\ ~n.handler_posted_ /\ n.execution_in_progress_ = o.execution_in_progress_
        /\ n.release_handler_memory_ = o.release_handler_memory_
        /\ n.close_io_source_ = o.close_io_source_
    <2> HIDE DEF o
    <2>1. QED
      BY <1>1, <1>3, ZenonT(30)
  <1>5. operations_' = [operations_ EXCEPT ![reg.tag] = n]
    BY Zenon DEF WriteEntry
  <1> HIDE DEF n
  <1>6. TypeOK'
    <2>1. operations_' \in [Tags -> OperationEntry]
      BY <1>1, <1>4, <1>5, EntryType, Zenon DEF ReactorInv, TypeOK
    <2>2. handle' \in [Fds -> Tags \cup {NoTag}]
      BY <1>1, Zenon DEF ReactorInv, TypeOK, WriteEntry
    <2>3. reg' \in [fd : Fds \cup {NoFd}, tag : Tags, added : BOOLEAN]
      BY <1>1 DEF WriteEntry, Tags
    <2>4. QED
      BY <2>1, <2>2, <2>3, Zenon DEF ReactorInv, TypeOK, WriteEntry
  <1>7. OneOperationPerEntry'
    BY <1>1, <1>2, <1>4, <1>5 DEF ReactorInv, Consistent, TypeOK, OneOperationPerEntry,
       Outstanding, WriteEntry
  <1>8. DescriptorsAlive'
    BY <1>1, <1>2, <1>4, <1>5 DEF ReactorInv, Consistent, TypeOK, DescriptorsAlive,
       RegistrationHolds, WriteEntry
  <1>9. CleanedUp'
    BY <1>1, <1>2, <1>4, <1>5 DEF ReactorInv, Consistent, TypeOK, CleanedUp
  <1>10. UnusedBeyondEnd' /\ RegistrationHolds'
    BY <1>1, <1>4, <1>5 DEF ReactorInv, Consistent, TypeOK, UnusedBeyondEnd, RegistrationHolds,
       WriteEntry
  <1>11. HandlesHold'
    BY <1>1, <1>2, <1>4, <1>5 DEF ReactorInv, Consistent, TypeOK, HandlesHold,
       RegistrationHolds, WriteEntry
  <1>12. ClosingHolds'
    BY <1>1, <1>2, <1>4, <1>5 DEF ReactorInv, Consistent, TypeOK, ClosingHolds, Closing,
       DescriptorsAlive, WriteEntry
  <1>13. QED
    BY <1>6, <1>7, <1>8, <1>9, <1>10, <1>11, <1>12, Zenon DEF ReactorInv, Consistent

-----------------------------------------------------------------------------
LEMMA DeregisterStep ==
  ASSUME ReactorInv, NEW f \in Fds, Deregister(f)
  PROVE  ReactorInv'
  <1> DEFINE t == handle[f]
             o == operations_[t]
             busy == o.execution_in_progress_
             n == Deregistered(o, busy)
  <1>1. t \in Tags /\ o \in OperationEntry /\ o.valid_ /\ o.io_source_ = f
    BY DEF Deregister, ReactorInv, Consistent, TypeOK, HandlesHold
  <1>2. ~o.close_io_source_ /\ ~o.release_handler_memory_ /\ o.handler_ = f
    BY <1>1, Zenon DEF ReactorInv, Consistent, CleanedUp, DescriptorsAlive
  <1>3. /\ n \in OperationEntry /\ n.io_source_ = f /\ ~n.valid_
        /\ n.handler_posted_ = o.handler_posted_ /\ n.execution_in_progress_ = busy
        /\ n.release_handler_memory_ = busy /\ n.close_io_source_ = busy
        /\ n.handler_ = IF busy THEN f ELSE NoFd
    <2> HIDE DEF o
    <2>1. QED
      BY <1>1, <1>2, ZenonT(30) DEF Deregistered
  <1>4. operations_' = [operations_ EXCEPT ![t] = n]
    BY Zenon DEF Deregister
  <1>5. /\ open' = IF busy THEN open ELSE open \ {f}
        /\ handle' = [handle EXCEPT ![f] = NoTag] /\ ongoing' = [ongoing EXCEPT ![f] = {}]
        /\ watch' = [watch EXCEPT ![f] = NoTag] /\ interest' = [interest EXCEPT ![f] = {}]
        /\ edge' = edge \ {f}
        /\ UNCHANGED <<used_operations_end_, reg, loop, handler, jobs, ready, unblock_fd_>>
    BY Zenon DEF Deregister, EpollRemove, StillOpen
  <1>6. \A u \in Tags : u # t /\ (operations_[u].valid_ \/ operations_[u].execution_in_progress_)
                        => operations_[u].io_source_ # f
    BY <1>1 DEF ReactorInv, Consistent, DescriptorsAlive, ClosingHolds, Closing
  <1>7. Registering => reg.fd # f /\ reg.tag # t
    BY <1>1, Zenon DEF ReactorInv, Consistent, RegistrationHolds
  <1> HIDE DEF n, t
  <1>8. TypeOK'
    <2>1. operations_' \in [Tags -> OperationEntry]
      BY <1>1, <1>3, <1>4, EntryType, Zenon DEF ReactorInv, TypeOK
    <2>2. QED
      BY <1>5, <2>1, Zenon DEF ReactorInv, TypeOK
  <1>9. OneOperationPerEntry'
    BY <1>1, <1>3, <1>4, <1>5 DEF ReactorInv, Consistent, TypeOK, OneOperationPerEntry, Outstanding
  <1>10. DescriptorsAlive'
    BY <1>1, <1>3, <1>4, <1>5, <1>6 DEF ReactorInv, Consistent, TypeOK, DescriptorsAlive
  <1>11. CleanedUp'
    BY <1>1, <1>3, <1>4 DEF ReactorInv, Consistent, TypeOK, CleanedUp
  <1>12. UnusedBeyondEnd' /\ RegistrationHolds'
    BY <1>1, <1>3, <1>4, <1>5, <1>7 DEF ReactorInv, Consistent, TypeOK, UnusedBeyondEnd,
       RegistrationHolds
  <1>13. HandlesHold'
    BY <1>1, <1>3, <1>4, <1>5 DEF ReactorInv, Consistent, TypeOK, HandlesHold
  <1>14. ClosingHolds'
    BY <1>1, <1>3, <1>4, <1>5, <1>6, <1>7 DEF ReactorInv, Consistent, TypeOK, ClosingHolds, Closing
  <1>15. QED
    BY <1>8, <1>9, <1>10, <1>11, <1>12, <1>13, <1>14, Zenon DEF ReactorInv, Consistent

-----------------------------------------------------------------------------
(* The steps of operations and of the event loop, and the theorems.        *)

(* A change to what is monitored or captured leaves the table consistent.  *)
SameRegistration(o, n) ==
    /\ n.io_source_ = o.io_source_ /\ n.handler_ = o.handler_ /\ n.valid_ = o.valid_
    /\ n.execution_in_progress_ = o.execution_in_progress_
    /\ n.handler_posted_ = o.handler_posted_
    /\ n.release_handler_memory_ = o.release_handler_memory_
    /\ n.close_io_source_ = o.close_io_source_

LEMMA SameRegistrationStep ==
  ASSUME ReactorInv, TypeOK',
         \A t \in Tags : SameRegistration(operations_[t], operations_'[t]),
         UNCHANGED <<used_operations_end_, reg, op_queue, queue, run, handle, open, watch>>,
         \A f \in Fds : ongoing'[f] # {} => handle[f] # NoTag,
         \A f \in Fds : interest'[f] # {} => watch[f] # NoTag
  PROVE  ReactorInv'
  <1>1. Consistent'
    BY DEF ReactorInv, TypeOK, Consistent, OneOperationPerEntry, Outstanding, DescriptorsAlive,
       CleanedUp,
       UnusedBeyondEnd, RegistrationHolds, HandlesHold, ClosingHolds, Closing, SameRegistration
  <1>2. QED
    BY <1>1, Zenon DEF ReactorInv

(* An operation is only started on an entry its object is registered with, *)
(* also from a handler that has been deregistered meanwhile.               *)
LEMMA OnStartOfOperationStep ==
  ASSUME ReactorInv, NEW f \in Fds, NEW t \in Tags, NEW e \in Directions,
         NEW stillReady \in SUBSET Directions, NEW consumed,
         handle[f] = t, OnStartOfOperation(f, t, e, stillReady, consumed),
         ongoing' \in [Fds -> SUBSET Directions], \A g \in Fds : g # f => ongoing'[g] = ongoing[g],
         ready' \in [Fds -> SUBSET Directions], report' \in [Tags -> SUBSET Directions],
         UNCHANGED <<used_operations_end_, reg, loop, run, handle, open, unblock_fd_>>
  PROVE  ReactorInv'
  <1> DEFINE o == operations_[t]
             n == Started(o, e, consumed)
  <1>1. o \in OperationEntry
    BY Zenon DEF ReactorInv, TypeOK
  <1>2. n \in OperationEntry /\ SameRegistration(o, n)
    <2> HIDE DEF o
    <2>1. QED
      BY <1>1, ZenonT(30) DEF Started, SameRegistration
  <1>3. operations_' = [operations_ EXCEPT ![t] = n]
    BY Zenon DEF OnStartOfOperation
  <1>4. watch[f] = t
    BY DEF ReactorInv, Consistent, HandlesHold, DescriptorsAlive
  <1>5. /\ UNCHANGED watch
        /\ interest' \in [Fds -> SUBSET Directions] /\ edge' \subseteq Fds
        /\ \A g \in Fds : g # f => interest'[g] = interest[g]
    <2>1. CASE UNCHANGED <<watch, interest, edge>>
      BY <2>1, Zenon DEF ReactorInv, TypeOK
    <2>2. CASE EpollSet(f, t, o.monitored_events_ \cup {e, "read"}, stillReady)
      <3>1. o.monitored_events_ \cup {e, "read"} \in SUBSET Directions
        BY <1>1, Zenon
      <3>2. watch' = watch
        BY <2>2, <1>4, Zenon DEF EpollSet, ReactorInv, TypeOK
      <3>3. interest' \in [Fds -> SUBSET Directions] /\ \A g \in Fds : g # f => interest'[g] = interest[g]
        BY <2>2, <3>1, Zenon DEF EpollSet, ReactorInv, TypeOK
      <3>4. edge' \subseteq Fds
        BY <2>2, Zenon DEF EpollSet, ReactorInv, TypeOK
      <3>5. QED
        BY <3>2, <3>3, <3>4, Zenon
    <2>3. QED
      BY <2>1, <2>2, Zenon DEF OnStartOfOperation
  <1> HIDE DEF n
  <1>6. TypeOK'
    <2>1. operations_' \in [Tags -> OperationEntry]
      BY <1>2, <1>3, EntryType, Zenon DEF ReactorInv, TypeOK
    <2>2. jobs' \in [Tags -> -JobBound..JobBound]
      BY AddType, Zenon DEF OnStartOfOperation, ReactorInv, TypeOK
    <2>3. QED
      BY <1>5, <2>1, <2>2, Zenon DEF ReactorInv, TypeOK
  <1>7. \A u \in Tags : SameRegistration(operations_[u], operations_'[u])
    <2>1. DOMAIN operations_ = Tags
      BY Zenon DEF ReactorInv, TypeOK
    <2>2. \A u \in Tags : operations_'[u] = IF u = t THEN n ELSE operations_[u]
      BY <1>3, <2>1, Zenon
    <2>3. \A u \in Tags : u # t => SameRegistration(operations_[u], operations_'[u])
      BY <2>2, Zenon DEF SameRegistration
    <2>4. QED
      BY <1>2, <2>2, <2>3, Zenon
  <1>8. \A g \in Fds : ongoing'[g] # {} => handle[g] # NoTag
    BY DEF ReactorInv, Consistent, HandlesHold
  <1>9. \A g \in Fds : interest'[g] # {} => watch[g] # NoTag
    BY <1>4, <1>5 DEF ReactorInv, Consistent, HandlesHold
  <1>10. QED
    BY <1>5, <1>6, <1>7, <1>8, <1>9, SameRegistrationStep, Zenon

LEMMA StartOperationStep ==
  ASSUME ReactorInv, NEW f \in Fds, NEW e \in Directions, NEW tried \in BOOLEAN,
         StartOperation(f, e, tried)
  PROVE  ReactorInv'
  <1> DEFINE left == IF tried THEN ready[f] \ {e} ELSE ready[f]
             consumed == IF tried THEN {e} \cap {"read"} ELSE {}
  <1>1. handle[f] \in Tags /\ left \in SUBSET Directions
    BY Zenon DEF StartOperation, ReactorInv, TypeOK
  <1>2. OnStartOfOperation(f, handle[f], e, left, consumed)
    BY Zenon DEF StartOperation
  <1>3. ongoing' \in [Fds -> SUBSET Directions] /\ \A g \in Fds : g # f => ongoing'[g] = ongoing[g]
    BY DEF StartOperation, ReactorInv, TypeOK
  <1>4. ready' \in [Fds -> SUBSET Directions] /\ report' \in [Tags -> SUBSET Directions]
    BY <1>1, Zenon DEF StartOperation, ReactorInv, TypeOK
  <1>5. UNCHANGED <<used_operations_end_, reg, loop, run, handle, open, unblock_fd_>>
    BY Zenon DEF StartOperation
  <1> HIDE DEF left, consumed
  <1>6. QED
    BY <1>1, <1>2, <1>3, <1>4, <1>5, OnStartOfOperationStep, Zenon

(* What is monitored changes, by the object or by its handler. *)
Monitors(t, events) == operations_' = [operations_ EXCEPT ![t].monitored_events_ = events]

LEMMA MonitoredStep ==
  ASSUME ReactorInv, NEW t \in Tags, NEW events \in SUBSET Directions, Monitors(t, events),
         jobs' \in [Tags -> -JobBound..JobBound], report' \in [Tags -> SUBSET Directions],
         ready' \in [Fds -> SUBSET Directions],
         UNCHANGED <<used_operations_end_, reg, loop, run, handle, ongoing, open, watch, interest, edge,
                     unblock_fd_>>
  PROVE  ReactorInv'
  <1> DEFINE o == operations_[t]
             n == [o EXCEPT !.monitored_events_ = events]
  <1>1. o \in OperationEntry
    BY Zenon DEF ReactorInv, TypeOK
  <1>2. n \in OperationEntry /\ SameRegistration(o, n)
    <2> HIDE DEF o
    <2>1. QED
      BY <1>1, Zenon DEF SameRegistration
  <1>3. operations_' = [operations_ EXCEPT ![t] = n]
    BY Zenon DEF Monitors
  <1> HIDE DEF n
  <1>4. operations_' \in [Tags -> OperationEntry]
    BY <1>2, <1>3, EntryType, Zenon DEF ReactorInv, TypeOK
  <1>5. TypeOK'
    BY <1>4, Zenon DEF ReactorInv, TypeOK
  <1>6. \A u \in Tags : SameRegistration(operations_[u], operations_'[u])
    <2>1. DOMAIN operations_ = Tags
      BY Zenon DEF ReactorInv, TypeOK
    <2>2. \A u \in Tags : operations_'[u] = IF u = t THEN n ELSE operations_[u]
      BY <1>3, <2>1, Zenon
    <2>3. \A u \in Tags : u # t => SameRegistration(operations_[u], operations_'[u])
      BY <2>2, Zenon DEF SameRegistration
    <2>4. QED
      BY <1>2, <2>2, <2>3, Zenon
  <1>7. /\ \A g \in Fds : ongoing'[g] # {} => handle[g] # NoTag
        /\ \A g \in Fds : interest'[g] # {} => watch[g] # NoTag
    BY Zenon DEF ReactorInv, Consistent, HandlesHold
  <1>8. QED
    BY <1>5, <1>6, <1>7, SameRegistrationStep, Zenon

LEMMA RemoveMonitoredEventStep ==
  ASSUME ReactorInv, NEW f \in Fds, RemoveMonitoredEvent(f)
  PROVE  ReactorInv'
  <1>1. PICK t \in Tags : handle[f] = t
    BY Zenon DEF RemoveMonitoredEvent, ReactorInv, TypeOK
  <1>2. PICK events \in SUBSET Directions : events = operations_[t].monitored_events_ \ {"read"}
    BY Zenon DEF ReactorInv, TypeOK
  <1>3. Monitors(t, events)
    BY <1>1, <1>2, Zenon DEF RemoveMonitoredEvent, Monitors
  <1>4. QED
    BY <1>3, MonitoredStep, Zenon DEF RemoveMonitoredEvent, ReactorInv, TypeOK

-----------------------------------------------------------------------------
(* HandleEvents(). *)

LEMMA WaitForEventsStep ==
  ASSUME ReactorInv, WaitForEvents
  PROVE  ReactorInv'
  <1>1. epoll_events_' \subseteq [tag : Tags, events : SUBSET Directions]
    <2>1. \A f \in Reported : watch[f] \in Tags /\ ready[f] \cap interest[f] \in SUBSET Directions
      BY DEF Reported, ReactorInv, Consistent, TypeOK, HandlesHold
    <2>2. QED
      BY <2>1 DEF WaitForEvents
  <1>2. TypeOK'
    BY <1>1, Zenon DEF ReactorInv, TypeOK, WaitForEvents
  <1>3. \A t \in Tags : SameRegistration(operations_[t], operations_'[t])
    BY Zenon DEF WaitForEvents, SameRegistration
  <1>4. QED
    BY <1>2, <1>3, SameRegistrationStep, Zenon DEF WaitForEvents, ReactorInv, Consistent, HandlesHold

(* An event of an entry that was deregistered, or given to another         *)
(* descriptor, since the wait does not disturb the table.                  *)
LEMMA HandleSingleEventStep ==
  ASSUME ReactorInv, NEW ev \in epoll_events_, HandleSingleEvent(ev)
  PROVE  ReactorInv'
  <1> DEFINE t == ev.tag
             o == operations_[t]
             post == Wanted(o, ev.events)
             n == Captured(o, ev.events, post)
             pushed == IF post THEN op_queue \cup {t} ELSE op_queue
  <1>1. t \in Tags /\ ev.events \in SUBSET Directions /\ o \in OperationEntry
    BY Zenon DEF ReactorInv, TypeOK
  <1>2. post \in BOOLEAN /\ (post => o.valid_ /\ ~o.handler_posted_)
    BY <1>1, Zenon DEF Wanted
  <1>3. /\ n \in OperationEntry /\ n.handler_posted_ = (o.handler_posted_ \/ post)
        /\ n.io_source_ = o.io_source_ /\ n.handler_ = o.handler_ /\ n.valid_ = o.valid_
        /\ n.execution_in_progress_ = o.execution_in_progress_
        /\ n.release_handler_memory_ = o.release_handler_memory_
        /\ n.close_io_source_ = o.close_io_source_
    <2> HIDE DEF o, post
    <2>1. QED
      BY <1>1, <1>2, Zenon DEF Captured
  <1>4. operations_' = [operations_ EXCEPT ![t] = n]
    BY Zenon DEF HandleSingleEvent
  <1>5. /\ epoll_events_' \subseteq epoll_events_
        /\ \/ op_queue' = {} /\ queue' = queue \cup pushed
           \/ op_queue' = pushed /\ queue' = queue
        /\ UNCHANGED <<used_operations_end_, reg, wake, handler, object, kernel>>
    BY Zenon DEF HandleSingleEvent
  <1>6. post => t \notin queue /\ t \notin op_queue /\ run[t] = "idle" /\ ~(Registering /\ reg.tag = t)
    BY <1>1, <1>2, Zenon DEF ReactorInv, Consistent, OneOperationPerEntry, Outstanding, RegistrationHolds
  <1> HIDE DEF n, post, t
  <1>7. TypeOK'
    <2>1. operations_' \in [Tags -> OperationEntry]
      BY <1>1, <1>3, <1>4, EntryType, Zenon DEF ReactorInv, TypeOK
    <2>2. op_queue' \subseteq Tags /\ queue' \subseteq Tags
      BY <1>1, <1>5 DEF ReactorInv, TypeOK
    <2>3. epoll_events_' \subseteq [tag : Tags, events : SUBSET Directions]
      BY <1>5, Zenon DEF ReactorInv, TypeOK
    <2>4. QED
      BY <1>5, <2>1, <2>2, <2>3, Zenon DEF ReactorInv, TypeOK
  <1>8. OneOperationPerEntry'
    BY <1>1, <1>3, <1>4, <1>5, <1>6 DEF ReactorInv, Consistent, TypeOK, OneOperationPerEntry,
       Outstanding
  <1>9. DescriptorsAlive' /\ CleanedUp'
    BY <1>1, <1>3, <1>4, <1>5 DEF ReactorInv, Consistent, TypeOK, DescriptorsAlive, CleanedUp
  <1>10. UnusedBeyondEnd' /\ RegistrationHolds'
    BY <1>1, <1>2, <1>3, <1>4, <1>5 DEF ReactorInv, Consistent, TypeOK, UnusedBeyondEnd,
       RegistrationHolds
  <1>11. HandlesHold' /\ ClosingHolds'
    BY <1>1, <1>3, <1>4, <1>5 DEF ReactorInv, Consistent, TypeOK, HandlesHold, ClosingHolds, Closing
  <1>12. QED
    BY <1>7, <1>8, <1>9, <1>10, <1>11, Zenon DEF ReactorInv, Consistent

LEMMA HandleUnblockStep ==
  ASSUME ReactorInv, HandleUnblock
  PROVE  ReactorInv'
  <1>1. TypeOK'
    <2>1. wake' \in BOOLEAN /\ unblock_fd_' \in BOOLEAN
      BY Zenon DEF HandleUnblock
    <2>2. QED
      BY <2>1, Zenon DEF ReactorInv, TypeOK, HandleUnblock
  <1>2. OneOperationPerEntry'
    BY Zenon DEF ReactorInv, Consistent, OneOperationPerEntry, Outstanding, HandleUnblock
  <1>3. /\ DescriptorsAlive' /\ CleanedUp' /\ UnusedBeyondEnd' /\ RegistrationHolds' /\ HandlesHold'
        /\ ClosingHolds'
    BY DEF ReactorInv, Consistent, DescriptorsAlive, CleanedUp, UnusedBeyondEnd, RegistrationHolds,
       HandlesHold, ClosingHolds, Closing, HandleUnblock
  <1>4. QED
    BY <1>1, <1>2, <1>3, Zenon DEF ReactorInv, Consistent

-----------------------------------------------------------------------------
(* The posted operation. *)

LEMMA SkipDeregisteredStep ==
  ASSUME ReactorInv, NEW t \in Tags, SkipDeregistered(t)
  PROVE  ReactorInv'
  <1>1. jobs' \in [Tags -> -JobBound..JobBound]
    BY AddType, Zenon DEF SkipDeregistered, ReactorInv, TypeOK
  <1>2. TypeOK'
    BY <1>1, Zenon DEF SkipDeregistered, Execute, ReactorInv, TypeOK
  <1>3. /\ queue' \subseteq queue
        /\ UNCHANGED <<entries, op_queue, run, handle, ongoing, open, watch, interest>>
    BY Zenon DEF SkipDeregistered, Execute
  <1>4. OneOperationPerEntry'
    BY <1>3, Zenon DEF ReactorInv, Consistent, OneOperationPerEntry, Outstanding
  <1>5. DescriptorsAlive' /\ CleanedUp' /\ UnusedBeyondEnd'
    <2>1. DescriptorsAlive' /\ CleanedUp'
      BY <1>3 DEF ReactorInv, Consistent, DescriptorsAlive, CleanedUp
    <2>2. UnusedBeyondEnd'
      BY <1>3, Zenon DEF ReactorInv, Consistent, UnusedBeyondEnd
    <2>3. QED
      BY <2>1, <2>2, Zenon
  <1>6. RegistrationHolds' /\ HandlesHold' /\ ClosingHolds'
    BY <1>3, Zenon DEF ReactorInv, Consistent, RegistrationHolds, HandlesHold, ClosingHolds, Closing
  <1>7. QED
    BY <1>2, <1>4, <1>5, <1>6, Zenon DEF ReactorInv, Consistent

(* The cleanup left by Deregister() closes a descriptor that no other      *)
(* entry has.                                                              *)
LEMMA LeaveStep ==
  ASSUME ReactorInv, NEW t \in Tags, Leave(t),
         operations_[t].valid_ \/ operations_[t].execution_in_progress_,
         t \notin op_queue, t \notin queue', queue' \subseteq queue, run' = [run EXCEPT ![t] = "idle"],
         UNCHANGED <<used_operations_end_, reg, epoll_events_, wake, op_queue, report,
                     handle, ongoing, watch, interest, ready, edge, unblock_fd_>>
  PROVE  ReactorInv'
  <1> DEFINE o == operations_[t]
             n == Left(o)
  <1>1. o \in OperationEntry
    BY Zenon DEF ReactorInv, TypeOK
  <1>2. /\ n \in OperationEntry /\ n.io_source_ = o.io_source_ /\ n.valid_ = o.valid_
        /\ ~n.execution_in_progress_ /\ ~n.release_handler_memory_ /\ ~n.close_io_source_
        /\ ~n.handler_posted_
        /\ n.handler_ = IF o.release_handler_memory_ THEN NoFd ELSE o.handler_
    <2> HIDE DEF o
    <2>1. QED
      BY <1>1, Zenon DEF Left
  <1>3. operations_' = [operations_ EXCEPT ![t] = n]
    BY Zenon DEF Leave
  <1>4. /\ o.valid_ => ~o.close_io_source_ /\ ~o.release_handler_memory_
        /\ ~o.valid_ => o.close_io_source_ /\ o.release_handler_memory_
    BY Zenon DEF ReactorInv, Consistent, CleanedUp
  <1>5. open' = IF o.valid_ THEN open ELSE open \ {o.io_source_}
    BY <1>4, Zenon DEF Leave
  <1>6. ~o.valid_ => \A u \in Tags :
            u # t /\ (operations_[u].valid_ \/ operations_[u].execution_in_progress_)
            => operations_[u].io_source_ # o.io_source_
    <2>1. SUFFICES ASSUME ~o.valid_, NEW u \in Tags, u # t,
                          operations_[u].valid_ \/ operations_[u].execution_in_progress_,
                          operations_[u].io_source_ = o.io_source_
                   PROVE  FALSE
      BY Zenon
    <2>2. Closing(t)
      BY <2>1, Zenon DEF Closing
    <2>3. ~Closing(u) /\ handle[o.io_source_] = NoTag
      BY <2>1, <2>2, Zenon DEF ReactorInv, Consistent, ClosingHolds
    <2>4. operations_[u].valid_
      BY <2>1, <2>3, Zenon DEF Closing
    <2>5. handle[operations_[u].io_source_] = u
      BY <2>4, Zenon DEF ReactorInv, Consistent, DescriptorsAlive
    <2>6. QED
      BY <2>1, <2>3, <2>5, NoTagIsNoTag, Zenon
  <1>7. ~o.valid_ /\ Registering => reg.fd # o.io_source_
    BY Zenon DEF ReactorInv, Consistent, ClosingHolds, Closing
  <1>8. jobs' \in [Tags -> -JobBound..JobBound]
    BY AddType, Zenon DEF Leave, ReactorInv, TypeOK
  <1> HIDE DEF n
  <1>9. TypeOK'
    <2>1. operations_' \in [Tags -> OperationEntry]
      BY <1>2, <1>3, EntryType, Zenon DEF ReactorInv, TypeOK
    <2>2. QED
      BY <1>5, <1>8, <2>1, Zenon DEF ReactorInv, TypeOK
  <1>10. OneOperationPerEntry'
    BY <1>2, <1>3 DEF ReactorInv, Consistent, TypeOK, OneOperationPerEntry, Outstanding
  <1>11. DescriptorsAlive'
    BY <1>2, <1>3, <1>4, <1>5, <1>6 DEF ReactorInv, Consistent, TypeOK, DescriptorsAlive
  <1>12. CleanedUp'
    BY <1>2, <1>3, <1>4 DEF ReactorInv, Consistent, TypeOK, CleanedUp
  <1>13. UnusedBeyondEnd' /\ RegistrationHolds'
    BY <1>2, <1>3, <1>5, <1>7 DEF ReactorInv, Consistent, TypeOK, UnusedBeyondEnd, RegistrationHolds
  <1>14. HandlesHold' /\ ClosingHolds'
    BY <1>2, <1>3 DEF ReactorInv, Consistent, TypeOK, HandlesHold, ClosingHolds, Closing
  <1>15. QED
    BY <1>9, <1>10, <1>11, <1>12, <1>13, <1>14, Zenon DEF ReactorInv, Consistent

LEMMA SkipNothingToReportStep ==
  ASSUME ReactorInv, NEW t \in Tags, SkipNothingToReport(t)
  PROVE  ReactorInv'
  <1>1. t \notin op_queue /\ t \notin queue' /\ queue' \subseteq queue /\ run' = [run EXCEPT ![t] = "idle"]
    BY DEF SkipNothingToReport, Execute, ReactorInv, TypeOK, Consistent, OneOperationPerEntry
  <1>2. QED
    BY <1>1, LeaveStep, Zenon DEF SkipNothingToReport

LEMMA HandlerReturnsStep ==
  ASSUME ReactorInv, NEW t \in Tags, HandlerReturns(t)
  PROVE  ReactorInv'
  <1>1. operations_[t].execution_in_progress_ /\ t \notin op_queue /\ t \notin queue
    BY Zenon DEF HandlerReturns, ReactorInv, Consistent, OneOperationPerEntry
  <1>2. QED
    BY <1>1, LeaveStep, Zenon DEF HandlerReturns

LEMMA CallHandlerStep ==
  ASSUME ReactorInv, NEW t \in Tags, CallHandler(t)
  PROVE  ReactorInv'
  <1> DEFINE o == operations_[t]
             n == Executing(o, EventsToReport(t))
  <1>1. o \in OperationEntry /\ o.valid_ /\ ~o.execution_in_progress_ /\ o.handler_posted_
    BY Zenon DEF CallHandler, Execute, ReactorInv, TypeOK, Consistent, OneOperationPerEntry, Outstanding
  <1>2. /\ n \in OperationEntry /\ n.execution_in_progress_ /\ n.handler_posted_ /\ n.valid_
        /\ n.io_source_ = o.io_source_ /\ n.handler_ = o.handler_
        /\ n.release_handler_memory_ = o.release_handler_memory_
        /\ n.close_io_source_ = o.close_io_source_
    <2> HIDE DEF o
    <2>1. QED
      BY <1>1, Zenon DEF Executing
  <1>3. /\ operations_' = [operations_ EXCEPT ![t] = n]
        /\ queue' = queue \ {t} /\ run' = [run EXCEPT ![t] = "locked"]
        /\ UNCHANGED <<used_operations_end_, reg, epoll_events_, wake, op_queue, object, kernel>>
    BY Zenon DEF CallHandler, Execute
  <1>4. report' \in [Tags -> SUBSET Directions]
    BY Zenon DEF CallHandler, EventsToReport, ReactorInv, TypeOK
  <1>5. /\ ~(Registering /\ reg.tag = t) /\ t \notin op_queue
        /\ ~o.close_io_source_ /\ ~o.release_handler_memory_
    BY <1>1, Zenon DEF CallHandler, Execute, ReactorInv, Consistent, OneOperationPerEntry,
       Outstanding, CleanedUp
  <1> HIDE DEF n
  <1>6. TypeOK'
    <2>1. operations_' \in [Tags -> OperationEntry]
      BY <1>2, <1>3, EntryType, Zenon DEF ReactorInv, TypeOK
    <2>2. QED
      BY <1>3, <1>4, <2>1, Zenon DEF ReactorInv, TypeOK
  <1>7. OneOperationPerEntry'
    BY <1>2, <1>3, <1>5 DEF ReactorInv, Consistent, TypeOK, OneOperationPerEntry, Outstanding
  <1>8. DescriptorsAlive' /\ CleanedUp'
    BY <1>1, <1>2, <1>3, <1>5 DEF ReactorInv, Consistent, TypeOK, DescriptorsAlive, CleanedUp
  <1>9. UnusedBeyondEnd' /\ RegistrationHolds'
    BY <1>1, <1>2, <1>3, <1>5 DEF ReactorInv, Consistent, TypeOK, UnusedBeyondEnd, RegistrationHolds
  <1>10. HandlesHold' /\ ClosingHolds'
    BY <1>1, <1>2, <1>3 DEF ReactorInv, Consistent, TypeOK, HandlesHold, ClosingHolds, Closing
  <1>11. QED
    BY <1>6, <1>7, <1>8, <1>9, <1>10, Zenon DEF ReactorInv, Consistent

(* The object of an executing handler is there. *)
LEMMA ExecutingObject ==
  ASSUME ReactorInv, NEW t \in Tags, run[t] # "idle"
  PROVE  /\ operations_[t].handler_ \in Fds
         /\ ongoing[operations_[t].handler_] # {} => handle[operations_[t].handler_] = t
  <1>1. /\ operations_[t].execution_in_progress_ /\ operations_[t].handler_ = operations_[t].io_source_
        /\ operations_[t].handler_ \in Fds
    BY Zenon DEF ReactorInv, Consistent, TypeOK, OneOperationPerEntry, DescriptorsAlive
  <1>2. QED
    BY <1>1 DEF ReactorInv, Consistent, TypeOK, HandlesHold, ClosingHolds, Closing, DescriptorsAlive

(* The handler unlocks the entry to call the user's callback, and locks it *)
(* again.                                                                  *)
LEMMA UnlockStep ==
  ASSUME ReactorInv, NEW t \in Tags, run[t] # "idle", NEW at \in {"locked", "callback"},
         run' = [run EXCEPT ![t] = at], report' \in [Tags -> SUBSET Directions],
         ready' \in [Fds -> SUBSET Directions], ongoing' \in [Fds -> SUBSET Directions],
         \A g \in Fds : ongoing'[g] \subseteq ongoing[g],
         UNCHANGED <<entries, loop, handle, jobs, open, watch, interest, edge, unblock_fd_>>
  PROVE  ReactorInv'
  <1>1. /\ run \in [Tags -> {"idle", "locked", "callback"}] /\ run' \in [Tags -> {"idle", "locked", "callback"}]
        /\ \A u \in Tags : run'[u] = "idle" <=> run[u] = "idle"
    BY DEF ReactorInv, TypeOK
  <1>2. TypeOK'
    BY <1>1, Zenon DEF ReactorInv, TypeOK
  <1>3. OneOperationPerEntry'
    BY <1>1, Zenon DEF ReactorInv, Consistent, OneOperationPerEntry, Outstanding
  <1>4. DescriptorsAlive' /\ CleanedUp' /\ UnusedBeyondEnd'
    <2>1. DescriptorsAlive' /\ CleanedUp'
      BY DEF ReactorInv, Consistent, DescriptorsAlive, CleanedUp
    <2>2. UnusedBeyondEnd'
      BY Zenon DEF ReactorInv, Consistent, UnusedBeyondEnd
    <2>3. QED
      BY <2>1, <2>2, Zenon
  <1>5. RegistrationHolds' /\ ClosingHolds'
    BY Zenon DEF ReactorInv, Consistent, RegistrationHolds, ClosingHolds, Closing
  <1>6. HandlesHold'
    BY DEF ReactorInv, TypeOK, Consistent, HandlesHold
  <1>7. QED
    BY <1>2, <1>3, <1>4, <1>5, <1>6, Zenon DEF ReactorInv, Consistent

LEMMA CompleteStep ==
  ASSUME ReactorInv, NEW t \in Tags, NEW e \in Directions, Complete(t, e)
  PROVE  ReactorInv'
  <1> DEFINE f == operations_[t].handler_
  <1>1. f \in Fds
    BY ExecutingObject, Zenon DEF Complete, Reporting
  <1>2. /\ ongoing' = [ongoing EXCEPT ![f] = @ \ {e}] /\ run' = [run EXCEPT ![t] = "callback"]
        /\ run[t] = "locked" /\ report' = [report EXCEPT ![t] = @ \ {e}]
        /\ UNCHANGED <<entries, loop, handle, jobs, open, watch, interest, edge, unblock_fd_>>
    BY Zenon DEF Complete, Reporting
  <1>3. ready' \in [Fds -> SUBSET Directions]
    BY <1>1 DEF Complete, ReactorInv, TypeOK
  <1>4. /\ ongoing' \in [Fds -> SUBSET Directions] /\ \A g \in Fds : ongoing'[g] \subseteq ongoing[g]
        /\ report' \in [Tags -> SUBSET Directions]
    BY <1>1, <1>2 DEF ReactorInv, TypeOK
  <1>5. QED
    BY <1>2, <1>3, <1>4, UnlockStep, Zenon

LEMMA ContinueStep ==
  ASSUME ReactorInv, NEW t \in Tags, NEW e \in Directions, Continue(t, e)
  PROVE  ReactorInv'
  <1> DEFINE f == operations_[t].handler_
  <1>1. f \in Fds /\ handle[f] = t
    BY ExecutingObject, Zenon DEF Continue, Reporting
  <1>2. ready[f] \ {e} \in SUBSET Directions /\ OnStartOfOperation(f, t, e, ready[f] \ {e}, {})
    BY <1>1, Zenon DEF Continue, ReactorInv, TypeOK
  <1>3. ready' \in [Fds -> SUBSET Directions] /\ report' \in [Tags -> SUBSET Directions]
    BY <1>1, Zenon DEF Continue, Reporting, ReactorInv, TypeOK
  <1>4. /\ UNCHANGED <<used_operations_end_, reg, loop, run, handle, open, unblock_fd_>>
        /\ ongoing' = ongoing /\ ongoing \in [Fds -> SUBSET Directions]
    BY Zenon DEF Continue, ReactorInv, TypeOK
  <1> HIDE DEF f
  <1>5. QED
    BY <1>1, <1>2, <1>3, <1>4, OnStartOfOperationStep, Zenon

LEMMA OnEventIgnoredStep ==
  ASSUME ReactorInv, NEW t \in Tags, NEW e \in Directions, OnEventIgnored(t, e)
  PROVE  ReactorInv'
  <1>1. PICK events \in SUBSET Directions, same \in SUBSET Directions :
          events = operations_[t].monitored_events_ \cup {e} /\ same = operations_[t].monitored_events_
    <2>1. operations_[t].monitored_events_ \in SUBSET Directions
      BY Zenon DEF ReactorInv, TypeOK
    <2>2. QED
      BY <2>1, Zenon
  <1>2. Monitors(t, events) \/ Monitors(t, same)
    <2>1. operations_ = [operations_ EXCEPT ![t].monitored_events_ = same]
      BY <1>1, SMTT(30) DEF ReactorInv, TypeOK
    <2>2. QED
      BY <1>1, <2>1, Zenon DEF OnEventIgnored, Monitors
  <1>3. jobs' \in [Tags -> -JobBound..JobBound] /\ report' \in [Tags -> SUBSET Directions]
    <2>1. jobs' = Add(t, 1) \/ jobs' = jobs
      BY Zenon DEF OnEventIgnored
    <2>2. QED
      BY <2>1, AddType DEF OnEventIgnored, Reporting, ReactorInv, TypeOK
  <1>4. QED
    BY <1>2, <1>3, MonitoredStep, Zenon DEF OnEventIgnored, ReactorInv, TypeOK

LEMMA CallbackReturnsStep ==
  ASSUME ReactorInv, NEW t \in Tags, CallbackReturns(t)
  PROVE  ReactorInv'
  BY UnlockStep, Zenon DEF CallbackReturns, ReactorInv, TypeOK

-----------------------------------------------------------------------------
LEMMA ReactorNext == ReactorInv /\ [Next]_vars => ReactorInv'
  <1> SUFFICES ASSUME ReactorInv, [Next]_vars PROVE ReactorInv'
    BY Zenon
  <1>1. CASE UNCHANGED vars
    BY <1>1, KernelStep, Zenon DEF vars, ReactorInv, TypeOK
  <1>2. CASE Environment
    <2>1. CASE Unblock
      BY <2>1, UnblockStep, Zenon
    <2>2. ASSUME NEW f \in Fds,
                 \/ Open(f) \/ FindFreeOperationSlot(f) \/ CapacityExceeded(f) \/ Deregister(f)
                 \/ RemoveMonitoredEvent(f)
                 \/ \E events \in SUBSET Directions \ {{}} : BecomeReady(f, events)
                 \/ \E e \in Directions : CompleteAtOnce(f, e)
                 \/ \E e \in Directions, tried \in BOOLEAN : StartOperation(f, e, tried)
          PROVE  ReactorInv'
      BY Zenon, <2>2, OpenStep, BecomeReadyStep, CompleteAtOnceStep, FindFreeOperationSlotStep,
         CapacityExceededStep, DeregisterStep, RemoveMonitoredEventStep, StartOperationStep
    <2>3. QED
      BY <1>2, <2>1, <2>2, Zenon DEF Environment
  <1>3. CASE Register
    BY <1>3, EpollAddStep, EpollAddFailsStep, WriteEntryStep, Zenon DEF Register
  <1>4. CASE HandleEvents
    BY <1>4, WaitForEventsStep, HandleUnblockStep, HandleSingleEventStep, Zenon DEF HandleEvents
  <1>5. CASE \E t \in Tags : Operation(t)
    BY Zenon, <1>5, SkipDeregisteredStep, SkipNothingToReportStep, CallHandlerStep, CallbackReturnsStep,
       HandlerReturnsStep, CompleteStep, ContinueStep, OnEventIgnoredStep DEF Operation
  <1>6. QED
    BY <1>1, <1>2, <1>3, <1>4, <1>5, Zenon DEF Next

(* The table and everything that refers to it stay typed and consistent,   *)
(* whatever threads register, deregister, poll and execute handlers.       *)
THEOREM ReactorInvariant == Spec => []ReactorInv
  <1>1. QED
    BY ReactorInit, ReactorNext, PTL DEF Spec

(* At most one operation per entry is posted or executing, and its entry   *)
(* is not given away meanwhile: handler_posted_ and execution_in_progress_ *)
(* do what HandleSingleEvent() and FindFreeOperationSlot() use them for.   *)
THEOREM ReactorOneOperationPerEntry == Spec => []OneOperationPerEntry
  <1>1. ReactorInv => OneOperationPerEntry
    BY Zenon DEF ReactorInv, Consistent
  <1>2. QED
    BY <1>1, ReactorInvariant, PTL

(* No descriptor is closed, and no handler released, under a registered or *)
(* executing entry, and epoll reports each descriptor for its own entry.   *)
THEOREM ReactorDescriptorsAlive == Spec => []DescriptorsAlive
  <1>1. ReactorInv => DescriptorsAlive
    BY Zenon DEF ReactorInv, Consistent
  <1>2. QED
    BY <1>1, ReactorInvariant, PTL

(* What Deregister() does not release and close itself is left to the      *)
(* executing handler, which does it once.                                  *)
THEOREM ReactorCleanedUp == Spec => []CleanedUp
  <1>1. ReactorInv => CleanedUp
    BY Zenon DEF ReactorInv, Consistent
  <1>2. QED
    BY <1>1, ReactorInvariant, PTL

(* FindFreeOperationSlot() may stop at used_operations_end_.               *)
THEOREM ReactorUnusedBeyondEnd == Spec => []UnusedBeyondEnd
  <1>1. ReactorInv => UnusedBeyondEnd
    BY Zenon DEF ReactorInv, Consistent
  <1>2. QED
    BY <1>1, ReactorInvariant, PTL
=============================================================================

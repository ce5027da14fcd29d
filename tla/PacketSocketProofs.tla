------------------------- MODULE PacketSocketProofs -------------------------
(***************************************************************************)
(* Proofs about PacketSocket, for a ring of any size and any number of     *)
(* threads, as long as receives are started one at a time (Patient) and    *)
(* only a socket without a reactor is polled.                              *)
(*                                                                         *)
(* First the ring and the socket, given what the socket needs to know of   *)
(* the reactor; then that is taken from EpollReactorProofs.                *)
(***************************************************************************)
EXTENDS PacketSocket, TLAPS

-----------------------------------------------------------------------------
(* The ring.  Positions modulo BlockNum are written without the modulus:   *)
(* the block n steps ahead of o, and how far b is ahead of o.              *)
InStep(o, k, status) == \E n \in 0..BlockNum :
    /\ k = (o + n) % BlockNum
    /\ {b \in Blocks : status[b]} = {(o + i) % BlockNum : i \in 0..(n - 1)}

Ahead(o, n) == IF o + n < BlockNum THEN o + n ELSE (o + n) - BlockNum
Distance(o, b) == IF o <= b THEN b - o ELSE (b + BlockNum) - o
UpTo(o, k, status, n) == /\ k = Ahead(o, n)
                         /\ \A b \in Blocks : status[b] <=> Distance(o, b) < n

LEMMA Wraps ==
  ASSUME NEW o \in Blocks, NEW n \in 0..BlockNum
  PROVE  (o + n) % BlockNum = Ahead(o, n) /\ Ahead(o, n) \in Blocks
  <1>1. PICK m \in Nat \ {0, 1} : m = BlockNum
    BY PacketAssumption, Zenon
  <1>2. PICK a \in Int : a = o + n
    BY <1>1 DEF Blocks
  <1>3. a \in 0..(2 * m - 1) /\ o \in 0..(m - 1) /\ n \in 0..m
    BY <1>1, <1>2 DEF Blocks
  <1>4. a = m * (a \div m) + (a % m) /\ a \div m \in Int /\ a % m \in 0..(m - 1)
    BY Z3
  <1>5. PICK d \in Int : d = a \div m
    BY <1>4, Zenon
  <1>6. (d >= 2 => m * d >= 2 * m) /\ (d <= -1 => m * d <= -m)
    BY Z3
  <1>7. d = 0 \/ d = 1
    BY <1>3, <1>4, <1>5, <1>6, Z3
  <1>8. a % m = IF a < m THEN a ELSE a - m
    BY <1>3, <1>4, <1>5, <1>7, Z3
  <1>9. (o + n) % BlockNum = Ahead(o, n)
    BY <1>1, <1>2, <1>8, Zenon DEF Ahead
  <1>10. QED
    BY <1>1, <1>3, <1>9 DEF Ahead, Blocks

LEMMA Shown ==
  ASSUME NEW o \in Blocks, NEW n \in 0..BlockNum
  PROVE  {(o + i) % BlockNum : i \in 0..(n - 1)} = {b \in Blocks : Distance(o, b) < n}
  <1>0. BlockNum \in Nat \ {0, 1} /\ o \in 0..(BlockNum - 1) /\ n \in 0..BlockNum
    BY PacketAssumption DEF Blocks
  <1>1. ASSUME NEW i \in 0..(n - 1)
        PROVE  (o + i) % BlockNum \in Blocks /\ Distance(o, (o + i) % BlockNum) < n
    <2>1. i \in 0..BlockNum
      BY <1>0
    <2>2. (o + i) % BlockNum = Ahead(o, i) /\ Ahead(o, i) \in Blocks
      BY <2>1, Wraps, Zenon
    <2>3. Distance(o, Ahead(o, i)) < n
      BY <1>0, <1>1 DEF Distance, Ahead
    <2>4. QED
      BY <2>2, <2>3, Zenon
  <1>2. ASSUME NEW b \in Blocks, Distance(o, b) < n
        PROVE  \E i \in 0..(n - 1) : b = (o + i) % BlockNum
    <2>1. b \in 0..(BlockNum - 1)
      BY Zenon DEF Blocks
    <2>2. Distance(o, b) \in 0..(n - 1) /\ Ahead(o, Distance(o, b)) = b
      BY <1>0, <1>2, <2>1 DEF Distance, Ahead
    <2>3. Distance(o, b) \in 0..BlockNum
      BY <1>0, <2>2
    <2>4. b = (o + Distance(o, b)) % BlockNum
      BY <2>2, <2>3, Wraps, Zenon
    <2>5. QED
      BY <2>2, <2>4, Zenon
  <1>3. QED
    BY <1>1, <1>2, Zenon

LEMMA InStepUpTo ==
  ASSUME NEW o \in Blocks, NEW k \in Blocks, NEW s \in [Blocks -> BOOLEAN]
  PROVE  InStep(o, k, s) <=> \E n \in 0..BlockNum : UpTo(o, k, s, n)
  <1>1. ASSUME NEW n \in 0..BlockNum
        PROVE  /\ (o + n) % BlockNum = Ahead(o, n)
               /\ {b \in Blocks : s[b]} = {(o + i) % BlockNum : i \in 0..(n - 1)}
                  <=> \A b \in Blocks : s[b] <=> Distance(o, b) < n
    <2>1. {(o + i) % BlockNum : i \in 0..(n - 1)} = {b \in Blocks : Distance(o, b) < n}
      BY Shown, Zenon
    <2>2. {b \in Blocks : s[b]} = {b \in Blocks : Distance(o, b) < n}
          <=> \A b \in Blocks : s[b] <=> Distance(o, b) < n
      OBVIOUS
    <2>3. (o + n) % BlockNum = Ahead(o, n)
      BY Wraps, Zenon
    <2>4. QED
      BY <2>1, <2>2, <2>3, Zenon
  <1>2. QED
    BY <1>1, Zenon DEF InStep, UpTo

(* An empty ring. *)
LEMMA RingStarts == InStep(0, 0, [b \in Blocks |-> FALSE])
  <1>1. 0 \in Blocks /\ 0 \in 0..BlockNum
    BY PacketAssumption DEF Blocks
  <1>2. UpTo(0, 0, [b \in Blocks |-> FALSE], 0)
    BY PacketAssumption DEF UpTo, Ahead, Distance, Blocks
  <1>3. [b \in Blocks |-> FALSE] \in [Blocks -> BOOLEAN]
    OBVIOUS
  <1>4. QED
    BY <1>1, <1>2, <1>3, InStepUpTo, Zenon

(* The kernel fills the block it is at. *)
LEMMA RingFills ==
  ASSUME NEW o \in Blocks, NEW k \in Blocks, NEW s \in [Blocks -> BOOLEAN], InStep(o, k, s), ~s[k],
         NEW t, t = [s EXCEPT ![k] = TRUE], NEW l, l = (k + 1) % BlockNum
  PROVE  l \in Blocks /\ InStep(o, l, t)
  <1>0. BlockNum \in Nat \ {0, 1} /\ o \in 0..(BlockNum - 1) /\ k \in 0..(BlockNum - 1)
    BY PacketAssumption DEF Blocks
  <1>1. PICK n \in 0..BlockNum : UpTo(o, k, s, n)
    BY InStepUpTo, Zenon
  <1>2. l = Ahead(k, 1) /\ l \in Blocks
    <2>1. 1 \in 0..BlockNum
      BY <1>0
    <2>2. QED
      BY <2>1, Wraps, Zenon
  <1>3. n < BlockNum
    <2>1. ~(Distance(o, k) < n)
      BY <1>1, Zenon DEF UpTo
    <2>2. Distance(o, k) < BlockNum
      BY <1>0 DEF Distance
    <2>3. Distance(o, k) \in Int
      BY <1>0 DEF Distance
    <2>4. QED
      BY <1>0, <2>1, <2>2, <2>3
  <1>4. l = Ahead(o, n + 1)
    BY <1>0, <1>1, <1>2, <1>3 DEF UpTo, Ahead
  <1>5. \A b \in Blocks : t[b] <=> Distance(o, b) < n + 1
    <2>1. SUFFICES ASSUME NEW b \in Blocks PROVE t[b] <=> Distance(o, b) < n + 1
      OBVIOUS
    <2>2. b \in 0..(BlockNum - 1)
      BY Zenon DEF Blocks
    <2>3. s[b] <=> Distance(o, b) < n
      BY <1>1, Zenon DEF UpTo
    <2>4. b = k <=> Distance(o, b) = n
      BY <1>0, <1>1, <1>3, <2>2 DEF UpTo, Ahead, Distance
    <2>5. t[b] <=> (b = k \/ s[b])
      OBVIOUS
    <2>6. Distance(o, b) \in Int
      BY <1>0, <2>2 DEF Distance
    <2>7. Distance(o, b) < n + 1 <=> (Distance(o, b) = n \/ Distance(o, b) < n)
      BY <2>6
    <2>8. QED
      BY <2>3, <2>4, <2>5, <2>7, Zenon
  <1>6. n + 1 \in 0..BlockNum /\ t \in [Blocks -> BOOLEAN]
    BY <1>0, <1>3
  <1>7. QED
    BY <1>2, <1>4, <1>5, <1>6, InStepUpTo, Zenon DEF UpTo

(* The oldest block of the user is handed back. *)
LEMMA RingConsumed ==
  ASSUME NEW o \in Blocks, NEW k \in Blocks, NEW s \in [Blocks -> BOOLEAN], InStep(o, k, s), s[o],
         NEW t, t = [s EXCEPT ![o] = FALSE], NEW p, p = (o + 1) % BlockNum
  PROVE  p \in Blocks /\ p # o /\ InStep(p, k, t)
  <1>0. BlockNum \in Nat \ {0, 1} /\ o \in 0..(BlockNum - 1) /\ k \in 0..(BlockNum - 1)
    BY PacketAssumption DEF Blocks
  <1>1. PICK n \in 0..BlockNum : UpTo(o, k, s, n)
    BY InStepUpTo, Zenon
  <1>2. p = Ahead(o, 1) /\ p \in Blocks
    <2>1. 1 \in 0..BlockNum
      BY <1>0
    <2>2. QED
      BY <2>1, Wraps, Zenon
  <1>3. n > 0
    <2>1. Distance(o, o) < n
      BY <1>1, Zenon DEF UpTo
    <2>2. QED
      BY <1>0, <2>1 DEF Distance
  <1>4. k = Ahead(p, n - 1) /\ p # o
    BY <1>0, <1>1, <1>2, <1>3 DEF UpTo, Ahead
  <1>5. \A b \in Blocks : t[b] <=> Distance(p, b) < n - 1
    <2>1. SUFFICES ASSUME NEW b \in Blocks PROVE t[b] <=> Distance(p, b) < n - 1
      OBVIOUS
    <2>2. b \in 0..(BlockNum - 1)
      BY Zenon DEF Blocks
    <2>3. s[b] <=> Distance(o, b) < n
      BY <1>1, Zenon DEF UpTo
    <2>4. Distance(p, b) < n - 1 <=> (b # o /\ Distance(o, b) < n)
      BY <1>0, <1>2, <2>2 DEF Ahead, Distance
    <2>5. t[b] <=> (b # o /\ s[b])
      OBVIOUS
    <2>6. QED
      BY <2>3, <2>4, <2>5, Zenon
  <1>6. n - 1 \in 0..BlockNum /\ t \in [Blocks -> BOOLEAN]
    BY <1>0, <1>3
  <1>7. QED
    BY <1>2, <1>4, <1>5, <1>6, InStepUpTo, Zenon DEF UpTo

-----------------------------------------------------------------------------
(* The socket.                                                             *)
PacketTypes ==
    /\ state \in {"closed", "registering", "open", "bound"} /\ polling \in {"no", "waiting", "handling"}
    /\ reactive \in BOOLEAN /\ packet_mmap_mode_ \in BOOLEAN /\ recv_ongoing_ \in BOOLEAN
    /\ packet_mmap_block_read_pending_ \in BOOLEAN /\ block_status \in [Blocks -> BOOLEAN]
    /\ current_block_index_ \in Blocks /\ kernel_index \in Blocks /\ held \in Blocks \cup {NoBlock}
    /\ posted \subseteq Blocks /\ reading \subseteq Blocks

Usable == state \in {"open", "bound"}

(* Close() and Open() leave a socket that starts at the kernel's first     *)
(* block.                                                                  *)
StartsAfresh ==
    /\ ~Usable => /\ ~packet_mmap_mode_ /\ current_block_index_ = 0 /\ ~recv_ongoing_
                  /\ held = NoBlock /\ polling = "no"
    /\ state = "registering" => /\ kernel_index = 0 /\ block_status = [b \in Blocks |-> FALSE]
                                /\ posted = {} /\ reading = {} /\ ~packet_mmap_block_read_pending_

(* Only the reactor's handler announces and posts blocks, only a socket    *)
(* without a reactor is polled.                                            *)
OneWayToReceive ==
    /\ ~reactive => posted = {} /\ held = NoBlock /\ ~packet_mmap_block_read_pending_
    /\ polling # "no" => ~reactive /\ packet_mmap_mode_
    /\ polling = "handling" => block_status[current_block_index_]

(* The current block is the one that is pending or posted, and a receive   *)
(* in progress means there is none.                                        *)
PendingIsCurrent == Usable =>
    /\ posted \subseteq {current_block_index_}
    /\ recv_ongoing_ /\ reactive => posted = {} /\ ~packet_mmap_block_read_pending_
    /\ packet_mmap_block_read_pending_ => packet_mmap_mode_ /\ block_status[current_block_index_]

(* The block to be consumed is the one before the current block, and the   *)
(* callback that was given it executes on the socket's entry.              *)
HeldByCallback == held # NoBlock =>
    /\ reactive /\ packet_mmap_mode_ /\ current_block_index_ = (held + 1) % BlockNum
    /\ block_status[held] /\ run[handle[Fd]] = "callback"

(* The socket is registered while it is usable and has a reactor, and only *)
(* its own entry executes.                                                 *)
Attached ==
    /\ Fd \in open <=> state # "closed"
    /\ R!Registering => state = "registering" /\ reactive
    /\ handle[Fd] # -1 => reactive /\ state # "closed"
    /\ Usable /\ reactive => handle[Fd] # -1
    /\ \A t \in R!Tags : run[t] # "idle" => handle[Fd] = t

SocketInv ==
    /\ PacketTypes /\ StartsAfresh /\ OneWayToReceive /\ PendingIsCurrent /\ HeldByCallback /\ Attached
    /\ BlocksOwned /\ RingInStep

(* What the socket needs to know of the reactor. *)
ReactorTypes ==
    /\ operations_ \in [R!Tags -> R!OperationEntry] /\ open \subseteq {Fd}
    /\ run \in [R!Tags -> {"idle", "locked", "callback"}] /\ report \in [R!Tags -> SUBSET {"read"}]
    /\ handle \in [{Fd} -> R!Tags \cup {-1}]

OwnEntry ==
    /\ handle[Fd] # -1 => operations_[handle[Fd]].valid_
    /\ R!Registering => reg.fd = Fd /\ reg.tag \in R!Tags /\ handle[Fd] = -1
    /\ \A t \in R!Tags : /\ operations_[t].valid_ => handle[Fd] = t /\ ~operations_[t].close_io_source_
                         /\ run[t] # "idle" <=> operations_[t].execution_in_progress_

PacketInv == ReactorTypes /\ OwnEntry /\ SocketInv

ReactorStep ==
    \/ reactive /\ (R!FindFreeOperationSlot(Fd) \/ R!EpollAdd \/ R!WriteEntry)
    \/ R!WaitForEvents \/ \E ev \in epoll_events_ : R!HandleSingleEvent(ev)
    \/ \E t \in R!Tags : R!SkipDeregistered(t) \/ R!CallHandler(t) \/ R!HandlerReturns(t)

LEMMA SameSocket ==
  ASSUME SocketInv, UNCHANGED socket, Attached', HeldByCallback'
  PROVE  SocketInv'
  <1>1. PacketTypes' /\ StartsAfresh'
    BY Zenon DEF SocketInv, socket, receive, ring, calls, PacketTypes, StartsAfresh, Usable
  <1>2. OneWayToReceive' /\ PendingIsCurrent'
    BY Zenon DEF SocketInv, socket, receive, ring, calls, OneWayToReceive, PendingIsCurrent, Usable
  <1>3. BlocksOwned' /\ RingInStep'
    BY Zenon DEF SocketInv, socket, receive, ring, calls, BlocksOwned, RingInStep, Oldest
  <1>4. QED
    BY <1>1, <1>2, <1>3, Zenon DEF SocketInv

LEMMA SameAttached ==
  ASSUME Attached, UNCHANGED <<run, handle, open, reg, state, reactive>>
  PROVE  Attached'
  BY Zenon DEF Attached, R!Registering, R!NotRegistering, Usable

LEMMA SameHeld ==
  ASSUME HeldByCallback,
         UNCHANGED <<run, handle, held, reactive, packet_mmap_mode_, current_block_index_, block_status>>
  PROVE  HeldByCallback'
  BY Zenon DEF HeldByCallback

(* The reactor's own steps: the entry that starts or ends to execute is    *)
(* the socket's, and it has no block to be consumed.                       *)
LEMMA PacketReactorStep ==
  ASSUME PacketInv, UNCHANGED socket, ReactorStep
  PROVE  SocketInv'
  <1> USE DEF R!entries, R!loop, R!handler, R!object, R!kernel
  <1>0. /\ UNCHANGED <<held, reactive, packet_mmap_mode_, current_block_index_, state, block_status>>
        /\ SocketInv /\ Attached /\ HeldByCallback
        /\ run \in [R!Tags -> {"idle", "locked", "callback"}] /\ handle \in [{Fd} -> R!Tags \cup {-1}]
    BY Zenon DEF PacketInv, SocketInv, ReactorTypes, socket, receive, ring, calls
  <1>1. ASSUME UNCHANGED <<run, handle, open, reg>> PROVE SocketInv'
    BY <1>0, <1>1, SameSocket, SameAttached, SameHeld, Zenon
  <1>2. ASSUME R!WaitForEvents \/ (\E ev \in epoll_events_ : R!HandleSingleEvent(ev))
               \/ \E t \in R!Tags : R!SkipDeregistered(t)
        PROVE  SocketInv'
    BY <1>1, <1>2, Zenon DEF R!WaitForEvents, R!HandleSingleEvent, R!SkipDeregistered
  <1>3. CASE reactive /\ R!FindFreeOperationSlot(Fd)
    <2>1. UNCHANGED <<run, handle, open>> /\ Fd \in open /\ handle[Fd] = -1
      BY <1>3, Zenon DEF R!FindFreeOperationSlot, R!NoTag
    <2>2. state = "registering"
      BY <1>0, <1>3, <2>1, Zenon DEF Attached, Usable, SocketInv, PacketTypes
    <2>3. Attached'
      BY <1>0, <1>3, <2>1, <2>2, Zenon DEF Attached, Usable
    <2>4. QED
      BY <1>0, <2>1, <2>3, SameSocket, SameHeld, Zenon
  <1>4. CASE R!EpollAdd
    <2>1. UNCHANGED <<run, handle, open>> /\ R!Registering
      BY <1>4, Zenon DEF R!EpollAdd
    <2>2. Attached'
      BY <1>0, <2>1, Zenon DEF Attached, Usable
    <2>3. QED
      BY <1>0, <2>1, <2>2, SameSocket, SameHeld, Zenon
  <1>5. CASE R!WriteEntry
    <2>1. /\ UNCHANGED <<run, open>> /\ handle' = [handle EXCEPT ![Fd] = reg.tag] /\ ~R!Registering'
          /\ state = "registering" /\ reactive /\ handle[Fd] = -1 /\ -1 \notin R!Tags
      <3>1. R!Registering /\ reg' = R!NotRegistering /\ UNCHANGED <<run, open>>
            /\ handle' = [handle EXCEPT ![reg.fd] = reg.tag]
        BY <1>5, Zenon DEF R!WriteEntry
      <3>2. -1 \notin R!Tags
        BY PacketAssumption DEF R!Tags
      <3>3. QED
        BY <1>0, <3>1, <3>2, Zenon DEF PacketInv, OwnEntry, Attached, R!Registering, R!NotRegistering
    <2>2. \A t \in R!Tags : run[t] = "idle"
      BY <1>0, <2>1, Zenon DEF Attached
    <2>3. Attached'
      BY <1>0, <2>1, <2>2 DEF Attached, Usable
    <2>4. held = NoBlock
      BY <2>1 DEF PacketInv, SocketInv, StartsAfresh, Usable
    <2>5. QED
      BY <1>0, <2>3, <2>4, SameSocket, Zenon DEF HeldByCallback
  <1>6. ASSUME NEW t \in R!Tags, R!CallHandler(t) PROVE SocketInv'
    <2>1. /\ UNCHANGED <<handle, open, reg>> /\ run' = [run EXCEPT ![t] = "locked"]
          /\ run[t] = "idle" /\ operations_[t].valid_
      BY <1>6, Zenon DEF R!CallHandler, R!Execute
    <2>2. handle[Fd] = t
      BY <2>1, Zenon DEF PacketInv, OwnEntry
    <2>3. Attached'
      BY <1>0, <2>1, <2>2, Zenon DEF Attached, Usable, R!Registering, R!NotRegistering
    <2>4. held = NoBlock
      BY <1>0, <2>1, <2>2 DEF HeldByCallback
    <2>5. QED
      BY <1>0, <2>3, <2>4, SameSocket, Zenon DEF HeldByCallback
  <1>7. ASSUME NEW t \in R!Tags, R!HandlerReturns(t) PROVE SocketInv'
    <2>1. /\ UNCHANGED <<handle, reg>> /\ run' = [run EXCEPT ![t] = "idle"] /\ run[t] = "locked"
          /\ open' = IF operations_[t].close_io_source_ THEN open \ {operations_[t].io_source_} ELSE open
      BY <1>7, Zenon DEF R!HandlerReturns, R!Leave
    <2>2. handle[Fd] = t /\ handle[Fd] # -1
      <3>1. -1 \notin R!Tags
        BY PacketAssumption DEF R!Tags
      <3>2. handle[Fd] = t
        BY <1>0, <2>1 DEF Attached
      <3>3. QED
        BY <3>1, <3>2, Zenon
    <2>3. open' = open
      BY <2>1, <2>2, Zenon DEF PacketInv, OwnEntry
    <2>4. Attached'
      BY <1>0, <2>1, <2>2, <2>3, Zenon DEF Attached, Usable, R!Registering, R!NotRegistering
    <2>5. held = NoBlock
      BY <1>0, <2>1, <2>2 DEF HeldByCallback
    <2>6. QED
      BY <1>0, <2>4, <2>5, SameSocket, Zenon DEF HeldByCallback
  <1>8. QED
    BY <1>2, <1>3, <1>4, <1>5, <1>6, <1>7, Zenon DEF ReactorStep

(* Steps that leave the socket and the entry's handler alone. *)
LEMMA PacketKept ==
  ASSUME SocketInv, UNCHANGED socket, UNCHANGED <<run, handle, open, reg>>
  PROVE  SocketInv'
  <1>1. Attached' /\ HeldByCallback'
    BY SameAttached, SameHeld, Zenon DEF SocketInv, socket, receive, ring, calls
  <1>2. QED
    BY <1>1, SameSocket, Zenon

-----------------------------------------------------------------------------
(* Open(), bind() and Close().                                             *)
LEMMA PacketOpen ==
  ASSUME PacketInv, NEW given \in BOOLEAN, OpenSocket(given)
  PROVE  SocketInv'
  <1>1. /\ state = "closed" /\ posted = {} /\ reading = {} /\ held = NoBlock
        /\ state' = "registering" /\ reactive' = given /\ open' = open \cup {Fd}
        /\ ~packet_mmap_block_read_pending_' /\ block_status' = [b \in Blocks |-> FALSE]
        /\ kernel_index' = 0
        /\ UNCHANGED <<run, handle, reg, packet_mmap_mode_, recv_ongoing_, current_block_index_, calls>>
    BY Zenon DEF OpenSocket
  <1>2. /\ ~packet_mmap_mode_ /\ current_block_index_ = 0 /\ ~recv_ongoing_ /\ polling = "no"
        /\ packet_mmap_block_read_pending_' = FALSE
    BY <1>1 DEF PacketInv, SocketInv, StartsAfresh, Usable, OpenSocket
  <1>3. PacketTypes'
    <2>1. 0 \in Blocks
      BY PacketAssumption DEF Blocks
    <2>2. block_status' \in [Blocks -> BOOLEAN]
      BY <1>1
    <2>3. QED
      BY <1>1, <1>2, <2>1, <2>2, Zenon DEF PacketTypes, calls, PacketInv, SocketInv
  <1>4. ~Usable'
    BY <1>1 DEF Usable
  <1>5. StartsAfresh' /\ OneWayToReceive' /\ PendingIsCurrent' /\ HeldByCallback' /\ BlocksOwned' /\ RingInStep'
    BY <1>1, <1>2, <1>4, Zenon DEF calls, StartsAfresh, OneWayToReceive, PendingIsCurrent,
       HeldByCallback, BlocksOwned, RingInStep
  <1>6. Attached'
    <2>1. ~R!Registering /\ handle[Fd] = -1
      BY <1>1 DEF PacketInv, SocketInv, Attached
    <2>2. QED
      BY <1>1, <1>4, <2>1 DEF PacketInv, SocketInv, Attached, R!Registering, R!NotRegistering
  <1>7. QED
    BY <1>3, <1>5, <1>6, Zenon DEF SocketInv

LEMMA PacketSetup ==
  ASSUME PacketInv, NEW mode \in BOOLEAN, SetupPacketMmap(mode)
  PROVE  SocketInv'
  <1>1. /\ state = "registering" /\ (reactive => handle[Fd] # -1) /\ state' = "open"
        /\ packet_mmap_mode_' = mode
        /\ UNCHANGED <<run, handle, open, reg, reactive, receive, block_status, kernel_index, calls>>
    BY Zenon DEF SetupPacketMmap, reactor, ring
  <1>2. /\ current_block_index_ = 0 /\ ~recv_ongoing_ /\ held = NoBlock /\ polling = "no"
        /\ kernel_index = 0 /\ block_status = [b \in Blocks |-> FALSE]
        /\ posted = {} /\ reading = {} /\ ~packet_mmap_block_read_pending_
    BY <1>1 DEF PacketInv, SocketInv, StartsAfresh, Usable
  <1>3. PacketTypes'
    BY <1>1, Zenon DEF PacketTypes, calls, receive, PacketInv, SocketInv
  <1>4. Usable'
    BY <1>1 DEF Usable
  <1>5. StartsAfresh' /\ OneWayToReceive' /\ PendingIsCurrent' /\ HeldByCallback' /\ BlocksOwned'
    BY <1>1, <1>2, <1>4 DEF calls, receive, StartsAfresh, OneWayToReceive, PendingIsCurrent,
       HeldByCallback, BlocksOwned
  <1>6. RingInStep'
    <2>1. Oldest' = 0 /\ kernel_index' = 0 /\ block_status' = [b \in Blocks |-> FALSE]
      BY <1>1, <1>2, Zenon DEF Oldest, calls, receive
    <2>2. QED
      BY <2>1, RingStarts, Zenon DEF RingInStep, InStep
  <1>7. Attached'
    BY <1>1, <1>4 DEF PacketInv, OwnEntry, SocketInv, Attached, R!Registering, R!NotRegistering
  <1>8. QED
    BY <1>3, <1>5, <1>6, <1>7, Zenon DEF SocketInv

LEMMA PacketBind ==
  ASSUME PacketInv, BindToEndpointImpl
  PROVE  SocketInv'
  <1>1. /\ state = "open" /\ state' = "bound"
        /\ UNCHANGED <<run, handle, open, reg, reactive, packet_mmap_mode_, receive, block_status,
                       kernel_index, calls>>
    BY Zenon DEF BindToEndpointImpl, reactor, ring
  <1>2. Usable /\ Usable'
    BY <1>1 DEF Usable
  <1>3. PacketTypes' /\ StartsAfresh'
    BY <1>1, <1>2 DEF PacketTypes, StartsAfresh, calls, receive, PacketInv, SocketInv
  <1>4. OneWayToReceive' /\ PendingIsCurrent' /\ HeldByCallback' /\ BlocksOwned' /\ RingInStep'
    <2>1. OneWayToReceive' /\ HeldByCallback'
      BY <1>1, Zenon DEF calls, receive, PacketInv, SocketInv, OneWayToReceive, HeldByCallback
    <2>2. PendingIsCurrent'
      BY <1>1, <1>2, Zenon DEF calls, receive, PacketInv, SocketInv, PendingIsCurrent
    <2>3. BlocksOwned' /\ RingInStep'
      BY <1>1, Zenon DEF calls, receive, PacketInv, SocketInv, BlocksOwned, RingInStep, Oldest
    <2>4. QED
      BY <2>1, <2>2, <2>3, Zenon
  <1>5. Attached'
    BY <1>1, <1>2 DEF PacketInv, SocketInv, Attached, R!Registering, R!NotRegistering
  <1>6. QED
    BY <1>3, <1>4, <1>5, Zenon DEF SocketInv

LEMMA PacketClose ==
  ASSUME PacketInv, Close
  PROVE  SocketInv'
  <1>1. /\ Usable /\ state' = "closed" /\ polling = "no" /\ packet_mmap_mode_' = FALSE
        /\ recv_ongoing_' = FALSE /\ current_block_index_' = 0
        /\ UNCHANGED <<reactive, packet_mmap_block_read_pending_, block_status, kernel_index, calls>>
    BY Zenon DEF Close, MayCall, Usable, ring
  <1>2. ~Usable'
    BY <1>1 DEF Usable
  <1>3. ASSUME reactive
        PROVE  handle[Fd] \in R!Tags /\ \A t \in R!Tags : run[t] = "idle"
    <2>1. handle[Fd] \in R!Tags /\ ~operations_[handle[Fd]].execution_in_progress_
      BY <1>1, <1>3 DEF Close, PacketInv, SocketInv, Attached, ReactorTypes
    <2>2. QED
      BY <2>1, Zenon DEF PacketInv, SocketInv, Attached, OwnEntry
  <1>4. held = NoBlock
    BY <1>3 DEF PacketInv, SocketInv, HeldByCallback, OneWayToReceive
  <1>5. PacketTypes'
    <2>1. 0 \in Blocks
      BY PacketAssumption DEF Blocks
    <2>2. QED
      BY <1>1, <2>1, Zenon DEF PacketTypes, calls, PacketInv, SocketInv
  <1>6. StartsAfresh' /\ OneWayToReceive' /\ PendingIsCurrent' /\ HeldByCallback' /\ BlocksOwned' /\ RingInStep'
    BY <1>1, <1>2, <1>4 DEF calls, PacketInv, SocketInv, StartsAfresh, OneWayToReceive, PendingIsCurrent,
       HeldByCallback, BlocksOwned, RingInStep
  <1>7. Attached'
    <2>1. ~R!Registering
      BY <1>1 DEF PacketInv, SocketInv, Attached, Usable
    <2>2. CASE reactive
      <3>1. R!Deregister(Fd)
        BY <2>2, Zenon DEF Close
      <3>2. /\ open' = open \ {Fd} /\ handle' = [handle EXCEPT ![Fd] = -1] /\ UNCHANGED <<run, reg>>
        BY <1>3, <2>2, <3>1, Zenon DEF R!Deregister, R!StillOpen, R!NoTag, R!handler, Close
      <3>3. QED
        BY <1>1, <1>2, <1>3, <2>1, <2>2, <3>2
           DEF PacketInv, ReactorTypes, Attached, R!Registering, R!NotRegistering
    <2>3. CASE ~reactive
      <3>1. open' = open \ {Fd} /\ UNCHANGED <<run, reg, handle>>
        BY <2>3, Zenon DEF Close
      <3>2. QED
        BY <1>1, <1>2, <2>1, <2>3, <3>1
           DEF PacketInv, SocketInv, Attached, R!Registering, R!NotRegistering
    <2>4. QED
      BY <2>2, <2>3, Zenon
  <1>8. QED
    BY <1>5, <1>6, <1>7, Zenon DEF SocketInv

-----------------------------------------------------------------------------
(* The kernel, and what starts to receive.                                 *)
LEMMA PacketKernelFills ==
  ASSUME PacketInv, KernelFills
  PROVE  SocketInv'
  <1> DEFINE o == Oldest
  <1>1. UNCHANGED <<run, handle, open, reg, state, reactive, packet_mmap_mode_, receive, calls>>
    BY Zenon DEF KernelFills, reactor
  <1>2. Usable /\ state' = "bound"
    BY Zenon DEF KernelFills, Usable
  <1>3. o \in Blocks /\ o' = o
    BY <1>1, Zenon DEF Oldest, PacketInv, SocketInv, PacketTypes, receive, calls
  <1>4. /\ block_status' \in [Blocks -> BOOLEAN] /\ kernel_index' \in Blocks /\ RingInStep'
        /\ \A b \in Blocks : block_status[b] => block_status'[b]
    <2>1. CASE packet_mmap_mode_
      <3>1. /\ ~block_status[kernel_index] /\ block_status' = [block_status EXCEPT ![kernel_index] = TRUE]
            /\ kernel_index' = (kernel_index + 1) % BlockNum
        BY <2>1, Zenon DEF KernelFills
      <3>2. kernel_index \in Blocks /\ block_status \in [Blocks -> BOOLEAN] /\ InStep(o, kernel_index, block_status)
        BY <2>1, Zenon DEF PacketInv, SocketInv, PacketTypes, RingInStep, InStep
      <3> HIDE DEF o
      <3>3. kernel_index' \in Blocks /\ InStep(o, kernel_index', block_status')
        BY <1>3, <3>1, <3>2, RingFills, Zenon
      <3>4. block_status' \in [Blocks -> BOOLEAN] /\ \A b \in Blocks : block_status[b] => block_status'[b]
        BY <3>1, <3>2
      <3>5. RingInStep'
        BY <1>3, <3>3, Zenon DEF RingInStep, InStep, o
      <3>6. QED
        BY <3>3, <3>4, <3>5, Zenon
    <2>2. CASE ~packet_mmap_mode_
      <3>1. UNCHANGED <<block_status, kernel_index>>
        BY <2>2, Zenon DEF KernelFills
      <3>2. RingInStep'
        BY <1>1, <2>2, Zenon DEF RingInStep
      <3>3. QED
        BY <3>1, <3>2, Zenon DEF PacketInv, SocketInv, PacketTypes
    <2>3. QED
      BY <2>1, <2>2, Zenon
  <1>5. PacketTypes'
    BY <1>1, <1>4, Zenon DEF PacketTypes, receive, calls, PacketInv, SocketInv
  <1>6. StartsAfresh'
    BY <1>1, <1>2 DEF StartsAfresh, Usable
  <1>7. OneWayToReceive' /\ HeldByCallback'
    BY <1>1, <1>4, Zenon DEF PacketInv, SocketInv, PacketTypes, receive, calls, OneWayToReceive, HeldByCallback
  <1>8. PendingIsCurrent' /\ BlocksOwned'
    <2>1. PendingIsCurrent'
      BY <1>1, <1>2, <1>4, Zenon DEF PacketInv, SocketInv, PacketTypes, receive, calls, PendingIsCurrent, Usable
    <2>2. BlocksOwned'
      BY <1>1, <1>4, Zenon DEF PacketInv, SocketInv, PacketTypes, calls, BlocksOwned
    <2>3. QED
      BY <2>1, <2>2, Zenon
  <1>9. QED
    BY <1>1, <1>4, <1>5, <1>6, <1>7, <1>8, SameAttached, Zenon DEF PacketInv, SocketInv

LEMMA PacketReceiveSome ==
  ASSUME PacketInv, ReceiveSome
  PROVE  SocketInv'
  <1>1. UNCHANGED <<run, handle, open, reg, state, reactive, packet_mmap_mode_, receive, block_status,
                    kernel_index, calls>>
    BY Zenon DEF ReceiveSome, reactor
  <1>2. PacketTypes' /\ StartsAfresh'
    BY <1>1, Zenon DEF PacketInv, SocketInv, receive, calls, PacketTypes, StartsAfresh, Usable
  <1>3. OneWayToReceive' /\ PendingIsCurrent' /\ HeldByCallback'
    BY <1>1, Zenon DEF PacketInv, SocketInv, receive, calls, OneWayToReceive, PendingIsCurrent, Usable,
       HeldByCallback
  <1>4. BlocksOwned' /\ RingInStep'
    BY <1>1, Zenon DEF PacketInv, SocketInv, receive, calls, BlocksOwned, RingInStep, Oldest
  <1>5. QED
    BY <1>1, <1>2, <1>3, <1>4, SameAttached, Zenon DEF PacketInv, SocketInv

LEMMA PacketBlockPending ==
  ASSUME PacketInv, ReceiveBlockPending
  PROVE  SocketInv'
  <1> DEFINE c == current_block_index_
  <1>1. /\ Usable /\ reactive /\ packet_mmap_mode_ /\ packet_mmap_block_read_pending_
        /\ packet_mmap_block_read_pending_' = FALSE /\ posted' = posted \cup {c}
        /\ UNCHANGED <<run, handle, open, reg, state, reactive, packet_mmap_mode_, recv_ongoing_, c,
                       block_status, kernel_index, held, reading, polling>>
    BY Zenon DEF ReceiveBlockPending, MayReceive, MayCall, Usable, reactor, ring
  <1>2. c \in Blocks /\ block_status[c] /\ ~recv_ongoing_
    BY <1>1, Zenon DEF PacketInv, SocketInv, PacketTypes, PendingIsCurrent
  <1>3. PacketTypes' /\ StartsAfresh'
    BY <1>1, <1>2, Zenon DEF PacketInv, SocketInv, PacketTypes, StartsAfresh, Usable
  <1>4. OneWayToReceive' /\ HeldByCallback'
    BY <1>1, Zenon DEF PacketInv, SocketInv, OneWayToReceive, HeldByCallback
  <1>5. PendingIsCurrent'
    BY <1>1, <1>2, Zenon DEF PacketInv, SocketInv, PendingIsCurrent
  <1>6. BlocksOwned' /\ RingInStep'
    BY <1>1, <1>2, Zenon DEF PacketInv, SocketInv, BlocksOwned, RingInStep, Oldest
  <1>7. QED
    BY <1>1, <1>3, <1>4, <1>5, <1>6, SameAttached, Zenon DEF PacketInv, SocketInv

(* recv_ongoing_ and polling change, nothing else. *)
LEMMA PacketReceiving ==
  ASSUME PacketInv, Usable, polling' \in {"no", "waiting", "handling"}, recv_ongoing_' \in BOOLEAN,
         recv_ongoing_' /\ reactive => posted = {} /\ ~packet_mmap_block_read_pending_,
         polling' # "no" => ~reactive /\ packet_mmap_mode_, polling' = "handling" => polling = "handling",
         UNCHANGED <<run, handle, open, reg, state, reactive, packet_mmap_mode_, block_status, kernel_index,
                     packet_mmap_block_read_pending_, current_block_index_, posted, held, reading>>
  PROVE  SocketInv'
  <1>1. PacketTypes' /\ StartsAfresh'
    BY Zenon DEF PacketInv, SocketInv, PacketTypes, StartsAfresh, Usable
  <1>2. OneWayToReceive' /\ HeldByCallback'
    BY Zenon DEF PacketInv, SocketInv, OneWayToReceive, HeldByCallback
  <1>3. PendingIsCurrent'
    BY Zenon DEF PacketInv, SocketInv, PendingIsCurrent
  <1>4. BlocksOwned' /\ RingInStep'
    BY Zenon DEF PacketInv, SocketInv, BlocksOwned, RingInStep, Oldest
  <1>5. QED
    BY <1>1, <1>2, <1>3, <1>4, SameAttached, Zenon DEF PacketInv, SocketInv

LEMMA PacketReceiveAsync ==
  ASSUME Patient, PacketInv, ReceiveAsync
  PROVE  SocketInv'
  <1>1. /\ Usable /\ posted = {} /\ ~(packet_mmap_mode_ /\ packet_mmap_block_read_pending_)
        /\ recv_ongoing_' = TRUE
        /\ UNCHANGED <<run, handle, open, reg, state, reactive, packet_mmap_mode_, block_status, kernel_index,
                       packet_mmap_block_read_pending_, current_block_index_, posted, held, reading, polling>>
    BY Zenon DEF ReceiveAsync, AsyncReadOperationStarted, MayReceive, MayCall, Usable, ring, calls
  <1>2. ~packet_mmap_block_read_pending_
    BY <1>1, Zenon DEF PacketInv, SocketInv, PendingIsCurrent
  <1>3. polling' \in {"no", "waiting", "handling"} /\ (polling' # "no" => ~reactive /\ packet_mmap_mode_)
    BY <1>1, Zenon DEF PacketInv, SocketInv, PacketTypes, OneWayToReceive
  <1>4. QED
    BY <1>1, <1>2, <1>3, PacketReceiving, Zenon

LEMMA PacketHandlers ==
  ASSUME PacketInv, NEW b \in Blocks, RunPosted(b) \/ HandlerFinishes(b)
  PROVE  SocketInv'
  <1>1. /\ posted' \subseteq posted /\ reading' \subseteq posted \cup reading
        /\ UNCHANGED <<run, handle, open, reg, state, reactive, packet_mmap_mode_, receive, block_status,
                       kernel_index, held, polling>>
        /\ posted = {} => posted' = {} /\ reading' \subseteq reading
    BY Zenon DEF RunPosted, HandlerFinishes, reactor, ring
  <1>2. PacketTypes'
    BY <1>1, Zenon DEF PacketInv, SocketInv, receive, PacketTypes
  <1>3. StartsAfresh'
    <2>1. state = "registering" => posted' = {} /\ reading' = {}
      BY <1>1, Zenon DEF PacketInv, SocketInv, StartsAfresh
    <2>2. QED
      BY <1>1, <2>1, Zenon DEF PacketInv, SocketInv, receive, StartsAfresh, Usable
  <1>4. OneWayToReceive' /\ HeldByCallback'
    BY <1>1, Zenon DEF PacketInv, SocketInv, receive, OneWayToReceive, HeldByCallback
  <1>5. PendingIsCurrent'
    BY <1>1, Zenon DEF PacketInv, SocketInv, receive, PendingIsCurrent, Usable
  <1>6. BlocksOwned' /\ RingInStep'
    BY <1>1, Zenon DEF PacketInv, SocketInv, receive, BlocksOwned, RingInStep, Oldest
  <1>7. QED
    BY <1>1, <1>2, <1>3, <1>4, <1>5, <1>6, SameAttached, Zenon DEF PacketInv, SocketInv

-----------------------------------------------------------------------------
(* PollReceiveBlockSync().                                                 *)
LEMMA PacketPolls ==
  ASSUME ~PollsReactive, PacketInv, PollReceiveBlockSync \/ PollStops
  PROVE  SocketInv'
  <1>1. /\ Usable /\ ~reactive /\ packet_mmap_mode_ /\ polling' \in {"no", "waiting", "handling"}
        /\ recv_ongoing_' \in BOOLEAN /\ polling' # "handling"
        /\ UNCHANGED <<run, handle, open, reg, state, reactive, packet_mmap_mode_, block_status, kernel_index,
                       packet_mmap_block_read_pending_, current_block_index_, posted, held, reading>>
    <2>1. CASE PollReceiveBlockSync
      BY <2>1, Zenon DEF PollReceiveBlockSync, MayCall, Usable, reactor, ring
    <2>2. CASE PollStops
      <3>1. polling # "no"
        BY <2>2 DEF PollStops
      <3>2. QED
        BY <2>2, <3>1, Zenon DEF PollStops, MayCall, Usable, reactor, ring, PacketInv, SocketInv, OneWayToReceive
    <2>3. QED
      BY <2>1, <2>2, Zenon
  <1>2. QED
    BY <1>1, PacketReceiving, Zenon

LEMMA PacketPollHandles ==
  ASSUME PacketInv, PollHandles
  PROVE  SocketInv'
  <1> DEFINE c == current_block_index_
  <1>1. /\ polling # "no" /\ block_status[c] /\ polling' = "handling" /\ reading' = reading \cup {c}
        /\ UNCHANGED <<run, handle, open, reg, state, reactive, packet_mmap_mode_, receive, c, block_status,
                       kernel_index, posted, held>>
    BY DEF PollHandles, CurrentBlockAvailable, reactor, receive, ring
  <1>2. Usable /\ ~reactive /\ packet_mmap_mode_ /\ c \in Blocks
    BY <1>1, Zenon DEF PacketInv, SocketInv, StartsAfresh, OneWayToReceive, PacketTypes
  <1>3. PacketTypes' /\ StartsAfresh'
    <2>1. state # "registering"
      BY <1>2 DEF Usable
    <2>2. QED
      BY <1>1, <1>2, <2>1, Zenon DEF PacketInv, SocketInv, PacketTypes, StartsAfresh, Usable, receive
  <1>4. OneWayToReceive' /\ HeldByCallback' /\ PendingIsCurrent'
    BY <1>1, <1>2, Zenon DEF PacketInv, SocketInv, OneWayToReceive, HeldByCallback, receive, PendingIsCurrent, Usable
  <1>5. BlocksOwned' /\ RingInStep'
    BY <1>1, Zenon DEF PacketInv, SocketInv, BlocksOwned, RingInStep, Oldest
  <1>6. QED
    BY <1>1, <1>3, <1>4, <1>5, SameAttached, Zenon DEF PacketInv, SocketInv

LEMMA PacketPollConsumes ==
  ASSUME PacketInv, PollConsumes
  PROVE  SocketInv'
  <1> DEFINE c == current_block_index_
             d == (c + 1) % BlockNum
  <1>1. /\ polling = "handling" /\ polling' = "waiting" /\ c \notin reading
        /\ block_status' = [block_status EXCEPT ![c] = FALSE] /\ c' = d
        /\ UNCHANGED <<run, handle, open, reg, state, reactive, packet_mmap_mode_, recv_ongoing_, kernel_index,
                       packet_mmap_block_read_pending_, posted, held, reading>>
    BY Zenon DEF PollConsumes, Consume, IncrementBlockIndex, reactor
  <1>2. /\ Usable /\ ~reactive /\ packet_mmap_mode_ /\ c \in Blocks /\ kernel_index \in Blocks
        /\ block_status \in [Blocks -> BOOLEAN] /\ block_status[c]
        /\ posted = {} /\ held = NoBlock /\ ~packet_mmap_block_read_pending_ /\ state # "registering"
    BY <1>1 DEF PacketInv, SocketInv, StartsAfresh, OneWayToReceive, PacketTypes, Usable
  <1>3. InStep(c, kernel_index, block_status)
    BY <1>2, Zenon DEF PacketInv, SocketInv, RingInStep, InStep, Oldest
  <1>4. d \in Blocks /\ InStep(d, kernel_index, block_status')
    <2> HIDE DEF c
    <2>1. QED
      BY <1>1, <1>2, <1>3, RingConsumed, Zenon
  <1> HIDE DEF d
  <1>5. RingInStep'
    <2>1. Oldest' = d /\ kernel_index' = kernel_index
      BY <1>1, <1>2, Zenon DEF Oldest
    <2>2. QED
      BY <1>4, <2>1, Zenon DEF RingInStep, InStep
  <1>6. BlocksOwned'
    <2>1. reading \subseteq Blocks /\ \A b \in reading : block_status[b]
      BY Zenon DEF PacketInv, SocketInv, PacketTypes, BlocksOwned
    <2>2. \A b \in reading : block_status'[b]
      BY <1>1, <1>2, <2>1, Zenon
    <2>3. QED
      BY <1>1, <1>2, <2>2, Zenon DEF BlocksOwned
  <1>7. PacketTypes'
    <2>1. block_status' \in [Blocks -> BOOLEAN]
      BY <1>1, <1>2
    <2>2. QED
      BY <1>1, <1>4, <2>1, Zenon DEF PacketInv, SocketInv, PacketTypes
  <1>8. StartsAfresh'
    BY <1>1, <1>2, Zenon DEF StartsAfresh, Usable
  <1>9. OneWayToReceive'
    BY <1>1, <1>2 DEF OneWayToReceive
  <1>10. HeldByCallback' /\ PendingIsCurrent'
    BY <1>1, <1>2, Zenon DEF HeldByCallback, PendingIsCurrent
  <1>11. QED
    BY <1>1, <1>5, <1>6, <1>7, <1>8, <1>9, <1>10, SameAttached, Zenon DEF PacketInv, SocketInv

-----------------------------------------------------------------------------
(* OnReactorEventImpl().                                                   *)
LEMMA PacketHandleReceive ==
  ASSUME PacketInv, NEW t \in R!Tags, HandleReceive(t)
  PROVE  SocketInv'
  <1>1. /\ run[t] = "locked" /\ ~packet_mmap_mode_ /\ recv_ongoing_ /\ recv_ongoing_' = FALSE
        /\ run' = [run EXCEPT ![t] = "callback"]
        /\ UNCHANGED <<handle, open, reg, state, reactive, packet_mmap_mode_, packet_mmap_block_read_pending_,
                       current_block_index_, block_status, kernel_index, calls>>
    BY Zenon DEF HandleReceive, R!Reporting
  <1>2. held = NoBlock /\ held' = NoBlock
    BY <1>1, Zenon DEF PacketInv, SocketInv, HeldByCallback, calls
  <1>3. PacketTypes' /\ StartsAfresh'
    BY <1>1, Zenon DEF PacketInv, SocketInv, calls, PacketTypes, StartsAfresh, Usable
  <1>4. OneWayToReceive' /\ HeldByCallback'
    BY <1>1, <1>2, Zenon DEF PacketInv, SocketInv, calls, OneWayToReceive, HeldByCallback
  <1>5. PendingIsCurrent'
    BY <1>1, Zenon DEF PacketInv, SocketInv, calls, PendingIsCurrent, Usable
  <1>6. BlocksOwned' /\ RingInStep'
    BY <1>1, Zenon DEF PacketInv, SocketInv, calls, BlocksOwned, RingInStep
  <1>7. Attached'
    BY <1>1 DEF PacketInv, ReactorTypes, SocketInv, Attached, R!Registering, R!NotRegistering, Usable
  <1>8. QED
    BY <1>3, <1>4, <1>5, <1>6, <1>7, Zenon DEF SocketInv

LEMMA PacketBlockReceive ==
  ASSUME PacketInv, NEW t \in R!Tags, HandleBlockReceive(t)
  PROVE  SocketInv'
  <1> DEFINE c == current_block_index_
             d == (c + 1) % BlockNum
  <1>1. /\ run[t] = "locked" /\ packet_mmap_mode_ /\ recv_ongoing_ /\ recv_ongoing_' = FALSE /\ block_status[c]
        /\ packet_mmap_block_read_pending_' = (packet_mmap_block_read_pending_ \/ block_status[d])
        /\ c' = d /\ held' = c /\ reading' = reading \cup {c} /\ run' = [run EXCEPT ![t] = "callback"]
        /\ UNCHANGED <<handle, open, reg, state, reactive, packet_mmap_mode_, block_status, kernel_index,
                       posted, polling>>
    BY Zenon DEF HandleBlockReceive, R!Reporting, CurrentBlockAvailable, NextBlockAvailable,
       IncrementBlockIndex, ring
  <1>2. handle[Fd] = t /\ reactive
    <2>1. handle[Fd] = t /\ -1 \notin R!Tags
      BY <1>1, PacketAssumption DEF PacketInv, SocketInv, Attached, R!Tags
    <2>2. QED
      BY <2>1, Zenon DEF PacketInv, SocketInv, Attached
  <1>3. /\ Usable /\ posted = {} /\ ~packet_mmap_block_read_pending_ /\ polling = "no" /\ held = NoBlock
        /\ c \in Blocks /\ kernel_index \in Blocks /\ block_status \in [Blocks -> BOOLEAN]
    <2>1. held = NoBlock
      BY <1>1, <1>2 DEF PacketInv, SocketInv, HeldByCallback
    <2>2. Usable
      BY <1>1, Zenon DEF PacketInv, SocketInv, StartsAfresh
    <2>3. QED
      BY <1>1, <1>2, <2>1, <2>2, Zenon DEF PacketInv, SocketInv, OneWayToReceive, PendingIsCurrent, PacketTypes
  <1>4. state # "registering" /\ c # NoBlock /\ d \in Blocks
    <2>1. state # "registering"
      BY <1>3 DEF Usable
    <2>2. c # NoBlock
      BY <1>3, PacketAssumption DEF Blocks, NoBlock
    <2>3. 1 \in 0..BlockNum
      BY PacketAssumption
    <2>4. d \in Blocks
      BY <1>3, <2>3, Wraps, Zenon
    <2>5. QED
      BY <2>1, <2>2, <2>4, Zenon
  <1>5. RingInStep'
    <2>1. Oldest = c /\ Oldest' = c
      BY <1>1, <1>3, <1>4, Zenon DEF Oldest
    <2>2. QED
      BY <1>1, <2>1, Zenon DEF PacketInv, SocketInv, RingInStep
  <1>6. BlocksOwned'
    BY <1>1, Zenon DEF PacketInv, SocketInv, BlocksOwned
  <1> HIDE DEF d
  <1>7. PacketTypes'
    <2>1. packet_mmap_block_read_pending_' \in BOOLEAN
      BY <1>1, <1>3, <1>4
    <2>2. QED
      BY <1>1, <1>3, <1>4, <2>1, Zenon DEF PacketInv, SocketInv, PacketTypes
  <1>8. StartsAfresh'
    BY <1>1, <1>3, <1>4, Zenon DEF StartsAfresh, Usable
  <1>9. OneWayToReceive' /\ PendingIsCurrent'
    <2>1. packet_mmap_block_read_pending_' => block_status[d]
      BY <1>1, <1>3, Zenon
    <2>2. OneWayToReceive'
      BY <1>1, <1>2, <1>3 DEF OneWayToReceive
    <2>3. PendingIsCurrent'
      BY <1>1, <1>3, <2>1, Zenon DEF PendingIsCurrent
    <2>4. QED
      BY <2>2, <2>3, Zenon
  <1>10. HeldByCallback'
    BY <1>1, <1>2, Zenon DEF HeldByCallback, d, PacketInv, ReactorTypes
  <1>11. Attached'
    BY <1>1 DEF PacketInv, ReactorTypes, SocketInv, Attached, R!Registering, R!NotRegistering, Usable
  <1>12. QED
    BY <1>5, <1>6, <1>7, <1>8, <1>9, <1>10, <1>11, Zenon DEF SocketInv

(* The callback returns: the block it was given is handed back, not the    *)
(* one posted meanwhile.                                                   *)
LEMMA PacketCallbackReturns ==
  ASSUME PacketInv, NEW t \in R!Tags, CallbackReturns(t)
  PROVE  SocketInv'
  <1> DEFINE c == current_block_index_
  <1>1. /\ run[t] = "callback" /\ held \notin reading /\ run' = [run EXCEPT ![t] = "locked"] /\ held' = NoBlock
        /\ held = NoBlock => UNCHANGED block_status
        /\ held # NoBlock => block_status' = [block_status EXCEPT ![held] = FALSE]
        /\ UNCHANGED <<handle, open, reg, state, reactive, packet_mmap_mode_, receive, c, kernel_index,
                       posted, reading, polling>>
    BY Zenon DEF CallbackReturns, Consume, receive
  <1>2. Attached'
    BY <1>1 DEF PacketInv, ReactorTypes, SocketInv, Attached, R!Registering, R!NotRegistering, Usable
  <1>3. HeldByCallback'
    BY <1>1, Zenon DEF HeldByCallback
  <1>4. CASE held = NoBlock
    <2>1. PacketTypes' /\ StartsAfresh'
      BY <1>1, <1>4, Zenon DEF PacketInv, SocketInv, receive, PacketTypes, StartsAfresh, Usable
    <2>2. OneWayToReceive' /\ PendingIsCurrent'
      BY <1>1, <1>4, Zenon DEF PacketInv, SocketInv, receive, OneWayToReceive, PendingIsCurrent, Usable
    <2>3. BlocksOwned' /\ RingInStep'
      <3>1. Oldest' = Oldest /\ UNCHANGED <<block_status, packet_mmap_mode_, kernel_index, posted, reading>>
        BY <1>1, <1>4, Zenon DEF Oldest
      <3>2. BlocksOwned /\ RingInStep
        BY Zenon DEF PacketInv, SocketInv
      <3>3. QED
        BY <3>1, <3>2, Zenon DEF BlocksOwned, RingInStep
    <2>4. QED
      BY <1>2, <1>3, <2>1, <2>2, <2>3, Zenon DEF SocketInv
  <1>5. CASE held # NoBlock
    <2>1. /\ Usable /\ reactive /\ packet_mmap_mode_ /\ c = (held + 1) % BlockNum /\ polling = "no"
          /\ held \in Blocks /\ kernel_index \in Blocks /\ block_status \in [Blocks -> BOOLEAN]
          /\ posted \subseteq {c} /\ reading \subseteq Blocks /\ c \in Blocks /\ block_status[held]
      <3>1. reactive /\ packet_mmap_mode_ /\ c = (held + 1) % BlockNum /\ block_status[held]
        BY <1>5, Zenon DEF PacketInv, SocketInv, HeldByCallback
      <3>2. Usable /\ polling = "no"
        BY <1>5, <3>1, Zenon DEF PacketInv, SocketInv, StartsAfresh, OneWayToReceive
      <3>3. QED
        BY <1>5, <3>1, <3>2, Zenon DEF PacketInv, SocketInv, PacketTypes, PendingIsCurrent
    <2>2. InStep(held, kernel_index, block_status)
      BY <1>5, <2>1, ZenonT(30) DEF PacketInv, SocketInv, RingInStep, InStep, Oldest
    <2>3. block_status' = [block_status EXCEPT ![held] = FALSE]
      BY <1>1, <1>5, Zenon
    <2>4. c # held /\ InStep(c, kernel_index, block_status')
      BY <2>1, <2>2, <2>3, RingConsumed, Zenon
    <2>5. RingInStep'
      <3>1. Oldest' = c /\ kernel_index' = kernel_index
        BY <1>1, Zenon DEF Oldest
      <3>2. QED
        BY <2>4, <3>1, Zenon DEF RingInStep, InStep
    <2>6. \A b \in Blocks : b # held => block_status'[b] = block_status[b]
      BY <2>1, <2>3, Zenon
    <2>7. BlocksOwned'
      BY <1>1, <2>1, <2>4, <2>6, Zenon DEF PacketInv, SocketInv, BlocksOwned
    <2>8. PacketTypes'
      <3>1. block_status' \in [Blocks -> BOOLEAN]
        BY <2>1, <2>3
      <3>2. QED
        BY <1>1, <3>1, Zenon DEF PacketInv, SocketInv, receive, PacketTypes
    <2>9. StartsAfresh'
      <3>1. state # "registering"
        BY <2>1 DEF Usable
      <3>2. QED
        BY <1>1, <2>1, <3>1, Zenon DEF StartsAfresh, Usable
    <2>10. OneWayToReceive'
      BY <1>1, <2>1 DEF OneWayToReceive
    <2>11. PendingIsCurrent'
      BY <1>1, <2>1, <2>4, <2>6, Zenon DEF PacketInv, SocketInv, receive, PendingIsCurrent, Usable
    <2>12. QED
      BY <1>2, <1>3, <2>5, <2>7, <2>8, <2>9, <2>10, <2>11, Zenon DEF SocketInv
  <1>6. QED
    BY <1>4, <1>5, Zenon

LEMMA PacketStep ==
  ASSUME Patient, ~PollsReactive, PacketInv, PacketNext
  PROVE  SocketInv'
  <1>0. SocketInv
    BY Zenon DEF PacketInv
  <1>1. CASE Register \/ HandleEvents
    BY <1>1, PacketReactorStep, Zenon DEF Register, HandleEvents, ReactorStep
  <1>2. CASE KernelFills \/ Handlers
    BY <1>2, PacketKernelFills, PacketHandlers, Zenon DEF Handlers
  <1>3. ASSUME NEW given \in BOOLEAN, OpenSocket(given) \/ SetupPacketMmap(given) PROVE SocketInv'
    BY <1>3, PacketOpen, PacketSetup, Zenon
  <1>4. CASE BindToEndpointImpl \/ Close
    BY <1>4, PacketBind, PacketClose, Zenon
  <1>5. CASE ReceiveSome \/ ReceiveAsync \/ ReceiveBlockPending
    BY <1>5, PacketReceiveSome, PacketReceiveAsync, PacketBlockPending, Zenon
  <1>6. CASE PollReceiveBlockSync \/ PollHandles \/ PollConsumes \/ PollStops
    BY <1>6, PacketPolls, PacketPollHandles, PacketPollConsumes, Zenon
  <1>7. ASSUME NEW t \in R!Tags, Operation(t) PROVE SocketInv'
    <2>1. CASE FalseWakeup(t) \/ EventIgnored(t)
      <3>1. UNCHANGED socket /\ UNCHANGED <<run, handle, open, reg>>
        BY <2>1, Zenon DEF FalseWakeup, Resubmit, AsyncReadOperationStarted, EventIgnored
      <3>2. QED
        BY <1>0, <3>1, PacketKept, Zenon
    <2>2. CASE UNCHANGED socket /\ (R!SkipDeregistered(t) \/ R!CallHandler(t) \/ R!HandlerReturns(t))
      BY <2>2, PacketReactorStep, Zenon DEF ReactorStep
    <2>3. QED
      BY <1>7, <2>1, <2>2, PacketHandleReceive, PacketBlockReceive, PacketCallbackReturns, Zenon DEF Operation
  <1>8. QED
    BY <1>1, <1>2, <1>3, <1>4, <1>5, <1>6, <1>7, Zenon DEF PacketNext

-----------------------------------------------------------------------------
(* The reactor.                                                            *)
RP == INSTANCE EpollReactorProofs WITH
          Fds <- {Fd}, Directions <- {"read"}, OneThread <- FALSE, RegisterInLoop <- FALSE,
          Unblocks <- FALSE, Level <- {Fd}, JobBound <- 0,
          ready <- [f \in {Fd} |-> IF Readable THEN {"read"} ELSE {}],
          ongoing <- [f \in {Fd} |-> IF recv_ongoing_ /\ reactive THEN {"read"} ELSE {}]

LEMMA ReactorConstants == RP!ReactorAssumption
  BY PacketAssumption DEF RP!ReactorAssumption

LEMMA ReactorStarts == R!Init => RP!ReactorInv
  <1>1. R!Init => RP!Init
    BY Zenon DEF R!Init, RP!Init, R!Tags, RP!Tags, R!NotRegistering, RP!NotRegistering, R!NoTag, RP!NoTag
  <1>2. QED
    BY <1>1, ReactorConstants, RP!ReactorInit, Zenon DEF RP!ReactorAssumption

(* The steps of the reactor that PacketSocket takes as they are. *)
LEMMA ReactorKept ==
  ASSUME RP!ReactorInv, ReactorStep \/ R!Deregister(Fd)
  PROVE  RP!ReactorInv'
  <1> USE ReactorConstants DEF RP!ReactorAssumption, R!Tags, RP!Tags, R!NoTag, RP!NoTag,
          R!Registering, RP!Registering, R!NotRegistering, RP!NotRegistering,
          R!HandlingEvents, RP!HandlingEvents, R!ThreadFree, RP!ThreadFree,
          R!PollerFree, RP!PollerFree, R!NoneExecuting, RP!NoneExecuting, R!Drained, RP!Drained,
          R!entries, RP!entries, R!loop, RP!loop, R!handler, RP!handler, R!object, RP!object,
          R!kernel, RP!kernel, R!Add, RP!Add, R!Min, RP!Min, R!Max, RP!Max
  <1>0. Fd \in {Fd}
    OBVIOUS
  <1>1. CASE R!FindFreeOperationSlot(Fd)
    <2>1. RP!FindFreeOperationSlot(Fd)
      BY <1>1, Zenon DEF R!FindFreeOperationSlot, RP!FindFreeOperationSlot, R!Free, RP!Free,
         R!Searched, RP!Searched, R!InUse, RP!InUse, R!UpdateUsedEnd, RP!UpdateUsedEnd, R!LastUsed,
         RP!LastUsed
    <2>2. QED
      BY <1>0, <2>1, RP!FindFreeOperationSlotStep, Zenon
  <1>2. CASE R!Deregister(Fd)
    <2>1. RP!Deregister(Fd)
      BY <1>2, Zenon DEF R!Deregister, RP!Deregister, R!EpollRemove, RP!EpollRemove,
         R!Deregistered, RP!Deregistered, R!StillOpen, RP!StillOpen
    <2>2. QED
      BY <1>0, <2>1, RP!DeregisterStep, Zenon
  <1>3. ASSUME R!EpollAdd PROVE RP!ReactorInv'
    <2>1. RP!EpollAdd
      BY <1>3, Zenon DEF R!EpollAdd, RP!EpollAdd, R!EpollSet, RP!EpollSet
    <2>2. QED
      BY <2>1, RP!EpollAddStep, Zenon
  <1>4. ASSUME R!WriteEntry PROVE RP!ReactorInv'
    <2>1. RP!WriteEntry
      BY <1>4, Zenon DEF R!WriteEntry, RP!WriteEntry
    <2>2. QED
      BY <2>1, RP!WriteEntryStep, Zenon
  <1>5. ASSUME R!WaitForEvents PROVE RP!ReactorInv'
    <2>1. RP!WaitForEvents
      BY <1>5, Zenon DEF R!WaitForEvents, RP!WaitForEvents, R!Reported, RP!Reported
    <2>2. QED
      BY <2>1, RP!WaitForEventsStep, Zenon
  <1>6. ASSUME NEW ev \in epoll_events_, R!HandleSingleEvent(ev) PROVE RP!ReactorInv'
    <2>1. RP!HandleSingleEvent(ev)
      BY <1>6, Zenon DEF R!HandleSingleEvent, RP!HandleSingleEvent, R!Wanted, RP!Wanted,
         R!Captured, RP!Captured
    <2>2. QED
      BY <2>1, RP!HandleSingleEventStep, Zenon
  <1>7. ASSUME NEW t \in R!Tags, R!SkipDeregistered(t) PROVE RP!ReactorInv'
    <2>1. RP!SkipDeregistered(t)
      BY <1>7, Zenon DEF R!SkipDeregistered, RP!SkipDeregistered, R!Execute, RP!Execute
    <2>2. QED
      BY <2>1, RP!SkipDeregisteredStep, Zenon
  <1>8. ASSUME NEW t \in R!Tags, R!CallHandler(t) PROVE RP!ReactorInv'
    <2>1. RP!CallHandler(t)
      BY <1>8, Zenon DEF R!CallHandler, RP!CallHandler, R!Execute, RP!Execute,
         R!EventsToReport, RP!EventsToReport, R!Executing, RP!Executing
    <2>2. QED
      BY <2>1, RP!CallHandlerStep, Zenon
  <1>9. ASSUME NEW t \in R!Tags, R!HandlerReturns(t) PROVE RP!ReactorInv'
    <2>1. RP!HandlerReturns(t)
      BY <1>9, Zenon DEF R!HandlerReturns, RP!HandlerReturns, R!Leave, RP!Leave, R!Left, RP!Left
    <2>2. QED
      BY <2>1, RP!HandlerReturnsStep, Zenon
  <1>10. QED
    BY <1>1, <1>2, <1>3, <1>4, <1>5, <1>6, <1>7, <1>8, <1>9, Zenon DEF ReactorStep

(* Readiness comes and goes, the descriptor is opened, polling begins. *)
LEMMA ReactorReadiness ==
  ASSUME RP!ReactorInv, open \subseteq open', open' \subseteq {Fd},
         (recv_ongoing_' /\ reactive') <=> (recv_ongoing_ /\ reactive),
         UNCHANGED <<operations_, used_operations_end_, loop, run, report, reg, handle, jobs, watch,
                     interest, edge, unblock_fd_>>
  PROVE  RP!ReactorInv'
  <1>1. [f \in {Fd} |-> IF recv_ongoing_ /\ reactive THEN {"read"} ELSE {}]'
           = [f \in {Fd} |-> IF recv_ongoing_ /\ reactive THEN {"read"} ELSE {}]
    OBVIOUS
  <1>2. UNCHANGED <<RP!entries, RP!loop, RP!handler, RP!object, watch, interest>>
    BY <1>1, Zenon DEF RP!entries, RP!loop, RP!handler, RP!object, loop
  <1>3. edge' \subseteq {Fd} /\ unblock_fd_' \in BOOLEAN
    BY Zenon DEF RP!ReactorInv, RP!TypeOK
  <1>4. [f \in {Fd} |-> IF Readable THEN {"read"} ELSE {}]' \in [{Fd} -> SUBSET {"read"}]
    OBVIOUS
  <1>5. QED
    BY <1>2, <1>3, <1>4, ReactorConstants, RP!KernelStep, Zenon DEF RP!ReactorAssumption

(* ReceiveAsync() and FalseWakeup(): the read is started on the entry of   *)
(* the socket.                                                             *)
LEMMA ReactorStarted ==
  ASSUME RP!ReactorInv, handle[Fd] # -1, AsyncReadOperationStarted,
         report' \in [R!Tags -> SUBSET {"read"}]
  PROVE  RP!ReactorInv'
  <1>1. PICK t \in RP!Tags : handle[Fd] = t
    BY Zenon DEF RP!ReactorInv, RP!TypeOK, RP!NoTag
  <1>2. RP!OnStartOfOperation(Fd, t, "read", {}, {})
    <2>1. R!OnStartOfOperation(Fd, t, "read", {}, {})
      BY <1>1, Zenon DEF AsyncReadOperationStarted
    <2>2. QED
      BY <2>1, Zenon DEF R!OnStartOfOperation, RP!OnStartOfOperation, R!Started, RP!Started,
         R!Add, RP!Add, R!EpollSet, RP!EpollSet, R!Min, RP!Min, R!Max, RP!Max
  <1>3. UNCHANGED <<used_operations_end_, reg, RP!loop, run, handle, open, unblock_fd_>>
    BY Zenon DEF AsyncReadOperationStarted, loop, RP!loop
  <1>4. [f \in {Fd} |-> IF Readable THEN {"read"} ELSE {}]' \in [{Fd} -> SUBSET {"read"}]
    OBVIOUS
  <1>5. /\ [f \in {Fd} |-> IF recv_ongoing_ /\ reactive THEN {"read"} ELSE {}]' \in [{Fd} -> SUBSET {"read"}]
        /\ \A g \in {Fd} : g # Fd =>
               [f \in {Fd} |-> IF recv_ongoing_ /\ reactive THEN {"read"} ELSE {}]'[g]
               = [f \in {Fd} |-> IF recv_ongoing_ /\ reactive THEN {"read"} ELSE {}][g]
        /\ Fd \in {Fd} /\ {} \in SUBSET {"read"} /\ "read" \in {"read"}
    OBVIOUS
  <1>6. report' \in [RP!Tags -> SUBSET {"read"}]
    BY Zenon DEF R!Tags, RP!Tags
  <1>7. QED
    BY <1>1, <1>2, <1>3, <1>4, <1>5, <1>6, ReactorConstants, RP!OnStartOfOperationStep, Zenon
       DEF RP!ReactorAssumption

(* The handler calls the callback, which returns. *)
LEMMA ReactorUnlocked ==
  ASSUME RP!ReactorInv, NEW t \in R!Tags, run[t] # "idle", NEW at \in {"locked", "callback"},
         run' = [run EXCEPT ![t] = at], report' \in [R!Tags -> SUBSET {"read"}],
         recv_ongoing_' => recv_ongoing_, reactive' = reactive,
         UNCHANGED <<operations_, used_operations_end_, loop, reg, handle, jobs, open, watch, interest, edge,
                     unblock_fd_>>
  PROVE  RP!ReactorInv'
  <1>1. UNCHANGED <<RP!entries, RP!loop, handle, jobs, open, watch, interest, edge, unblock_fd_>>
    BY Zenon DEF RP!entries, RP!loop, loop
  <1>2. [f \in {Fd} |-> IF Readable THEN {"read"} ELSE {}]' \in [{Fd} -> SUBSET {"read"}]
    OBVIOUS
  <1>3. /\ [f \in {Fd} |-> IF recv_ongoing_ /\ reactive THEN {"read"} ELSE {}]' \in [{Fd} -> SUBSET {"read"}]
        /\ \A g \in {Fd} : [f \in {Fd} |-> IF recv_ongoing_ /\ reactive THEN {"read"} ELSE {}]'[g]
                 \subseteq [f \in {Fd} |-> IF recv_ongoing_ /\ reactive THEN {"read"} ELSE {}][g]
    OBVIOUS
  <1>4. t \in RP!Tags /\ report' \in [RP!Tags -> SUBSET {"read"}]
    BY Zenon DEF R!Tags, RP!Tags
  <1>5. QED
    BY <1>1, <1>2, <1>3, <1>4, ReactorConstants, RP!UnlockStep, Zenon DEF RP!ReactorAssumption

(* OnEventIgnored(). *)
LEMMA ReactorIgnored ==
  ASSUME RP!ReactorInv, NEW t \in R!Tags, EventIgnored(t), report' \in [R!Tags -> SUBSET {"read"}]
  PROVE  RP!ReactorInv'
  <1>1. /\ operations_' = [operations_ EXCEPT ![t].monitored_events_ = @ \cup {"read"}]
        /\ UNCHANGED <<recv_ongoing_, reactive>>
        /\ UNCHANGED <<used_operations_end_, reg, RP!loop, run, handle, jobs, open, watch, interest,
                       edge, unblock_fd_>>
    BY Zenon DEF EventIgnored, loop, RP!loop, socket, receive
  <1>2. [f \in {Fd} |-> IF recv_ongoing_ /\ reactive THEN {"read"} ELSE {}]'
           = [f \in {Fd} |-> IF recv_ongoing_ /\ reactive THEN {"read"} ELSE {}]
    BY <1>1
  <1>3. [f \in {Fd} |-> IF Readable THEN {"read"} ELSE {}]' \in [{Fd} -> SUBSET {"read"}]
    OBVIOUS
  <1>4. t \in RP!Tags /\ report' \in [RP!Tags -> SUBSET {"read"}] /\ jobs' \in [RP!Tags -> -0..0]
    BY <1>1, Zenon DEF R!Tags, RP!Tags, RP!ReactorInv, RP!TypeOK
  <1>5. operations_[t].monitored_events_ \cup {"read"} \in SUBSET {"read"}
    BY <1>4 DEF RP!ReactorInv, RP!TypeOK, RP!OperationEntry
  <1>6. PICK events \in SUBSET {"read"} : events = operations_[t].monitored_events_ \cup {"read"}
    BY <1>5, Zenon
  <1>7. RP!Monitors(t, events)
    BY <1>1, <1>6, Zenon DEF RP!Monitors
  <1>8. QED
    BY <1>1, <1>2, <1>3, <1>4, <1>7, ReactorConstants, RP!MonitoredStep, Zenon DEF RP!ReactorAssumption

(* A socket without a reactor is closed. *)
LEMMA ReactorCloses ==
  ASSUME RP!ReactorInv, PacketInv, Close, ~reactive
  PROVE  RP!ReactorInv'
  <1>1. /\ open' = open \ {Fd} /\ UNCHANGED reactive
        /\ UNCHANGED <<operations_, used_operations_end_, RP!loop, run, report, reg, handle, jobs, watch,
                       interest, edge, unblock_fd_>>
    BY Zenon DEF Close, loop, RP!loop
  <1>2. [f \in {Fd} |-> IF recv_ongoing_ /\ reactive THEN {"read"} ELSE {}]'
           = [f \in {Fd} |-> IF recv_ongoing_ /\ reactive THEN {"read"} ELSE {}]
    BY <1>1
  <1>3. UNCHANGED <<RP!entries, RP!loop, RP!handler, RP!object, watch, interest, edge, unblock_fd_>>
    BY <1>1, <1>2, Zenon DEF RP!entries, RP!handler, RP!object
  <1>4. handle[Fd] = RP!NoTag /\ ~RP!Registering /\ \A t \in R!Tags : run[t] = "idle"
    <2>1. handle[Fd] = -1 /\ ~R!Registering /\ -1 \notin R!Tags
      BY PacketAssumption DEF PacketInv, SocketInv, Attached, R!Tags
    <2>2. QED
      BY <2>1, Zenon DEF PacketInv, SocketInv, Attached, RP!NoTag, R!Registering, RP!Registering,
         R!NotRegistering, RP!NotRegistering
  <1>5. \A t \in RP!Tags : operations_[t].close_io_source_ => operations_[t].io_source_ # Fd
    BY <1>4, Zenon DEF RP!ReactorInv, RP!Consistent, RP!CleanedUp, RP!OneOperationPerEntry, R!Tags, RP!Tags
  <1>6. Fd \in {Fd} /\ [f \in {Fd} |-> IF Readable THEN {"read"} ELSE {}]' \in [{Fd} -> SUBSET {"read"}]
    OBVIOUS
  <1>7. QED
    BY <1>1, <1>3, <1>4, <1>5, <1>6, ReactorConstants, RP!CloseUnregisteredStep, Zenon DEF RP!ReactorAssumption

(* What the socket needs to know of the reactor. *)
LEMMA PacketFacts ==
  ASSUME RP!ReactorInv, SocketInv
  PROVE  PacketInv
  <1>1. ReactorTypes
    BY Zenon DEF ReactorTypes, RP!ReactorInv, RP!TypeOK, R!Tags, RP!Tags, RP!NoTag, R!OperationEntry, RP!OperationEntry
  <1>2. handle[Fd] # -1 => operations_[handle[Fd]].valid_
    BY Zenon DEF RP!ReactorInv, RP!Consistent, RP!HandlesHold, RP!NoTag
  <1>3. RP!Registering => reg.fd = Fd /\ reg.tag \in RP!Tags /\ handle[Fd] = -1
    BY Zenon DEF RP!ReactorInv, RP!Consistent, RP!RegistrationHolds, RP!NoTag, RP!TypeOK
  <1>4. \A t \in RP!Tags : /\ operations_[t].valid_ => handle[Fd] = t /\ ~operations_[t].close_io_source_
                           /\ run[t] # "idle" <=> operations_[t].execution_in_progress_
    <2>1. SUFFICES ASSUME NEW t \in RP!Tags
                   PROVE  /\ operations_[t].valid_ => handle[Fd] = t /\ ~operations_[t].close_io_source_
                          /\ run[t] # "idle" <=> operations_[t].execution_in_progress_
      BY Zenon
    <2>2. open \subseteq {Fd}
      BY Zenon DEF RP!ReactorInv, RP!TypeOK
    <2>3. operations_[t].valid_ => operations_[t].io_source_ \in open /\ handle[operations_[t].io_source_] = t
      BY Zenon DEF RP!ReactorInv, RP!Consistent, RP!DescriptorsAlive
    <2>4. operations_[t].valid_ => ~operations_[t].close_io_source_
      BY Zenon DEF RP!ReactorInv, RP!Consistent, RP!CleanedUp
    <2>5. run[t] # "idle" <=> operations_[t].execution_in_progress_
      BY Zenon DEF RP!ReactorInv, RP!Consistent, RP!OneOperationPerEntry
    <2>6. QED
      BY <2>2, <2>3, <2>4, <2>5, Zenon
  <1>5. OwnEntry
    BY <1>2, <1>3, <1>4, Zenon DEF OwnEntry, R!Tags, RP!Tags, R!Registering, RP!Registering,
       R!NotRegistering, RP!NotRegistering
  <1>6. QED
    BY <1>1, <1>5, Zenon DEF PacketInv

-----------------------------------------------------------------------------
(* Both parts together.                                                    *)
LEMMA PacketStarts == PacketInit => RP!ReactorInv /\ SocketInv
  <1> SUFFICES ASSUME PacketInit PROVE RP!ReactorInv /\ SocketInv
    BY Zenon
  <1>1. RP!ReactorInv
    BY ReactorStarts, Zenon DEF PacketInit
  <1>2. PacketTypes
    <2>1. 0 \in Blocks
      BY PacketAssumption DEF Blocks
    <2>2. QED
      BY <2>1, Zenon DEF PacketInit, PacketTypes
  <1>3. StartsAfresh /\ OneWayToReceive /\ PendingIsCurrent
    BY Zenon DEF PacketInit, StartsAfresh, OneWayToReceive, PendingIsCurrent, Usable
  <1>4. HeldByCallback /\ BlocksOwned /\ RingInStep
    BY Zenon DEF PacketInit, HeldByCallback, BlocksOwned, RingInStep
  <1>5. Attached
    BY DEF PacketInit, R!Init, Attached, R!Registering, R!NoTag, Usable
  <1>6. QED
    BY <1>1, <1>2, <1>3, <1>4, <1>5, Zenon DEF SocketInv

(* A handler that reports takes the event from what there is to report. *)
LEMMA Reports ==
  ASSUME PacketInv, NEW t \in R!Tags, R!Reporting(t, "read")
  PROVE  run[t] = "locked" /\ report' \in [R!Tags -> SUBSET {"read"}]
  <1>1. run[t] = "locked" /\ report' = [report EXCEPT ![t] = @ \ {"read"}]
    BY Zenon DEF R!Reporting
  <1>2. report \in [R!Tags -> SUBSET {"read"}]
    BY Zenon DEF PacketInv, ReactorTypes
  <1>3. QED
    BY <1>1, <1>2

LEMMA PacketReactor ==
  ASSUME ~PollsReactive, RP!ReactorInv, PacketInv, PacketNext
  PROVE  RP!ReactorInv'
  <1>0. open \subseteq {Fd}
    BY Zenon DEF PacketInv, ReactorTypes
  <1>1. ASSUME UNCHANGED reactor, UNCHANGED reactive, UNCHANGED recv_ongoing_ \/ ~reactive
        PROVE  RP!ReactorInv'
    <2>1. (recv_ongoing_' /\ reactive') <=> (recv_ongoing_ /\ reactive)
      BY <1>1
    <2>2. open' = open
      BY <1>1, Zenon DEF reactor
    <2>3. QED
      BY <1>0, <1>1, <2>1, <2>2, ReactorReadiness, Zenon DEF reactor
  <1>2. CASE Register \/ HandleEvents
    BY <1>2, ReactorKept, Zenon DEF Register, HandleEvents, ReactorStep
  <1>3. CASE KernelFills \/ Handlers \/ ReceiveSome \/ ReceiveBlockPending \/ BindToEndpointImpl
             \/ PollHandles \/ PollConsumes
    BY <1>1, <1>3, Zenon DEF KernelFills, Handlers, RunPosted, HandlerFinishes, ReceiveSome,
       ReceiveBlockPending, BindToEndpointImpl, PollHandles, PollConsumes, receive
  <1>4. CASE PollReceiveBlockSync \/ PollStops
    <2>1. ~reactive
      BY <1>4 DEF PollReceiveBlockSync, PollStops, PacketInv, SocketInv, OneWayToReceive
    <2>2. QED
      BY <1>1, <1>4, <2>1, Zenon DEF PollReceiveBlockSync, PollStops
  <1>5. ASSUME NEW given \in BOOLEAN, OpenSocket(given) \/ SetupPacketMmap(given) PROVE RP!ReactorInv'
    <2>1. CASE SetupPacketMmap(given)
      BY <1>1, <2>1, Zenon DEF SetupPacketMmap, receive
    <2>2. CASE OpenSocket(given)
      <3>1. ~recv_ongoing_ /\ ~recv_ongoing_'
        BY <2>2 DEF OpenSocket, PacketInv, SocketInv, StartsAfresh, Usable
      <3>2. /\ open \subseteq open' /\ open' \subseteq {Fd}
            /\ UNCHANGED <<operations_, used_operations_end_, loop, run, report, reg, handle, jobs, watch,
                           interest, edge, unblock_fd_>>
        BY <1>0, <2>2, Zenon DEF OpenSocket
      <3>3. QED
        BY <3>1, <3>2, ReactorReadiness, Zenon
    <2>3. QED
      BY <1>5, <2>1, <2>2, Zenon
  <1>6. CASE Close
    <2>1. CASE reactive
      BY <1>6, <2>1, ReactorKept, Zenon DEF Close
    <2>2. QED
      BY <1>6, <2>1, ReactorCloses, Zenon
  <1>7. CASE ReceiveAsync
    <2>1. handle[Fd] # -1 /\ AsyncReadOperationStarted
      BY <1>7, Zenon DEF ReceiveAsync, MayReceive, MayCall, Usable, PacketInv, SocketInv, Attached
    <2>2. report' \in [R!Tags -> SUBSET {"read"}]
      BY <1>7, Zenon DEF ReceiveAsync, PacketInv, ReactorTypes
    <2>3. QED
      BY <2>1, <2>2, ReactorStarted, Zenon
  <1>8. ASSUME NEW t \in R!Tags, Operation(t) PROVE RP!ReactorInv'
    <2>1. CASE HandleReceive(t) \/ HandleBlockReceive(t)
      <3>1. R!Reporting(t, "read")
        BY <2>1, Zenon DEF HandleReceive, HandleBlockReceive
      <3>2. run[t] # "idle" /\ report' \in [R!Tags -> SUBSET {"read"}]
        BY <3>1, Reports
      <3>3. /\ run' = [run EXCEPT ![t] = "callback"] /\ (recv_ongoing_' => recv_ongoing_)
            /\ "callback" \in {"locked", "callback"}
            /\ UNCHANGED <<reactive, operations_, used_operations_end_, loop, reg, handle, jobs, open, watch,
                           interest, edge, unblock_fd_>>
        BY <2>1, Zenon DEF HandleReceive, HandleBlockReceive
      <3>4. QED
        BY <3>2, <3>3, ReactorUnlocked, Zenon
    <2>2. CASE CallbackReturns(t)
      <3>1. /\ run[t] # "idle" /\ "locked" \in {"locked", "callback"}
        BY <2>2 DEF CallbackReturns
      <3>2. /\ run' = [run EXCEPT ![t] = "locked"] /\ (recv_ongoing_' => recv_ongoing_)
            /\ UNCHANGED <<reactive, operations_, used_operations_end_, loop, reg, handle, jobs, open, watch,
                           interest, edge, unblock_fd_>>
            /\ report' \in [R!Tags -> SUBSET {"read"}]
        BY <2>2, Zenon DEF CallbackReturns, receive, PacketInv, ReactorTypes
      <3>3. QED
        BY <3>1, <3>2, ReactorUnlocked, Zenon
    <2>3. CASE FalseWakeup(t)
      <3>1. run[t] = "locked" /\ report' \in [R!Tags -> SUBSET {"read"}] /\ AsyncReadOperationStarted
        BY <2>3, Reports, Zenon DEF FalseWakeup, Resubmit
      <3>2. handle[Fd] # -1
        BY <3>1, PacketAssumption DEF PacketInv, SocketInv, Attached, R!Tags
      <3>3. QED
        BY <3>1, <3>2, ReactorStarted, Zenon
    <2>4. CASE EventIgnored(t)
      <3>1. report' \in [R!Tags -> SUBSET {"read"}]
        BY <2>4, Reports, Zenon DEF EventIgnored
      <3>2. QED
        BY <2>4, <3>1, ReactorIgnored, Zenon
    <2>5. QED
      BY <1>8, <2>1, <2>2, <2>3, <2>4, ReactorKept, Zenon DEF Operation, ReactorStep
  <1>9. QED
    BY <1>2, <1>3, <1>4, <1>5, <1>6, <1>7, <1>8, Zenon DEF PacketNext

LEMMA PacketInvariant ==
  ASSUME Patient, ~PollsReactive
  PROVE  PacketSpec => [](RP!ReactorInv /\ SocketInv)
  <1>1. ASSUME RP!ReactorInv, SocketInv, [PacketNext]_pvars PROVE RP!ReactorInv' /\ SocketInv'
    <2>1. PacketInv
      BY <1>1, PacketFacts, Zenon
    <2>2. CASE UNCHANGED pvars
      <3>1. open \subseteq {Fd} /\ UNCHANGED <<reactor, socket>>
        BY <2>1, <2>2, Zenon DEF PacketInv, ReactorTypes, pvars
      <3>2. RP!ReactorInv'
        BY <1>1, <3>1, ReactorReadiness, Zenon DEF reactor, socket, receive
      <3>3. SocketInv'
        BY <1>1, <3>1, PacketKept, Zenon DEF reactor
      <3>4. QED
        BY <3>2, <3>3, Zenon
    <2>3. CASE PacketNext
      BY <1>1, <2>1, <2>3, PacketReactor, PacketStep, Zenon
    <2>4. QED
      BY <1>1, <2>2, <2>3, Zenon
  <1>2. QED
    BY <1>1, PacketStarts, PTL DEF PacketSpec

(* The kernel does not write to a block that a handler is looking at or    *)
(* will be given: a block is announced as pending only when it is ready,   *)
(* and handed back only after its callback, whatever receives, false       *)
(* wakeups, Close() and Open() come between.                               *)
THEOREM PacketBlocksOwned ==
  ASSUME Patient, ~PollsReactive
  PROVE  PacketSpec => []BlocksOwned
  <1>1. SocketInv => BlocksOwned
    BY Zenon DEF SocketInv
  <1>2. QED
    BY <1>1, PacketInvariant, PTL

(* The socket and the kernel go around the ring in step: the blocks of the *)
(* user are those from the next to be consumed up to the kernel's, none is *)
(* skipped or left behind, for a ring of any size.                         *)
THEOREM PacketRingInStep ==
  ASSUME Patient, ~PollsReactive
  PROVE  PacketSpec => []RingInStep
  <1>1. SocketInv => RingInStep
    BY Zenon DEF SocketInv
  <1>2. QED
    BY <1>1, PacketInvariant, PTL

(* The reactor's table stays sound under the socket's calls: one operation *)
(* per entry, its descriptor open while it is registered or executes, and  *)
(* Deregister() cleaned up after.                                          *)
THEOREM PacketReactorSafe ==
  ASSUME Patient, ~PollsReactive
  PROVE  PacketSpec => [](R!OneOperationPerEntry /\ R!DescriptorsAlive /\ R!CleanedUp)
  <1>1. RP!ReactorInv => RP!OneOperationPerEntry /\ RP!DescriptorsAlive /\ RP!CleanedUp
    BY Zenon DEF RP!ReactorInv, RP!Consistent
  <1>2. RP!OneOperationPerEntry => R!OneOperationPerEntry
    BY Zenon DEF RP!OneOperationPerEntry, R!OneOperationPerEntry, RP!Outstanding, R!Outstanding, RP!Tags, R!Tags,
       RP!Registering, R!Registering, RP!NotRegistering, R!NotRegistering
  <1>3. RP!DescriptorsAlive /\ RP!CleanedUp => R!DescriptorsAlive /\ R!CleanedUp
    BY Zenon DEF RP!DescriptorsAlive, R!DescriptorsAlive, RP!CleanedUp, R!CleanedUp, RP!Tags, R!Tags
  <1>4. QED
    BY <1>1, <1>2, <1>3, PacketInvariant, PTL
=============================================================================

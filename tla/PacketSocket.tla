---------------------------- MODULE PacketSocket ----------------------------
(***************************************************************************)
(* BasicPacketSocket (socket/basic_packet_socket.hpp, impl/basic_packet    *)
(* _socket.ipp) on top of the reactor (module EpollReactor), with any      *)
(* number of threads.                                                      *)
(*                                                                         *)
(* With packet_mmap the socket shares a ring of blocks with the kernel,    *)
(* which fills a block and hands it over by its block_status; the socket   *)
(* hands it back by Consume().  Without, packets are received one by one.  *)
(* The protocol number is zero until the socket is bound: no packet        *)
(* arrives while the ring is set up.  One socket is modelled; its jobs     *)
(* counted in the executor are left out.                                   *)
(***************************************************************************)
EXTENDS Integers, FiniteSets

CONSTANTS
    Fd, NoFd, Capacity,     \* as in EpollReactor
    BlockNum,               \* kDefaultBlockNum
    MaxPackets,             \* bound: packets buffered by a socket without a ring
    Patient,                \* a receive is started when no callback is owed, and by a
                            \* handler when it has finished with its block
    PollsReactive           \* PollReceiveBlockSync() is also called on a socket that
                            \* is registered with the reactor

Blocks == 0..(BlockNum - 1)
NoBlock == -1

VARIABLES
    operations_, used_operations_end_, epoll_events_, wake, op_queue, queue, run, report,
    reg, handle, jobs, open, watch, interest, edge, unblock_fd_,    \* see EpollReactor
    state,              \* "closed", "registering" (in Open()), "open", "bound"
    reactive,           \* the socket was constructed with an executor
    packet_mmap_mode_,  \* whether a ring is used
    recv_ongoing_, packet_mmap_block_read_pending_, current_block_index_,
    block_status,       \* shared with the kernel: TRUE if TP_STATUS_USER
    kernel_index,       \* kernel: the block it fills next
    buffered,           \* kernel: packets buffered without a ring
    posted,             \* blocks of the handlers posted to the executor
    held,               \* the block that the running callback was given, to be consumed
    reading,            \* the blocks that handlers are looking at
    polling,            \* PollReceiveBlockSync(): "no", "waiting" or "handling" a block
    empty               \* an empty handler was called: std::terminate()

Readable == block_status[(kernel_index - 1) % BlockNum] \/ buffered > 0

R == INSTANCE EpollReactor WITH
         Fds <- {Fd}, Directions <- {"read"}, OneThread <- FALSE, RegisterInLoop <- FALSE,
         Unblocks <- FALSE, Level <- {Fd}, JobBound <- 0,
         ready <- [f \in {Fd} |-> IF Readable THEN {"read"} ELSE {}],
         ongoing <- [f \in {Fd} |-> IF recv_ongoing_ /\ reactive THEN {"read"} ELSE {}]

ASSUME PacketAssumption ==
    /\ BlockNum \in Nat \ {0, 1} /\ MaxPackets \in Nat \ {0} /\ NoFd # Fd /\ Capacity \in Nat \ {0}
    /\ Patient \in BOOLEAN /\ PollsReactive \in BOOLEAN

loop    == <<epoll_events_, wake, op_queue, queue>>
reactor == <<operations_, used_operations_end_, loop, run, report, reg, handle, jobs,
             open, watch, interest, edge, unblock_fd_>>
receive == <<recv_ongoing_, packet_mmap_block_read_pending_, current_block_index_>>
ring    == <<block_status, kernel_index, buffered>>
calls   == <<posted, held, reading, polling, empty>>
socket  == <<state, reactive, packet_mmap_mode_, receive, ring, calls>>
pvars   == <<reactor, socket>>

PacketInit ==
    /\ state = "closed" /\ reactive = FALSE /\ packet_mmap_mode_ = FALSE
    /\ recv_ongoing_ = FALSE /\ packet_mmap_block_read_pending_ = FALSE
    /\ current_block_index_ = 0
    /\ block_status = [b \in Blocks |-> FALSE] /\ kernel_index = 0 /\ buffered = 0
    /\ posted = {} /\ held = NoBlock /\ reading = {} /\ polling = "no" /\ empty = FALSE
    /\ R!Init

-----------------------------------------------------------------------------
(* Open(): the native socket, its registration with the reactor (Register),*)
(* the ring, the change to level-triggered events.  A new object is opened,*)
(* its predecessor's callbacks have returned.                              *)
OpenSocket(withExecutor) ==
    /\ state = "closed" /\ Fd \notin open /\ posted = {} /\ reading = {} /\ held = NoBlock
    /\ withExecutor => R!Free # {}
    /\ state' = "registering" /\ reactive' = withExecutor
    /\ open' = open \cup {Fd}
    /\ packet_mmap_block_read_pending_' = FALSE
    /\ block_status' = [b \in Blocks |-> FALSE] /\ kernel_index' = 0 /\ buffered' = 0
    /\ UNCHANGED <<operations_, used_operations_end_, loop, run, report, reg, handle, jobs,
                   watch, interest, edge, unblock_fd_, packet_mmap_mode_,
                   recv_ongoing_, current_block_index_, calls>>

Register ==
    /\ reactive /\ UNCHANGED socket
    /\ R!FindFreeOperationSlot(Fd) \/ R!EpollAdd \/ R!WriteEntry

SetupPacketMmap(mode) ==
    /\ state = "registering" /\ (reactive => handle[Fd] # -1)
    /\ state' = "open" /\ packet_mmap_mode_' = mode
    /\ UNCHANGED <<reactor, reactive, receive, ring, calls>>

BindToEndpointImpl ==
    /\ state = "open"
    /\ state' = "bound"
    /\ UNCHANGED <<reactor, reactive, packet_mmap_mode_, receive, ring, calls>>

(* The mutex of the socket, that of its entry, is free.                    *)
MayCall == state \in {"open", "bound"} /\ (reactive => run[handle[Fd]] # "locked")

(* Close() and the destructor, not called while a callback of the socket   *)
(* is, nor while it is polled: OnCloseEvent() frees the ring's vector.     *)
Close ==
    /\ MayCall /\ polling = "no"
    /\ reactive => ~operations_[handle[Fd]].execution_in_progress_
    /\ state' = "closed" /\ packet_mmap_mode_' = FALSE
    /\ recv_ongoing_' = FALSE /\ current_block_index_' = 0
    /\ UNCHANGED <<reactive, packet_mmap_block_read_pending_, ring, calls>>
    /\ IF reactive THEN R!Deregister(Fd)
       ELSE /\ open' = open \ {Fd}
            /\ UNCHANGED <<operations_, used_operations_end_, loop, run, report, reg, handle,
                           jobs, watch, interest, edge, unblock_fd_>>

-----------------------------------------------------------------------------
(* The kernel fills the next block unless it still belongs to the user, or *)
(* buffers a packet.                                                       *)
KernelFills ==
    /\ state = "bound"
    /\ IF packet_mmap_mode_
       THEN /\ ~block_status[kernel_index]
            /\ block_status' = [block_status EXCEPT ![kernel_index] = TRUE]
            /\ kernel_index' = (kernel_index + 1) % BlockNum /\ UNCHANGED buffered
       ELSE /\ buffered < MaxPackets
            /\ buffered' = buffered + 1 /\ UNCHANGED <<block_status, kernel_index>>
    /\ UNCHANGED <<reactor, state, reactive, packet_mmap_mode_, receive, calls>>

(* ReturnBlockToKernel().                                                  *)
Consume(b) == block_status' = [block_status EXCEPT ![b] = FALSE]

NotIncremented == UNCHANGED current_block_index_
IncrementBlockIndex == current_block_index_' = (current_block_index_ + 1) % BlockNum

CurrentBlockAvailable == block_status[current_block_index_]
NextBlockAvailable == block_status[(current_block_index_ + 1) % BlockNum]

(* ReceiveSome() that finds a packet.                                      *)
ReceiveSome ==
    /\ MayCall /\ ~packet_mmap_mode_ /\ ~recv_ongoing_ /\ buffered > 0
    /\ buffered' = buffered - 1
    /\ UNCHANGED <<reactor, state, reactive, packet_mmap_mode_, receive, block_status,
                   kernel_index, calls>>

-----------------------------------------------------------------------------
(* ReceiveAsync() and ReceiveBlockAsync().                                 *)
CheckRecvPossible == ~recv_ongoing_

AsyncReadOperationStarted == 
    /\ R!OnStartOfOperation(Fd, handle[Fd], "read", {}, {})
    /\ UNCHANGED <<used_operations_end_, loop, run, reg, handle, open, unblock_fd_>>

MayReceive ==
    /\ MayCall /\ reactive
    /\ Patient => posted = {} /\ reading = {}

ReceiveBlockPending ==
    /\ MayReceive /\ packet_mmap_mode_ /\ packet_mmap_block_read_pending_
    /\ current_block_index_ \notin posted
    /\ packet_mmap_block_read_pending_' = FALSE
    /\ posted' = posted \cup {current_block_index_}
    /\ UNCHANGED <<reactor, state, reactive, packet_mmap_mode_, recv_ongoing_,
                   current_block_index_, ring, held, reading, polling, empty>>

ReceiveAsync ==
    /\ MayReceive /\ ~(packet_mmap_mode_ /\ packet_mmap_block_read_pending_)
    /\ CheckRecvPossible
    /\ recv_ongoing_' = TRUE
    /\ AsyncReadOperationStarted
    /\ UNCHANGED <<report, state, reactive, packet_mmap_mode_, packet_mmap_block_read_pending_,
                   current_block_index_, ring, calls>>

RunPosted(b) ==
    /\ b \in posted
    /\ posted' = posted \ {b} /\ reading' = reading \cup {b}
    /\ UNCHANGED <<reactor, state, reactive, packet_mmap_mode_, receive, ring, held, polling, empty>>

(* A handler has finished with its block.                                  *)
HandlerFinishes(b) ==
    /\ b \in reading
    /\ reading' = reading \ {b}
    /\ UNCHANGED <<reactor, state, reactive, packet_mmap_mode_, receive, ring, posted, held,
                   polling, empty>>

-----------------------------------------------------------------------------
(* PollReceiveBlockSync(): it sleeps in poll() until the current block is  *)
(* ready, calls the handler and hands the block back; a stop or a failure  *)
(* of poll() ends it.  Without an eventfd it returns at once, and the      *)
(* socket is said to be receiving for good.                                *)
PollReceiveBlockSync ==
    /\ MayCall /\ packet_mmap_mode_ /\ CheckRecvPossible /\ polling = "no"
    /\ reactive => PollsReactive
    /\ Patient => posted = {} /\ reading = {}
    /\ recv_ongoing_' = TRUE /\ polling' \in {"waiting", "no"}
    /\ UNCHANGED <<reactor, state, reactive, packet_mmap_mode_, packet_mmap_block_read_pending_,
                   current_block_index_, ring, posted, held, reading, empty>>

PollHandles ==
    /\ polling = "waiting" /\ CurrentBlockAvailable
    /\ polling' = "handling" /\ reading' = reading \cup {current_block_index_}
    /\ UNCHANGED <<reactor, state, reactive, packet_mmap_mode_, receive, ring, posted, held, empty>>

PollConsumes ==
    /\ polling = "handling" /\ current_block_index_ \notin reading
    /\ polling' = "waiting"
    /\ Consume(current_block_index_)
    /\ IncrementBlockIndex
    /\ UNCHANGED <<reactor, state, reactive, packet_mmap_mode_, recv_ongoing_,
                   packet_mmap_block_read_pending_, kernel_index, buffered, posted, held,
                   reading, empty>>

PollStops ==
    /\ polling = "waiting" /\ MayCall
    /\ polling' = "no" /\ recv_ongoing_' = FALSE
    /\ UNCHANGED <<reactor, state, reactive, packet_mmap_mode_, packet_mmap_block_read_pending_,
                   current_block_index_, ring, posted, held, reading, empty>>

-----------------------------------------------------------------------------
(* OnReactorEventImpl(), under the entry's mutex.                          *)

(* HandleReceive(): the callback is given a packet or an error.            *)
HandleReceive(t) ==
    /\ R!Reporting(t, "read") /\ recv_ongoing_ /\ ~packet_mmap_mode_
    /\ recv_ongoing_' = FALSE
    /\ buffered' = IF buffered > 0 THEN buffered - 1 ELSE 0
    /\ run' = [run EXCEPT ![t] = "callback"]
    /\ UNCHANGED <<operations_, used_operations_end_, loop, reg, handle, jobs, open, watch,
                   interest, edge, unblock_fd_, state, reactive, packet_mmap_mode_,
                   packet_mmap_block_read_pending_, current_block_index_, block_status,
                   kernel_index, calls>>

(* HandleBlockReceive(): the block is given to the callback; if the next   *)
(* one is ready too, that is remembered.  Polling has stored no callback.  *)
HandleBlockReceive(t) ==
    /\ R!Reporting(t, "read") /\ recv_ongoing_ /\ packet_mmap_mode_ /\ CurrentBlockAvailable
    /\ recv_ongoing_' = FALSE
    /\ packet_mmap_block_read_pending_' = (packet_mmap_block_read_pending_ \/ NextBlockAvailable)
    /\ IncrementBlockIndex
    /\ held' = current_block_index_ /\ reading' = reading \cup {current_block_index_}
    /\ empty' = (polling # "no")
    /\ run' = [run EXCEPT ![t] = "callback"]
    /\ UNCHANGED <<operations_, used_operations_end_, loop, reg, handle, jobs, open, watch,
                   interest, edge, unblock_fd_, state, reactive, packet_mmap_mode_, ring,
                   posted, polling>>

NotResubmitted == UNCHANGED <<operations_, used_operations_end_, loop, run, reg, handle, jobs,
                              open, watch, interest, edge, unblock_fd_>>
Resubmit == AsyncReadOperationStarted

FalseWakeup(t) ==
    /\ R!Reporting(t, "read") /\ recv_ongoing_ /\ packet_mmap_mode_ /\ ~CurrentBlockAvailable
    /\ Resubmit
    /\ UNCHANGED socket

EventIgnored(t) ==
    /\ R!Reporting(t, "read") /\ ~recv_ongoing_
    /\ operations_' = [operations_ EXCEPT ![t].monitored_events_ = @ \cup {"read"}]
    /\ UNCHANGED <<used_operations_end_, loop, run, reg, handle, jobs, open, watch, interest,
                   edge, unblock_fd_, socket>>

(* The callback returns: its block is handed back, the mutex taken again.  *)
CallbackReturns(t) ==
    /\ run[t] = "callback" /\ held \notin reading
    /\ run' = [run EXCEPT ![t] = "locked"]
    /\ held' = NoBlock
    /\ IF held = NoBlock THEN UNCHANGED block_status ELSE Consume(held)
    /\ UNCHANGED <<operations_, used_operations_end_, loop, report, reg, handle, jobs, open,
                   watch, interest, edge, unblock_fd_, state, reactive, packet_mmap_mode_, receive,
                   kernel_index, buffered, posted, reading, polling, empty>>

(* The read event stays monitored until it is reported, so there is always *)
(* something to report.                                                    *)
Operation(t) ==
    \/ HandleReceive(t) \/ HandleBlockReceive(t) \/ FalseWakeup(t) \/ EventIgnored(t)
    \/ CallbackReturns(t)
    \/ /\ UNCHANGED socket
       /\ R!SkipDeregistered(t) \/ R!CallHandler(t) \/ R!HandlerReturns(t)

HandleEvents ==
    /\ UNCHANGED socket
    /\ R!WaitForEvents \/ \E ev \in epoll_events_ : R!HandleSingleEvent(ev)

Handlers == \E b \in Blocks : RunPosted(b) \/ HandlerFinishes(b)

PacketNext ==
    /\ ~empty
    /\ \/ Register \/ HandleEvents \/ KernelFills \/ Handlers
       \/ \E given \in BOOLEAN : OpenSocket(given) \/ SetupPacketMmap(given)
       \/ BindToEndpointImpl \/ Close
       \/ ReceiveSome \/ ReceiveAsync \/ ReceiveBlockPending
       \/ PollReceiveBlockSync \/ PollHandles \/ PollConsumes \/ PollStops
       \/ \E t \in R!Tags : Operation(t)

PacketSpec == PacketInit /\ [][PacketNext]_pvars

(* As in EpollReactor: the reactor is polled and what is posted executed.  *)
(* Handlers return; the thread in PollReceiveBlockSync() runs.             *)
PacketFairSpec ==
    /\ PacketSpec
    /\ WF_pvars(~empty /\ Register) /\ SF_pvars(~empty /\ HandleEvents)
    /\ \A t \in R!Tags : SF_pvars(~empty /\ Operation(t))
    /\ WF_pvars(~empty /\ Handlers) /\ WF_pvars(~empty /\ (PollHandles \/ PollConsumes))

-----------------------------------------------------------------------------
(* A block that a handler is looking at, or will be given, belongs to the  *)
(* user: the kernel does not write to it.  It is handed back after the     *)
(* callback only, and announced as pending only when it is ready.          *)
BlocksOwned == \A b \in posted \cup reading : block_status[b]

(* The blocks of the user are those from the one to be consumed next up to *)
(* the kernel's, around the ring: none is skipped or left behind, whether  *)
(* the reactor, a posted handler or a polling thread gives them out.       *)
Oldest == IF held # NoBlock THEN held ELSE current_block_index_

RingInStep ==
    packet_mmap_mode_ => \E n \in 0..BlockNum :
        /\ kernel_index = (Oldest + n) % BlockNum
        /\ {b \in Blocks : block_status[b]} = {(Oldest + i) % BlockNum : i \in 0..(n - 1)}

(* A receive in progress for which a block or a packet is there completes, *)
(* though other threads' events, false wakeups and posted handlers come    *)
(* between.                                                                *)
Deliverable(b) ==
    /\ (recv_ongoing_ /\ reactive) \/ polling # "no"
    /\ current_block_index_ = b
    /\ IF packet_mmap_mode_ THEN block_status[b] ELSE buffered > 0
PacketsDelivered == \A b \in Blocks : Deliverable(b) ~> ~Deliverable(b)
=============================================================================

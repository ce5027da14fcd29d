---------------------------- MODULE StreamSocket ----------------------------
(***************************************************************************)
(* BasicStreamSocket (socket/basic_stream_socket.hpp) and the              *)
(* AsyncOperation objects it consists of (socket/async_operation.hpp), on  *)
(* top of the reactor (module EpollReactor) and the executor, all on one   *)
(* thread.                                                                 *)
(*                                                                         *)
(* A socket is known by its descriptor, from its registration with the     *)
(* reactor to Close().  Of the data only the number of bytes is kept: in   *)
(* the kernel's buffers and left in the buffer view of an operation.  The  *)
(* readiness of a descriptor and the operations in progress, variables of  *)
(* EpollReactor, are functions of the state here.                          *)
(***************************************************************************)
EXTENDS Integers, Sequences, FiniteSets

CONSTANTS
    Fds, NoFd, Capacity, JobBound,  \* as in EpollReactor
    Sizes,                  \* sizes of the buffers that are sent and received
    MaxBytes, Room,         \* bound of the receive buffer; size of the send buffer
    MaxPosted,              \* bound: completions posted to the executor
    Patient,                \* operations start on a connected socket, one of a kind at a time
    EndsEarly               \* the peer's end of file may come right behind its data

VARIABLES
    operations_, used_operations_end_, epoll_events_, wake, op_queue, queue, run, report,
    reg, handle, jobs, open, watch, interest, edge, unblock_fd_,    \* see EpollReactor
    stream_sock_state_,
    operation_,             \* connect_operation_, send_operation_, recv_operation_
    entered,                \* the state found by the running OnReactorEventImpl()
    posted,                 \* completions posted by PostImmediateExecutorJob()
    net,                    \* kernel: the connection of a descriptor, its buffers
    waiting, exact          \* history: callbacks owed; exhaustive transfers were complete

Kinds == {"connect", "send", "receive"}
Direction(kind) == IF kind = "receive" THEN "read" ELSE "write"

Readiness(n) ==
    (IF n.in > 0 \/ n.eof \/ n.conn \in {"failed", "down"} THEN {"read"} ELSE {}) \cup
    (IF (n.conn = "up" /\ n.room > 0) \/ n.conn \in {"failed", "down"} THEN {"write"} ELSE {})

InProgress(f) ==
    IF handle[f] = -1 THEN {}
    ELSE {Direction(k) : k \in {k \in Kinds : operation_[f][k].opeartion_ongoing_}}

R == INSTANCE EpollReactor WITH
         Directions <- {"read", "write"}, OneThread <- TRUE, RegisterInLoop <- FALSE,
         Unblocks <- FALSE, Level <- {},
         ready <- [f \in Fds |-> Readiness(net[f])],
         ongoing <- [f \in Fds |-> InProgress(f)]

ASSUME SocketAssumption ==
    /\ Sizes \subseteq Nat /\ MaxBytes \in Nat /\ Room \in Nat /\ MaxPosted \in Nat \ {0}
    /\ Patient \in BOOLEAN /\ EndsEarly \in BOOLEAN

reactor == <<operations_, used_operations_end_, epoll_events_, wake, op_queue, queue, run,
             report, reg, handle, jobs, open, watch, interest, edge, unblock_fd_>>
socket  == <<stream_sock_state_, operation_, entered, posted, waiting, exact>>
svars   == <<reactor, socket, net>>

Idle == [opeartion_ongoing_ |-> FALSE, is_exhaustive_ |-> FALSE, total_bytes_ |-> 0,
         left |-> 0, got |-> 0]
NoConnection == [conn |-> "none", in |-> 0, eof |-> FALSE, room |-> 0]
Connection == [NoConnection EXCEPT !.conn = "up", !.room = Room]

SocketInit ==
    /\ stream_sock_state_ = [f \in Fds |-> "kDisconnected"]
    /\ operation_ = [f \in Fds |-> [k \in Kinds |-> Idle]]
    /\ entered = [t \in R!Tags |-> "kDisconnected"] /\ posted = <<>>
    /\ net = [f \in Fds |-> NoConnection]
    /\ waiting = [f \in Fds |-> [k \in Kinds |-> 0]] /\ exact = TRUE
    /\ R!Init

-----------------------------------------------------------------------------
(* The kernel and the peer.  A descriptor is reused when the completions   *)
(* of the socket that had it have been called.                             *)
OpenSocket(f, n) ==
    /\ f \notin open /\ \A i \in DOMAIN posted : posted[i].fd # f
    /\ net' = [net EXCEPT ![f] = n]
    /\ stream_sock_state_' = [stream_sock_state_ EXCEPT ![f] = "kDisconnected"]
    /\ operation_' = [operation_ EXCEPT ![f] = [k \in Kinds |-> Idle]]
    /\ waiting' = [waiting EXCEPT ![f] = [k \in Kinds |-> 0]]
    /\ open' = open \cup {f}
    /\ UNCHANGED <<operations_, used_operations_end_, epoll_events_, wake, op_queue, queue, run,
                   report, reg, handle, jobs, watch, interest, edge, unblock_fd_,
                   entered, posted, exact>>

Happens(f, n, events) ==
    /\ f \in open
    /\ net' = [net EXCEPT ![f] = n]
    /\ UNCHANGED <<socket, handle>>
    /\ R!BecomeReady(f, events)

Kernel(f) ==
    LET n == net[f] IN
    \/ n.conn = "up" /\ ~n.eof /\ n.in < MaxBytes /\ Happens(f, [n EXCEPT !.in = @ + 1], {"read"})
    \/ n.conn = "up" /\ ~n.eof /\ (n.in = 0 \/ EndsEarly) /\ Happens(f, [n EXCEPT !.eof = TRUE], {"read"})
    \/ n.conn = "up" /\ n.room < Room /\ Happens(f, [n EXCEPT !.room = @ + 1], {"write"})
    \/ n.conn = "up" /\ Happens(f, [n EXCEPT !.conn = "down"], {"read", "write"})
    \/ n.conn = "pending" /\ Happens(f, Connection, {"write"})
    \/ n.conn = "pending" /\ Happens(f, [n EXCEPT !.conn = "failed"], {"read", "write"})

-----------------------------------------------------------------------------
(* The bytes that a native send or receive handles.                        *)
Handled(available, size) == IF available < size THEN available ELSE size

(* AsyncOperation::DoPerform() of a transfer: whether it is complete, its  *)
(* success, and the bytes it moved.                                        *)
DoPerform(n, kind, size, exhaustive) ==
    LET available == IF kind = "receive" THEN n.in ELSE n.room
        moved == Handled(available, size)
        Done(ok) == [complete |-> TRUE, ok |-> ok, moved |-> moved] IN
    IF kind = "receive" /\ size = 0 THEN Done(TRUE)
    ELSE IF n.conn \in {"none", "failed", "down"}
         THEN [complete |-> TRUE, ok |-> FALSE, moved |-> 0]
    ELSE IF n.conn = "pending" \/ (moved = 0 /\ size # 0 /\ ~(kind = "receive" /\ n.eof))
         THEN [complete |-> FALSE, ok |-> FALSE, moved |-> 0]
    ELSE IF moved = size THEN Done(TRUE)
    ELSE IF kind = "receive" /\ moved = 0 THEN Done(FALSE)
    ELSE IF exhaustive THEN [complete |-> FALSE, ok |-> FALSE, moved |-> moved]
    ELSE Done(TRUE)

Moved(n, kind, bytes) == IF kind = "receive" THEN [n EXCEPT !.in = @ - bytes]
                         ELSE [n EXCEPT !.room = @ - bytes]

(* An operation stays exact if a successful exhaustive one moved all of    *)
(* its bytes.                                                              *)
Exact(op, p) == exact /\ (p.complete /\ p.ok /\ op.is_exhaustive_ => op.got + p.moved = op.total_bytes_)

Started(size, exhaustive) ==
    [opeartion_ongoing_ |-> TRUE, is_exhaustive_ |-> exhaustive, total_bytes_ |-> size,
     left |-> size, got |-> 0]

(* OnInitiation() and OnContinuation() advance the buffer view.            *)
NotAdvanced(op, bytes) == [op EXCEPT !.got = @ + bytes]
Advanced(op, bytes) == [op EXCEPT !.left = @ - bytes, !.got = @ + bytes]

(* OnCompletion() in continuation context.                                 *)
FinishedOngoing(op) == op
Finished(op) == Idle

-----------------------------------------------------------------------------
(* The calls of the user.                                                  *)
MayCall(f) == handle[f] # -1 /\ R!ThreadFree /\ Len(posted) < MaxPosted

Post(f, kind, ok) == posted' = Append(posted, [fd |-> f, op |-> kind, ok |-> ok])

(* Base::AsyncReadOperationStarted() and AsyncWriteOperationStarted().     *)
OperationStarted(f, t, kind, n, consumed) ==
    /\ R!OnStartOfOperation(f, t, Direction(kind), Readiness(n), consumed)
    /\ UNCHANGED <<used_operations_end_, epoll_events_, wake, op_queue, queue, reg, handle,
                   open, unblock_fd_>>

(* Perform() in initiation context: SendAsync(), ReceiveAsync(),           *)
(* TryReceiveAsync(), ReceiveSomeAsync().                                  *)
Perform(f, kind, size, exhaustive, speculative) ==
    LET op == operation_[f][kind]
        new == Started(size, exhaustive)
        p == IF ~speculative THEN [complete |-> FALSE, ok |-> FALSE, moved |-> 0]
             ELSE IF op.opeartion_ongoing_ THEN [complete |-> TRUE, ok |-> FALSE, moved |-> 0]
             ELSE DoPerform(net[f], kind, size, exhaustive)
        n == Moved(net[f], kind, p.moved) IN
    /\ net' = [net EXCEPT ![f] = n]
    /\ waiting' = [waiting EXCEPT ![f][kind] = @ + 1]
    /\ exact' = Exact(new, p)
    /\ UNCHANGED <<stream_sock_state_, entered>>
    /\ IF p.complete
       THEN /\ Post(f, kind, p.ok)
            /\ UNCHANGED <<operation_, reactor>>
       ELSE /\ operation_' = [operation_ EXCEPT ![f][kind] = Advanced(new, p.moved)]
            /\ OperationStarted(f, handle[f], kind, n,
                                IF speculative THEN {"read"} \cap {Direction(kind)} ELSE {})
            /\ UNCHANGED <<posted, run, report>>

MayTransfer(f, kind) ==
    /\ MayCall(f)
    /\ Patient => stream_sock_state_[f] = "kConnected" /\ ~operation_[f][kind].opeartion_ongoing_

IsSocketReadable(f) == "read" \in operations_[handle[f]].captured_events_

SendAsync(f, size) == MayTransfer(f, "send") /\ Perform(f, "send", size, TRUE, TRUE)
ReceiveAsync(f, size) ==
    MayTransfer(f, "receive") /\ Perform(f, "receive", size, TRUE, IsSocketReadable(f))
TryReceiveAsync(f, size) == MayTransfer(f, "receive") /\ Perform(f, "receive", size, TRUE, TRUE)
ReceiveSomeAsync(f, size) ==
    MayTransfer(f, "receive") /\ Perform(f, "receive", size, FALSE, IsSocketReadable(f))

(* ConnectAsync(): an attempt that ends at once is posted, the state is    *)
(* set when the completion is called.                                      *)
ConnectAsync(f) ==
    LET n == net[f]
        busy == operation_[f]["connect"].opeartion_ongoing_ IN
    /\ MayCall(f) /\ (Patient => n.conn = "none" /\ waiting[f]["connect"] = 0)
    /\ waiting' = [waiting EXCEPT ![f]["connect"] = @ + 1]
    /\ UNCHANGED <<entered, exact>>
    /\ IF busy \/ n.conn # "none"
       THEN /\ Post(f, "connect", FALSE)
            /\ UNCHANGED <<stream_sock_state_, operation_, net, reactor>>
       ELSE \/ /\ \E ok \in BOOLEAN :
                     /\ Post(f, "connect", ok)
                     /\ net' = [net EXCEPT ![f] = IF ok THEN Connection ELSE n]
               /\ UNCHANGED <<stream_sock_state_, operation_, reactor>>
            \/ /\ net' = [net EXCEPT ![f].conn = "pending"]
               /\ operation_' = [operation_ EXCEPT ![f]["connect"] = Started(0, FALSE)]
               /\ stream_sock_state_' = [stream_sock_state_ EXCEPT ![f] = "kConnecting"]
               /\ OperationStarted(f, handle[f], "connect", net'[f], {})
               /\ UNCHANGED <<posted, run, report>>

(* Connect() that succeeds.                                                *)
Connect(f) ==
    /\ MayCall(f) /\ net[f].conn = "none" /\ stream_sock_state_[f] # "kConnected"
    /\ Patient => waiting[f]["connect"] = 0
    /\ net' = [net EXCEPT ![f] = Connection]
    /\ stream_sock_state_' = [stream_sock_state_ EXCEPT ![f] = "kConnected"]
    /\ UNCHANGED <<reactor, operation_, entered, posted, waiting, exact>>

(* ReceiveSome() and SendSome() that move what can be moved.               *)
CheckSocketOpen(f) == TRUE
CheckRecvPossible(f) == ~operation_[f]["receive"].opeartion_ongoing_
CheckSendPossible(f) ==
    stream_sock_state_[f] = "kConnected" /\ ~operation_[f]["send"].opeartion_ongoing_

ReceiveSome(f) ==
    /\ MayCall(f) /\ CheckRecvPossible(f) /\ net[f].in > 0
    /\ net' = [net EXCEPT ![f].in = 0]
    /\ UNCHANGED <<reactor, socket>>

SendSome(f) ==
    /\ MayCall(f) /\ CheckSendPossible(f) /\ net[f].conn = "up" /\ net[f].room > 0
    /\ net' = [net EXCEPT ![f].room = 0]
    /\ UNCHANGED <<reactor, socket>>

(* Close(), with OnCloseEvent(): the operations are not reset.             *)
Close(f) ==
    /\ stream_sock_state_' = [stream_sock_state_ EXCEPT ![f] = "kDisconnected"]
    /\ UNCHANGED <<operation_, entered, posted, net, waiting, exact>>
    /\ R!Deregister(f)

(* Open() and AssignAcceptedHandle() register the descriptor.              *)
BeginAssign ==
    /\ UNCHANGED <<socket, net, handle>>
    /\ \E f \in Fds : R!FindFreeOperationSlot(f) \/ R!CapacityExceeded(f)

AssignNativeHandle ==
    \/ UNCHANGED <<socket, net, handle>> /\ (R!EpollAdd \/ R!EpollAddFails)
    \/ /\ R!Registering
       /\ stream_sock_state_' = [stream_sock_state_ EXCEPT
              ![reg.fd] = IF net[reg.fd].conn = "none" THEN "kDisconnected" ELSE "kConnected"]
       /\ UNCHANGED <<operation_, entered, posted, net, waiting, exact>>
       /\ R!WriteEntry

(* The executor calls a posted completion.                                 *)
RunPosted ==
    LET c == Head(posted) IN
    /\ posted # <<>> /\ R!ThreadFree /\ R!NoneExecuting
    /\ posted' = Tail(posted)
    /\ waiting' = [waiting EXCEPT ![c.fd][c.op] = @ - 1]
    /\ stream_sock_state_' = IF c.op # "connect" THEN stream_sock_state_
           ELSE [stream_sock_state_ EXCEPT ![c.fd] = IF c.ok THEN "kConnected" ELSE "kConnectError"]
    /\ UNCHANGED <<reactor, operation_, entered, net, exact>>

-----------------------------------------------------------------------------
(* OnReactorEventImpl(), called with the entry's mutex held.               *)
OnReactorEvent(t) ==
    /\ operations_[t].valid_
    /\ entered' = [entered EXCEPT ![t] = stream_sock_state_[operations_[t].handler_]]
    /\ UNCHANGED <<stream_sock_state_, operation_, posted, net, waiting, exact, handle>>
    /\ R!CallHandler(t)

(* An event is taken and nothing else done, or it is resubscribed.         *)
Take(t, e, resubscribe) ==
    /\ R!Reporting(t, e)
    /\ operations_' = IF resubscribe
                      THEN [operations_ EXCEPT ![t].monitored_events_ = @ \cup {e}] ELSE operations_
    /\ jobs' = IF resubscribe THEN R!Add(t, 1) ELSE jobs
    /\ UNCHANGED <<used_operations_end_, epoll_events_, wake, op_queue, queue, run, reg,
                   handle, open, watch, interest, edge, unblock_fd_, socket, net>>

DropEvent(t, e) ==
    /\ entered[t] \in {"kDisconnected", "kConnectError"}
    /\ Take(t, e, TRUE)

(* Perform() in continuation context; a completion is called unlocked.     *)
Continue(t, e, f, kind, p, state) ==
    LET n == IF kind = "connect" THEN net[f] ELSE Moved(net[f], kind, p.moved)
        op == operation_[f][kind] IN
    /\ R!Reporting(t, e)
    /\ net' = [net EXCEPT ![f] = n]
    /\ exact' = Exact(op, p)
    /\ operation_' = [operation_ EXCEPT ![f][kind] = IF p.complete THEN Finished(op) ELSE Advanced(op, p.moved)]
    /\ stream_sock_state_' = [stream_sock_state_ EXCEPT ![f] = state]
    /\ UNCHANGED <<entered, posted>>
    /\ IF p.complete
       THEN /\ run' = [run EXCEPT ![t] = "callback"]
            /\ waiting' = [waiting EXCEPT ![f][kind] = @ - 1]
            /\ UNCHANGED <<operations_, used_operations_end_, epoll_events_, wake, op_queue, queue,
                           reg, handle, jobs, open, watch, interest, edge, unblock_fd_>>
       ELSE UNCHANGED <<run, waiting>> /\ OperationStarted(f, t, kind, n, {})

(* HandleConnectionEstablishment(): whatever the event, SO_ERROR decides.  *)
AssumeConnected(n) == TRUE
NoSocketError(n) == n.conn # "failed"

HandleConnectionEstablishment(t, e) ==
    LET f == operations_[t].handler_
        ok == NoSocketError(net[f]) IN
    /\ entered[t] = "kConnecting"
    /\ IF report[t] # {e} THEN Take(t, e, FALSE)
       ELSE Continue(t, e, f, "connect", [complete |-> TRUE, ok |-> ok, moved |-> 0],
                     IF ok THEN "kConnected" ELSE "kConnectError")

(* HandleDataTranster(): HandleReceive() first, then HandleSend() if the   *)
(* socket has not been closed by the callback.                             *)
MaySendAlways(f) == operation_[f]["send"].opeartion_ongoing_
MaySend(f) == operation_[f]["send"].opeartion_ongoing_ /\ stream_sock_state_[f] = "kConnected"

HandleDataTransfer(t, e) ==
    LET f == operations_[t].handler_
        kind == IF e = "read" THEN "receive" ELSE "send"
        op == operation_[f][kind] IN
    /\ entered[t] = "kConnected"
    /\ IF IF e = "read" THEN op.opeartion_ongoing_ ELSE MaySend(f)
       THEN Continue(t, e, f, kind, DoPerform(net[f], kind, op.left, op.is_exhaustive_),
                     stream_sock_state_[f])
       ELSE Take(t, e, e = "read")

Operation(t) ==
    \/ OnReactorEvent(t)
    \/ \E e \in {"read", "write"} :
           DropEvent(t, e) \/ HandleConnectionEstablishment(t, e) \/ HandleDataTransfer(t, e)
    \/ /\ UNCHANGED <<socket, net, handle>>
       /\ \/ R!SkipDeregistered(t) \/ R!SkipNothingToReport(t)
          \/ R!CallbackReturns(t)
    \/ /\ entered' = [entered EXCEPT ![t] = "kDisconnected"]
       /\ UNCHANGED <<stream_sock_state_, operation_, posted, net, waiting, exact, handle>>
       /\ R!HandlerReturns(t)

HandleEvents ==
    /\ UNCHANGED <<socket, net, handle>>
    /\ R!WaitForEvents \/ \E ev \in epoll_events_ : R!HandleSingleEvent(ev)

Call(f) ==
    \/ ConnectAsync(f) \/ Connect(f) \/ ReceiveSome(f) \/ SendSome(f) \/ Close(f)
    \/ \E size \in Sizes : SendAsync(f, size) \/ ReceiveAsync(f, size)
                           \/ TryReceiveAsync(f, size) \/ ReceiveSomeAsync(f, size)

SocketNext ==
    \/ \E f \in Fds : OpenSocket(f, NoConnection) \/ OpenSocket(f, Connection) \/ Kernel(f) \/ Call(f)
    \/ BeginAssign \/ AssignNativeHandle \/ RunPosted \/ HandleEvents
    \/ \E t \in R!Tags : Operation(t)

SocketSpec == SocketInit /\ [][SocketNext]_svars

(* As in EpollReactor; what is posted to the executor is executed.         *)
SocketFairSpec ==
    /\ SocketSpec /\ WF_svars(AssignNativeHandle) /\ SF_svars(RunPosted) /\ SF_svars(HandleEvents)
    /\ \A t \in R!Tags : SF_svars(Operation(t))

-----------------------------------------------------------------------------
SocketTypeOK ==
    /\ stream_sock_state_ \in [Fds -> {"kDisconnected", "kConnecting", "kConnected", "kConnectError"}]
    /\ operation_ \in [Fds -> [Kinds -> [opeartion_ongoing_ : BOOLEAN, is_exhaustive_ : BOOLEAN,
                               total_bytes_ : Sizes \cup {0}, left : Nat, got : Nat]]]
    /\ posted \in Seq([fd : Fds, op : Kinds, ok : BOOLEAN]) /\ Len(posted) <= MaxPosted
    /\ net \in [Fds -> [conn : {"none", "pending", "up", "failed", "down"},
                        in : 0..MaxBytes, eof : BOOLEAN, room : 0..Room]]
    /\ waiting \in [Fds -> [Kinds -> Nat]] /\ exact \in BOOLEAN

(* Each callback given to a socket is either kept by the one AsyncOperation *)
(* of its kind or posted: none is dropped, overwritten or called twice.    *)
CallbacksAccounted ==
    \A f \in Fds, k \in Kinds : handle[f] # -1 =>
        waiting[f][k] = (IF operation_[f][k].opeartion_ongoing_ THEN 1 ELSE 0)
                        + Cardinality({i \in DOMAIN posted : posted[i].fd = f /\ posted[i].op = k})

(* An exhaustive transfer that reports success has moved all of its bytes, *)
(* over however many events they came.                                     *)
ExhaustiveIsComplete == exact

(* A socket is kConnected only with an established connection.             *)
ConnectedIsEstablished ==
    \A f \in Fds : handle[f] # -1 /\ stream_sock_state_[f] = "kConnected"
                   => net[f].conn \in {"up", "down"}

(* Once closed, also by the callback of another operation of the same      *)
(* event, a socket calls no more handlers from the reactor.                *)
ClosedIsSilent ==
    [][\A t \in R!Tags : run[t] = "locked" /\ run'[t] = "callback" => operations_[t].valid_]_svars

(* The socket uses the reactor as the i/o object of EpollReactor does.     *)
ReactorSpec == R!Spec

(* An operation that could complete does, unless the socket is closed: no  *)
(* readiness is lost between the kernel, the reactor and the socket.       *)
Possible(f, k) ==
    /\ handle[f] # -1 /\ operation_[f][k].opeartion_ongoing_
    /\ IF k = "connect" THEN net[f].conn # "pending"
       ELSE LET left == operation_[f][k].left IN
            net[f].conn = "down" \/ (IF k = "send" THEN net[f].room >= left
                                     ELSE net[f].in >= left \/ net[f].eof)

OperationsComplete ==
    \A f \in Fds, k \in Kinds :
        Possible(f, k) ~> handle[f] = -1 \/ ~operation_[f][k].opeartion_ongoing_
=============================================================================

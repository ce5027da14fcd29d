------------------------------ MODULE Acceptor ------------------------------
(***************************************************************************)
(* BasicAcceptorSocket (socket/acceptor.hpp, impl/basic_acceptor_socket    *)
(* .ipp) and the life cycle that BasicSocket (socket/basic_socket.hpp)     *)
(* gives to it and to the sockets it accepts connections into, on top of   *)
(* the reactor (module EpollReactor).                                      *)
(*                                                                         *)
(* Here a socket is the C++ object: it keeps its descriptor and its handle *)
(* of the reactor, and either may outlive what it stands for.  An accept   *)
(* takes several steps: the native call, then the registration of the new  *)
(* descriptor; only in HandleAysncAccept() without the acceptor's mutex.   *)
(***************************************************************************)
EXTENDS Integers, FiniteSets

CONSTANTS
    Fds, NoFd, Capacity, JobBound,  \* as in EpollReactor
    OneThread,          \* as in EpollReactor
    acceptor, Sockets,  \* the acceptor, the sockets it accepts into
    NoSocket,
    ListensFirst,       \* Listen() may be called well before AcceptAsync()
    Bursts,             \* connections arrive at any time, up to MaxBacklog of them
    MaxBacklog,
    CloseInCallback,    \* a socket may be closed in a callback of its own
    Reopen              \* a socket object may be opened again once closed

Objects == Sockets \cup {acceptor}

VARIABLES
    operations_, used_operations_end_, epoll_events_, wake, op_queue, queue, run, report,
    reg, handle, jobs, open, watch, interest, edge, unblock_fd_,    \* see EpollReactor
    socket_handle_, reactor_handle_, is_open_,  \* BasicSocket; is_open_: basic_socket_state_
    acceptor_sockstate_, on_accept_complete_, peer_socket_, speculative_accept_,
    doing,      \* the native call and registration in progress, for whom
    posted,     \* a completion is posted by PostImmediateExecutorJob()
    crashed,    \* an empty handler was called: std::terminate()
    backlog,    \* kernel: connections not yet accepted
    owner, waiting  \* history: who registered an entry; callbacks owed

Readiness(n) == IF n > 0 THEN {"read"} ELSE {}

R == INSTANCE EpollReactor WITH
         Directions <- {"read"}, RegisterInLoop <- FALSE, Unblocks <- FALSE, Level <- {},
         ready <- [f \in Fds |-> Readiness(backlog[f])], ongoing <- [f \in Fds |-> {}]

ASSUME AcceptorAssumption ==
    /\ acceptor \notin Sockets /\ NoSocket \notin Objects /\ MaxBacklog \in Nat \ {0}
    /\ ListensFirst \in BOOLEAN /\ Bursts \in BOOLEAN
    /\ CloseInCallback \in BOOLEAN /\ Reopen \in BOOLEAN

reactor == <<operations_, used_operations_end_, epoll_events_, wake, op_queue, queue, run,
             report, reg, handle, jobs, open, watch, interest, edge, unblock_fd_>>
base    == <<socket_handle_, reactor_handle_, is_open_, owner>>
accept  == <<acceptor_sockstate_, on_accept_complete_, peer_socket_, speculative_accept_,
             posted, crashed, waiting>>
avars   == <<reactor, base, accept, doing, backlog>>

NoTag == -1
Nothing == [what |-> "nothing", socket |-> NoSocket, fd |-> NoFd, result |-> "none"]
Doing(what, o, f) == [what |-> what, socket |-> o, fd |-> f, result |-> "none"]

AcceptorInit ==
    /\ socket_handle_ = [o \in Objects |-> NoFd] /\ reactor_handle_ = [o \in Objects |-> NoTag]
    /\ is_open_ = [o \in Objects |-> FALSE] /\ owner = [t \in 0..(Capacity - 1) |-> NoSocket]
    /\ acceptor_sockstate_ = "kDisconnected" /\ on_accept_complete_ = FALSE
    /\ peer_socket_ = NoSocket /\ speculative_accept_ = FALSE
    /\ posted = FALSE /\ crashed = FALSE /\ waiting = 0
    /\ doing = Nothing /\ backlog = [f \in Fds |-> 0]
    /\ R!Init

-----------------------------------------------------------------------------
(* A client connects: the backlog of the listening descriptor grows.       *)
Listening == acceptor_sockstate_ \in {"kListening", "kAccepting"}

Connects ==
    LET f == socket_handle_[acceptor]
        t == reactor_handle_[acceptor] IN
    /\ Listening /\ f \in open /\ backlog[f] < MaxBacklog
    /\ Bursts \/ (backlog[f] = 0 /\ "read" \in operations_[t].monitored_events_)
    /\ backlog' = [backlog EXCEPT ![f] = @ + 1]
    /\ UNCHANGED <<base, accept, doing>>
    /\ R!BecomeReady(f, {"read"})

-----------------------------------------------------------------------------
(* The mutex of a socket's entry is free, and the thread is.  Accept() and *)
(* a speculative accept keep the acceptor's mutex throughout.              *)
MayCall(o) ==
    /\ R!ThreadFree /\ (OneThread => doing = Nothing)
    /\ doing.socket # o
    /\ o = acceptor => doing.what \notin {"sync", "speculative"}
    /\ reactor_handle_[o] # NoTag => run[reactor_handle_[o]] # "locked"

(* Open(), and the bind that follows it.                                   *)
Fresh(o) == ~is_open_[o] /\ (reactor_handle_[o] = NoTag \/ Reopen)

BeginOpen ==
    /\ Fresh(acceptor) /\ MayCall(acceptor) /\ doing = Nothing
    /\ \E f \in Fds \ open :
        /\ doing' = Doing("open", acceptor, f)
        /\ open' = open \cup {f} /\ backlog' = [backlog EXCEPT ![f] = 0]
    /\ UNCHANGED <<operations_, used_operations_end_, epoll_events_, wake, op_queue, queue, run,
                   report, reg, handle, jobs, watch, interest, edge, unblock_fd_, base, accept>>

BindToEndpoint ==
    /\ MayCall(acceptor) /\ is_open_[acceptor] /\ acceptor_sockstate_ = "kDisconnected"
    /\ reactor_handle_[acceptor] # NoTag /\ operations_[reactor_handle_[acceptor]].valid_
    /\ acceptor_sockstate_' = "kBound"
    /\ UNCHANGED <<reactor, base, on_accept_complete_, peer_socket_, speculative_accept_,
                   posted, crashed, waiting, doing, backlog>>

Listen ==
    /\ ListensFirst /\ MayCall(acceptor) /\ acceptor_sockstate_ = "kBound"
    /\ acceptor_sockstate_' = "kListening"
    /\ UNCHANGED <<reactor, base, on_accept_complete_, peer_socket_, speculative_accept_,
                   posted, crashed, waiting, doing, backlog>>

(* Accept(), refused while an asynchronous one is going on.                *)
Accept(s) ==
    /\ MayCall(acceptor) /\ Fresh(s) /\ doing = Nothing
    /\ acceptor_sockstate_ \in {"kBound", "kListening"}
    /\ acceptor_sockstate_' = "kListening"
    /\ doing' = Doing("sync", s, NoFd)
    /\ UNCHANGED <<reactor, base, on_accept_complete_, peer_socket_, speculative_accept_,
                   posted, crashed, waiting, backlog>>

(* Base::AsyncReadOperationStarted().                                      *)
AsyncReadOperationStarted ==
    LET f == socket_handle_[acceptor] IN
    /\ R!OnStartOfOperation(f, reactor_handle_[acceptor], "read", {}, {})
    /\ UNCHANGED <<used_operations_end_, epoll_events_, wake, op_queue, queue, report, reg,
                   handle, open, unblock_fd_>>

(* AcceptAsyncInternal(): tried at once only if an event has been ignored. *)
MayAcceptAlways == acceptor_sockstate_ # "kDisconnected"
MayAccept == acceptor_sockstate_ \in {"kBound", "kListening"}

(* DoAsyncAccept() keeps the callback and the socket to accept into.       *)
Keep(s) == on_accept_complete_' = TRUE /\ peer_socket_' = s

AcceptAsync(s) ==
    /\ MayCall(acceptor) /\ Fresh(s) /\ MayAccept /\ ~posted /\ doing.socket # s
    /\ acceptor_sockstate_' = "kAccepting"
    /\ waiting' = waiting + 1
    /\ UNCHANGED <<base, speculative_accept_, posted, crashed, backlog>>
    /\ IF speculative_accept_
       THEN /\ doing = Nothing
            /\ doing' = Doing("speculative", s, NoFd)
            /\ UNCHANGED <<reactor, on_accept_complete_, peer_socket_>>
       ELSE /\ Keep(s)
            /\ AsyncReadOperationStarted
            /\ UNCHANGED <<run, doing>>

-----------------------------------------------------------------------------
(* Close() and Destroy(): DerigsterImpl() acts on the entry reactor_handle_*)
(* names, or reports an error if that is not valid; the handle is kept.    *)
MayClose(o) ==
    /\ MayCall(o) /\ ~(on_accept_complete_ /\ o = peer_socket_)
    /\ reactor_handle_[o] # NoTag /\ ~CloseInCallback =>
           ~operations_[reactor_handle_[o]].execution_in_progress_

Deregister(o) ==
    LET t == reactor_handle_[o] IN
    /\ UNCHANGED backlog
    /\ IF operations_[t].valid_ THEN R!Deregister(operations_[t].io_source_)
       ELSE UNCHANGED reactor

Close(o) ==
    LET t == reactor_handle_[o]
        closed == operations_[t].valid_ /\ ~operations_[t].execution_in_progress_ IN
    /\ is_open_[o] /\ MayClose(o)
    /\ Deregister(o)
    /\ is_open_' = [is_open_ EXCEPT ![o] = ~closed]
    /\ socket_handle_' = [socket_handle_ EXCEPT ![o] = IF closed THEN NoFd ELSE @]
    /\ acceptor_sockstate_' = IF o = acceptor THEN "kDisconnected" ELSE acceptor_sockstate_
    /\ UNCHANGED <<reactor_handle_, owner, on_accept_complete_, peer_socket_,
                   speculative_accept_, posted, crashed, waiting, doing>>

(* The destructor; the storage then holds a new object.                    *)
DeregisteredUnlessAccepting(o) == is_open_[o] /\ ~(o = acceptor /\ Listening)
Deregistered(o) == is_open_[o]

Destroy(o) ==
    /\ MayClose(o) /\ (o = acceptor => ~posted /\ doing.what # "async")
    /\ reactor_handle_[o] # NoTag
    /\ IF Deregistered(o) THEN Deregister(o) ELSE UNCHANGED <<reactor, backlog>>
    /\ is_open_' = [is_open_ EXCEPT ![o] = FALSE]
    /\ socket_handle_' = [socket_handle_ EXCEPT ![o] = NoFd]
    /\ reactor_handle_' = [reactor_handle_ EXCEPT ![o] = NoTag]
    /\ IF o = acceptor
       THEN /\ acceptor_sockstate_' = "kDisconnected" /\ on_accept_complete_' = FALSE
            /\ peer_socket_' = NoSocket /\ speculative_accept_' = FALSE /\ waiting' = 0
       ELSE UNCHANGED <<acceptor_sockstate_, on_accept_complete_, peer_socket_,
                        speculative_accept_, waiting>>
    /\ UNCHANGED <<owner, posted, crashed, doing>>

-----------------------------------------------------------------------------
(* DoAccept(): the native accept, which may find nothing or fail, then     *)
(* AssignAcceptedHandle(), whose result is ignored.                        *)
Accepting == doing.what \in {"sync", "speculative", "async"} /\ doing.fd = NoFd /\ doing.result = "none"

(* What becomes of the call in progress: it is over for an open or a       *)
(* synchronous accept, and goes on to its completion for the others.       *)
Over(result) ==
    doing' = IF doing.what \in {"open", "sync"} THEN Nothing
             ELSE [doing EXCEPT !.result = result, !.fd = NoFd]

NativeAccept ==
    LET l == socket_handle_[acceptor] IN
    /\ Accepting /\ l \in open
    /\ UNCHANGED <<operations_, used_operations_end_, epoll_events_, wake, op_queue, queue, run,
                   report, reg, handle, jobs, watch, interest, edge, unblock_fd_, base, accept>>
    /\ \/ backlog[l] = 0 /\ Over("busy") /\ UNCHANGED <<open, backlog>>
       \/ /\ backlog[l] > 0 /\ Over("done")
          /\ backlog' = [backlog EXCEPT ![l] = @ - 1] /\ UNCHANGED open
       \/ /\ backlog[l] > 0
          /\ \E f \in Fds \ open :
              /\ doing' = [doing EXCEPT !.fd = f]
              /\ open' = open \cup {f} /\ backlog' = [backlog EXCEPT ![l] = @ - 1, ![f] = 0]

(* AssignNativeHandle() registers the descriptor; but a socket that has a  *)
(* handle already is open without it.                                      *)
BeginAssign ==
    LET o == doing.socket IN
    /\ doing.fd # NoFd
    /\ UNCHANGED <<reactor_handle_, owner, accept, backlog>>
    /\ IF reactor_handle_[o] = NoTag
       THEN /\ UNCHANGED <<socket_handle_, is_open_, handle>>
            /\ \/ UNCHANGED doing /\ R!FindFreeOperationSlot(doing.fd)
               \/ Over("done") /\ R!CapacityExceeded(doing.fd)
       ELSE /\ is_open_' = [is_open_ EXCEPT ![o] = TRUE]
            /\ socket_handle_' = [socket_handle_ EXCEPT ![o] = doing.fd]
            /\ Over("done")
            /\ UNCHANGED reactor

OpenRegardless(ok) == TRUE
OpenIf(ok) == ok

RegisterFails ==
    /\ R!Registering
    /\ is_open_' = [is_open_ EXCEPT ![doing.socket] = OpenIf(FALSE)]
    /\ Over("done")
    /\ UNCHANGED <<socket_handle_, reactor_handle_, owner, accept, backlog>>
    /\ R!EpollAddFails

Registered ==
    LET o == doing.socket IN
    /\ R!Registering
    /\ is_open_' = [is_open_ EXCEPT ![o] = OpenIf(TRUE)]
    /\ socket_handle_' = [socket_handle_ EXCEPT ![o] = doing.fd]
    /\ reactor_handle_' = [reactor_handle_ EXCEPT ![o] = reg.tag]
    /\ owner' = [owner EXCEPT ![reg.tag] = o]
    /\ Over("done")
    /\ UNCHANGED <<accept, backlog>>
    /\ R!WriteEntry

AssignNativeHandle ==
    \/ BeginAssign \/ RegisterFails \/ Registered
    \/ UNCHANGED <<base, accept, doing, backlog>> /\ R!EpollAdd

-----------------------------------------------------------------------------
(* DoAsyncAccept() after a speculative accept: a completion is posted, the *)
(* state stays kAccepting.                                                 *)
SpeculativeAcceptOver ==
    /\ doing.what = "speculative" /\ doing.result # "none"
    /\ speculative_accept_' = FALSE
    /\ doing' = Nothing
    /\ UNCHANGED <<base, acceptor_sockstate_, crashed, waiting, backlog>>
    /\ IF doing.result = "busy"
       THEN /\ Keep(doing.socket)
            /\ AsyncReadOperationStarted /\ UNCHANGED <<run, posted>>
       ELSE posted' = TRUE /\ UNCHANGED <<reactor, on_accept_complete_, peer_socket_>>

RunPosted ==
    /\ posted /\ R!ThreadFree /\ R!NoneExecuting /\ (OneThread => doing = Nothing)
    /\ posted' = FALSE /\ waiting' = waiting - 1
    /\ UNCHANGED <<reactor, base, acceptor_sockstate_, on_accept_complete_, peer_socket_,
                   speculative_accept_, crashed, doing, backlog>>

(* OnReactorEventImpl() while not accepting: the event is ignored.         *)
NotAccepting(t) ==
    /\ R!Reporting(t, "read") /\ acceptor_sockstate_ # "kAccepting"
    /\ speculative_accept_' = TRUE
    /\ operations_' = [operations_ EXCEPT ![t].monitored_events_ = @ \cup {"read"}]
    /\ jobs' = R!Add(t, 1)
    /\ UNCHANGED <<used_operations_end_, epoll_events_, wake, op_queue, queue, run, reg, handle,
                   open, watch, interest, edge, unblock_fd_, base, acceptor_sockstate_,
                   on_accept_complete_, peer_socket_, posted, crashed, waiting, doing, backlog>>

(* HandleAysncAccept() unlocks for DoAccept().                             *)
HandleAsyncAccept(t) ==
    /\ R!Reporting(t, "read") /\ acceptor_sockstate_ = "kAccepting" /\ doing = Nothing
    /\ run' = [run EXCEPT ![t] = "callback"]
    /\ IF on_accept_complete_ \/ backlog[socket_handle_[acceptor]] = 0
       THEN doing' = Doing("async", peer_socket_, NoFd) /\ UNCHANGED crashed
       ELSE crashed' = TRUE /\ UNCHANGED doing
    /\ UNCHANGED <<operations_, used_operations_end_, epoll_events_, wake, op_queue, queue, reg,
                   handle, jobs, open, watch, interest, edge, unblock_fd_, base,
                   acceptor_sockstate_, on_accept_complete_, peer_socket_, speculative_accept_,
                   posted, waiting, backlog>>

(* It locks again, and starts over, or calls the handler unlocked.         *)
AsyncAcceptOver(t) ==
    /\ doing.what = "async" /\ doing.result # "none" /\ run[t] = "callback" /\ owner[t] = acceptor
    /\ doing' = Nothing
    /\ UNCHANGED <<base, peer_socket_, speculative_accept_, posted, crashed, backlog>>
    /\ IF acceptor_sockstate_ = "kDisconnected" \/ doing.result = "busy"
       THEN /\ run' = [run EXCEPT ![t] = "locked"]
            /\ UNCHANGED <<acceptor_sockstate_, on_accept_complete_, waiting>>
            /\ IF acceptor_sockstate_ = "kDisconnected"
               THEN UNCHANGED <<operations_, used_operations_end_, epoll_events_, wake, op_queue,
                                queue, report, reg, handle, jobs, open, watch, interest, edge,
                                unblock_fd_>>
               ELSE AsyncReadOperationStarted
       ELSE /\ acceptor_sockstate_' = "kListening"
            /\ on_accept_complete_' = FALSE /\ waiting' = waiting - 1
            /\ UNCHANGED reactor

Operation(t) ==
    \/ NotAccepting(t) \/ HandleAsyncAccept(t) \/ AsyncAcceptOver(t)
    \/ /\ UNCHANGED <<base, accept, doing, backlog>>
       /\ \/ R!SkipDeregistered(t) \/ R!CallHandler(t)
          \/ (doing.what # "async" /\ R!CallbackReturns(t))
          \/ R!HandlerReturns(t)

HandleEvents ==
    /\ UNCHANGED <<base, accept, doing, backlog>> /\ (OneThread => doing = Nothing)
    /\ R!WaitForEvents \/ \E ev \in epoll_events_ : R!HandleSingleEvent(ev)

Call ==
    \/ BeginOpen \/ BindToEndpoint \/ Listen
    \/ \E s \in Sockets : Accept(s) \/ AcceptAsync(s)
    \/ \E o \in Objects : Close(o) \/ Destroy(o)

AcceptorNext ==
    /\ ~crashed
    /\ \/ Connects \/ Call \/ NativeAccept \/ AssignNativeHandle \/ SpeculativeAcceptOver
       \/ RunPosted \/ HandleEvents
       \/ \E t \in R!Tags : Operation(t)

AcceptorSpec == AcceptorInit /\ [][AcceptorNext]_avars

(* As in StreamSocket; a call that has begun goes on.                      *)
AcceptorFairSpec ==
    /\ AcceptorSpec
    /\ WF_avars(~crashed /\ (NativeAccept \/ AssignNativeHandle \/ SpeculativeAcceptOver))
    /\ SF_avars(~crashed /\ RunPosted) /\ SF_avars(~crashed /\ HandleEvents)
    /\ \A t \in R!Tags : SF_avars(~crashed /\ Operation(t))

-----------------------------------------------------------------------------
AcceptorTypeOK ==
    /\ socket_handle_ \in [Objects -> Fds \cup {NoFd}]
    /\ reactor_handle_ \in [Objects -> R!Tags \cup {NoTag}] /\ is_open_ \in [Objects -> BOOLEAN]
    /\ acceptor_sockstate_ \in {"kDisconnected", "kBound", "kListening", "kAccepting"}
    /\ on_accept_complete_ \in BOOLEAN /\ peer_socket_ \in Sockets \cup {NoSocket}
    /\ on_accept_complete_ => peer_socket_ # NoSocket
    /\ speculative_accept_ \in BOOLEAN /\ posted \in BOOLEAN /\ crashed \in BOOLEAN
    /\ backlog \in [Fds -> 0..MaxBacklog] /\ owner \in [R!Tags -> Objects \cup {NoSocket}]
    /\ waiting \in 0..2

(* An open socket is registered with the reactor, under its own handle and *)
(* for its own descriptor: closing it closes nothing else, and no event is *)
(* given to another.                                                       *)
OpenMeansRegistered ==
    \A o \in Objects : is_open_[o] =>
        LET t == reactor_handle_[o] IN
        /\ t # NoTag /\ owner[t] = o
        /\ operations_[t].valid_ /\ operations_[t].io_source_ = socket_handle_[o]

(* No descriptor is leaked: one that is open belongs to an open socket, is *)
(* being given to one, or will be closed by the handler that is executing. *)
DescriptorsOwned ==
    \A f \in open :
        \/ \E o \in Objects : is_open_[o] /\ socket_handle_[o] = f
        \/ doing.fd = f
        \/ \E t \in R!Tags : operations_[t].close_io_source_ /\ operations_[t].io_source_ = f

(* Each callback given to AcceptAsync() is kept by the acceptor or posted: *)
(* none is dropped, overwritten or called twice.                           *)
AcceptCallbacksAccounted ==
    waiting = Cardinality({b \in {1} : on_accept_complete_}) + Cardinality({b \in {1} : posted})
              + Cardinality({b \in {1} : doing.what = "speculative"})

(* The acceptor says "accept operation ongoing" of itself only while there *)
(* is one: it keeps the callback and the socket to accept into.            *)
AcceptingIsOngoing ==
    acceptor_sockstate_ = "kAccepting" =>
        on_accept_complete_ \/ doing.what = "speculative"

(* A connection that waits while an accept is in progress is accepted and  *)
(* the callback called, unless the acceptor is closed.                     *)
AcceptsComplete ==
    (on_accept_complete_ /\ is_open_[acceptor] /\ backlog[socket_handle_[acceptor]] > 0)
        ~> ~on_accept_complete_ \/ acceptor_sockstate_ = "kDisconnected"
=============================================================================

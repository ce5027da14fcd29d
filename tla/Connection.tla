----------------------------- MODULE Connection -----------------------------
(***************************************************************************)
(* The client/server layer: a Connection (client_server/connection.hpp) of *)
(* a ClientInterface (impl/client_interface.ipp) and the Connection that a *)
(* ServerInterface (impl/server_interface.ipp) creates for it: connecting  *)
(* with retries, the handshake, the outbox of each side and the strand it  *)
(* is meant to be used on, the framing of messages, errors and removal.    *)
(*                                                                         *)
(* A stream socket does here what StreamSocket shows: an operation in      *)
(* progress completes in the reactor's handler, one that completes at once *)
(* is posted.  What a handler does is one step, except where it touches    *)
(* the outbox twice without holding the strand (midway).                   *)
(***************************************************************************)
EXTENDS Integers, Sequences, FiniteSets, SequencesExt

CONSTANTS
    Outgoing,       \* per side, the number of messages the application sends
    OneThread,      \* all handlers and calls are on the one thread of the executor
    Mixed,          \* SendSync() is called also while earlier messages are queued
    Keys            \* the keys that peers compute: "good", or "bad" for a foreign one

Sides == {"client", "server"}
Other(x) == IF x = "client" THEN "server" ELSE "client"

ASSUME ConnectionAssumption ==
    /\ Outgoing \in [Sides -> Nat] /\ OneThread \in BOOLEAN /\ Mixed \in BOOLEAN
    /\ Keys \subseteq {"good", "bad"}

VARIABLES
    started,        \* the server has called WaitForClientConnections()
    socket_,        \* per side: the socket of the connection
    channel,        \* per side: what the network has for it, in order
    is_connection_validated_, outbox_,
    receiving,      \* per side: what the ReceiveAsync() in progress is to read
    received,       \* per side: the posted completion of a ReceiveAsync()
    incoming_message_,
    kept,           \* the server's recv_operation_ holds a callback, hence the connection
    auth_key_,      \* the key that the client has computed
    sending,        \* per side: the SendAsync() in progress, or its posted completion
    strand_,        \* per side: the jobs of the strand, in order
    midway,         \* handlers between two uses of shared state
    retry,          \* the client's deferred job that connects again
    connections_,   \* whether the server lists the connection
    crashed,        \* a handler has used a destroyed connection
    accepted, written, delivered    \* history: messages sent, on the wire, received

channels == <<socket_, channel>>
outputs  == <<is_connection_validated_, outbox_, sending, strand_>>
inputs   == <<receiving, received, incoming_message_, auth_key_, kept>>
history  == <<accepted, written, delivered>>
vars     == <<started, channels, outputs, inputs, midway, retry, connections_, crashed, history>>

Item(kind, what) == [kind |-> kind, of |-> what]
Nothing == Item("none", 0)

Init ==
    /\ started = FALSE
    /\ socket_ = [x \in Sides |-> IF x = "client" THEN "new" ELSE "closed"]
    /\ channel = [x \in Sides |-> <<>>]
    /\ is_connection_validated_ = [x \in Sides |-> FALSE]
    /\ outbox_ = [x \in Sides |-> <<>>]
    /\ receiving = [x \in Sides |-> "none"] /\ received = [x \in Sides |-> Nothing]
    /\ incoming_message_ = [x \in Sides |-> 0] /\ auth_key_ = "none" /\ kept = FALSE
    /\ sending = [x \in Sides |-> "none"] /\ strand_ = [x \in Sides |-> <<>>]
    /\ midway = {} /\ retry = FALSE /\ connections_ = FALSE /\ crashed = FALSE
    /\ accepted = [x \in Sides |-> <<>>] /\ written = [x \in Sides |-> <<>>]
    /\ delivered = [x \in Sides |-> <<>>]

-----------------------------------------------------------------------------
(* The one thread is free for another handler or call.                     *)
Free == OneThread => midway = {}

(* Messages with an odd number have a body.                                *)
HasBody(m) == m % 2 = 1
Frame(m) == IF HasBody(m) THEN <<Item("header", m), Item("body", m)>> ELSE <<Item("header", m)>>
Frames(messages) == FlattenSeq([i \in DOMAIN messages |-> Frame(messages[i])])

(* The native send to a peer that has closed may or may not fail.          *)
SendResults(x) ==
    IF socket_[x] # "connected" THEN {FALSE}
    ELSE IF socket_[Other(x)] = "closed" THEN BOOLEAN ELSE {TRUE}

Arrives(x, items) == [channel EXCEPT ![Other(x)] =
                          IF socket_[Other(x)] = "closed" THEN @ ELSE @ \o items]

(* A connection is kept alive by its owner and by the handlers that hold a *)
(* shared pointer to it; the callback of SendAsync() holds none.  That of  *)
(* a receive that had to wait stays in recv_operation_ when it is called,  *)
(* until the next one that has to wait: AsyncOperation does not reset it.  *)
SelfHeld(x) ==
    \/ receiving[x] # "none" \/ received[x] # Nothing \/ (x = "server" /\ kept)
    \/ \E i \in DOMAIN strand_[x] : strand_[x][i].job # "next"
    \/ \E w \in {"emplace", "flush"} : <<w, x>> \in midway
Alive(x) == x = "client" \/ connections_ \/ SelfHeld(x)

(* On one thread the key of the client cannot have been reported when the  *)
(* server has just sent the seed; any other receive may find its data.     *)
WaitsMovedOut(x, what) == kept' = kept
Waits(x, what) ==
    kept' \in IF x = "client" THEN {kept}
              ELSE IF OneThread /\ what = "key" THEN {TRUE} ELSE {kept, TRUE}

-----------------------------------------------------------------------------
(* HandleCommunicationError(): the owner is told, the socket closed.       *)
RemoveConnection(x) == connections_' = (connections_ /\ x # "server")
SocketClosed(x) == socket_' = [socket_ EXCEPT ![x] = "closed"]

HandleCommunicationError(x) == RemoveConnection(x) /\ SocketClosed(x)

(* DoSendNextMessage(): the front of the outbox is sent; if that does not  *)
(* block the completion is posted.                                         *)
DoSendNextMessage(x, outbox) ==
    \/ \E ok \in SendResults(x) :
        /\ sending' = [sending EXCEPT ![x] = IF ok THEN "sent" ELSE "failed"]
        /\ channel' = IF ok THEN Arrives(x, Frame(Head(outbox))) ELSE channel
        /\ written' = IF ok THEN [written EXCEPT ![x] = Append(@, Head(outbox))] ELSE written
    \/ /\ socket_[x] = "connected"
       /\ sending' = [sending EXCEPT ![x] = "ongoing"]
       /\ UNCHANGED <<channel, written>>

(* DoSendMessage2(), in the strand.                                        *)
SendInProgress(x) == outbox_[x] # <<>>

DoSendMessage2(x, m) ==
    /\ outbox_' = [outbox_ EXCEPT ![x] = Append(@, m)]
    /\ IF SendInProgress(x) \/ ~is_connection_validated_[x]
       THEN UNCHANGED <<sending, channel, written>>
       ELSE DoSendNextMessage(x, Append(outbox_[x], m))
    /\ UNCHANGED <<socket_, connections_>>

(* The strand executes its jobs in order.  Closing drops a connect that is *)
(* in progress, but not a failure that is posted already: it is retried.   *)
ExecuteStrandJob(x) ==
    LET j == Head(strand_[x]) IN
    /\ strand_[x] # <<>> /\ Free
    /\ strand_' = [strand_ EXCEPT ![x] = Tail(@)]
    /\ crashed' = (~Alive(x) \/ (j.job = "next" /\ outbox_[x] = <<>>))
    /\ \/ j.job = "send" /\ DoSendMessage2(x, j.of)
       \/ /\ j.job = "next"
          /\ IF outbox_[x] = <<>> THEN UNCHANGED <<sending, channel, written>>
             ELSE DoSendNextMessage(x, outbox_[x])
          /\ UNCHANGED <<outbox_, socket_, connections_>>
       \/ /\ j.job = "close"
          /\ SocketClosed(x)
          /\ UNCHANGED <<outbox_, sending, channel, written, connections_>>
    /\ retry' \in IF j.job = "close" /\ socket_[x] = "connecting" THEN BOOLEAN ELSE {retry}
    /\ UNCHANGED <<started, is_connection_validated_, inputs, midway, accepted, delivered>>

(* Strand::Dispatch(): where it executes the job at once, as a worker does *)
(* that finds the strand idle, the job is the next to be executed.         *)
Dispatch(x, j) == strand_' = [strand_ EXCEPT ![x] = Append(@, j)]

(* The completion of SendAsync(), outside the strand.                      *)
SendNextNever(more) == FALSE
SendNextIf(more) == more

OnSent(x, ok) ==
    LET rest == IF outbox_[x] = <<>> THEN <<>> ELSE Tail(outbox_[x]) IN
    /\ crashed' = (~Alive(x) \/ outbox_[x] = <<>>)
    /\ sending' = [sending EXCEPT ![x] = "none"]
    /\ outbox_' = [outbox_ EXCEPT ![x] = rest]
    /\ IF ok
       THEN /\ IF SendNextIf(rest # <<>>) THEN Dispatch(x, [job |-> "next", of |-> 0])
               ELSE UNCHANGED strand_
            /\ UNCHANGED <<socket_, connections_>>
       ELSE HandleCommunicationError(x) /\ UNCHANGED strand_
    /\ UNCHANGED <<started, is_connection_validated_, inputs, midway, retry, accepted, delivered>>

SendCompletes(x) ==
    /\ Free
    /\ \/ /\ sending[x] \in {"sent", "failed"}
          /\ OnSent(x, sending[x] = "sent") /\ UNCHANGED <<channel, written>>
       \/ /\ sending[x] = "ongoing" /\ socket_[x] = "connected" /\ outbox_[x] # <<>>
          /\ \E ok \in SendResults(x) :
              /\ OnSent(x, ok)
              /\ channel' = IF ok THEN Arrives(x, Frame(Head(outbox_[x]))) ELSE channel
              /\ written' = IF ok THEN [written EXCEPT ![x] = Append(@, Head(outbox_[x]))] ELSE written

-----------------------------------------------------------------------------
(* The calls of the application.                                           *)
NextMessage(x) == Len(accepted[x]) + 1
Queued(x) == outbox_[x] # <<>> \/ strand_[x] # <<>> \/ sending[x] # "none"

(* IsConnected(): a socket that was closed in its own reactor handler      *)
(* still says that it is open, one that was closed elsewhere does not.     *)
MayBeConnected(x) == is_connection_validated_[x]

MaySend(x) ==
    /\ Free /\ NextMessage(x) <= Outgoing[x]
    /\ x = "server" => connections_

(* Send(): the client refuses it unless connected, the server does not.    *)
Send(x) ==
    /\ MaySend(x) /\ (x = "client" => MayBeConnected(x))
    /\ accepted' = [accepted EXCEPT ![x] = Append(@, NextMessage(x))]
    /\ Dispatch(x, [job |-> "send", of |-> NextMessage(x)])
    /\ UNCHANGED <<started, channels, is_connection_validated_, outbox_, sending, inputs, midway,
                   retry, connections_, crashed, written, delivered>>

(* SendSync(): kept in the outbox until the connection is validated, which *)
(* is looked up first; the server only calls it when that is so.           *)
BeginSendSync(x) ==
    /\ x = "client" /\ MaySend(x) /\ <<"sync", x>> \notin midway
    /\ ~is_connection_validated_[x] /\ (strand_[x] = <<>> \/ Mixed)
    /\ midway' = midway \cup {<<"sync", x>>}
    /\ UNCHANGED <<started, channels, outputs, inputs, retry, connections_, crashed, history>>

EndSendSync(x) ==
    /\ <<"sync", x>> \in midway
    /\ midway' = midway \ {<<"sync", x>>}
    /\ outbox_' = [outbox_ EXCEPT ![x] = Append(@, NextMessage(x))]
    /\ accepted' = [accepted EXCEPT ![x] = Append(@, NextMessage(x))]
    /\ UNCHANGED <<started, channels, is_connection_validated_, sending, strand_, inputs, retry,
                   connections_, crashed, written, delivered>>

SendSync(x) ==
    LET m == NextMessage(x) IN
    /\ MaySend(x) /\ is_connection_validated_[x] /\ (~Queued(x) \/ Mixed)
    /\ accepted' = [accepted EXCEPT ![x] = Append(@, m)]
    /\ \E ok \in IF sending[x] = "ongoing" THEN {FALSE} ELSE SendResults(x) :
        /\ channel' = IF ok THEN Arrives(x, Frame(m)) ELSE channel
        /\ written' = IF ok THEN [written EXCEPT ![x] = Append(@, m)] ELSE written
        /\ IF ok THEN UNCHANGED <<outbox_, strand_>>
           ELSE IF x = "client" /\ socket_[x] # "connected"
           THEN outbox_' = [outbox_ EXCEPT ![x] = Append(@, m)] /\ UNCHANGED strand_
           ELSE Dispatch(x, [job |-> "close", of |-> 0]) /\ UNCHANGED outbox_
    /\ UNCHANGED <<started, socket_, is_connection_validated_, sending, inputs, midway, retry,
                   connections_, crashed, delivered>>

(* Disconnect().                                                           *)
Disconnect ==
    /\ Free /\ socket_["client"] # "closed" /\ strand_["client"] = <<>>
    /\ Dispatch("client", [job |-> "close", of |-> 0])
    /\ UNCHANGED <<started, channels, is_connection_validated_, outbox_, sending, inputs, midway,
                   retry, connections_, crashed, history>>

(* Reconnect(), called once the old connection is done but for retries of  *)
(* its closed socket: a new connection, which connects.                    *)
Reconnect ==
    /\ midway = {} /\ \A x \in Sides :
           socket_[x] = "closed" /\ strand_[x] = <<>> /\ received[x] = Nothing
           /\ sending[x] \in {"none", "ongoing"}
    /\ socket_' = [socket_ EXCEPT !["client"] = "connecting"]
    /\ channel' = [x \in Sides |-> <<>>] /\ outbox_' = [x \in Sides |-> <<>>]
    /\ is_connection_validated_' = [x \in Sides |-> FALSE]
    /\ receiving' = [x \in Sides |-> "none"] /\ incoming_message_' = [x \in Sides |-> 0]
    /\ sending' = [x \in Sides |-> "none"] /\ connections_' = FALSE
    /\ accepted' = [x \in Sides |-> <<>>] /\ written' = [x \in Sides |-> <<>>]
    /\ delivered' = [x \in Sides |-> <<>>] /\ retry' = FALSE /\ auth_key_' = "none" /\ kept' = FALSE
    /\ UNCHANGED <<started, received, strand_, midway, crashed>>

-----------------------------------------------------------------------------
(* ConnectToServer(): a failed attempt is repeated by a deferred job.      *)
WaitForClientConnections ==
    /\ ~started /\ started' = TRUE
    /\ UNCHANGED <<channels, outputs, inputs, midway, retry, connections_, crashed, history>>

ConnectToServer ==
    /\ Free /\ (socket_["client"] = "new" \/ retry)
    /\ socket_' = IF socket_["client"] = "closed" THEN socket_
                  ELSE [socket_ EXCEPT !["client"] = "connecting"]
    /\ retry' = (socket_["client"] = "closed")
    /\ UNCHANGED <<started, channel, outputs, inputs, midway, connections_, crashed, history>>

ConnectionAttemptsOnce(failed) == FALSE
ConnectionAttempts(failed) == failed

OnConnectResult ==
    /\ Free /\ socket_["client"] = "connecting"
    /\ IF started
       THEN /\ socket_' = [client |-> "connected", server |-> "pending"]
            /\ receiving' = [receiving EXCEPT !["client"] = "seed"]
            /\ UNCHANGED retry
       ELSE /\ socket_' = [socket_ EXCEPT !["client"] = "open"]
            /\ retry' = ConnectionAttempts(TRUE)
            /\ UNCHANGED receiving
    /\ UNCHANGED <<started, channel, outputs, received, incoming_message_, auth_key_, kept, midway,
                   connections_, crashed, history>>

(* The accept handler of the server: the connection is listed after the    *)
(* handshake has begun.                                                    *)
OnAccept ==
    /\ Free /\ socket_["server"] = "pending"
    /\ \/ SocketClosed("server") /\ UNCHANGED <<channel, receiving, kept, midway>>
       \/ \E ok \in IF socket_["client"] = "closed" THEN BOOLEAN ELSE {TRUE} :
           /\ midway' = midway \cup {<<"emplace", "server">>}
           /\ socket_' = [socket_ EXCEPT !["server"] = IF ok THEN "connected" ELSE "closed"]
           /\ channel' = IF ok THEN Arrives("server", <<Item("seed", 0)>>) ELSE channel
           /\ receiving' = [receiving EXCEPT !["server"] = IF ok THEN "key" ELSE "none"]
           /\ IF ok THEN Waits("server", "key") ELSE UNCHANGED kept
    /\ UNCHANGED <<started, outputs, received, incoming_message_, auth_key_, retry, connections_,
                   crashed, history>>

EmplaceConnection ==
    /\ <<"emplace", "server">> \in midway
    /\ midway' = midway \ {<<"emplace", "server">>}
    /\ connections_' = TRUE
    /\ UNCHANGED <<started, channels, outputs, inputs, retry, crashed, history>>

-----------------------------------------------------------------------------
(* ReceiveAsync() takes what has arrived or fails, its callback follows.   *)
Receive(x) ==
    /\ Free /\ receiving[x] # "none" /\ socket_[x] = "connected"
    /\ receiving' = [receiving EXCEPT ![x] = "none"]
    /\ \/ /\ channel[x] # <<>>
          /\ received' = [received EXCEPT ![x] = [Head(channel[x]) EXCEPT !.kind = receiving[x]]]
          /\ channel' = [channel EXCEPT ![x] = Tail(@)]
       \/ /\ socket_[Other(x)] = "closed"
          /\ received' = [received EXCEPT ![x] = Item("error", 0)]
          /\ UNCHANGED channel
    /\ UNCHANGED <<started, socket_, outputs, incoming_message_, auth_key_, kept, midway, retry,
                   connections_, crashed, history>>

(* The next ReceiveAsync(): on a closed socket it fails at once if data    *)
(* was reported, and else never completes.                                 *)
Completion(x, item) == received' = [received EXCEPT ![x] = item]
ReceiveNext(x, what) ==
    \E fails \in IF socket_[x] = "closed" THEN BOOLEAN ELSE {FALSE} :
        /\ Completion(x, IF fails THEN Item("error", 0) ELSE Nothing)
        /\ receiving' = IF fails THEN receiving ELSE [receiving EXCEPT ![x] = what]
        /\ IF fails THEN UNCHANGED kept ELSE Waits(x, what)

(* SetConnectionValidated() and the loop of SendBackloggedMessages().      *)
Validate(x, first) ==
    /\ is_connection_validated_' = [is_connection_validated_ EXCEPT ![x] = TRUE]
    /\ midway' = midway \cup {<<"flush", x>>}
    /\ channel' = Arrives(x, first \o Frames(outbox_[x]))
    /\ written' = [written EXCEPT ![x] = @ \o outbox_[x]]

FinalizeReception(x, m) ==
    /\ delivered' = [delivered EXCEPT ![x] = Append(@, m)]
    /\ ReceiveNext(x, "header")

MatchesAny(key) == TRUE
Matches(key) == key = "good"

OnReceived(x) ==
    LET r == received[x] IN
    /\ Free /\ r # Nothing
    /\ auth_key_' \in IF r.kind = "seed" THEN Keys ELSE {auth_key_}
    /\ \/ /\ r.kind = "error" /\ Completion(x, Nothing) /\ HandleCommunicationError(x)
          /\ UNCHANGED <<channel, is_connection_validated_, receiving, incoming_message_, kept, midway,
                         written, delivered>>
       \/ /\ r.kind = "seed" /\ Completion(x, Nothing)
          /\ \E ok \in SendResults(x) :
              IF ok THEN Validate(x, <<Item("key", auth_key_')>>) /\ UNCHANGED <<socket_, connections_>>
              ELSE /\ HandleCommunicationError(x)
                   /\ UNCHANGED <<channel, is_connection_validated_, midway, written>>
          /\ UNCHANGED <<receiving, incoming_message_, kept, delivered>>
       \/ /\ r.kind = "key" /\ Completion(x, Nothing)
          /\ IF Matches(r.of) THEN Validate(x, <<>>) /\ UNCHANGED <<socket_, connections_>>
             ELSE /\ HandleCommunicationError(x)
                  /\ UNCHANGED <<channel, is_connection_validated_, midway, written>>
          /\ UNCHANGED <<receiving, incoming_message_, kept, delivered>>
       \/ /\ r.kind = "header"
          /\ IF HasBody(r.of)
             THEN /\ incoming_message_' = [incoming_message_ EXCEPT ![x] = r.of]
                  /\ ReceiveNext(x, "body") /\ UNCHANGED delivered
             ELSE FinalizeReception(x, r.of) /\ UNCHANGED incoming_message_
          /\ UNCHANGED <<channels, is_connection_validated_, midway, connections_, written>>
       \/ /\ r.kind = "body"
          /\ FinalizeReception(x, incoming_message_[x])
          /\ incoming_message_' = [incoming_message_ EXCEPT ![x] = 0]
          /\ UNCHANGED <<channels, is_connection_validated_, midway, connections_, written>>
    /\ UNCHANGED <<started, outbox_, sending, strand_, retry, crashed, accepted>>

(* The end of SendBackloggedMessages(), and the next receive.              *)
ClearedNot(x) == outbox_[x]
Cleared(x) == <<>>

EndFlush(x) ==
    /\ <<"flush", x>> \in midway
    /\ midway' = midway \ {<<"flush", x>>}
    /\ outbox_' = [outbox_ EXCEPT ![x] = Cleared(x)]
    /\ ReceiveNext(x, "header")
    /\ UNCHANGED <<started, channels, is_connection_validated_, sending, strand_, incoming_message_,
                   auth_key_, retry, connections_, crashed, history>>

-----------------------------------------------------------------------------
Handlers(x) ==
    \/ ExecuteStrandJob(x) \/ SendCompletes(x) \/ Receive(x) \/ OnReceived(x)
    \/ EndFlush(x) \/ EndSendSync(x)
Connecting == ConnectToServer \/ OnConnectResult \/ OnAccept \/ EmplaceConnection

Next ==
    /\ ~crashed
    /\ \/ WaitForClientConnections \/ Connecting \/ Disconnect \/ Reconnect
       \/ \E x \in Sides : Handlers(x) \/ Send(x) \/ BeginSendSync(x) \/ SendSync(x)

Spec == Init /\ [][Next]_vars

(* The executor executes what is posted, the peer reads what is sent, and  *)
(* the deferred job of a retry comes.                                      *)
FairSpec ==
    /\ Spec /\ WF_vars(~crashed /\ (retry /\ ConnectToServer))
    /\ WF_vars(~crashed /\ OnConnectResult) /\ WF_vars(~crashed /\ (OnAccept \/ EmplaceConnection))
    /\ \A x \in Sides :
        /\ SF_vars(~crashed /\ ExecuteStrandJob(x)) /\ SF_vars(~crashed /\ SendCompletes(x))
        /\ SF_vars(~crashed /\ (Receive(x) \/ OnReceived(x)))
        /\ WF_vars(~crashed /\ (EndFlush(x) \/ EndSendSync(x)))

-----------------------------------------------------------------------------
Numbers(x) == 1..Outgoing[x]

TypeOK ==
    /\ socket_ \in [Sides -> {"new", "open", "connecting", "pending", "connected", "closed"}]
    /\ \A x \in Sides :
        /\ outbox_[x] \in Seq(Numbers(x)) /\ accepted[x] \in Seq(Numbers(x))
        /\ sending[x] # "none" => outbox_[x] # <<>>
    /\ receiving \in [Sides -> {"none", "seed", "key", "header", "body"}]
    /\ sending \in [Sides -> {"none", "ongoing", "sent", "failed"}]
    /\ is_connection_validated_ \in [Sides -> BOOLEAN] /\ connections_ \in BOOLEAN
    /\ retry \in BOOLEAN /\ crashed \in BOOLEAN

(* While both ends are connected, every message that was sent is on the    *)
(* wire once or still queued for it, in the order it was sent.             *)
Up == \A x \in Sides : socket_[x] = "connected"
SendJobs(x) == SelectSeq(strand_[x], LAMBDA j : j.job = "send")
Unwritten(x) ==
    (IF sending[x] = "sent" THEN Tail(outbox_[x])
     ELSE IF <<"flush", x>> \in midway THEN <<>> ELSE outbox_[x])
    \o [i \in DOMAIN SendJobs(x) |-> SendJobs(x)[i].of]

MessagesAccounted ==
    \A x \in Sides : Up /\ sending[x] # "failed" => written[x] \o Unwritten(x) = accepted[x]

(* What is delivered to an owner is what the other end has sent, in order, *)
(* and a server delivers only what a peer with the right key sends.        *)
DeliveredInOrder ==
    /\ \A x \in Sides : IsPrefix(delivered[x], written[Other(x)])
    /\ delivered["server"] # <<>> => auth_key_ = "good"

(* A message that is sent on a validated connection reaches the wire,      *)
(* unless the connection ends.                                             *)
OutboxDrains ==
    \A x \in Sides :
        Up /\ is_connection_validated_[x] /\ Len(written[x]) < Len(accepted[x])
            ~> ~Up \/ Len(written[x]) = Len(accepted[x])

(* A client that was told to connect gets its connection once the server   *)
(* is there, however often it failed before, unless it is closed.          *)
ConnectRetries ==
    socket_["client"] # "new" /\ started ~> socket_["client"] \in {"connected", "closed"}

(* The handlers of a connection run only while it exists, "which means     *)
(* connection is guranteed to be alive" (OnConnectionError), though the    *)
(* callback of SendAsync() and the job it dispatches only hold this; and   *)
(* they find the message that they are about in the outbox.                *)
HandlersFindConnection == ~crashed
=============================================================================

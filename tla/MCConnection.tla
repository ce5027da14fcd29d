---------------------------- MODULE MCConnection ----------------------------
(* The number of messages each side sends. *)
EXTENDS Connection
CONSTANTS FromClient, FromServer
MCOutgoing == [client |-> FromClient, server |-> FromServer]
=============================================================================

--------------------------- MODULE MCPacketSocket ---------------------------
(* The model value of the descriptor. *)
EXTENDS PacketSocket
CONSTANT a
=============================================================================

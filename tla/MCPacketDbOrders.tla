-------------------------- MODULE MCPacketDbOrders ---------------------------
(* Values of the constants for model checking PacketDbOrders: those of      *)
(* MCPacketDb.                                                              *)
EXTENDS PacketDbOrders, MCPacketDb
=============================================================================

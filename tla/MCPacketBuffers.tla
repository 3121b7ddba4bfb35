-------------------------- MODULE MCPacketBuffers --------------------------
(* The receive path on a small instance: three buffers in a ring of four. *)
EXTENDS PacketBuffers
=============================================================================

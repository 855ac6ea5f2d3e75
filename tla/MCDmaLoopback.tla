---------------------------- MODULE MCDmaLoopback ----------------------------
(* A small instance of DmaLoopback. *)
EXTENDS DmaLoopback

MCValues == 0..Numbers-1
MCBuffers == AllBuffers
=============================================================================

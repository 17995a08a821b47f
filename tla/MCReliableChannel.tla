------------------------- MODULE MCReliableChannel -------------------------
(***************************************************************************)
(* The channel for TLC.  The u32 sequence space, the window of 32, the 8   *)
(* retransmissions and the ACK batch of 8 are scaled down; each stays      *)
(* small enough to be exhausted by the messages of the run.                *)
(***************************************************************************)
EXTENDS ReliableChannelProps
=============================================================================

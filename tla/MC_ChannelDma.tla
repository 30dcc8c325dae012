--------------------------- MODULE MC_ChannelDma ---------------------------
(* ChannelDma on small batches and queues. *)
EXTENDS ChannelDma
============================================================================

--------------------------- MODULE MC_ChannelRtt ---------------------------
(* ChannelRtt on a small batch. *)
EXTENDS ChannelRtt
============================================================================

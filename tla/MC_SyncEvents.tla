--------------------------- MODULE MC_SyncEvents ---------------------------
(* SyncEvents with a few rounds. *)
EXTENDS SyncEvents
============================================================================

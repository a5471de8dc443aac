----------------------------- MODULE MCSyncShell -----------------------------
(* Two mutations of one object and a window of one: retries fall inside    *)
(* the window and outside it.                                              *)
EXTENDS SyncShell

Edit(id, clock, kind) ==
  [mutation_id |-> id, object_id |-> 1, logical_clock |-> clock,
   device_id |-> id, kind |-> kind, payload |-> 1]

Catalogue == { Edit(1, 2, "Upsert"), Edit(2, 1, "Tombstone") }
=============================================================================

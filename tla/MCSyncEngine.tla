---------------------------- MODULE MCSyncEngine ----------------------------
(***************************************************************************)
(* SyncEngine on a catalogue like the one of src/src/bin/sync-model-check: *)
(* equal clocks from two devices, a tombstone, an identifier reused with   *)
(* other content, an older edit, a second object and a malformed digest.   *)
(***************************************************************************)
EXTENDS SyncEngine

Edit(id, object, clock, device, kind, payload) ==
  [mutation_id |-> id, object_id |-> object, logical_clock |-> clock,
   device_id |-> device, kind |-> kind, payload |-> payload]

Catalogue ==
  { Edit(1, 1, 2, 1, "Upsert", 1),     \* device 1 edits object 1
    Edit(2, 1, 2, 2, "Upsert", 1),     \* device 2, the same clock
    Edit(3, 1, 2, 1, "Tombstone", 1),  \* device 1 deletes, the same clock
    Edit(1, 1, 3, 1, "PinChanged", 1), \* identifier 1 reused, a later clock
    Edit(4, 2, 1, 2, "KeyRotated", 1), \* another object
    Edit(5, 1, 4, 2, "Upsert", 0) }    \* a malformed digest
=============================================================================

----------------------------- MODULE MCSyncPeers -----------------------------
(* Two peers and a catalogue in which every field of the conflict order    *)
(* decides at least one pair: clock, deletion, device, identifier.         *)
EXTENDS SyncPeers, TLC

Edit(id, clock, device, kind) ==
  [mutation_id |-> id, object_id |-> 1, logical_clock |-> clock,
   device_id |-> device, kind |-> kind, payload |-> 1]

Catalogue ==
  { Edit(1, 1, 2, "Tombstone"),   \* an older deletion: every other one wins
    Edit(2, 2, 2, "Upsert"),      \* beats 3 and 4 by device
    Edit(3, 2, 1, "PinChanged"),
    Edit(4, 2, 1, "Upsert"),      \* beats 3 by identifier
    Edit(5, 2, 1, "Tombstone") }  \* beats 2, 3 and 4 by deletion

PeerSymmetry == Permutations(Peers)
=============================================================================

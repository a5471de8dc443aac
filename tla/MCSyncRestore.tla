---------------------------- MODULE MCSyncRestore ----------------------------
(* Every snapshot of one object, two identifiers, a log of at most two     *)
(* entries and a server sequence of at most two.                           *)
EXTENDS SyncRestore, SequencesExt

Edit(id, clock) ==
  [mutation_id |-> id, object_id |-> 1, logical_clock |-> clock,
   device_id |-> 1, kind |-> "Upsert", payload |-> 1]

Catalogue == { Edit(1, 1), Edit(2, 1), Edit(3, 2) }

Saved == [server_sequence : 1 .. 2, mutation : {Edit(1, 1), Edit(2, 1)}]

MapsOver(K, V) == UNION {[D -> V] : D \in SUBSET K}

AnySnapshot ==
  [server_sequence : 0 .. 2,
   records : MapsOver({1}, Saved),
   log : BoundedSeq(Saved, 2),
   replay_index : MapsOver({1, 2}, {Sequenced(1, Edit(1, 1)), Sequenced(2, Edit(2, 1))}),
   replay_order : BoundedSeq({1, 2}, 2)]
=============================================================================

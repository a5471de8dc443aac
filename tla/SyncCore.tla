------------------------------ MODULE SyncCore ------------------------------
(***************************************************************************)
(* The functional core of the sync engine, src/src/sync_protocol.rs, as    *)
(* operators on an engine value: a server sequence, an append-only         *)
(* mutation log, one conflict winner per object and a bounded replay       *)
(* window.  SyncEngine, SyncPeers, SyncShell and SyncRestore run it.       *)
(*                                                                         *)
(* Strings are numbers here: a mutation, object or device identifier is    *)
(* the rank of the string in its lexicographic order (the order that       *)
(* wins_conflict compares), and 0 is an identifier whose length            *)
(* validate_mutation refuses.                                              *)
(***************************************************************************)
EXTENDS Naturals, Sequences, FiniteSets

CONSTANTS Mutations,      \* the mutations that clients submit
          ReplayCapacity, \* replay_capacity of SyncEngine::new
          MaxSequence     \* the largest server_sequence, u64::MAX in the code

Kinds == {"Upsert", "Tombstone", "PinChanged", "AttachmentManifest",
          "DeviceRevoked", "KeyRotated"}

\* payload is the digest, pin flag, revoked device or key version of the
\* kind; 0 is the value of it that validate_mutation refuses.
Mutation ==
  [mutation_id : Nat, object_id : Nat, logical_clock : Nat, device_id : Nat,
   kind : Kinds, payload : Nat]

ASSUME MutationsAssumption == Mutations \subseteq Mutation
ASSUME CapacityAssumption == ReplayCapacity \in Nat \ {0}
ASSUME SequenceAssumption == MaxSequence \in Nat

-----------------------------------------------------------------------------
SequencedMutation == [server_sequence : 1 .. MaxSequence, mutation : Mutations]

Sequenced(n, m) == [server_sequence |-> n, mutation |-> m]

MutationIds == {m.mutation_id : m \in Mutations}
ObjectIds == {m.object_id : m \in Mutations}

\* map is a BTreeMap with keys in K and values in V.
IsMap(map, K, V) == DOMAIN map \subseteq K /\ map \in [DOMAIN map -> V]

IsEngine(e) ==
  /\ e = [server_sequence |-> e.server_sequence, records |-> e.records,
          log |-> e.log, replay_index |-> e.replay_index,
          replay_order |-> e.replay_order]
  /\ e.server_sequence \in 0 .. MaxSequence
  /\ IsMap(e.records, ObjectIds, SequencedMutation)
  /\ e.log \in Seq(SequencedMutation)
  /\ IsMap(e.replay_index, MutationIds, SequencedMutation)
  /\ e.replay_order \in Seq(MutationIds)

Entries(log) == {log[i] : i \in DOMAIN log}

NoEntries == [k \in {} |-> 0]

NewEngine ==
  [server_sequence |-> 0, records |-> NoEntries, log |-> << >>,
   replay_index |-> NoEntries, replay_order |-> << >>]

\* BTreeMap::insert and BTreeMap::remove.
Insert(map, key, value) ==
  [k \in DOMAIN map \cup {key} |-> IF k = key THEN value ELSE map[k]]

RemoveKeys(map, keys) == [k \in DOMAIN map \ keys |-> map[k]]

ValidMutation(m) ==
  /\ m.mutation_id # 0
  /\ m.object_id # 0
  /\ m.device_id # 0
  /\ m.kind \in {"Upsert", "AttachmentManifest", "DeviceRevoked", "KeyRotated"}
       => m.payload # 0

DeletionPrecedence(m) == IF m.kind = "Tombstone" THEN 1 ELSE 0

\* Mutant: arrival decides between equal clocks.
WinsConflictByClock(candidate, current) ==
  candidate.mutation.logical_clock >= current.mutation.logical_clock

\* Mutant: a deletion does not precede an edit of the same clock.
WinsConflictWithoutDeletion(candidate, current) ==
  LET c == candidate.mutation
      k == current.mutation
  IN \/ c.logical_clock > k.logical_clock
     \/ c.logical_clock = k.logical_clock /\ c.device_id > k.device_id

\* The lexicographic order on (logical_clock, deletion precedence, device_id,
\* mutation_id, server_sequence).
WinsConflict(candidate, current) ==
  LET c == candidate.mutation
      k == current.mutation
  IN \/ c.logical_clock > k.logical_clock
     \/ /\ c.logical_clock = k.logical_clock
        /\ \/ DeletionPrecedence(c) > DeletionPrecedence(k)
           \/ /\ DeletionPrecedence(c) = DeletionPrecedence(k)
              /\ \/ c.device_id > k.device_id
                 \/ /\ c.device_id = k.device_id
                    /\ \/ c.mutation_id > k.mutation_id
                       \/ /\ c.mutation_id = k.mutation_id
                          /\ candidate.server_sequence > current.server_sequence

Remembered(e, m) == m.mutation_id \in DOMAIN e.replay_index

\* Mutant: a known identifier is replayed whatever its content.
IsReplayById(e, m) == ValidMutation(m) /\ Remembered(e, m)

IsReplay(e, m) ==
  /\ ValidMutation(m)
  /\ Remembered(e, m)
  /\ e.replay_index[m.mutation_id].mutation = m

IsIdempotencyConflict(e, m) ==
  /\ ValidMutation(m)
  /\ Remembered(e, m)
  /\ e.replay_index[m.mutation_id].mutation # m

IsExhausted(e, m) ==
  /\ ValidMutation(m)
  /\ ~ Remembered(e, m)
  /\ e.server_sequence = MaxSequence

\* Mutant: the next sequence is not checked against the largest.
IsAcceptedUnchecked(e, m) == ValidMutation(m) /\ ~ Remembered(e, m)

IsAccepted(e, m) ==
  /\ ValidMutation(m)
  /\ ~ Remembered(e, m)
  /\ e.server_sequence < MaxSequence

\* ApplyStatus::Applied rather than Superseded.
TakesHead(e, s) ==
  s.mutation.object_id \in DOMAIN e.records
    => WinsConflict(s, e.records[s.mutation.object_id])

\* Mutant: `>=` for `>`, the window holds one identifier too few.
ReplayOverflowEarly(order) ==
  IF Len(order) >= ReplayCapacity THEN Len(order) - ReplayCapacity + 1 ELSE 0

\* remember_replay: append, then expire the oldest identifiers over capacity.
ReplayOverflow(order) ==
  IF Len(order) > ReplayCapacity THEN Len(order) - ReplayCapacity ELSE 0

RememberedOrder(order, id) ==
  LET longer == Append(order, id)
  IN SubSeq(longer, ReplayOverflow(longer) + 1, Len(longer))

\* Mutant: an expired identifier leaves the order and stays in the index.
ExpiredIdsKept(order, id) == {}

ExpiredIds(order, id) ==
  LET longer == Append(order, id)
  IN {longer[i] : i \in 1 .. ReplayOverflow(longer)}

\* next_state of an accepted transition.
Accepted(e, m) ==
  LET s == Sequenced(e.server_sequence + 1, m)
  IN [server_sequence |-> e.server_sequence + 1,
      records |-> IF TakesHead(e, s)
                  THEN Insert(e.records, m.object_id, s)
                  ELSE e.records,
      log |-> Append(e.log, s),
      replay_index |-> RemoveKeys(Insert(e.replay_index, m.mutation_id, s),
                                  ExpiredIds(e.replay_order, m.mutation_id)),
      replay_order |-> RememberedOrder(e.replay_order, m.mutation_id)]

AcceptedStatus(e, m) ==
  IF TakesHead(e, Sequenced(e.server_sequence + 1, m))
  THEN "Applied" ELSE "Superseded"

\* pull: the cursor is refused when it is ahead of the server.
CanPull(e, after) == after <= e.server_sequence

\* Mutant: the entry at the cursor is sent again.
LaterInclusive(e, after) == {i \in DOMAIN e.log : e.log[i].server_sequence >= after}

\* The positions of the log that pull's filter lets through.
Later(e, after) == {i \in DOMAIN e.log : e.log[i].server_sequence > after}

\* The n-th smallest of a set of numbers.
Nth(S, n) == CHOOSE i \in S : Cardinality({j \in S : j <= i}) = n

\* What is left of the log after the cursor, in its order.
Pending(e, after) ==
  LET positions == Later(e, after)
  IN [n \in 1 .. Cardinality(positions) |-> e.log[Nth(positions, n)]]

\* Mutant: a partial page moves the cursor to the server's sequence.
PageToServer(e, after, limit) ==
  LET pending == Pending(e, after)
      taken   == IF limit < Len(pending) THEN limit ELSE Len(pending)
  IN [mutations |-> SubSeq(pending, 1, taken),
      cursor    |-> e.server_sequence,
      has_more  |-> taken < Len(pending)]

Page(e, after, limit) ==
  LET pending   == Pending(e, after)
      taken     == IF limit < Len(pending) THEN limit ELSE Len(pending)
      mutations == SubSeq(pending, 1, taken)
  IN [mutations |-> mutations,
      cursor    |-> IF mutations = << >> THEN e.server_sequence
                    ELSE mutations[taken].server_sequence,
      has_more  |-> taken < Len(pending)]

\* Mutant: log entries are not compared with the server sequence.
ValidSnapshotUnbounded(e) ==
  /\ \A i \in 2 .. Len(e.log) : e.log[i].server_sequence > e.log[i-1].server_sequence
  /\ Cardinality(DOMAIN e.replay_index) = Len(e.replay_order)
  /\ Cardinality(DOMAIN e.replay_index) <= ReplayCapacity

\* validate_snapshot, the check of SyncEngine::restore.
ValidSnapshot(e) ==
  /\ Len(e.log) <= e.server_sequence
  /\ \A i \in 1 .. Len(e.log) :
       /\ e.log[i].server_sequence > IF i = 1 THEN 0 ELSE e.log[i-1].server_sequence
       /\ e.log[i].server_sequence <= e.server_sequence
       /\ ValidMutation(e.log[i].mutation)
  /\ Cardinality(DOMAIN e.replay_index) = Len(e.replay_order)
  /\ Cardinality(DOMAIN e.replay_index) <= ReplayCapacity
  /\ \A i \in 1 .. Len(e.replay_order) : e.replay_order[i] \in DOMAIN e.replay_index
  /\ \A o \in DOMAIN e.records :
       /\ e.records[o].server_sequence <= e.server_sequence
       /\ ValidMutation(e.records[o].mutation)

=============================================================================

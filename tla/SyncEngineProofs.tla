-------------------------- MODULE SyncEngineProofs --------------------------
(***************************************************************************)
(* Proofs about SyncEngine for every catalogue of mutations, every replay  *)
(* capacity and every largest sequence.  The inductive invariant is        *)
(* EngineInv of the engine and that a reply names its log entry.           *)
(*                                                                         *)
(* And about SyncRestore for every set of snapshots: an engine that starts *)
(* from a foreign snapshot satisfies less than EngineInv, and RestoredInv  *)
(* is what of it validate_snapshot establishes and apply keeps.            *)
(***************************************************************************)
EXTENDS SyncRestore, SyncCoreProofs

ReplyInv ==
  \/ reply = NoReply
  \/ /\ reply.mutation \in Mutations
     /\ reply.status \in Statuses \cup Errors
     /\ reply.cursor \in 0 .. MaxSequence
     /\ reply.status \in Statuses =>
          /\ reply.cursor \in 1 .. Len(engine.log)
          /\ engine.log[reply.cursor].mutation = reply.mutation

IInv == EngineInv(engine) /\ ReplyInv

-----------------------------------------------------------------------------
(* The invariant of the specification, and what follows from it.           *)

\* apply keeps the invariant: only an accepted transition changes the engine,
\* and the log that a reply points into only grows.
LEMMA InductiveInvariant == Spec => []IInv
<1>1. Init => IInv
  BY NewEngineInv DEF Init, IInv, ReplyInv
<1>2. IInv /\ [Next]_vars => IInv'
  <2> SUFFICES ASSUME IInv, [Next]_vars
               PROVE  IInv'
    OBVIOUS
  <2> USE DEF IInv
  <2>1. ASSUME NEW m \in Mutations, Refuse(m)
        PROVE  IInv'
    BY <2>1, SequenceAssumption DEF Refuse, Reply, ReplyInv, Errors, Statuses, NoReply
  <2>2. ASSUME NEW m \in Mutations, Conflict(m)
        PROVE  IInv'
    BY <2>2, SequenceAssumption DEF Conflict, Reply, ReplyInv, Errors, Statuses, NoReply
  <2>3. ASSUME NEW m \in Mutations, Replay(m)
        PROVE  IInv'
    <3>1. PICK i \in 1 .. Len(engine.log) :
            engine.replay_index[m.mutation_id] = engine.log[i]
      <4>1. PICK k \in 1 .. Len(engine.replay_order) :
              m.mutation_id = engine.replay_order[k]
        <5>1. m.mutation_id \in Entries(engine.replay_order)
          BY <2>3 DEF Replay, IsReplay, Remembered, EngineInv, WindowInv
        <5>2. DOMAIN engine.replay_order = 1 .. Len(engine.replay_order)
          BY DEF EngineInv, IsEngine
        <5> QED
          BY <5>1, <5>2 DEF Entries
      <4>2. engine.replay_index[m.mutation_id] = engine.log[Tail0(engine) + k]
        BY <4>1 DEF EngineInv, WindowInv
      <4>3. Tail0(engine) + k \in 1 .. Len(engine.log)
        <5>1. PICK n, w : /\ w = Len(engine.replay_order) /\ w \in Nat
                          /\ n = Len(engine.log) /\ n \in Nat
                          /\ w <= n
          BY DEF EngineInv, WindowInv, IsEngine
        <5>2. Tail0(engine) = n - w
          BY <5>1 DEF Tail0
        <5>3. k \in 1 .. w /\ w \in Nat /\ n \in Nat /\ w <= n
          BY <4>1, <5>1
        <5>4. n - w + k \in 1 .. n
          BY <5>3
        <5> QED
          BY <5>1, <5>2, <5>4
      <4> QED
        BY <4>2, <4>3
    <3>2. /\ engine.log[i].server_sequence = i
          /\ engine.log[i].mutation = m
          /\ Len(engine.log) = engine.server_sequence
          /\ engine.server_sequence \in 0 .. MaxSequence
      BY <2>3, <3>1 DEF Replay, IsReplay, EngineInv, LogInv, IsEngine
    <3>3. reply' = Reply(m, "Replayed", i) /\ engine' = engine
      BY <2>3, <3>1, <3>2 DEF Replay
    <3>4. i \in 0 .. MaxSequence
      BY <3>2, SequenceAssumption
    <3> QED
      BY <3>2, <3>3, <3>4 DEF Reply, ReplyInv, Statuses
  <2>4. ASSUME NEW m \in Mutations, Accept(m)
        PROVE  IInv'
    <3>1. EngineInv(engine')
      BY <2>4, AcceptedKeepsInv DEF Accept
    <3>2. PICK n : n = engine.server_sequence /\ n \in Nat /\ n < MaxSequence
                   /\ n = Len(engine.log) /\ engine.log \in Seq(SequencedMutation)
      BY <2>4, SequenceAssumption DEF Accept, IsAccepted, EngineInv, LogInv, IsEngine
    <3>3. engine'.log = Append(engine.log, Sequenced(n + 1, m))
      BY <2>4, <3>2 DEF Accept, Accepted
    <3>4. PICK s : s = Sequenced(n + 1, m) /\ s \in SequencedMutation /\ s.mutation = m
      <4>1. n + 1 \in 1 .. MaxSequence
        BY <3>2, SequenceAssumption
      <4>2. /\ Sequenced(n + 1, m) \in SequencedMutation
            /\ Sequenced(n + 1, m).mutation = m
        BY <4>1 DEF Sequenced, SequencedMutation
      <4> QED
        BY <4>2
    <3>5. n + 1 \in 1 .. Len(engine'.log) /\ engine'.log[n + 1] = s
      BY <3>2, <3>3, <3>4
    <3>6. reply'.mutation = m /\ reply'.cursor = n + 1
          /\ reply'.status \in {"Applied", "Superseded"}
      BY <2>4, <3>2 DEF Accept, Reply, AcceptedStatus
    <3>7. n + 1 \in 0 .. MaxSequence
      BY <3>2, SequenceAssumption
    <3> QED
      BY <3>1, <3>4, <3>5, <3>6, <3>7 DEF ReplyInv, Statuses
  <2>5. CASE UNCHANGED vars
    BY <2>5 DEF vars, ReplyInv
  <2> QED
    BY <2>1, <2>2, <2>3, <2>4, <2>5 DEF Next, Apply
<1> QED
  BY <1>1, <1>2, PTL DEF Spec

\* Every state of the engine has the type of the Rust structure and every
\* reply is a result of apply, for every catalogue, capacity and bound.
THEOREM TypeCorrect == Spec => []EngineTypeOK
<1>1. IInv => EngineTypeOK
  BY DEF IInv, EngineInv, ReplyInv, EngineTypeOK
<1> QED
  BY <1>1, InductiveInvariant, PTL

\* Duplicate suppression covers the replay window for every capacity.
THEOREM ReplayWindowHolds == Spec => []ReplayWindow
<1>1. IInv => ReplayWindow
  BY DEF IInv, EngineInv, SpacedInv, ReplayWindow
<1> QED
  BY <1>1, InductiveInvariant, PTL

\* The cursor of every successful reply names the caller's own entry.
THEOREM ReplyNamesItsEntryHolds == Spec => []ReplyNamesItsEntry
<1>1. IInv => ReplyNamesItsEntry
  BY DEF IInv, ReplyInv, ReplyNamesItsEntry
<1> QED
  BY <1>1, InductiveInvariant, PTL

\* No order of delivery lets older or equally old data undo a deletion.
THEOREM NoResurrectionHolds == Spec => []NoResurrection
<1>1. IInv => NoResurrection
  <2> SUFFICES ASSUME IInv,
                      NEW o \in DOMAIN engine.records,
                      engine.records[o].mutation.kind # "Tombstone",
                      NEW i \in 1 .. Len(engine.log),
                      engine.log[i].mutation.object_id = o,
                      engine.log[i].mutation.kind = "Tombstone"
               PROVE  engine.log[i].mutation.logical_clock
                        < engine.records[o].mutation.logical_clock
    BY DEF NoResurrection
  <2>1. PICK h \in SequencedMutation, t \in SequencedMutation :
          h = engine.records[o] /\ t = engine.log[i]
    BY DEF IInv, EngineInv, IsEngine, IsMap
  <2>2. WinsConflict(h, t)
    BY <2>1 DEF IInv, EngineInv, HeadsInv
  <2>3. h.mutation \in Mutation /\ t.mutation \in Mutation
    BY <2>1, MutationsAssumption DEF SequencedMutation
  <2> QED
    BY <2>1, <2>2, <2>3 DEF WinsConflict, DeletionPrecedence, Mutation
<1> QED
  BY <1>1, InductiveInvariant, PTL

\* Every state that the engine reaches can be saved and restored.
THEOREM SnapshotRestoresHolds == Spec => []SnapshotRestores
<1>2. IInv => SnapshotRestores
  BY InvIsValidSnapshot DEF IInv, SnapshotRestores
<1> QED
  BY <1>2, InductiveInvariant, PTL

-----------------------------------------------------------------------------
(* The engine implements the last-writer-wins store.                       *)

\* The conflict tuple of the code is the field-by-field rank of the store.
LEMMA WinsIsOutranks ==
  ASSUME NEW s \in SequencedMutation, NEW t \in SequencedMutation
  PROVE  WinsConflict(s, t) <=> LWW!Outranks(s, t)
<1>1. /\ s.mutation \in Mutation /\ t.mutation \in Mutation
      /\ s.server_sequence \in Nat /\ t.server_sequence \in Nat
  BY MutationsAssumption, SequenceAssumption DEF SequencedMutation
<1>2. ASSUME NEW u \in SequencedMutation
      PROVE  /\ LWW!Rank(u)[1] = u.mutation.logical_clock
             /\ LWW!Rank(u)[2] = DeletionPrecedence(u.mutation)
             /\ LWW!Rank(u)[3] = u.mutation.device_id
             /\ LWW!Rank(u)[4] = u.mutation.mutation_id
             /\ LWW!Rank(u)[5] = u.server_sequence
  BY DEF LWW!Rank, DeletionPrecedence
<1>3. PICK a, b : a = LWW!Rank(s) /\ b = LWW!Rank(t)
  OBVIOUS
<1>4. LWW!Outranks(s, t) <=>
        \/ a[1] > b[1]
        \/ a[1] = b[1] /\ a[2] > b[2]
        \/ a[1] = b[1] /\ a[2] = b[2] /\ a[3] > b[3]
        \/ a[1] = b[1] /\ a[2] = b[2] /\ a[3] = b[3] /\ a[4] > b[4]
        \/ a[1] = b[1] /\ a[2] = b[2] /\ a[3] = b[3] /\ a[4] = b[4] /\ a[5] > b[5]
  <2>1. LWW!Outranks(s, t) <=>
          \E f \in 1 .. 5 : a[f] > b[f] /\ \A g \in 1 .. f - 1 : a[g] = b[g]
    BY <1>3 DEF LWW!Outranks
  <2>2. \A f \in 1 .. 5 : f \in {1, 2, 3, 4, 5}
    OBVIOUS
  <2> QED
    BY <2>1, <2>2
<1> QED
  BY <1>1, <1>2, <1>3, <1>4 DEF WinsConflict, DeletionPrecedence, Mutation

\* Under the invariant the stored heads are the winners over the whole log.
LEMMA HeadsAreWinners ==
  ASSUME NEW e, EngineInv(e)
  PROVE  e.records = LWW!Winners(Entries(e.log))
<1>1. /\ \A x \in Entries(e.log) : x \in SequencedMutation
      /\ Entries(e.log) = {e.log[i] : i \in 1 .. Len(e.log)}
  BY DEF EngineInv, IsEngine, Entries
<1>2. DOMAIN e.records = LWW!Objects(Entries(e.log))
  BY <1>1 DEF EngineInv, HeadsInv, LWW!Objects
<1>3. ASSUME NEW o \in DOMAIN e.records
      PROVE  e.records[o] = LWW!Winner(LWW!OfObject(Entries(e.log), o))
  <2>1. PICK S, h : S = LWW!OfObject(Entries(e.log), o) /\ h = e.records[o]
    OBVIOUS
  <2>2. h \in S /\ \A t \in S : t \in SequencedMutation
    <3>1. PICK i \in 1 .. Len(e.log) : h = e.log[i] /\ e.log[i].mutation.object_id = o
      BY <1>3, <2>1 DEF EngineInv, HeadsInv
    <3>2. e.log[i] \in Entries(e.log)
      BY <1>1
    <3>3. S = {x \in Entries(e.log) : x.mutation.object_id = o}
      BY <2>1 DEF LWW!OfObject
    <3>4. \A x \in S : x \in Entries(e.log)
      BY <3>3
    <3>5. \A x : x \in Entries(e.log) /\ x.mutation.object_id = o => x \in S
      BY <3>3
    <3>6. h \in S
      BY <3>1, <3>2, <3>5
    <3> QED
      BY <1>1, <3>4, <3>6
  <2>3. ASSUME NEW t \in S \ {h}
        PROVE  WinsConflict(h, t)
    <3>1. t \in Entries(e.log) /\ t.mutation.object_id = o
      BY <2>1 DEF LWW!OfObject
    <3>2. PICK i \in 1 .. Len(e.log) : t = e.log[i]
      BY <1>1, <3>1
    <3>3. e.records[o] = e.log[i] \/ WinsConflict(e.records[o], e.log[i])
      BY <3>1, <3>2 DEF EngineInv, HeadsInv
    <3> QED
      BY <2>1, <3>2, <3>3
  <2>4. \A t \in S \ {h} : LWW!Outranks(h, t)
    BY <2>2, <2>3, WinsIsOutranks
  <2>5. ASSUME NEW k \in S, \A t \in S \ {k} : LWW!Outranks(k, t), k # h
        PROVE  FALSE
    <3>1. WinsConflict(k, h) /\ WinsConflict(h, k)
      BY <2>2, <2>3, <2>5, WinsIsOutranks
    <3> QED
      BY <2>2, <2>5, <3>1, WinsAsymmetric
  <2>6. h = CHOOSE x \in S : \A t \in S \ {x} : LWW!Outranks(x, t)
    BY <2>2, <2>4, <2>5
  <2> QED
    BY <2>1, <2>6 DEF LWW!Winner
<1>4. e.records = [o \in DOMAIN e.records |-> e.records[o]]
  BY DEF EngineInv, IsEngine, IsMap
<1> QED
  BY <1>2, <1>3, <1>4 DEF LWW!Winners

\* Every step of the engine is a step of the last-writer-wins store or leaves
\* its log and heads alone: the incremental conflict rule is correct.
THEOREM ImplementsLastWriterWins == Spec => LastWriterWins
<1>1. Init => LWW!Init
  <2> SUFFICES ASSUME Init
               PROVE  LWW!Init
    OBVIOUS
  <2>1. Entries(engine.log) = {}
    BY DEF Init, NewEngine, Entries
  <2>2. engine.records = LWW!Winners(Entries(engine.log))
    BY NewEngineInv, HeadsAreWinners DEF Init
  <2> QED
    BY <2>1, <2>2 DEF LWW!Init
<1>2. IInv /\ IInv' /\ [Next]_vars => [LWW!Next]_(LWW!vars)
  <2> SUFFICES ASSUME IInv, IInv', [Next]_vars
               PROVE  [LWW!Next]_(LWW!vars)
    OBVIOUS
  <2>1. ASSUME engine' = engine
        PROVE  UNCHANGED LWW!vars
    BY <2>1 DEF LWW!vars, Entries
  <2>2. ASSUME NEW m \in Mutations, Accept(m)
        PROVE  LWW!Next
    <3>1. PICK n : n = engine.server_sequence /\ n \in Nat
                   /\ n = Len(engine.log) /\ engine.log \in Seq(SequencedMutation)
                   /\ \A i \in 1 .. n : engine.log[i].server_sequence = i
      BY SequenceAssumption DEF IInv, EngineInv, LogInv, IsEngine
    <3>2. PICK s : s = Sequenced(n + 1, m)
      OBVIOUS
    <3>3. engine'.log = Append(engine.log, s)
      BY <2>2, <3>1, <3>2 DEF Accept, Accepted
    <3>4. s \in SequencedMutation
      <4>1. engine.server_sequence < MaxSequence
        BY <2>2 DEF Accept, IsAccepted
      <4>2. n + 1 \in 1 .. MaxSequence
        BY <3>1, <4>1, SequenceAssumption
      <4> QED
        BY <3>2, <4>2 DEF Sequenced, SequencedMutation
    <3>5. Entries(engine'.log) = Entries(engine.log) \cup {s}
      BY <3>1, <3>3, <3>4 DEF Entries
    <3>6. \A x \in Entries(engine.log) : x.server_sequence < n + 1
      BY <3>1 DEF Entries
    <3>7. n + 1 \in {1} \cup {x.server_sequence + 1 : x \in Entries(engine.log)}
      <4>1. CASE n = 0
        BY <4>1
      <4>2. CASE n # 0
        <5>1. n \in 1 .. n /\ n \in DOMAIN engine.log
          BY <3>1, <4>2
        <5>2. engine.log[n] \in Entries(engine.log) /\ engine.log[n].server_sequence = n
          BY <3>1, <5>1 DEF Entries
        <5> QED
          BY <5>2
      <4> QED
        BY <4>1, <4>2
    <3>8. engine'.records = LWW!Winners(Entries(engine'.log))
      BY HeadsAreWinners DEF IInv
    <3>9. LWW!Accept(m, n + 1)
      BY <3>2, <3>5, <3>6, <3>8 DEF LWW!Accept, Sequenced
    <3> QED
      BY <3>7, <3>9 DEF LWW!Next
  <2> QED
    BY <2>1, <2>2 DEF Next, Apply, Refuse, Conflict, Replay, vars
<1> QED
  BY <1>1, <1>2, InductiveInvariant, PTL DEF Spec, LastWriterWins, LWW!Spec

-----------------------------------------------------------------------------
(* An engine restored from any accepted snapshot.                          *)

\* The log rises and the server sequence is at least its last entry's; the
\* window has no more than its capacity.  The log may have gaps, and heads and
\* window may have nothing to do with it.
RestoredInv(e) ==
  /\ IsSnapshot(e)
  /\ Rising(e.log)
  /\ \A i \in 1 .. Len(e.log) : e.log[i].server_sequence <= e.server_sequence
  /\ Len(e.replay_order) <= ReplayCapacity

\* What validate_snapshot checks of neighbours holds of the whole log.
LEMMA ValidIsRestored ==
  ASSUME NEW e, IsSnapshot(e), ValidSnapshot(e)
  PROVE  RestoredInv(e)
<1>1. PICK n, log : /\ log = e.log /\ log \in Seq(SavedEntry)
                    /\ n = Len(log) /\ n \in Nat /\ DOMAIN log = 1 .. n
  BY DEF IsSnapshot
<1>2. \A i \in 1 .. n : log[i].server_sequence \in Nat
  <2>1. \A i \in 1 .. n : log[i] \in SavedEntry
    BY <1>1
  <2>2. \A x \in SavedEntry : x.server_sequence \in Nat
    BY DEF SavedEntry
  <2> QED
    BY <2>1, <2>2
<1>3. \A i \in 1 .. n :
        /\ log[i].server_sequence > IF i = 1 THEN 0 ELSE log[i-1].server_sequence
        /\ log[i].server_sequence <= e.server_sequence
  BY <1>1 DEF ValidSnapshot
<1>4. ASSUME NEW i \in 2 .. n
      PROVE  log[i-1].server_sequence < log[i].server_sequence
  <2>1. i \in 1 .. n /\ i # 1 /\ i - 1 \in 1 .. n
    BY <1>1
  <2>2. log[i].server_sequence > log[i-1].server_sequence
    BY <1>3, <2>1
  <2> QED
    BY <1>2, <2>1, <2>2
<1>5. Rising(log)
  BY <1>1, <1>2, <1>4, NeighboursRise
<1>6. Len(e.replay_order) <= ReplayCapacity
  BY DEF ValidSnapshot
<1> QED
  BY <1>1, <1>3, <1>5, <1>6 DEF RestoredInv

\* What an accepted mutation does to a restored engine, in one place: its
\* entry s follows the log with the next sequence, and its identifier enters
\* the window as the drop oldest ones leave.
AcceptedFrom(e, m, f, s, drop) ==
  /\ s \in SavedEntry
  /\ s.server_sequence = e.server_sequence + 1
  /\ s.mutation = m
  /\ DOMAIN f = DOMAIN NewEngine
  /\ f.server_sequence = e.server_sequence + 1
  /\ f.log = Append(e.log, s)
  /\ f.records = IF TakesHead(e, s) THEN Insert(e.records, m.object_id, s)
                                    ELSE e.records
  /\ drop \in {0, 1}
  /\ drop = 1 <=> Len(e.replay_order) = ReplayCapacity
  /\ f.replay_order \in Seq(Nat)
  /\ OneRemembered(e.replay_order, m.mutation_id, drop, f.replay_order)
  /\ f.replay_index = RemoveKeys(Insert(e.replay_index, m.mutation_id, s),
                                 {e.replay_order[i] : i \in 1 .. drop})

LEMMA AcceptedRestored ==
  ASSUME NEW e, RestoredInv(e), NEW m \in Mutations, IsAccepted(e, m)
  PROVE  \E s, drop : AcceptedFrom(e, m, Accepted(e, m), s, drop)
<1>1. PICK n, q : /\ n = e.server_sequence /\ n \in Nat /\ n < MaxSequence
                  /\ q = e.replay_order /\ q \in Seq(Nat)
                  /\ Len(q) <= ReplayCapacity
  BY SequenceAssumption DEF RestoredInv, IsSnapshot, IsAccepted
<1>2. m \in Mutation /\ m.mutation_id \in Nat
  BY MutationsAssumption DEF Mutation
<1>3. PICK s : s = Sequenced(n + 1, m)
  OBVIOUS
<1>4. s \in SavedEntry /\ s.server_sequence = n + 1 /\ s.mutation = m
  BY <1>1, <1>2, <1>3 DEF Sequenced, SavedEntry
<1>5. PICK drop \in {0, 1} : drop = 1 <=> Len(q) = ReplayCapacity
  <2>1. CASE Len(q) = ReplayCapacity
    BY <2>1
  <2>2. CASE Len(q) # ReplayCapacity
    BY <2>2
  <2> QED
    BY <2>1, <2>2
<1>6. PICK f, r : f = Accepted(e, m) /\ r = RememberedOrder(q, m.mutation_id)
  OBVIOUS
<1>7. /\ r \in Seq(Nat)
      /\ OneRemembered(q, m.mutation_id, drop, r)
  BY <1>1, <1>2, <1>5, <1>6, RememberOne
<1>8. ExpiredIds(q, m.mutation_id) = {q[i] : i \in 1 .. drop}
  BY <1>7 DEF OneRemembered
<1>9. /\ DOMAIN f = DOMAIN NewEngine
      /\ f.server_sequence = n + 1
      /\ f.records = IF TakesHead(e, s) THEN Insert(e.records, m.object_id, s)
                                        ELSE e.records
      /\ f.log = Append(e.log, s)
      /\ f.replay_index = RemoveKeys(Insert(e.replay_index, m.mutation_id, s),
                                     ExpiredIds(q, m.mutation_id))
      /\ f.replay_order = r
  BY <1>1, <1>3, <1>6 DEF Accepted, NewEngine
<1>10. AcceptedFrom(e, m, f, s, drop)
  BY <1>1, <1>4, <1>5, <1>7, <1>8, <1>9 DEF AcceptedFrom
<1> QED
  BY <1>6, <1>10

\* The log after an accepted mutation.
LEMMA LogAfterAccepted ==
  ASSUME NEW e, RestoredInv(e), NEW m \in Mutations, NEW f, NEW s, NEW drop,
         AcceptedFrom(e, m, f, s, drop)
  PROVE  /\ Len(e.log) \in Nat /\ e.server_sequence \in Nat
         /\ f.log \in Seq(SavedEntry) /\ Len(f.log) = Len(e.log) + 1
         /\ \A i \in 1 .. Len(e.log) : f.log[i] = e.log[i]
         /\ f.log[Len(e.log) + 1] = s
<1>1. PICK log : log = e.log /\ log \in Seq(SavedEntry)
  BY DEF RestoredInv, IsSnapshot
<1>2. s \in SavedEntry /\ f.log = Append(log, s)
  BY <1>1 DEF AcceptedFrom
<1>3. e.server_sequence \in Nat
  BY SequenceAssumption DEF RestoredInv, IsSnapshot
<1> QED
  BY <1>1, <1>2, <1>3

\* apply keeps what restore establishes.
LEMMA AcceptedKeepsRestored ==
  ASSUME NEW e, RestoredInv(e), NEW m \in Mutations, IsAccepted(e, m)
  PROVE  RestoredInv(Accepted(e, m))
<1>1. PICK f, s, drop : f = Accepted(e, m) /\ AcceptedFrom(e, m, f, s, drop)
  BY AcceptedRestored
<1>2. PICK n, l, log, c :
        /\ n = e.server_sequence /\ n \in Nat
        /\ l = Len(e.log) /\ l \in Nat /\ log = e.log
        /\ c = Len(e.replay_order) /\ c \in Nat
  <2>1. e.server_sequence \in Nat /\ Len(e.log) \in Nat
    BY <1>1, LogAfterAccepted
  <2>2. Len(e.replay_order) \in Nat
    BY DEF RestoredInv, IsSnapshot
  <2> QED
    BY <2>1, <2>2
<1>3. /\ f.log \in Seq(SavedEntry) /\ Len(f.log) = l + 1
      /\ \A i \in 1 .. l : f.log[i] = log[i]
      /\ f.log[l + 1] = s
      /\ s.server_sequence = n + 1 /\ f.server_sequence = n + 1
      /\ s \in SavedEntry /\ s.mutation = m
  <2>1. /\ f.log \in Seq(SavedEntry) /\ Len(f.log) = Len(e.log) + 1
        /\ \A i \in 1 .. Len(e.log) : f.log[i] = e.log[i]
        /\ f.log[Len(e.log) + 1] = s
    BY <1>1, LogAfterAccepted
  <2>2. /\ s.server_sequence = n + 1 /\ f.server_sequence = n + 1
        /\ s \in SavedEntry /\ s.mutation = m
    BY <1>1, <1>2 DEF AcceptedFrom
  <2> QED
    BY <1>2, <2>1, <2>2
<1>4. /\ \A i \in 1 .. l : log[i].server_sequence \in Nat
      /\ \A i \in 1 .. l : log[i].server_sequence <= n
      /\ \A i, j \in 1 .. l :
           i < j => log[i].server_sequence < log[j].server_sequence
  BY <1>2 DEF RestoredInv, Rising
<1>5. ASSUME NEW i \in 1 .. l + 1
      PROVE  f.log[i].server_sequence \in Nat /\ f.log[i].server_sequence <= n + 1
  <2>1. CASE i \in 1 .. l
    <3>1. PICK k : k = log[i].server_sequence /\ k \in Nat /\ k <= n
      BY <1>4, <2>1
    <3>2. f.log[i].server_sequence = k
      BY <1>3, <2>1, <3>1
    <3> QED
      BY <1>2, <3>1, <3>2
  <2>2. CASE i = l + 1
    BY <1>2, <1>3, <2>2
  <2> QED
    BY <1>2, <2>1, <2>2
<1>6. ASSUME NEW i \in 1 .. l + 1, NEW j \in 1 .. l + 1, i < j
      PROVE  f.log[i].server_sequence < f.log[j].server_sequence
  <2>1. i \in 1 .. l
    BY <1>2, <1>6
  <2>2. CASE j \in 1 .. l
    BY <1>3, <1>4, <1>6, <2>1, <2>2
  <2>3. CASE j = l + 1
    <3>1. PICK k : k = log[i].server_sequence /\ k \in Nat /\ k <= n
      BY <1>4, <2>1
    <3>2. f.log[i].server_sequence = k /\ f.log[j].server_sequence = n + 1
      BY <1>3, <2>1, <2>3, <3>1
    <3> QED
      BY <1>2, <3>1, <3>2
  <2> QED
    BY <1>2, <2>2, <2>3
<1>7. Rising(f.log) /\ \A i \in 1 .. Len(f.log) : f.log[i].server_sequence <= f.server_sequence
  BY <1>3, <1>5, <1>6 DEF Rising
<1>8. Len(f.replay_order) <= ReplayCapacity
  <2>1. /\ Len(f.replay_order) = c + 1 - drop /\ drop \in {0, 1}
        /\ drop = 1 <=> c = ReplayCapacity
    BY <1>1, <1>2 DEF AcceptedFrom, OneRemembered
  <2>2. c <= ReplayCapacity
    BY <1>2 DEF RestoredInv
  <2> QED
    BY <1>2, <2>1, <2>2, CapacityAssumption
<1>9. IsSnapshot(f)
  <2>1. m.mutation_id \in Nat /\ m.object_id \in Nat
    BY MutationsAssumption DEF Mutation
  <2>2. IsMap(e.records, Nat, SavedEntry)
    BY DEF RestoredInv, IsSnapshot
  <2>3. IsMap(f.records, Nat, SavedEntry)
    BY <1>1, <1>3, <2>1, <2>2 DEF AcceptedFrom, IsMap, Insert
  <2>4. /\ IsMap(e.replay_index, Nat, SavedEntry)
        /\ IsFiniteSet(DOMAIN e.replay_index)
    BY DEF RestoredInv, IsSnapshot
  <2>5. IsMap(f.replay_index, Nat, SavedEntry)
    BY <1>1, <1>3, <2>1, <2>4 DEF AcceptedFrom, IsMap, Insert, RemoveKeys
  <2>6. IsFiniteSet(DOMAIN f.replay_index)
    <3>1. IsFiniteSet(DOMAIN e.replay_index \cup {m.mutation_id})
      BY <2>4, FS_AddElement
    <3>2. DOMAIN f.replay_index \in SUBSET (DOMAIN e.replay_index \cup {m.mutation_id})
      BY <1>1 DEF AcceptedFrom, Insert, RemoveKeys
    <3> QED
      BY <3>1, <3>2, FS_Subset
  <2>7. f.server_sequence \in 0 .. MaxSequence
    <3>1. n < MaxSequence
      BY <1>2 DEF IsAccepted
    <3> QED
      BY <1>2, <1>3, <3>1, SequenceAssumption
  <2>8. DOMAIN f = DOMAIN NewEngine /\ f.replay_order \in Seq(Nat)
    BY <1>1 DEF AcceptedFrom
  <2> QED
    BY <1>3, <2>3, <2>5, <2>6, <2>7, <2>8 DEF IsSnapshot
<1> QED
  BY <1>1, <1>7, <1>8, <1>9 DEF RestoredInv

\* Only Accept changes the engine.
LEMMA StepAccepts ==
  ASSUME [Next]_vars
  PROVE  \/ engine' = engine
         \/ \E m \in Mutations : IsAccepted(engine, m) /\ engine' = Accepted(engine, m)
BY DEF Next, Apply, Refuse, Conflict, Replay, Accept, vars

LEMMA RestoreInvariant == RestoreSpec => []RestoredInv(engine)
<1>1. RestoreInit => RestoredInv(engine)
  BY ValidIsRestored, SnapshotsAssumption DEF RestoreInit, Restore
<1>2. RestoredInv(engine) /\ [Next]_vars => RestoredInv(engine)'
  BY StepAccepts, AcceptedKeepsRestored
<1> QED
  BY <1>1, <1>2, PTL DEF RestoreSpec

\* From every snapshot that restore accepts, no sequence is ever given twice.
THEOREM SequencesStayFreshHolds == RestoreSpec => []SequencesStayFresh
<1>1. RestoredInv(engine) => SequencesStayFresh
  <2> SUFFICES ASSUME RestoredInv(engine), NEW i \in 1 .. Len(engine.log)
               PROVE  /\ engine.log[i].server_sequence <= engine.server_sequence
                      /\ \A j \in 1 .. i - 1 :
                           engine.log[j].server_sequence < engine.log[i].server_sequence
    BY DEF SequencesStayFresh
  <2>1. PICK l : l = Len(engine.log) /\ l \in Nat
    BY DEF RestoredInv, IsSnapshot
  <2>2. \A j \in 1 .. i - 1 : j \in 1 .. l /\ j < i
    BY <2>1
  <2> QED
    BY <2>1, <2>2 DEF RestoredInv, Rising
<1> QED
  BY <1>1, RestoreInvariant, PTL

\* A page of a restored engine, and what its cursor leaves.
LEMMA PagePartitions ==
  ASSUME NEW e, RestoredInv(e), NEW c \in 0 .. e.server_sequence,
         NEW limit \in Nat \ {0}, NEW p, p = Page(e, c, limit)
  PROVE  LET Rest(x) == {s \in Entries(e.log) : s.server_sequence > x}
         IN /\ Entries(p.mutations) \cup Rest(p.cursor) = Rest(c)
            /\ Entries(p.mutations) \cap Rest(p.cursor) = {}
            /\ p.has_more <=> Rest(p.cursor) # {}
            /\ CanPull(e, p.cursor)
<1> DEFINE Rest(x) == {s \in Entries(e.log) : s.server_sequence > x}
<1>1. PICK n, log, m :
        /\ n = Len(log) /\ n \in Nat /\ log = e.log
        /\ log \in Seq(SavedEntry) /\ DOMAIN log = 1 .. n
        /\ m = e.server_sequence /\ m \in Nat /\ c \in Nat /\ c <= m
  <2>1. /\ e.log \in Seq(SavedEntry) /\ Len(e.log) \in Nat
        /\ DOMAIN e.log = 1 .. Len(e.log)
    BY DEF RestoredInv, IsSnapshot
  <2>2. e.server_sequence \in Nat
    BY SequenceAssumption DEF RestoredInv, IsSnapshot
  <2> QED
    BY <2>1, <2>2
<1>2. /\ \A i \in 1 .. n : log[i].server_sequence \in Nat
      /\ \A i \in 1 .. n : log[i].server_sequence <= m
      /\ \A i, j \in 1 .. n : i < j => log[i].server_sequence < log[j].server_sequence
  BY <1>1 DEF RestoredInv, Rising
<1>3. PICK k \in 0 .. n : SuffixAfter(SavedEntry, e, c, k)
  BY <1>1, LaterIsSuffix DEF RestoredInv
<1>4. {i \in 1 .. n : log[i].server_sequence > c} = k + 1 .. n
  BY <1>1, <1>3 DEF SuffixAfter, Later
<1>5. p.mutations \in Seq(SavedEntry) /\ PageHolds(e, k, limit, p)
  BY <1>3, PageOfSuffix
<1>6. PICK t : /\ t = (IF limit < n - k THEN limit ELSE n - k)
               /\ t \in Nat /\ t <= n - k /\ (t = 0 => k = n) /\ k \in Nat
  BY <1>1
<1>7. /\ Len(p.mutations) = t
      /\ \A i \in 1 .. t : p.mutations[i] = log[k + i]
      /\ p.cursor = IF t = 0 THEN m ELSE log[k + t].server_sequence
      /\ p.has_more <=> k + t < n
  BY <1>1, <1>5, <1>6 DEF PageHolds
<1>8. Entries(log) = {log[i] : i \in 1 .. n}
  BY <1>1 DEF Entries
<1>9. Rest(c) = {log[i] : i \in k + 1 .. n}
  <2>1. ASSUME NEW x \in Rest(c)
        PROVE  \E i \in k + 1 .. n : x = log[i]
    <3>1. PICK i \in 1 .. n : x = log[i]
      BY <1>1, <1>8
    <3>2. i \in k + 1 .. n
      BY <1>4, <3>1
    <3> QED
      BY <3>1, <3>2
  <2>2. ASSUME NEW i \in k + 1 .. n
        PROVE  log[i] \in Rest(c)
    BY <1>1, <1>4, <1>8
  <2> QED
    BY <2>1, <2>2
<1>10. {i \in 1 .. n : log[i].server_sequence > p.cursor} = k + t + 1 .. n
  <2>1. CASE t = 0
    <3>1. k + t + 1 .. n = {} /\ p.cursor = m
      BY <1>1, <1>6, <1>7, <2>1
    <3>2. \A i \in 1 .. n : ~ (log[i].server_sequence > m)
      BY <1>1, <1>2
    <3> QED
      BY <3>1, <3>2
  <2>2. CASE t # 0
    <3>1. PICK b : b = k + t /\ b \in 1 .. n
      BY <1>1, <1>6, <2>2
    <3>2. PICK y : y = log[b].server_sequence /\ p.cursor = y /\ y \in Nat
      BY <1>2, <1>7, <2>2, <3>1
    <3>3. ASSUME NEW i \in 1 .. n
          PROVE  log[i].server_sequence > y <=> i > b
      <4>1. PICK z : z = log[i].server_sequence /\ z \in Nat
        BY <1>2
      <4>2. CASE i < b
        BY <1>2, <3>1, <3>2, <4>1, <4>2
      <4>3. CASE i = b
        BY <3>1, <3>2, <4>1, <4>3
      <4>4. CASE i > b
        BY <1>2, <3>1, <3>2, <4>1, <4>4
      <4> QED
        BY <1>1, <3>1, <4>2, <4>3, <4>4
    <3>4. \A i \in 1 .. n : i > b <=> i \in b + 1 .. n
      BY <1>1, <3>1
    <3>5. b + 1 .. n \subseteq 1 .. n
      BY <1>1, <3>1
    <3> QED
      BY <3>1, <3>2, <3>3, <3>4, <3>5
  <2> QED
    BY <2>1, <2>2
<1>11. Rest(p.cursor) = {log[i] : i \in k + t + 1 .. n}
  <2>1. ASSUME NEW x \in Rest(p.cursor)
        PROVE  \E i \in k + t + 1 .. n : x = log[i]
    <3>1. PICK i \in 1 .. n : x = log[i]
      BY <1>1, <1>8
    <3>2. i \in k + t + 1 .. n
      BY <1>10, <3>1
    <3> QED
      BY <3>1, <3>2
  <2>2. ASSUME NEW i \in k + t + 1 .. n
        PROVE  log[i] \in Rest(p.cursor)
    BY <1>1, <1>8, <1>10
  <2> QED
    BY <2>1, <2>2
<1>12. Entries(p.mutations) = {log[i] : i \in k + 1 .. k + t}
  <2>1. Entries(p.mutations) = {p.mutations[i] : i \in 1 .. t}
    BY <1>5, <1>7 DEF Entries
  <2>2. ASSUME NEW i \in k + 1 .. k + t
        PROVE  log[i] \in Entries(p.mutations)
    <3>1. PICK j \in 1 .. t : k + j = i
      <4>1. i - k \in 1 .. t /\ k + (i - k) = i
        BY <1>6
      <4> QED
        BY <4>1
    <3> QED
      BY <1>7, <2>1, <3>1
  <2>3. ASSUME NEW x \in Entries(p.mutations)
        PROVE  \E i \in k + 1 .. k + t : x = log[i]
    <3>1. PICK j \in 1 .. t : x = p.mutations[j]
      BY <2>1
    <3>2. k + j \in k + 1 .. k + t
      BY <1>6
    <3> QED
      BY <1>7, <3>1, <3>2
  <2> QED
    BY <2>2, <2>3
<1>13. k + 1 .. n = (k + 1 .. k + t) \cup (k + t + 1 .. n)
  BY <1>1, <1>6
<1>14. Entries(p.mutations) \cup Rest(p.cursor) = Rest(c)
  BY <1>9, <1>11, <1>12, <1>13
<1>15. Entries(p.mutations) \cap Rest(p.cursor) = {}
  <2> SUFFICES ASSUME NEW i \in k + 1 .. k + t, NEW j \in k + t + 1 .. n,
                      log[i] = log[j]
               PROVE  FALSE
    BY <1>11, <1>12
  <2>1. i \in 1 .. n /\ j \in 1 .. n /\ i < j
    BY <1>1, <1>6
  <2>2. log[i].server_sequence < log[j].server_sequence /\ log[i].server_sequence \in Nat
    BY <1>2, <2>1
  <2> QED
    BY <2>2
<1>16. p.has_more <=> Rest(p.cursor) # {}
  <2>1. CASE k + t < n
    <3>1. n \in k + t + 1 .. n
      BY <1>1, <1>6, <2>1
    <3>2. log[n] \in Rest(p.cursor)
      BY <1>11, <3>1
    <3> QED
      BY <1>7, <2>1, <3>2
  <2>2. CASE ~ (k + t < n)
    <3>1. k + t + 1 .. n = {}
      BY <1>1, <1>6, <2>2
    <3>2. Rest(p.cursor) = {}
      BY <1>11, <3>1
    <3> QED
      BY <1>7, <2>2, <3>2
  <2> QED
    BY <2>1, <2>2
<1>17. CanPull(e, p.cursor)
  <2>1. CASE t = 0
    BY <1>1, <1>7, <2>1 DEF CanPull
  <2>2. CASE t # 0
    <3>1. k + t \in 1 .. n
      BY <1>1, <1>6, <2>2
    <3> QED
      BY <1>1, <1>2, <1>7, <2>2, <3>1 DEF CanPull
  <2> QED
    BY <2>1, <2>2
<1> QED
  BY <1>14, <1>15, <1>16, <1>17

\* From every snapshot that restore accepts, gaps included, a page and what
\* its cursor leaves are exactly what was pending.
THEOREM PagesPartitionTheLogHolds == RestoreSpec => []PagesPartitionTheLog
<1>1. RestoredInv(engine) => PagesPartitionTheLog
  <2> SUFFICES ASSUME RestoredInv(engine), NEW c \in 0 .. engine.server_sequence,
                      NEW limit \in 1 .. 3, NEW p, p = Page(engine, c, limit)
               PROVE  /\ Entries(p.mutations) \cup After(p.cursor) = After(c)
                      /\ Entries(p.mutations) \cap After(p.cursor) = {}
                      /\ p.has_more <=> After(p.cursor) # {}
                      /\ CanPull(engine, p.cursor)
    BY DEF PagesPartitionTheLog
  <2>1. limit \in Nat \ {0}
    OBVIOUS
  <2> QED
    BY <2>1, PagePartitions DEF After
<1> QED
  BY <1>1, RestoreInvariant, PTL

\* A mutation accepted into a window without repetitions leaves a state that
\* validate_snapshot accepts, and no repetition.
LEMMA AcceptedStaysRestorable ==
  ASSUME NEW e, RestoredInv(e), NEW m \in Mutations, IsAccepted(e, m),
         NoRepetition(e.replay_order), ValidSnapshot(e), NEW f, f = Accepted(e, m)
  PROVE  NoRepetition(f.replay_order) /\ ValidSnapshot(f)
<1>1. PICK s, drop : AcceptedFrom(e, m, f, s, drop)
  BY AcceptedRestored
<1>2. PICK n, l, log, q, c, r, id, D :
        /\ n = e.server_sequence /\ n \in Nat
        /\ l = Len(e.log) /\ l \in Nat /\ log = e.log
        /\ q = e.replay_order /\ c = Len(q) /\ c \in Nat
        /\ r = f.replay_order /\ id = m.mutation_id
        /\ D = DOMAIN e.replay_index
  <2>1. e.server_sequence \in Nat /\ Len(e.log) \in Nat
    BY <1>1, LogAfterAccepted
  <2>2. Len(e.replay_order) \in Nat
    BY DEF RestoredInv, IsSnapshot
  <2> QED
    BY <2>1, <2>2
<1>3. /\ Len(f.log) = l + 1 /\ \A i \in 1 .. l : f.log[i] = log[i]
      /\ f.log[l + 1] = s
      /\ s.server_sequence = n + 1 /\ f.server_sequence = n + 1 /\ s.mutation = m
  <2>1. /\ Len(f.log) = Len(e.log) + 1
        /\ \A i \in 1 .. Len(e.log) : f.log[i] = e.log[i]
        /\ f.log[Len(e.log) + 1] = s
    BY <1>1, LogAfterAccepted
  <2>2. s.server_sequence = n + 1 /\ f.server_sequence = n + 1 /\ s.mutation = m
    BY <1>1, <1>2 DEF AcceptedFrom
  <2> QED
    BY <1>2, <2>1, <2>2
<1>4. /\ drop \in {0, 1} /\ (drop = 1 <=> c = ReplayCapacity) /\ c <= ReplayCapacity
      /\ ReplayCapacity \in Nat \ {0}
      /\ Len(r) = c + 1 - drop
      /\ \A k \in 1 .. c - drop : r[k] = q[k + drop]
      /\ r[c + 1 - drop] = id
  BY <1>1, <1>2, CapacityAssumption DEF AcceptedFrom, OneRemembered, RestoredInv
<1>5. id \notin D /\ ValidMutation(m)
  BY <1>2 DEF IsAccepted, Remembered
<1>6. /\ \A k \in 1 .. c : q[k] \in D
      /\ \A k, j \in 1 .. c : q[k] = q[j] => k = j
      /\ Cardinality(D) = c /\ IsFiniteSet(D)
  BY <1>2 DEF ValidSnapshot, NoRepetition, RestoredInv, IsSnapshot
<1>7. DOMAIN f.replay_index = (D \cup {id}) \ {q[i] : i \in 1 .. drop}
  BY <1>1, <1>2 DEF AcceptedFrom, Insert, RemoveKeys
<1>8. \A k \in 1 .. c - drop : k + drop \in 1 .. c
  BY <1>2, <1>4
<1>9. \A k \in 1 .. c + 1 - drop : k \in 1 .. c - drop \/ k = c + 1 - drop
  BY <1>2, <1>4
<1>10. NoRepetition(r)
  <2> SUFFICES ASSUME NEW i \in 1 .. c + 1 - drop, NEW j \in 1 .. c + 1 - drop,
                      r[i] = r[j]
               PROVE  i = j
    BY <1>4 DEF NoRepetition
  <2>1. CASE i \in 1 .. c - drop /\ j \in 1 .. c - drop
    <3>1. PICK x \in 1 .. c, y \in 1 .. c : x = i + drop /\ y = j + drop
      BY <1>8, <2>1
    <3>2. q[x] = q[y]
      BY <1>4, <2>1, <3>1
    <3>3. i + drop = j + drop
      BY <1>6, <3>1, <3>2
    <3> QED
      BY <1>2, <1>4, <2>1, <3>3
  <2>2. CASE i = c + 1 - drop /\ j \in 1 .. c - drop
    BY <1>4, <1>5, <1>6, <1>8, <2>2
  <2>3. CASE j = c + 1 - drop /\ i \in 1 .. c - drop
    BY <1>4, <1>5, <1>6, <1>8, <2>3
  <2> QED
    BY <1>9, <2>1, <2>2, <2>3
<1>11. Cardinality(DOMAIN f.replay_index) = c + 1 - drop
  <2>1. IsFiniteSet(D \cup {id}) /\ Cardinality(D \cup {id}) = c + 1
    BY <1>5, <1>6, FS_AddElement
  <2>2. CASE drop = 0
    <3>1. {q[i] : i \in 1 .. drop} = {}
      BY <2>2
    <3>2. DOMAIN f.replay_index = D \cup {id} /\ c + 1 - drop = c + 1
      BY <1>2, <1>7, <2>2, <3>1
    <3> QED
      BY <2>1, <3>2
  <2>3. CASE drop = 1
    <3>1. {q[i] : i \in 1 .. drop} = {q[1]} /\ 1 \in 1 .. c
      BY <1>2, <1>4, <2>3
    <3>2. q[1] \in D \cup {id}
      BY <1>6, <3>1
    <3>3. PICK E, x : E = D \cup {id} /\ x = q[1] /\ x \in E
                       /\ IsFiniteSet(E) /\ Cardinality(E) = c + 1
      BY <2>1, <3>2
    <3>4. Cardinality(E \ {x}) = Cardinality(E) - 1
      BY <3>3, FS_RemoveElement
    <3>5. DOMAIN f.replay_index = E \ {x}
      BY <1>7, <3>1, <3>3
    <3>6. PICK y : y = Cardinality(E) /\ Cardinality(DOMAIN f.replay_index) = y - 1
      BY <3>4, <3>5
    <3>7. y = c + 1
      BY <3>3, <3>6
    <3>8. c \in Nat
      BY <1>2
    <3>9. y - 1 = c + 1 - drop
      BY <2>3, <3>7, <3>8
    <3> QED
      BY <3>6, <3>9
  <2> QED
    BY <1>4, <2>2, <2>3
<1>12. ASSUME NEW k \in 1 .. c + 1 - drop
       PROVE  r[k] \in DOMAIN f.replay_index
  <2>1. \A i \in 1 .. drop : i = 1 /\ i \in 1 .. c
    BY <1>2, <1>4
  <2>2. CASE k \in 1 .. c - drop
    <3>1. PICK x \in 1 .. c : x = k + drop
      BY <1>8, <2>2
    <3>2. r[k] = q[x] /\ q[x] \in D
      BY <1>4, <1>6, <2>2, <3>1
    <3>3. \A i \in 1 .. drop : q[i] # q[x]
      <4>1. \A i \in 1 .. drop : i # x
        BY <1>4, <2>2, <3>1
      <4> QED
        BY <1>6, <2>1, <4>1
    <3> QED
      BY <1>7, <3>2, <3>3
  <2>3. CASE k = c + 1 - drop
    <3>1. r[k] = id /\ \A i \in 1 .. drop : q[i] # id
      BY <1>4, <1>5, <1>6, <2>1, <2>3
    <3> QED
      BY <1>7, <3>1
  <2> QED
    BY <1>9, <2>2, <2>3
<1>13. /\ l <= n
       /\ \A i \in 1 .. l :
            /\ log[i].server_sequence > IF i = 1 THEN 0 ELSE log[i-1].server_sequence
            /\ log[i].server_sequence <= n
            /\ ValidMutation(log[i].mutation)
       /\ \A i \in 1 .. l : log[i].server_sequence \in Nat
  BY <1>2 DEF ValidSnapshot, RestoredInv, Rising
<1>14. ASSUME NEW i \in 1 .. l + 1
       PROVE  /\ f.log[i].server_sequence
                   > IF i = 1 THEN 0 ELSE f.log[i-1].server_sequence
              /\ f.log[i].server_sequence <= n + 1
              /\ ValidMutation(f.log[i].mutation)
  <2>1. CASE i \in 1 .. l
    <3>1. i = 1 \/ i - 1 \in 1 .. l
      BY <1>2, <2>1
    <3>2. f.log[i] = log[i] /\ (i # 1 => f.log[i-1] = log[i-1])
      BY <1>3, <2>1, <3>1
    <3>3. PICK x : x = log[i].server_sequence /\ x \in Nat /\ x <= n
      BY <1>13, <2>1
    <3>4. x <= n + 1
      BY <1>2, <3>3
    <3> QED
      BY <1>13, <2>1, <3>2, <3>3, <3>4
  <2>2. CASE i = l + 1
    <3>1. i = 1 \/ i - 1 \in 1 .. l
      BY <1>2, <2>2
    <3>2. f.log[i] = s /\ s.server_sequence = n + 1 /\ s.mutation = m
      BY <1>3, <2>2
    <3>3. CASE i = 1
      BY <1>2, <1>5, <3>2, <3>3
    <3>4. CASE i # 1
      <4>1. PICK x : x = f.log[i-1].server_sequence /\ x \in Nat /\ x <= n
        BY <1>3, <1>13, <3>1, <3>4
      <4>2. n + 1 > x
        BY <1>2, <4>1
      <4> QED
        BY <1>2, <1>5, <3>2, <3>4, <4>1, <4>2
    <3> QED
      BY <3>3, <3>4
  <2> QED
    BY <1>2, <2>1, <2>2
<1>15. \A o \in DOMAIN f.records :
         /\ f.records[o].server_sequence <= n + 1
         /\ ValidMutation(f.records[o].mutation)
  <2>1. \A o \in DOMAIN e.records :
          /\ e.records[o].server_sequence \in Nat
          /\ e.records[o].server_sequence <= n
          /\ ValidMutation(e.records[o].mutation)
    <3>1. \A o \in DOMAIN e.records : e.records[o] \in SavedEntry
      BY DEF RestoredInv, IsSnapshot, IsMap
    <3>2. \A x \in SavedEntry : x.server_sequence \in Nat
      BY DEF SavedEntry
    <3> QED
      BY <1>2, <3>1, <3>2 DEF ValidSnapshot
  <2>2. \A o \in DOMAIN f.records :
          f.records[o] = s \/ (o \in DOMAIN e.records /\ f.records[o] = e.records[o])
    BY <1>1 DEF AcceptedFrom, Insert
  <2>3. n + 1 <= n + 1 /\ \A x \in Nat : x <= n => x <= n + 1
    BY <1>2
  <2> QED
    BY <1>3, <1>5, <2>1, <2>2, <2>3
<1>16. l + 1 <= n + 1 /\ c + 1 - drop <= ReplayCapacity
  BY <1>2, <1>4, <1>13
<1>17. ValidSnapshot(f)
  BY <1>2, <1>3, <1>4, <1>11, <1>12, <1>14, <1>15, <1>16 DEF ValidSnapshot
<1> QED
  BY <1>2, <1>10, <1>17

\* From every snapshot that restore accepts, the engine can be saved and
\* restored again as long as no identifier is repeated in replay_order, for
\* every catalogue and capacity.
THEOREM StaysRestorableHolds == RestoreSpec => StaysRestorable
<1>1. ASSUME RestoredInv(engine), [Next]_vars, NoRepetition(engine.replay_order),
             ValidSnapshot(engine)
      PROVE  NoRepetition(engine'.replay_order) /\ ValidSnapshot(engine')
  <2>1. CASE engine' = engine
    BY <1>1, <2>1
  <2>2. CASE \E m \in Mutations : IsAccepted(engine, m) /\ engine' = Accepted(engine, m)
    BY <1>1, <2>2, AcceptedStaysRestorable
  <2> QED
    BY <1>1, <2>1, <2>2, StepAccepts
<1>2. RestoredInv(engine) /\ [Next]_vars =>
        [NoRepetition(engine.replay_order) /\ ValidSnapshot(engine)
           => NoRepetition(engine'.replay_order) /\ ValidSnapshot(engine')]_vars
  BY <1>1
<1> QED
  BY <1>2, RestoreInvariant, PTL DEF RestoreSpec, StaysRestorable
=============================================================================

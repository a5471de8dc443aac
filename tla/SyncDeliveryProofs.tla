------------------------- MODULE SyncDeliveryProofs -------------------------
(***************************************************************************)
(* Proofs about the two ways in which mutations reach an engine.           *)
(*                                                                         *)
(* SyncPeers, for every set of peers and catalogue in which identifiers    *)
(* are not reused: every engine satisfies EngineInv, so its heads beat the *)
(* rest of its own log.  That two of them agree, and that a redelivery     *)
(* changes nothing, rests on the order of two mutations with different     *)
(* identifiers never reaching their server sequences.                      *)
(*                                                                         *)
(* SyncShell, for every set of devices, catalogue, capacity, page size and *)
(* number of crashes: the operational engine and the persisted one are the *)
(* same unless a transition is staged, and then the persisted one is the   *)
(* staged one; what devices hold is a prefix of the persisted log, and the *)
(* page on its way to one of them continues that prefix.                   *)
(***************************************************************************)
EXTENDS SyncPeers, SyncShell, SyncCoreProofs

-----------------------------------------------------------------------------
(* SyncPeers.                                                              *)

PeersInv ==
  /\ DOMAIN engines = Peers
  /\ \A p \in Peers : EngineInv(engines[p])

\* Delivery to one peer keeps its engine's invariant and leaves the others.
LEMMA PeersInvariant == PeersSpec => []PeersInv
<1>1. PeersInit => PeersInv
  BY NewEngineInv DEF PeersInit, PeersInv
<1>2. PeersInv /\ [PeersNext]_engines => PeersInv'
  <2> SUFFICES ASSUME PeersInv, [PeersNext]_engines
               PROVE  PeersInv'
    OBVIOUS
  <2>1. ASSUME NEW p \in Peers, NEW m \in Mutations, Deliver(p, m)
        PROVE  PeersInv'
    <3>1. EngineInv(Accepted(engines[p], m))
      BY <2>1, AcceptedKeepsInv DEF PeersInv, Deliver
    <3>2. \A q \in Peers : engines'[q] = IF q = p THEN Accepted(engines[p], m)
                                                  ELSE engines[q]
      BY <2>1 DEF PeersInv, Deliver
    <3>3. DOMAIN engines' = Peers
      BY <2>1 DEF PeersInv, Deliver
    <3> QED
      BY <3>1, <3>2, <3>3 DEF PeersInv
  <2>2. CASE UNCHANGED engines
    BY <2>2 DEF PeersInv
  <2> QED
    BY <2>1, <2>2 DEF PeersNext
<1> QED
  BY <1>1, <1>2, PTL DEF PeersSpec

\* Two mutations with different identifiers do not beat each other, wherever
\* and whenever they were sequenced.
LEMMA WinsByMutation ==
  ASSUME NEW s \in SequencedMutation, NEW t \in SequencedMutation,
         NEW u \in SequencedMutation, NEW v \in SequencedMutation,
         WinsConflict(s, t), WinsConflict(u, v),
         v.mutation = s.mutation, u.mutation = t.mutation
  PROVE  s.mutation.mutation_id = t.mutation.mutation_id
BY MutationsAssumption, SequenceAssumption
   DEF WinsConflict, DeletionPrecedence, SequencedMutation, Mutation

\* What the invariant says of a head: it is a log entry of its object, and an
\* entry of every mutation given to the peer is the head or beaten by it.
LEMMA HeadOfKnown ==
  ASSUME PeersInv, NEW p \in Peers, NEW o \in ObjectIds, NEW m \in Known(p, o)
  PROVE  /\ o \in DOMAIN engines[p].records
         /\ engines[p].records[o] \in SequencedMutation
         /\ engines[p].records[o].mutation \in Known(p, o)
         /\ \E x \in SequencedMutation :
              /\ x.mutation = m
              /\ engines[p].records[o] = x \/ WinsConflict(engines[p].records[o], x)
<1>1. EngineInv(engines[p])
  BY DEF PeersInv
<1>2. PICK i \in 1 .. Len(engines[p].log) : engines[p].log[i].mutation = m
  BY DEF Known
<1>3. m \in Mutations /\ m.object_id = o
  BY DEF Known
<1>4. engines[p].log \in Seq(SequencedMutation)
  BY <1>1 DEF EngineInv, IsEngine
<1>5. engines[p].log[i] \in SequencedMutation
  BY <1>2, <1>4
<1>6. /\ o \in DOMAIN engines[p].records
      /\ \/ engines[p].records[o] = engines[p].log[i]
         \/ WinsConflict(engines[p].records[o], engines[p].log[i])
  BY <1>1, <1>2, <1>3 DEF EngineInv, HeadsInv
<1>7. PICK j \in 1 .. Len(engines[p].log) :
        /\ engines[p].records[o] = engines[p].log[j]
        /\ engines[p].log[j].mutation.object_id = o
  BY <1>1, <1>6 DEF EngineInv, HeadsInv
<1>8. engines[p].records[o] \in SequencedMutation
  BY <1>4, <1>7
<1>9. engines[p].records[o].mutation \in Mutations
  BY <1>8 DEF SequencedMutation
<1> QED
  BY <1>2, <1>5, <1>6, <1>7, <1>8, <1>9 DEF Known

\* Peers that were given the same mutations of an object agree on its head,
\* for every number of peers, catalogue, capacity and order of delivery.
THEOREM ConvergenceHolds == PeersSpec => []Convergence
<1>1. PeersInv => Convergence
  <2> SUFFICES ASSUME PeersInv, NEW p \in Peers, NEW q \in Peers, NEW o \in ObjectIds,
                      Known(p, o) # {}, Known(p, o) = Known(q, o)
               PROVE  engines[p].records[o].mutation = engines[q].records[o].mutation
    BY DEF Convergence
  <2>1. PICK a, b : a = engines[p].records[o] /\ b = engines[q].records[o]
    OBVIOUS
  <2>2. /\ a \in SequencedMutation /\ a.mutation \in Known(p, o)
        /\ b \in SequencedMutation /\ b.mutation \in Known(q, o)
    BY <2>1, HeadOfKnown
  <2>3. PICK x \in SequencedMutation :
          x.mutation = a.mutation /\ (b = x \/ WinsConflict(b, x))
    BY <2>1, <2>2, HeadOfKnown
  <2>4. PICK y \in SequencedMutation :
          y.mutation = b.mutation /\ (a = y \/ WinsConflict(a, y))
    BY <2>1, <2>2, HeadOfKnown
  <2>5. CASE b = x \/ a = y
    BY <2>1, <2>3, <2>4, <2>5
  <2>6. CASE WinsConflict(b, x) /\ WinsConflict(a, y)
    <3>1. b.mutation.mutation_id = x.mutation.mutation_id
      BY <2>2, <2>3, <2>4, <2>6, WinsByMutation
    <3>2. a.mutation \in Mutations /\ b.mutation \in Mutations
      BY <2>2 DEF SequencedMutation
    <3> QED
      BY <2>1, <2>3, <3>1, <3>2, UniqueIdsAssumption
  <2> QED
    BY <2>3, <2>4, <2>5, <2>6
<1> QED
  BY <1>1, PeersInvariant, PTL

\* A mutation sequenced again after the window forgot it changes no head.
THEOREM RedeliveryIsHarmlessHolds == PeersSpec => RedeliveryIsHarmless
<1>1. ASSUME PeersInv, NEW p \in Peers, NEW m \in Mutations, Deliver(p, m),
             m \in Known(p, m.object_id), NEW o \in DOMAIN engines[p].records
      PROVE  engines'[p].records[o].mutation = engines[p].records[o].mutation
  <2>1. PICK n, s : /\ n = engines[p].server_sequence
                    /\ s = Sequenced(n + 1, m)
    OBVIOUS
  <2>2. EngineInv(engines[p]) /\ n \in Nat /\ n < MaxSequence
    BY <1>1, <2>1, SequenceAssumption DEF PeersInv, Deliver, IsAccepted, EngineInv, IsEngine
  <2>3. s \in SequencedMutation /\ s.mutation = m
    <3>1. n + 1 \in 1 .. MaxSequence
      BY <2>2, SequenceAssumption
    <3> QED
      BY <2>1, <3>1 DEF Sequenced, SequencedMutation
  <2>4. engines'[p].records = IF TakesHead(engines[p], s)
                              THEN Insert(engines[p].records, m.object_id, s)
                              ELSE engines[p].records
    BY <1>1, <2>1 DEF PeersInv, Deliver, Accepted
  <2>5. CASE ~ TakesHead(engines[p], s) \/ o # m.object_id
    BY <1>1, <2>4, <2>5 DEF Insert
  <2>6. CASE TakesHead(engines[p], s) /\ o = m.object_id
    <3>1. PICK a : a = engines[p].records[o]
      OBVIOUS
    <3>2. o \in ObjectIds
      BY <2>6 DEF ObjectIds
    <3>3. /\ a \in SequencedMutation /\ a.mutation \in Mutations
          /\ \E x \in SequencedMutation :
               x.mutation = m /\ (a = x \/ WinsConflict(a, x))
      BY <1>1, <2>6, <3>1, <3>2, HeadOfKnown DEF Known
    <3>4. PICK x \in SequencedMutation :
            x.mutation = m /\ (a = x \/ WinsConflict(a, x))
      BY <3>3
    <3>5. WinsConflict(s, a)
      BY <1>1, <2>3, <2>6, <3>1 DEF TakesHead
    <3>6. engines'[p].records[o].mutation = m
      BY <1>1, <2>3, <2>4, <2>6 DEF Insert
    <3>7. CASE a = x
      BY <3>1, <3>4, <3>6, <3>7
    <3>8. CASE WinsConflict(a, x)
      <4>1. s.mutation.mutation_id = a.mutation.mutation_id
        BY <2>3, <3>3, <3>4, <3>5, <3>8, WinsByMutation
      <4> QED
        BY <2>3, <3>1, <3>3, <3>6, <4>1, UniqueIdsAssumption
    <3> QED
      BY <3>4, <3>7, <3>8
  <2> QED
    BY <2>5, <2>6
<1>2. PeersInv => [ \A p \in Peers : \A m \in Mutations :
                  /\ Deliver(p, m)
                  /\ m \in Known(p, m.object_id)
                  => \A o \in DOMAIN engines[p].records :
                       engines'[p].records[o].mutation
                         = engines[p].records[o].mutation ]_engines
  BY <1>1
<1> QED
  BY <1>2, PeersInvariant, PTL DEF RedeliveryIsHarmless

-----------------------------------------------------------------------------
(* SyncShell.                                                              *)

StagedInv ==
  /\ up \in BOOLEAN
  /\ up /\ staged = None => engine = durable
  /\ staged # None =>
       /\ up
       /\ staged[1] = durable
       /\ staged[2].cursor \in 1 .. Len(durable.log)
       /\ durable.log[staged[2].cursor].mutation = staged[2].mutation

IInv == EngineInv(durable) /\ StagedInv /\ AckedIsDurable

\* A remembered identifier leads to the log entry of its mutation, under the
\* sequence number that is answered.
LEMMA IndexNamesEntry ==
  ASSUME NEW e, EngineInv(e), NEW id \in DOMAIN e.replay_index
  PROVE  /\ e.replay_index[id].server_sequence \in 1 .. Len(e.log)
         /\ e.log[e.replay_index[id].server_sequence] = e.replay_index[id]
<1>1. PICK n, w : /\ w = Len(e.replay_order) /\ w \in Nat
                  /\ n = Len(e.log) /\ n \in Nat
                  /\ w <= n
  BY DEF EngineInv, WindowInv, IsEngine
<1>2. PICK k \in 1 .. w : id = e.replay_order[k]
  <2>1. id \in Entries(e.replay_order)
    BY DEF EngineInv, WindowInv
  <2>2. DOMAIN e.replay_order = 1 .. w
    BY <1>1 DEF EngineInv, IsEngine
  <2> QED
    BY <2>1, <2>2 DEF Entries
<1>3. Tail0(e) = n - w
  BY <1>1 DEF Tail0
<1>4. n - w + k \in 1 .. n
  <2>1. k \in 1 .. w /\ w \in Nat /\ n \in Nat /\ w <= n
    BY <1>1, <1>2
  <2> QED
    BY <2>1
<1>5. e.replay_index[id] = e.log[n - w + k]
  BY <1>1, <1>2, <1>3 DEF EngineInv, WindowInv
<1>6. e.log[n - w + k].server_sequence = n - w + k
  BY <1>1, <1>4 DEF EngineInv, LogInv
<1> QED
  BY <1>1, <1>4, <1>5, <1>6

\* An accepted mutation is the new last entry, and the others stay.
LEMMA AcceptedAppends ==
  ASSUME NEW e, EngineInv(e), NEW m \in Mutations, IsAccepted(e, m),
         NEW f, f = Accepted(e, m)
  PROVE  /\ e.server_sequence + 1 \in 1 .. Len(f.log)
         /\ f.log[e.server_sequence + 1].mutation = m
         /\ \A i \in 1 .. Len(e.log) : i \in 1 .. Len(f.log) /\ f.log[i] = e.log[i]
<1>1. PICK n, l : /\ n = e.server_sequence /\ n \in Nat /\ n < MaxSequence
                  /\ l = e.log /\ l \in Seq(SequencedMutation) /\ n = Len(l)
  BY SequenceAssumption DEF IsAccepted, EngineInv, LogInv, IsEngine
<1>2. PICK s : s = Sequenced(n + 1, m) /\ s \in SequencedMutation /\ s.mutation = m
  <2>1. n + 1 \in 1 .. MaxSequence
    BY <1>1, SequenceAssumption
  <2>2. /\ Sequenced(n + 1, m) \in SequencedMutation
        /\ Sequenced(n + 1, m).mutation = m
    BY <2>1 DEF Sequenced, SequencedMutation
  <2> QED
    BY <2>2
<1>3. f.log = Append(l, s)
  BY <1>1, <1>2 DEF Accepted
<1>4. /\ Len(Append(l, s)) = n + 1
      /\ Append(l, s)[n + 1] = s
      /\ \A i \in 1 .. n : Append(l, s)[i] = l[i]
  BY <1>1, <1>2
<1> QED
  BY <1>1, <1>2, <1>3, <1>4

\* Crashes fall between persisting and committing, or anywhere else.
LEMMA InductiveInvariant == Spec => []IInv
<1>1. Init => IInv
  BY NewEngineInv DEF Init, IInv, StagedInv, AckedIsDurable
<1>2. IInv /\ [Next]_vars => IInv'
  <2> SUFFICES ASSUME IInv, [Next]_vars
               PROVE  IInv'
    OBVIOUS
  <2>1. ASSUME NEW m \in Mutations, Persist(m)
        PROVE  IInv'
    <3>1. EngineInv(engine) /\ engine = durable /\ IsAccepted(engine, m) /\ up
      BY <2>1 DEF Persist, IInv, StagedInv
    <3>2. EngineInv(durable')
      BY <2>1, <3>1, AcceptedKeepsInv DEF Persist
    <3>3. PICK ack : /\ ack = Ack(m, durable.server_sequence + 1)
                     /\ ack.mutation = m
                     /\ ack.cursor = durable.server_sequence + 1
      <4>1. /\ Ack(m, durable.server_sequence + 1).mutation = m
            /\ Ack(m, durable.server_sequence + 1).cursor = durable.server_sequence + 1
        BY DEF Ack
      <4> QED
        BY <4>1
    <3>4. staged' = <<durable', ack>> /\ up' /\ acked' = acked
      BY <2>1, <3>1, <3>3 DEF Persist
    <3>5. /\ ack.cursor \in 1 .. Len(durable'.log)
          /\ durable'.log[ack.cursor].mutation = m
          /\ \A i \in 1 .. Len(durable.log) :
               i \in 1 .. Len(durable'.log) /\ durable'.log[i] = durable.log[i]
      BY <2>1, <3>1, <3>3, AcceptedAppends DEF Persist
    <3>6. StagedInv'
      <4>1. staged'[1] = durable' /\ staged'[2] = ack
        BY <3>4
      <4>2. staged' # None
        BY <3>4 DEF None
      <4> QED
        BY <3>3, <3>4, <3>5, <4>1, <4>2 DEF StagedInv
    <3>7. AckedIsDurable'
      BY <3>4, <3>5 DEF IInv, AckedIsDurable
    <3> QED
      BY <3>2, <3>6, <3>7 DEF IInv
  <2>2. ASSUME NEW m \in Mutations, AnswerReplay(m)
        PROVE  IInv'
    <3>1. engine = durable /\ m.mutation_id \in DOMAIN durable.replay_index
          /\ durable.replay_index[m.mutation_id].mutation = m
      BY <2>2 DEF AnswerReplay, IInv, StagedInv, IsReplay, Remembered
    <3>2. PICK n : /\ n = durable.replay_index[m.mutation_id].server_sequence
                   /\ n \in 1 .. Len(durable.log) /\ durable.log[n].mutation = m
      BY <3>1, IndexNamesEntry DEF IInv
    <3>3. acked' = acked \cup {Ack(m, n)}
      BY <2>2, <3>1, <3>2 DEF AnswerReplay
    <3>4. Ack(m, n).mutation = m /\ Ack(m, n).cursor = n
      BY DEF Ack
    <3>5. UNCHANGED <<up, engine, staged, durable>>
      BY <2>2 DEF AnswerReplay
    <3> QED
      BY <3>2, <3>3, <3>4, <3>5 DEF IInv, StagedInv, AckedIsDurable
  <2>3. CASE Commit
    <3>1. UNCHANGED <<up, durable>> /\ staged' = None
          /\ engine' = durable /\ acked' = acked \cup {staged[2]}
      BY <2>3 DEF Commit, IInv, StagedInv
    <3> QED
      BY <2>3, <3>1 DEF Commit, IInv, StagedInv, AckedIsDurable
  <2>4. CASE \E d \in Devices : Pull(d) \/ ReceivePage(d) \/ LosePage(d)
    <3>1. UNCHANGED <<up, engine, staged, durable, acked>>
      BY <2>4 DEF Pull, ReceivePage, LosePage
    <3> QED
      BY <3>1 DEF IInv, StagedInv, AckedIsDurable
  <2>5. CASE Crash
    BY <2>5 DEF Crash, IInv, StagedInv, AckedIsDurable
  <2>6. CASE Restart
    BY <2>6 DEF Restart, IInv, StagedInv, AckedIsDurable
  <2>7. CASE UNCHANGED vars
    BY <2>7 DEF vars, IInv, StagedInv, AckedIsDurable
  <2> QED
    BY <2>1, <2>2, <2>3, <2>4, <2>5, <2>6, <2>7 DEF Next
<1> QED
  BY <1>1, <1>2, PTL DEF Spec

\* What a client was told is in the persisted log, across any number of
\* crashes at any point of persisting, committing and answering.
THEOREM AckedIsDurableHolds == Spec => []AckedIsDurable
<1>1. IInv => AckedIsDurable
  BY DEF IInv
<1> QED
  BY <1>1, InductiveInvariant, PTL

\* Two persisted entries of one identifier are further apart than the window.
THEOREM RetriedOnceHolds == Spec => []RetriedOnce
<1>1. IInv => RetriedOnce
  BY DEF IInv, EngineInv, SpacedInv, RetriedOnce
<1> QED
  BY <1>1, InductiveInvariant, PTL

\* The process can always restart: restore accepts what was persisted, also
\* where the crash fell between the snapshot and the commit.
THEOREM AlwaysRestorable == Spec => []ValidSnapshot(durable)
<1>1. IInv => ValidSnapshot(durable)
  BY InvIsValidSnapshot DEF IInv
<1> QED
  BY <1>1, InductiveInvariant, PTL

-----------------------------------------------------------------------------
(* What devices hold of the persisted log.                                 *)

\* The part of a log between two positions.
LEMMA PartOf ==
  ASSUME NEW S, NEW s \in Seq(S), NEW a \in Nat, NEW b \in Nat,
         a <= b, b <= Len(s)
  PROVE  /\ SubSeq(s, a + 1, b) \in Seq(S)
         /\ Len(SubSeq(s, a + 1, b)) = b - a
         /\ \A i \in 1 .. b - a : SubSeq(s, a + 1, b)[i] = s[a + i]
<1>1. PICK lo \in Int, hi \in Int : lo = a + 1 /\ hi = b
  OBVIOUS
<1>2. \A i \in lo .. hi : s[i] \in S
  BY <1>1
<1>3. PICK x : x = SubSeq(s, lo, hi)
  OBVIOUS
<1>4. /\ x \in Seq(S) /\ Len(x) = IF lo <= hi THEN hi - lo + 1 ELSE 0
      /\ \A i \in 1 .. hi - lo + 1 : x[i] = s[lo + i - 1]
  BY <1>2, <1>3, SubSeqProperties
<1>5. /\ (IF lo <= hi THEN hi - lo + 1 ELSE 0) = b - a
      /\ hi - lo + 1 = b - a
      /\ \A i \in 1 .. b - a : lo + i - 1 = a + i
  BY <1>1
<1>6. Len(x) = b - a /\ \A i \in 1 .. b - a : x[i] = s[a + i]
  BY <1>4, <1>5
<1> QED
  BY <1>1, <1>3, <1>4, <1>6

\* Two logs agree up to position n, and both reach it.
AgreeTo(n, short, long) ==
  /\ n \in Nat /\ n <= Len(short) /\ n <= Len(long)
  /\ \A i \in 1 .. n : short[i] = long[i]

\* A part of a log is the same part of every log that agrees so far.
LEMMA SamePart ==
  ASSUME NEW S, NEW s \in Seq(S), NEW t \in Seq(S), NEW n, AgreeTo(n, s, t),
         NEW lo \in Nat, NEW b \in Nat, lo # 0, b <= n, lo <= b + 1
  PROVE  SubSeq(s, lo, b) = SubSeq(t, lo, b)
<1>1. PICK a \in Nat : lo = a + 1 /\ a <= b
  <2>1. lo - 1 \in Nat /\ lo = (lo - 1) + 1 /\ lo - 1 <= b
    OBVIOUS
  <2> QED
    BY <2>1
<1>2. b <= Len(s) /\ b <= Len(t) /\ \A i \in 1 .. b - a : s[a + i] = t[a + i]
  <2>1. \A i \in 1 .. b - a : a + i \in 1 .. n
    BY <1>1 DEF AgreeTo
  <2> QED
    BY <1>1, <2>1 DEF AgreeTo
<1>3. PICK x, y : x = SubSeq(s, a + 1, b) /\ y = SubSeq(t, a + 1, b)
  OBVIOUS
<1>4. x \in Seq(S) /\ Len(x) = b - a /\ \A i \in 1 .. b - a : x[i] = s[a + i]
  BY <1>1, <1>2, <1>3, PartOf
<1>5. y \in Seq(S) /\ Len(y) = b - a /\ \A i \in 1 .. b - a : y[i] = t[a + i]
  BY <1>1, <1>2, <1>3, PartOf
<1>6. \A i \in 1 .. Len(x) : x[i] = y[i]
  BY <1>2, <1>4, <1>5
<1>7. x = y
  BY <1>4, <1>5, <1>6, SeqEqual
<1> QED
  BY <1>1, <1>3, <1>7

\* Consecutive parts of a log, put together.
LEMMA PartsJoin ==
  ASSUME NEW S, NEW s \in Seq(S), NEW a \in Nat, NEW b \in Nat,
         a <= b, b <= Len(s)
  PROVE  SubSeq(s, 1, a) \o SubSeq(s, a + 1, b) = SubSeq(s, 1, b)
<1>1. PICK x, y, z : /\ x = SubSeq(s, 1, a) /\ y = SubSeq(s, a + 1, b)
                     /\ z = SubSeq(s, 1, b)
  OBVIOUS
<1>2. a <= Len(s) /\ 0 <= a /\ 0 <= b /\ 0 + 1 = 1 /\ a - 0 = a /\ b - 0 = b
      /\ \A i \in Nat : 0 + i = i
  OBVIOUS
<1>3. x \in Seq(S) /\ Len(x) = a /\ \A i \in 1 .. a : x[i] = s[i]
  <2>1. /\ SubSeq(s, 0 + 1, a) \in Seq(S)
        /\ Len(SubSeq(s, 0 + 1, a)) = a - 0
        /\ \A i \in 1 .. a - 0 : SubSeq(s, 0 + 1, a)[i] = s[0 + i]
    BY <1>2, PartOf
  <2> QED
    BY <1>1, <1>2, <2>1
<1>4. z \in Seq(S) /\ Len(z) = b /\ \A i \in 1 .. b : z[i] = s[i]
  <2>1. /\ SubSeq(s, 0 + 1, b) \in Seq(S)
        /\ Len(SubSeq(s, 0 + 1, b)) = b - 0
        /\ \A i \in 1 .. b - 0 : SubSeq(s, 0 + 1, b)[i] = s[0 + i]
    BY <1>2, PartOf
  <2> QED
    BY <1>1, <1>2, <2>1
<1>5. y \in Seq(S) /\ Len(y) = b - a /\ \A i \in 1 .. b - a : y[i] = s[a + i]
  BY <1>1, PartOf
<1>6. PICK j : j = x \o y
  OBVIOUS
<1>7. /\ j \in Seq(S) /\ Len(j) = a + (b - a)
      /\ \A i \in 1 .. a + (b - a) : j[i] = IF i <= a THEN x[i] ELSE y[i - a]
  <2>1. /\ x \o y \in Seq(S)
        /\ Len(x \o y) = Len(x) + Len(y)
        /\ \A i \in 1 .. Len(x) + Len(y) :
             (x \o y)[i] = IF i <= Len(x) THEN x[i] ELSE y[i - Len(x)]
    BY <1>3, <1>5, ConcatProperties
  <2> QED
    BY <1>3, <1>5, <1>6, <2>1
<1>8. a + (b - a) = b
  OBVIOUS
<1>9. ASSUME NEW i \in 1 .. b
      PROVE  j[i] = z[i]
  <2>1. CASE i <= a
    BY <1>3, <1>4, <1>7, <1>8, <2>1
  <2>2. CASE ~ (i <= a)
    <3>1. i - a \in 1 .. b - a /\ a + (i - a) = i
      BY <2>2
    <3> QED
      BY <1>4, <1>5, <1>7, <1>8, <2>2, <3>1
  <2> QED
    BY <2>1, <2>2
<1>10. j = z
  <2>1. Len(j) = Len(z) /\ \A i \in 1 .. Len(j) : j[i] = z[i]
    BY <1>4, <1>7, <1>8, <1>9
  <2> QED
    BY <1>4, <1>7, <2>1, SeqEqual
<1> QED
  BY <1>1, <1>6, <1>10

\* A running engine's page after a cursor it can serve is the part of its log
\* between that cursor and the page's own.
LEMMA PageOfEngine ==
  ASSUME NEW e, EngineInv(e), NEW c \in Nat, c <= Len(e.log),
         NEW limit \in Nat \ {0}, NEW p, p = Page(e, c, limit)
  PROVE  /\ p.cursor \in c .. Len(e.log)
         /\ p.mutations = SubSeq(e.log, c + 1, p.cursor)
<1>1. PICK n, log : /\ n = Len(log) /\ n \in Nat /\ log = e.log
                    /\ log \in Seq(SequencedMutation) /\ DOMAIN log = 1 .. n
                    /\ e.server_sequence = n
                    /\ \A i \in 1 .. n : log[i].server_sequence = i
  BY DEF EngineInv, IsEngine, LogInv
<1>2. SuffixAfter(SequencedMutation, e, c, c)
  <2>1. Later(e, c) = {i \in 1 .. n : i > c}
    BY <1>1 DEF Later
  <2>2. {i \in 1 .. n : i > c} = c + 1 .. n
    BY <1>1
  <2> QED
    BY <1>1, <2>1, <2>2 DEF SuffixAfter
<1>3. p.mutations \in Seq(SequencedMutation) /\ PageHolds(e, c, limit, p)
  BY <1>2, PageOfSuffix
<1>4. PICK t : /\ t = (IF limit < n - c THEN limit ELSE n - c)
               /\ t \in 0 .. n - c /\ (t = 0 => c = n)
  BY <1>1
<1>5. /\ Len(p.mutations) = t
      /\ \A i \in 1 .. t : p.mutations[i] = log[c + i]
      /\ p.cursor = IF t = 0 THEN n ELSE log[c + t].server_sequence
  BY <1>1, <1>3, <1>4 DEF PageHolds
<1>6. p.cursor = c + t
  <2>1. c + t \in 0 .. n /\ (t # 0 => c + t \in 1 .. n)
    BY <1>1, <1>4
  <2> QED
    BY <1>1, <1>4, <1>5, <2>1
<1>7. PICK b, x : b = c + t /\ x = SubSeq(log, c + 1, b)
  OBVIOUS
<1>8. b \in Nat /\ c <= b /\ b <= n /\ b - c = t /\ t \in Nat
  BY <1>1, <1>4, <1>7
<1>9. /\ x \in Seq(SequencedMutation) /\ Len(x) = t
      /\ \A i \in 1 .. t : x[i] = log[c + i]
  <2>1. /\ x \in Seq(SequencedMutation) /\ Len(x) = b - c
        /\ \A i \in 1 .. b - c : x[i] = log[c + i]
    <3>1. log \in Seq(SequencedMutation) /\ b \in Nat /\ c <= b /\ b <= Len(log)
      BY <1>1, <1>8
    <3>2. /\ SubSeq(log, c + 1, b) \in Seq(SequencedMutation)
          /\ Len(SubSeq(log, c + 1, b)) = b - c
          /\ \A i \in 1 .. b - c : SubSeq(log, c + 1, b)[i] = log[c + i]
      BY <3>1, PartOf
    <3> QED
      BY <1>7, <3>2
  <2> QED
    BY <1>8, <2>1
<1>10. p.mutations = x
  <2>1. \A i \in 1 .. Len(x) : p.mutations[i] = x[i]
    BY <1>5, <1>9
  <2> QED
    BY <1>3, <1>5, <1>9, <2>1, SeqEqual
<1> QED
  BY <1>1, <1>6, <1>7, <1>8, <1>10

\* The log that the process serves, or will serve when it restarts.
ServerLog == IF up THEN engine.log ELSE durable.log

ServerInv ==
  /\ up => EngineInv(engine)
  /\ AgreeTo(Len(ServerLog), ServerLog, durable.log)

DevicesInv ==
  /\ DOMAIN cursor = Devices /\ DOMAIN seen = Devices /\ DOMAIN page = Devices
  /\ \A d \in Devices :
       /\ cursor[d] \in 0 .. Len(ServerLog)
       /\ seen[d] = SubSeq(durable.log, 1, cursor[d])
       /\ page[d] # None =>
            /\ page[d].cursor \in cursor[d] .. Len(ServerLog)
            /\ page[d].mutations = SubSeq(durable.log, cursor[d] + 1, page[d].cursor)

\* The server's log may grow towards the persisted one and the persisted one
\* beyond its end: what devices hold stays what it was.
LEMMA DevicesUndisturbed ==
  ASSUME IInv, IInv', ServerInv, DevicesInv, UNCHANGED devices,
         Len(ServerLog) <= Len(ServerLog'), Len(ServerLog') \in Nat,
         AgreeTo(Len(ServerLog), durable.log, durable.log')
  PROVE  DevicesInv'
<1>1. PICK s, t, n, m :
        /\ s = durable.log /\ s \in Seq(SequencedMutation)
        /\ t = durable.log' /\ t \in Seq(SequencedMutation)
        /\ n = Len(ServerLog) /\ n \in Nat /\ AgreeTo(n, s, t)
        /\ m = Len(ServerLog') /\ m \in Nat /\ n <= m
  BY DEF IInv, EngineInv, IsEngine, AgreeTo
<1>2. cursor' = cursor /\ seen' = seen /\ page' = page
  BY DEF devices
<1>3. ASSUME NEW d \in Devices
      PROVE  /\ cursor[d] \in 0 .. m
             /\ seen[d] = SubSeq(t, 1, cursor[d])
             /\ page[d] # None =>
                  /\ page[d].cursor \in cursor[d] .. m
                  /\ page[d].mutations = SubSeq(t, cursor[d] + 1, page[d].cursor)
  <2>1. PICK c, pg : c = cursor[d] /\ pg = page[d]
    OBVIOUS
  <2>2. c \in 0 .. n /\ seen[d] = SubSeq(s, 1, c)
    BY <1>1, <2>1 DEF DevicesInv
  <2>3. SubSeq(s, 1, c) = SubSeq(t, 1, c)
    <3>1. 1 \in Nat /\ c \in Nat /\ 1 # 0 /\ c <= n /\ 1 <= c + 1
      BY <1>1, <2>2
    <3>2. s \in Seq(SequencedMutation) /\ t \in Seq(SequencedMutation) /\ AgreeTo(n, s, t)
      BY <1>1
    <3> QED
      BY <3>1, <3>2, SamePart
  <2>4. ASSUME pg # None
        PROVE  /\ pg.cursor \in c .. m
               /\ pg.mutations = SubSeq(t, c + 1, pg.cursor)
    <3>1. pg.cursor \in c .. n /\ pg.mutations = SubSeq(s, c + 1, pg.cursor)
      BY <1>1, <2>1, <2>4 DEF DevicesInv
    <3>2. SubSeq(s, c + 1, pg.cursor) = SubSeq(t, c + 1, pg.cursor)
      <4>1. PICK lo, b : lo = c + 1 /\ b = pg.cursor
        OBVIOUS
      <4>2. lo \in Nat /\ b \in Nat /\ lo # 0 /\ b <= n /\ lo <= b + 1
        BY <1>1, <2>2, <3>1, <4>1
      <4>3. s \in Seq(SequencedMutation) /\ t \in Seq(SequencedMutation) /\ AgreeTo(n, s, t)
        BY <1>1
      <4>4. SubSeq(s, lo, b) = SubSeq(t, lo, b)
        BY <4>2, <4>3, SamePart
      <4> QED
        BY <4>1, <4>4
    <3>3. c \in Nat /\ pg.cursor \in c .. m
      BY <1>1, <2>2, <3>1
    <3> QED
      BY <3>1, <3>2, <3>3
  <2>5. c \in 0 .. m
    BY <1>1, <2>2
  <2> QED
    BY <2>1, <2>2, <2>3, <2>4, <2>5
<1> QED
  BY <1>1, <1>2, <1>3 DEF DevicesInv

\* A log agrees with itself up to its length.
LEMMA AgreesWithItself ==
  ASSUME NEW S, NEW s \in Seq(S), NEW n \in Nat, n <= Len(s)
  PROVE  AgreeTo(n, s, s)
BY DEF AgreeTo

\* Persisting, committing, crashing and restarting leave the persisted log as
\* it is or longer; a page continues what its device has; receiving one puts
\* the two together.
LEMMA DevicesInvariant == Spec => [](ServerInv /\ DevicesInv)
<1>1. Init => ServerInv /\ DevicesInv
  <2> SUFFICES ASSUME Init
               PROVE  ServerInv /\ DevicesInv
    OBVIOUS
  <2>1. /\ up = TRUE /\ engine = NewEngine /\ durable = NewEngine
        /\ cursor = [d \in Devices |-> 0]
        /\ seen = [d \in Devices |-> << >>]
        /\ page = [d \in Devices |-> None]
    BY DEF Init
  <2>2. NewEngine.log = << >> /\ Len(<< >>) = 0
    BY DEF NewEngine
  <2>3. ServerLog = << >> /\ durable.log = << >>
    BY <2>1, <2>2 DEF ServerLog
  <2>4. SubSeq(<< >>, 1, 0) = << >>
    BY SubSeqEmpty
  <2>5. ServerInv
    BY <2>1, <2>2, <2>3, NewEngineInv DEF ServerInv, AgreeTo
  <2>6. DevicesInv
    BY <2>1, <2>2, <2>3, <2>4 DEF DevicesInv
  <2> QED
    BY <2>5, <2>6
<1>2. IInv /\ IInv' /\ ServerInv /\ DevicesInv /\ [Next]_vars
        => (ServerInv /\ DevicesInv)'
  <2> SUFFICES ASSUME IInv, IInv', ServerInv, DevicesInv, [Next]_vars
               PROVE  ServerInv' /\ DevicesInv'
    OBVIOUS
  <2>1. PICK n, s : /\ s = durable.log /\ s \in Seq(SequencedMutation)
                    /\ n = Len(ServerLog) /\ n \in Nat /\ n <= Len(s)
                    /\ AgreeTo(n, ServerLog, s)
    BY DEF IInv, EngineInv, IsEngine, ServerInv, AgreeTo
  <2>2. ASSUME UNCHANGED <<up, engine, durable>>
        PROVE  ServerInv' /\ ServerLog' = ServerLog /\ durable'.log = s
    <3>1. ServerLog' = ServerLog /\ durable'.log = s
      BY <2>1, <2>2 DEF ServerLog
    <3> QED
      BY <2>1, <2>2, <3>1 DEF ServerInv
  <2>3. ASSUME UNCHANGED <<up, engine, durable, devices>>
        PROVE  ServerInv' /\ DevicesInv'
    <3>1. ServerInv' /\ ServerLog' = ServerLog /\ durable'.log = s
      BY <2>2, <2>3
    <3>2. cursor' = cursor /\ seen' = seen /\ page' = page
      BY <2>3 DEF devices
    <3> QED
      BY <2>1, <3>1, <3>2 DEF DevicesInv
  <2>4. ASSUME NEW m \in Mutations, Persist(m)
        PROVE  ServerInv' /\ DevicesInv'
    <3>1. /\ EngineInv(durable) /\ engine = durable /\ IsAccepted(durable, m)
          /\ durable' = Accepted(durable, m) /\ up /\ up' /\ engine' = engine
          /\ UNCHANGED devices
      BY <2>4 DEF Persist, IInv, StagedInv
    <3>2. /\ ServerLog = s /\ ServerLog' = s
      BY <2>1, <3>1 DEF ServerLog
    <3>3. PICK t : /\ t = durable'.log /\ t \in Seq(SequencedMutation)
      BY DEF IInv, EngineInv, IsEngine
    <3>4. /\ durable.server_sequence + 1 \in 1 .. Len(t)
          /\ \A i \in 1 .. n : i \in 1 .. Len(t) /\ t[i] = s[i]
      BY <2>1, <3>1, <3>2, <3>3, AcceptedAppends
    <3>5. durable.server_sequence = n
      BY <2>1, <3>1, <3>2 DEF EngineInv, LogInv
    <3>6. AgreeTo(n, s, t)
      <4>1. n <= Len(t) /\ \A i \in 1 .. n : s[i] = t[i]
        BY <2>1, <3>3, <3>4, <3>5
      <4> QED
        BY <2>1, <4>1 DEF AgreeTo
    <3>7. ServerInv'
      BY <2>1, <3>1, <3>2, <3>3, <3>6 DEF ServerInv
    <3>8. DevicesInv'
      BY <2>1, <3>1, <3>2, <3>3, <3>6, DevicesUndisturbed
    <3> QED
      BY <3>7, <3>8
  <2>5. CASE Commit
    <3>1. /\ engine' = durable /\ durable' = durable /\ up /\ up'
          /\ UNCHANGED devices
      BY <2>5 DEF Commit, IInv, StagedInv
    <3>2. ServerLog' = s /\ durable'.log = s
      BY <2>1, <3>1 DEF ServerLog
    <3>3. AgreeTo(n, s, s) /\ AgreeTo(Len(s), s, s) /\ Len(s) \in Nat
      BY <2>1, AgreesWithItself
    <3>4. ServerInv'
      BY <2>1, <3>1, <3>2, <3>3 DEF ServerInv, IInv
    <3>5. DevicesInv'
      BY <2>1, <3>1, <3>2, <3>3, DevicesUndisturbed
    <3> QED
      BY <3>4, <3>5
  <2>6. ASSUME NEW d \in Devices, Pull(d)
        PROVE  ServerInv' /\ DevicesInv'
    <3>1. /\ UNCHANGED <<up, engine, durable>> /\ cursor' = cursor /\ seen' = seen
          /\ up /\ page' = [page EXCEPT ![d] = Page(engine, cursor[d], PageLimit)]
      BY <2>6 DEF Pull
    <3>2. ServerInv' /\ ServerLog' = ServerLog /\ durable'.log = s
      BY <2>2, <3>1
    <3>3. PICK c, p : c = cursor[d] /\ p = Page(engine, c, PageLimit)
      OBVIOUS
    <3>4. EngineInv(engine) /\ ServerLog = engine.log
      BY <3>1 DEF ServerInv, ServerLog
    <3>5. c \in Nat /\ c <= n
      BY <2>1, <3>3 DEF DevicesInv
    <3>6. p.cursor \in c .. n /\ p.mutations = SubSeq(engine.log, c + 1, p.cursor)
      BY <2>1, <3>3, <3>4, <3>5, PageLimitAssumption, PageOfEngine
    <3>7. p.mutations = SubSeq(s, c + 1, p.cursor)
      <4>1. PICK log, lo, b : log = engine.log /\ lo = c + 1 /\ b = p.cursor
        OBVIOUS
      <4>2. log \in Seq(SequencedMutation) /\ AgreeTo(n, log, s)
        BY <2>1, <3>4, <4>1 DEF EngineInv, IsEngine
      <4>3. lo \in Nat /\ b \in Nat /\ lo # 0 /\ b <= n /\ lo <= b + 1
        BY <2>1, <3>5, <3>6, <4>1
      <4>4. SubSeq(log, lo, b) = SubSeq(s, lo, b)
        BY <2>1, <4>2, <4>3, SamePart
      <4> QED
        BY <3>6, <4>1, <4>4
    <3>8. page' = [page EXCEPT ![d] = p]
      BY <3>1, <3>3
    <3>9. DOMAIN page' = Devices
          /\ \A g \in Devices : page'[g] = IF g = d THEN p ELSE page[g]
      BY <3>8 DEF DevicesInv
    <3>10. ASSUME NEW g \in Devices, page'[g] # None
           PROVE  /\ page'[g].cursor \in cursor[g] .. n
                  /\ page'[g].mutations = SubSeq(s, cursor[g] + 1, page'[g].cursor)
      <4>1. CASE g = d
        BY <3>3, <3>6, <3>7, <3>9, <4>1
      <4>2. CASE g # d
        BY <2>1, <3>9, <3>10, <4>2 DEF DevicesInv
      <4> QED
        BY <4>1, <4>2
    <3>11. DevicesInv'
      BY <2>1, <3>1, <3>2, <3>9, <3>10 DEF DevicesInv
    <3> QED
      BY <3>2, <3>11
  <2>7. ASSUME NEW d \in Devices, ReceivePage(d)
        PROVE  ServerInv' /\ DevicesInv'
    <3>1. PICK c, p : /\ c = cursor[d] /\ p = page[d] /\ p # None
                      /\ UNCHANGED <<up, engine, durable>>
                      /\ seen' = [seen EXCEPT ![d] = seen[d] \o p.mutations]
                      /\ cursor' = [cursor EXCEPT ![d] = p.cursor]
                      /\ page' = [page EXCEPT ![d] = None]
      BY <2>7 DEF ReceivePage
    <3>2. ServerInv' /\ ServerLog' = ServerLog /\ durable'.log = s
      BY <2>2, <3>1
    <3>3. /\ c \in 0 .. n /\ seen[d] = SubSeq(s, 1, c)
          /\ p.cursor \in c .. n /\ p.mutations = SubSeq(s, c + 1, p.cursor)
      BY <2>1, <3>1 DEF DevicesInv
    <3>4. seen[d] \o p.mutations = SubSeq(s, 1, p.cursor)
      <4>1. /\ c \in Nat /\ p.cursor \in Nat /\ c <= p.cursor
            /\ p.cursor <= Len(s)
        BY <2>1, <3>3
      <4> QED
        BY <2>1, <3>3, <4>1, PartsJoin
    <3>5. DOMAIN cursor' = Devices /\ DOMAIN seen' = Devices /\ DOMAIN page' = Devices
      BY <3>1 DEF DevicesInv
    <3>6. /\ cursor'[d] = p.cursor /\ page'[d] = None
          /\ seen'[d] = SubSeq(s, 1, p.cursor)
      BY <3>1, <3>4 DEF DevicesInv
    <3>7. \A g \in Devices \ {d} :
            cursor'[g] = cursor[g] /\ seen'[g] = seen[g] /\ page'[g] = page[g]
      BY <3>1 DEF DevicesInv
    <3>8. p.cursor \in 0 .. n
      BY <2>1, <3>3
    <3>9. ASSUME NEW g \in Devices
          PROVE  /\ cursor'[g] \in 0 .. n
                 /\ seen'[g] = SubSeq(s, 1, cursor'[g])
                 /\ page'[g] # None =>
                      /\ page'[g].cursor \in cursor'[g] .. n
                      /\ page'[g].mutations
                           = SubSeq(s, cursor'[g] + 1, page'[g].cursor)
      <4>1. CASE g = d
        BY <3>6, <3>8, <4>1
      <4>2. CASE g # d
        BY <2>1, <3>7, <4>2 DEF DevicesInv
      <4> QED
        BY <4>1, <4>2
    <3>10. DevicesInv'
      BY <2>1, <3>2, <3>5, <3>9 DEF DevicesInv
    <3> QED
      BY <3>2, <3>10
  <2>8. ASSUME NEW d \in Devices, LosePage(d)
        PROVE  ServerInv' /\ DevicesInv'
    <3>1. /\ UNCHANGED <<up, engine, durable>> /\ cursor' = cursor /\ seen' = seen
          /\ page' = [page EXCEPT ![d] = None]
      BY <2>8 DEF LosePage
    <3>2. ServerInv' /\ ServerLog' = ServerLog /\ durable'.log = s
      BY <2>2, <3>1
    <3>3. DOMAIN page' = Devices
          /\ \A g \in Devices : page'[g] = IF g = d THEN None ELSE page[g]
      BY <3>1 DEF DevicesInv
    <3>4. DevicesInv'
      BY <2>1, <3>1, <3>2, <3>3 DEF DevicesInv
    <3> QED
      BY <3>2, <3>4
  <2>9. CASE Crash \/ Restart
    <3>1. /\ durable' = durable /\ UNCHANGED devices
          /\ up' => engine' = durable
      BY <2>9 DEF Crash, Restart
    <3>2. ServerLog' = s /\ durable'.log = s
      BY <2>1, <3>1 DEF ServerLog
    <3>3. AgreeTo(n, s, s) /\ AgreeTo(Len(s), s, s) /\ Len(s) \in Nat
      BY <2>1, AgreesWithItself
    <3>4. ServerInv'
      BY <2>1, <3>1, <3>2, <3>3 DEF ServerInv, IInv
    <3>5. DevicesInv'
      BY <2>1, <3>1, <3>2, <3>3, DevicesUndisturbed
    <3> QED
      BY <3>4, <3>5
  <2>10. ASSUME NEW m \in Mutations, AnswerReplay(m)
         PROVE  ServerInv' /\ DevicesInv'
    BY <2>3, <2>10 DEF AnswerReplay
  <2>11. CASE UNCHANGED vars
    BY <2>3, <2>11 DEF vars, devices
  <2> QED
    BY <2>4, <2>5, <2>6, <2>7, <2>8, <2>9, <2>10, <2>11 DEF Next
<1> QED
  BY <1>1, <1>2, InductiveInvariant, PTL DEF Spec

\* Every device holds the persisted log up to its cursor, each entry once and
\* in order, for every number of devices, page size and crashes.
THEOREM SeenIsLogPrefixHolds == Spec => []SeenIsLogPrefix
<1>1. ServerInv /\ DevicesInv => SeenIsLogPrefix
  <2> SUFFICES ASSUME ServerInv, DevicesInv, NEW d \in Devices
               PROVE  /\ cursor[d] <= Len(durable.log)
                      /\ seen[d] = SubSeq(durable.log, 1, cursor[d])
    BY DEF SeenIsLogPrefix
  <2>1. PICK n, k : /\ n = Len(ServerLog) /\ n \in Nat
                    /\ k = Len(durable.log) /\ n <= k
    BY DEF ServerInv, AgreeTo
  <2>2. cursor[d] \in 0 .. n /\ seen[d] = SubSeq(durable.log, 1, cursor[d])
    BY <2>1 DEF DevicesInv
  <2>3. k \in Nat /\ cursor[d] <= k
    BY <2>1, <2>2
  <2> QED
    BY <2>1, <2>2, <2>3
<1> QED
  BY <1>1, DevicesInvariant, PTL

\* No restart puts the server behind a device: it serves at least the log
\* that any device has seen of it.
THEOREM CursorWithinServerHolds == Spec => []CursorWithinServer
<1>1. ServerInv /\ DevicesInv => CursorWithinServer
  <2> SUFFICES ASSUME ServerInv, DevicesInv, up, NEW d \in Devices
               PROVE  cursor[d] <= engine.server_sequence
    BY DEF CursorWithinServer, CanPull
  <2>1. /\ ServerLog = engine.log
        /\ engine.server_sequence = Len(engine.log) /\ Len(engine.log) \in Nat
    BY DEF ServerLog, ServerInv, EngineInv, LogInv, IsEngine
  <2> QED
    BY <2>1 DEF DevicesInv
<1> QED
  BY <1>1, DevicesInvariant, PTL
=============================================================================

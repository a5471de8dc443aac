--------------------------- MODULE SyncCoreProofs ---------------------------
(***************************************************************************)
(* Facts about one engine of SyncCore, for every catalogue of mutations,   *)
(* every replay capacity and every largest sequence.  EngineInv holds of a *)
(* new engine and is kept by every accepted mutation: the log is dense,    *)
(* the replay window is its tail, and every head beats all the rest of the *)
(* log of its object.                                                      *)
(***************************************************************************)
EXTENDS SyncCore, SequenceTheorems, FiniteSetTheorems, WellFoundedInduction, TLAPS

LogInv(e) ==
  /\ e.server_sequence = Len(e.log)
  /\ \A i \in 1 .. Len(e.log) :
       e.log[i].server_sequence = i /\ ValidMutation(e.log[i].mutation)

\* The window holds the last Len(replay_order) entries, oldest first.
Tail0(e) == Len(e.log) - Len(e.replay_order)

WindowInv(e) ==
  /\ Len(e.replay_order) <= ReplayCapacity
  /\ Len(e.replay_order) <= Len(e.log)
  /\ Len(e.replay_order) < ReplayCapacity => Len(e.replay_order) = Len(e.log)
  /\ DOMAIN e.replay_index = Entries(e.replay_order)
  /\ \A k \in 1 .. Len(e.replay_order) :
       /\ e.replay_order[k] = e.log[Tail0(e) + k].mutation.mutation_id
       /\ e.replay_index[e.replay_order[k]] = e.log[Tail0(e) + k]

SpacedInv(e) ==
  \A i, j \in 1 .. Len(e.log) :
    i < j /\ e.log[i].mutation.mutation_id = e.log[j].mutation.mutation_id
      => j - i > ReplayCapacity

HeadsInv(e) ==
  /\ \A o \in DOMAIN e.records : \E i \in 1 .. Len(e.log) :
       e.records[o] = e.log[i] /\ e.log[i].mutation.object_id = o
  /\ \A i \in 1 .. Len(e.log) :
       LET o == e.log[i].mutation.object_id
       IN /\ o \in DOMAIN e.records
          /\ e.records[o] = e.log[i] \/ WinsConflict(e.records[o], e.log[i])

EngineInv(e) ==
  IsEngine(e) /\ LogInv(e) /\ WindowInv(e) /\ SpacedInv(e) /\ HeadsInv(e)

-----------------------------------------------------------------------------
(* The conflict order.                                                     *)

\* wins_conflict is transitive.
LEMMA WinsTransitive ==
  ASSUME NEW s \in SequencedMutation, NEW t \in SequencedMutation,
         NEW u \in SequencedMutation,
         WinsConflict(s, t), WinsConflict(t, u)
  PROVE  WinsConflict(s, u)
BY MutationsAssumption, SequenceAssumption
   DEF WinsConflict, DeletionPrecedence, SequencedMutation, Mutation

\* wins_conflict is asymmetric.
LEMMA WinsAsymmetric ==
  ASSUME NEW s \in SequencedMutation, NEW t \in SequencedMutation,
         WinsConflict(s, t)
  PROVE  ~ WinsConflict(t, s)
BY MutationsAssumption, SequenceAssumption
   DEF WinsConflict, DeletionPrecedence, SequencedMutation, Mutation

\* Of two entries with different sequences, one wins: arrival breaks the tie.
LEMMA WinsTotal ==
  ASSUME NEW s \in SequencedMutation, NEW t \in SequencedMutation,
         s.server_sequence # t.server_sequence
  PROVE  WinsConflict(s, t) \/ WinsConflict(t, s)
BY MutationsAssumption, SequenceAssumption
   DEF WinsConflict, DeletionPrecedence, SequencedMutation, Mutation

-----------------------------------------------------------------------------
(* The replay window.                                                      *)

\* One identifier is appended and the drop oldest ones expire.
OneRemembered(order, id, drop, r) ==
  /\ Len(r) = Len(order) + 1 - drop
  /\ \A k \in 1 .. Len(order) - drop : r[k] = order[k + drop]
  /\ r[Len(order) + 1 - drop] = id
  /\ ExpiredIds(order, id) = {order[i] : i \in 1 .. drop}

\* remember_replay appends one identifier and drops the oldest when full.
LEMMA RememberOne ==
  ASSUME NEW S, NEW order \in Seq(S), NEW id \in S,
         Len(order) <= ReplayCapacity,
         NEW drop \in {0, 1}, drop = 1 <=> Len(order) = ReplayCapacity
  PROVE  /\ RememberedOrder(order, id) \in Seq(S)
         /\ OneRemembered(order, id, drop, RememberedOrder(order, id))
<1>1. PICK longer : longer = Append(order, id)
  OBVIOUS
<1>2. /\ longer \in Seq(S)
      /\ Len(longer) = Len(order) + 1
      /\ \A i \in 1 .. Len(order) : longer[i] = order[i]
      /\ longer[Len(order) + 1] = id
  BY <1>1
<1>3. drop <= Len(order) /\ Len(order) \in Nat
  BY CapacityAssumption
<1>4. ReplayOverflow(longer) = drop
  BY <1>2, <1>3, CapacityAssumption DEF ReplayOverflow
<1>5. RememberedOrder(order, id) = SubSeq(longer, drop + 1, Len(longer))
  BY <1>1, <1>4 DEF RememberedOrder
<1>6. ExpiredIds(order, id) = {order[i] : i \in 1 .. drop}
  <2>1. ExpiredIds(order, id) = {longer[i] : i \in 1 .. drop}
    BY <1>1, <1>4 DEF ExpiredIds
  <2>2. \A i \in 1 .. drop : longer[i] = order[i]
    BY <1>2, <1>3
  <2> QED
    BY <2>1, <2>2
<1>7. PICK r : r = SubSeq(longer, drop + 1, Len(longer))
  OBVIOUS
<1>8. /\ r \in Seq(S)
      /\ Len(r) = Len(longer) - drop
      /\ \A k \in 1 .. Len(longer) - drop : r[k] = longer[k + drop]
  <2>1. PICK a \in Int, b \in Int : a = drop + 1 /\ b = Len(longer)
    BY <1>2, <1>3
  <2>2. \A i \in a .. b : longer[i] \in S
    BY <1>2, <1>3, <2>1
  <2>3. r = SubSeq(longer, a, b)
    BY <1>7, <2>1
  <2>4. /\ r \in Seq(S)
        /\ Len(r) = IF a <= b THEN b - a + 1 ELSE 0
        /\ \A k \in 1 .. b - a + 1 : r[k] = longer[a + k - 1]
    BY <2>2, <2>3, SubSeqProperties
  <2> QED
    BY <1>2, <1>3, <2>1, <2>4
<1>9. Len(r) = Len(order) + 1 - drop
  BY <1>2, <1>3, <1>8
<1>10. \A k \in 1 .. Len(order) - drop : r[k] = order[k + drop]
  BY <1>2, <1>3, <1>8
<1>11. r[Len(order) + 1 - drop] = id
  BY <1>2, <1>3, <1>8
<1> QED
  BY <1>5, <1>6, <1>7, <1>8, <1>9, <1>10, <1>11 DEF OneRemembered

-----------------------------------------------------------------------------
(* An accepted transition preserves the invariant.                         *)

\* The retained identifiers are pairwise different: their entries are at most
\* a window apart, and equal identifiers are farther apart than that.
LEMMA WindowDistinct ==
  ASSUME NEW e, EngineInv(e)
  PROVE  \A k, l \in 1 .. Len(e.replay_order) :
           k # l => e.replay_order[k] # e.replay_order[l]
<1>1. PICK n, w, q : /\ n = Len(e.log) /\ q = e.replay_order /\ w = Len(q)
  OBVIOUS
<1>2. n \in Nat /\ w \in Nat /\ w <= n /\ w <= ReplayCapacity /\ ReplayCapacity \in Nat
  BY <1>1, CapacityAssumption DEF EngineInv, IsEngine, WindowInv
<1>3. \A k \in 1 .. w : q[k] = e.log[n - w + k].mutation.mutation_id
  BY <1>1 DEF EngineInv, WindowInv, Tail0
<1>4. \A i, j \in 1 .. n :
        i < j /\ e.log[i].mutation.mutation_id = e.log[j].mutation.mutation_id
          => j - i > ReplayCapacity
  BY <1>1 DEF EngineInv, SpacedInv
<1>5. ASSUME NEW k \in 1 .. w, NEW l \in 1 .. w, k < l, q[k] = q[l]
      PROVE  FALSE
  <2>1. PICK i \in 1 .. n, j \in 1 .. n :
          /\ i = n - w + k /\ j = n - w + l
          /\ i < j /\ ~ (j - i > ReplayCapacity)
    <3>1. /\ n - w + k \in 1 .. n /\ n - w + l \in 1 .. n
          /\ n - w + k < n - w + l
          /\ ~ ((n - w + l) - (n - w + k) > ReplayCapacity)
      BY <1>2, <1>5
    <3> QED BY <3>1
  <2>2. e.log[i].mutation.mutation_id = e.log[j].mutation.mutation_id
    BY <1>3, <1>5, <2>1
  <2> QED
    BY <1>4, <2>1, <2>2
<1>6. \A k, l \in 1 .. w : k # l => q[k] # q[l]
  BY <1>2, <1>5
<1> QED
  BY <1>1, <1>6

LEMMA AcceptedKeepsInv ==
  ASSUME NEW e, EngineInv(e), NEW m \in Mutations, IsAccepted(e, m)
  PROVE  EngineInv(Accepted(e, m))
<1>1. PICK n : n = Len(e.log) /\ n \in Nat /\ n < MaxSequence
               /\ n = e.server_sequence
  BY SequenceAssumption DEF EngineInv, IsEngine, LogInv, IsAccepted
<1>2. PICK s : s = Sequenced(n + 1, m)
  OBVIOUS
<1>3. /\ s \in SequencedMutation
      /\ s.server_sequence = n + 1
      /\ s.mutation = m
  BY <1>1, <1>2, SequenceAssumption DEF Sequenced, SequencedMutation
<1>4. PICK f : f = Accepted(e, m)
  OBVIOUS
<1>5. /\ f = [server_sequence |-> f.server_sequence, records |-> f.records,
              log |-> f.log, replay_index |-> f.replay_index,
              replay_order |-> f.replay_order]
      /\ f.server_sequence = n + 1
      /\ f.records = IF TakesHead(e, s)
                     THEN Insert(e.records, m.object_id, s) ELSE e.records
      /\ f.log = Append(e.log, s)
      /\ f.replay_index = RemoveKeys(Insert(e.replay_index, m.mutation_id, s),
                                    ExpiredIds(e.replay_order, m.mutation_id))
      /\ f.replay_order = RememberedOrder(e.replay_order, m.mutation_id)
  BY <1>1, <1>2, <1>4 DEF Accepted
<1>6. /\ e.log \in Seq(SequencedMutation)
      /\ f.log \in Seq(SequencedMutation)
      /\ Len(f.log) = n + 1
      /\ \A i \in 1 .. n : f.log[i] = e.log[i]
      /\ f.log[n + 1] = s
  <2>1. e.log \in Seq(SequencedMutation) /\ Len(e.log) = n
    BY <1>1 DEF EngineInv, IsEngine
  <2>2. f.log = Append(e.log, s)
    BY <1>5
  <2> QED
    BY <1>3, <2>1, <2>2
<1>7. LogInv(f)
  BY <1>1, <1>3, <1>5, <1>6 DEF EngineInv, LogInv, IsAccepted
<1>8. PICK q, w : /\ q = e.replay_order /\ q \in Seq(MutationIds)
                  /\ w = Len(q) /\ w \in Nat
  BY DEF EngineInv, IsEngine
<1>9. PICK drop : drop = IF w = ReplayCapacity THEN 1 ELSE 0
  OBVIOUS
<1>10. /\ n \in Nat /\ w \in Nat /\ drop \in {0, 1}
       /\ w <= ReplayCapacity /\ w <= n /\ drop <= w
       /\ w + 1 - drop <= ReplayCapacity
       /\ w < ReplayCapacity => w = n
       /\ drop = 0 => w < ReplayCapacity
       /\ drop = 1 => w = ReplayCapacity
       /\ ReplayCapacity \in Nat
  <2>1. w <= ReplayCapacity /\ w <= n /\ (w < ReplayCapacity => w = n)
    BY <1>1, <1>8 DEF EngineInv, WindowInv
  <2> QED
    BY <1>1, <1>8, <1>9, <2>1, CapacityAssumption
<1>11. /\ DOMAIN e.replay_index = {q[k] : k \in 1 .. w}
       /\ \A k \in 1 .. w :
            /\ q[k] = e.log[n - w + k].mutation.mutation_id
            /\ e.replay_index[q[k]] = e.log[n - w + k]
  BY <1>1, <1>8 DEF EngineInv, WindowInv, Tail0, Entries
<1>12. m.mutation_id \in MutationIds /\ m.object_id \in ObjectIds
  BY DEF MutationIds, ObjectIds
<1>13. PICK r : /\ r = RememberedOrder(q, m.mutation_id)
                /\ r \in Seq(MutationIds)
                /\ Len(r) = w + 1 - drop
                /\ \A k \in 1 .. w - drop : r[k] = q[k + drop]
                /\ r[w + 1 - drop] = m.mutation_id
                /\ ExpiredIds(q, m.mutation_id) = {q[i] : i \in 1 .. drop}
  <2>1. Len(q) <= ReplayCapacity
    BY <1>8, <1>10
  <2>2. drop \in {0, 1} /\ (drop = 1 <=> Len(q) = ReplayCapacity)
    BY <1>8, <1>9
  <2>3. /\ RememberedOrder(q, m.mutation_id) \in Seq(MutationIds)
        /\ OneRemembered(q, m.mutation_id, drop, RememberedOrder(q, m.mutation_id))
    <3>1. q \in Seq(MutationIds) /\ m.mutation_id \in MutationIds
      BY <1>8, <1>12
    <3> QED
      BY <2>1, <2>2, <3>1, RememberOne
  <2> QED
    BY <1>8, <2>3 DEF OneRemembered
<1>14. \A k \in 1 .. w : q[k] # m.mutation_id
  BY <1>11 DEF IsAccepted, Remembered
<1>15. \A i, j \in 1 .. n :
         i < j /\ e.log[i].mutation.mutation_id = e.log[j].mutation.mutation_id
           => j - i > ReplayCapacity
  BY <1>1 DEF EngineInv, SpacedInv
<1>16. SpacedInv(f)
  <2> SUFFICES ASSUME NEW i \in 1 .. n + 1, NEW j \in 1 .. n + 1, i < j,
                      f.log[i].mutation.mutation_id = f.log[j].mutation.mutation_id
               PROVE  j - i > ReplayCapacity
    BY <1>6 DEF SpacedInv
  <2>1. CASE j \in 1 .. n
    <3>1. i \in 1 .. n
      BY <1>10, <2>1
    <3> QED
      BY <1>6, <1>15, <2>1, <3>1
  <2>2. CASE j = n + 1
    <3>1. i \in 1 .. n
      BY <1>10, <2>2
    <3>2. e.log[i].mutation.mutation_id = m.mutation_id
      BY <1>3, <1>6, <2>2, <3>1
    <3>3. CASE i > n - w
      <4>1. PICK k \in 1 .. w : n - w + k = i
        <5>1. i - (n - w) \in 1 .. w /\ n - w + (i - (n - w)) = i
          BY <1>10, <3>1, <3>3
        <5> QED BY <5>1
      <4> QED
        BY <1>11, <1>14, <3>2, <4>1
    <3>4. CASE i <= n - w
      BY <1>10, <2>2, <3>1, <3>4
    <3> QED
      BY <1>10, <3>1, <3>3, <3>4
  <2> QED
    BY <1>10, <2>1, <2>2
<1>17. \A k, l \in 1 .. w : k # l => q[k] # q[l]
  BY <1>8, WindowDistinct
<1>18. /\ DOMAIN f.replay_index = {r[k] : k \in 1 .. w + 1 - drop}
       /\ \A id \in DOMAIN f.replay_index :
            f.replay_index[id] = IF id = m.mutation_id THEN s ELSE e.replay_index[id]
  <2>1. /\ DOMAIN f.replay_index =
              ({q[k] : k \in 1 .. w} \cup {m.mutation_id}) \ {q[i] : i \in 1 .. drop}
        /\ \A id \in DOMAIN f.replay_index :
             f.replay_index[id] = IF id = m.mutation_id THEN s ELSE e.replay_index[id]
    BY <1>5, <1>8, <1>11, <1>13 DEF RemoveKeys, Insert
  <2>2. {r[k] : k \in 1 .. w + 1 - drop} = {q[k] : k \in drop + 1 .. w} \cup {m.mutation_id}
    <3>1. ASSUME NEW k \in 1 .. w + 1 - drop
          PROVE  r[k] \in {q[l] : l \in drop + 1 .. w} \cup {m.mutation_id}
      <4>1. CASE k \in 1 .. w - drop
        <5>1. k + drop \in drop + 1 .. w
          BY <1>10, <4>1
        <5>2. r[k] = q[k + drop]
          BY <1>13, <4>1
        <5> QED BY <5>1, <5>2
      <4>2. CASE k = w + 1 - drop
        BY <4>2, <1>13
      <4> QED
        BY <4>1, <4>2, <1>10
    <3>2. ASSUME NEW l \in drop + 1 .. w
          PROVE  \E k \in 1 .. w + 1 - drop : q[l] = r[k]
      <4>1. /\ l - drop \in 1 .. w - drop
            /\ l - drop \in 1 .. w + 1 - drop
            /\ (l - drop) + drop = l
        BY <1>10
      <4> QED BY <4>1, <1>13
    <3>3. \E k \in 1 .. w + 1 - drop : m.mutation_id = r[k]
      <4>1. w + 1 - drop \in 1 .. w + 1 - drop
        BY <1>10
      <4> QED BY <4>1, <1>13
    <3> QED BY <3>1, <3>2, <3>3
  <2>3. ({q[k] : k \in 1 .. w} \cup {m.mutation_id}) \ {q[i] : i \in 1 .. drop}
          = {q[k] : k \in drop + 1 .. w} \cup {m.mutation_id}
    BY <1>10, <1>14, <1>17
  <2> QED BY <2>1, <2>2, <2>3
<1>19. WindowInv(f)
  <2>1. Len(f.log) - Len(r) = n - w + drop
    BY <1>6, <1>10, <1>13
  <2>2. /\ Len(r) <= ReplayCapacity
        /\ Len(r) <= n + 1
        /\ Len(r) < ReplayCapacity => Len(r) = n + 1
    BY <1>10, <1>13
  <2>3. ASSUME NEW k \in 1 .. w + 1 - drop
        PROVE  /\ r[k] = f.log[n - w + drop + k].mutation.mutation_id
               /\ f.replay_index[r[k]] = f.log[n - w + drop + k]
    <3>1. CASE k \in 1 .. w - drop
      <4>1. PICK l \in 1 .. w, i \in 1 .. n :
              /\ l = k + drop /\ i = n - w + l
              /\ i = n - w + drop + k
        <5>1. /\ k + drop \in 1 .. w
              /\ n - w + (k + drop) \in 1 .. n
              /\ n - w + (k + drop) = n - w + drop + k
          BY <1>10, <3>1
        <5> QED BY <5>1
      <4>2. r[k] = q[l]
        BY <1>13, <3>1, <4>1
      <4>3. f.log[n - w + drop + k] = e.log[n - w + l]
        BY <1>6, <4>1
      <4>4. r[k] # m.mutation_id /\ r[k] \in DOMAIN f.replay_index
        BY <1>14, <1>18, <4>1, <4>2
      <4>5. f.replay_index[r[k]] = e.replay_index[q[l]]
        BY <1>18, <4>2, <4>4
      <4> QED BY <1>11, <4>1, <4>2, <4>3, <4>5
    <3>2. CASE k = w + 1 - drop
      <4>1. n - w + drop + k = n + 1
        BY <1>10, <3>2
      <4>2. r[k] = m.mutation_id
        BY <1>13, <3>2
      <4>3. r[k] \in DOMAIN f.replay_index
        BY <1>18
      <4> QED BY <1>3, <1>6, <1>18, <4>1, <4>2, <4>3
    <3> QED
      BY <3>1, <3>2, <1>10
  <2>4. f.replay_order = r /\ DOMAIN r = 1 .. w + 1 - drop
    BY <1>5, <1>8, <1>10, <1>13
  <2> QED
    BY <1>6, <1>13, <1>18, <2>1, <2>2, <2>3, <2>4 DEF WindowInv, Tail0, Entries
<1>20. HeadsInv(f)
  <2>1. /\ \A o \in DOMAIN e.records : \E i \in 1 .. n :
             e.records[o] = e.log[i] /\ e.log[i].mutation.object_id = o
        /\ \A i \in 1 .. n :
             /\ e.log[i].mutation.object_id \in DOMAIN e.records
             /\ \/ e.records[e.log[i].mutation.object_id] = e.log[i]
                \/ WinsConflict(e.records[e.log[i].mutation.object_id], e.log[i])
    BY <1>1 DEF EngineInv, HeadsInv
  <2>2. n + 1 \in 1 .. n + 1 /\ 1 .. n \subseteq 1 .. n + 1
    BY <1>10
  <2>3. /\ m.object_id \in DOMAIN f.records
        /\ f.records[m.object_id] = s \/ WinsConflict(f.records[m.object_id], s)
    <3>1. CASE TakesHead(e, s)
      BY <1>5, <3>1 DEF Insert
    <3>2. CASE ~ TakesHead(e, s)
      <4>1. /\ m.object_id \in DOMAIN e.records
            /\ ~ WinsConflict(s, e.records[m.object_id])
            /\ f.records = e.records
        BY <1>3, <1>5, <3>2 DEF TakesHead
      <4>2. PICK i \in 1 .. n : e.records[m.object_id] = e.log[i]
        BY <2>1, <4>1
      <4>3. e.log[i] \in SequencedMutation /\ e.log[i].server_sequence = i
        BY <1>1, <1>6, <4>2 DEF EngineInv, LogInv
      <4>4. e.log[i].server_sequence # s.server_sequence
        BY <1>3, <1>10, <4>3
      <4> QED
        BY <1>3, <4>1, <4>2, <4>3, <4>4, WinsTotal
    <3> QED
      BY <3>1, <3>2
  <2>4. ASSUME NEW i \in 1 .. n, NEW o, o = e.log[i].mutation.object_id
        PROVE  /\ o \in DOMAIN f.records
               /\ f.records[o] = e.log[i] \/ WinsConflict(f.records[o], e.log[i])
    <3>1. CASE TakesHead(e, s) /\ o = m.object_id
      <4>1. f.records[o] = s /\ o \in DOMAIN f.records
        BY <1>5, <3>1 DEF Insert
      <4>2. o \in DOMAIN e.records /\ WinsConflict(s, e.records[o])
        BY <1>3, <2>1, <2>4, <3>1 DEF TakesHead
      <4>3. e.records[o] = e.log[i] \/ WinsConflict(e.records[o], e.log[i])
        BY <2>1, <2>4
      <4>4. e.records[o] \in SequencedMutation /\ e.log[i] \in SequencedMutation
        BY <1>1, <1>6, <4>2 DEF EngineInv, IsEngine, IsMap
      <4> QED
        BY <1>3, <4>1, <4>2, <4>3, <4>4, WinsTransitive
    <3>2. CASE ~ (TakesHead(e, s) /\ o = m.object_id)
      BY <1>5, <2>1, <2>4, <3>2 DEF Insert
    <3> QED
      BY <3>1, <3>2
  <2>5. ASSUME NEW o \in DOMAIN f.records
        PROVE  \E i \in 1 .. n + 1 :
                 f.records[o] = f.log[i] /\ f.log[i].mutation.object_id = o
    <3>1. CASE TakesHead(e, s) /\ o = m.object_id
      BY <1>3, <1>5, <1>6, <2>2, <3>1 DEF Insert
    <3>2. CASE ~ (TakesHead(e, s) /\ o = m.object_id)
      <4>1. o \in DOMAIN e.records /\ f.records[o] = e.records[o]
        BY <1>5, <3>2 DEF Insert
      <4> QED
        BY <1>6, <2>1, <2>2, <4>1
    <3> QED
      BY <3>1, <3>2
  <2>6. ASSUME NEW i \in 1 .. n + 1
        PROVE  /\ f.log[i].mutation.object_id \in DOMAIN f.records
               /\ \/ f.records[f.log[i].mutation.object_id] = f.log[i]
                  \/ WinsConflict(f.records[f.log[i].mutation.object_id], f.log[i])
    <3>1. CASE i \in 1 .. n
      BY <1>6, <2>4, <3>1
    <3>2. CASE i = n + 1
      BY <1>3, <1>6, <2>3, <3>2
    <3> QED
      BY <1>10, <3>1, <3>2
  <2> QED
    BY <1>6, <2>5, <2>6 DEF HeadsInv
<1>21. IsEngine(f)
  <2>1. IsMap(f.records, ObjectIds, SequencedMutation)
    BY <1>3, <1>5, <1>12 DEF EngineInv, IsEngine, IsMap, Insert
  <2>2. IsMap(f.replay_index, MutationIds, SequencedMutation)
    BY <1>3, <1>5, <1>12 DEF EngineInv, IsEngine, IsMap, Insert, RemoveKeys
  <2>3. f.server_sequence \in 0 .. MaxSequence
    BY <1>1, <1>5, SequenceAssumption
  <2> QED
    BY <1>5, <1>6, <1>8, <1>13, <2>1, <2>2, <2>3 DEF IsEngine
<1> QED
  BY <1>4, <1>7, <1>16, <1>19, <1>20, <1>21 DEF EngineInv

\* The engine of SyncEngine::new satisfies the invariant.
LEMMA NewEngineInv == EngineInv(NewEngine)
<1>1. /\ NewEngine.server_sequence = 0
      /\ NewEngine.log = << >> /\ Len(NewEngine.log) = 0
      /\ NewEngine.replay_order = << >> /\ Len(NewEngine.replay_order) = 0
      /\ NewEngine.records = NoEntries /\ DOMAIN NewEngine.records = {}
      /\ NewEngine.replay_index = NoEntries /\ DOMAIN NewEngine.replay_index = {}
  BY DEF NewEngine, NoEntries
<1>2. IsMap(NoEntries, ObjectIds, SequencedMutation)
      /\ IsMap(NoEntries, MutationIds, SequencedMutation)
  BY DEF IsMap, NoEntries
<1>3. IsEngine(NewEngine)
  BY <1>1, <1>2, SequenceAssumption DEF IsEngine, NewEngine
<1> QED
  BY <1>1, <1>3, CapacityAssumption
     DEF EngineInv, LogInv, WindowInv, SpacedInv, HeadsInv, Entries

\* restore accepts what satisfies the invariant: the counting checks of
\* validate_snapshot hold because the window has no duplicates.
LEMMA InvIsValidSnapshot ==
  ASSUME NEW e, EngineInv(e)
  PROVE  ValidSnapshot(e)
<1>1. PICK q, w : /\ q = e.replay_order /\ q \in Seq(MutationIds)
                  /\ w = Len(q) /\ w \in Nat /\ w <= ReplayCapacity
                  /\ DOMAIN q = 1 .. w
                  /\ DOMAIN e.replay_index = Entries(q)
  BY DEF EngineInv, IsEngine, WindowInv
<1>2. \A k, l \in 1 .. w : q[k] = q[l] => k = l
  BY <1>1, WindowDistinct
<1>3. q \in Bijection(1 .. w, Entries(q))
  <2>1. q = [k \in 1 .. w |-> q[k]]
    BY <1>1
  <2>2. q \in [1 .. w -> Entries(q)]
    BY <1>1, <2>1 DEF Entries
  <2> QED
    BY <1>1, <1>2, <2>2 DEF Entries, Bijection, Injection, Surjection, IsInjective
<1>4. IsFiniteSet(1 .. w) /\ Cardinality(1 .. w) = w
  BY <1>1, FS_Interval
<1>5. Cardinality(DOMAIN e.replay_index) = w
  BY <1>1, <1>3, <1>4, FS_Bijection DEF ExistsBijection
<1>6. \A i \in 1 .. Len(q) : q[i] \in DOMAIN e.replay_index
  BY <1>1 DEF Entries
<1>7. /\ Len(e.log) \in Nat /\ Len(e.log) = e.server_sequence
      /\ \A i \in 1 .. Len(e.log) :
           e.log[i].server_sequence = i /\ ValidMutation(e.log[i].mutation)
  BY DEF EngineInv, IsEngine, LogInv
<1>8. \A i \in 1 .. Len(e.log) :
        /\ e.log[i].server_sequence
              > IF i = 1 THEN 0 ELSE e.log[i-1].server_sequence
        /\ e.log[i].server_sequence <= e.server_sequence
        /\ ValidMutation(e.log[i].mutation)
  <2> SUFFICES ASSUME NEW i \in 1 .. Len(e.log)
               PROVE  /\ i > IF i = 1 THEN 0 ELSE e.log[i-1].server_sequence
                      /\ i <= e.server_sequence
    BY <1>7
  <2>1. CASE i # 1
    <3>1. i - 1 \in 1 .. Len(e.log)
      BY <1>7, <2>1
    <3> QED
      BY <1>7, <2>1, <3>1
  <2> QED
    BY <1>7, <2>1
<1>9. \A o \in DOMAIN e.records :
        /\ e.records[o].server_sequence <= e.server_sequence
        /\ ValidMutation(e.records[o].mutation)
  BY <1>7, <1>8 DEF EngineInv, HeadsInv
<1>10. Len(e.log) <= e.server_sequence
  BY <1>7
<1> QED
  BY <1>1, <1>5, <1>6, <1>8, <1>9, <1>10 DEF ValidSnapshot

-----------------------------------------------------------------------------
(* What pull returns.                                                      *)

\* Every nonempty set of naturals has a least element: the form in which
\* induction over positions and sequences is used.
LEMMA LeastNat ==
  ASSUME NEW T \in SUBSET Nat, T # {}
  PROVE  \E x \in T : \A y \in T : x <= y
<1>1. PICK R : R = OpToRel(<, Nat)
  OBVIOUS
<1>2. IsWellFoundedOn(R, Nat)
  BY <1>1, NatLessThanWellFounded, Zenon
<1>3. PICK x \in T : \A y \in T : ~ (<<y, x>> \in R)
  BY <1>2, WFMin
<1>4. \A y \in T : ~ (y < x)
  BY <1>1, <1>3 DEF OpToRel
<1> QED
  BY <1>3, <1>4

\* The ranks of an interval.
LEMMA NthOfInterval ==
  ASSUME NEW k \in Nat, NEW n \in Nat, NEW r \in 1 .. n - k
  PROVE  Nth(k + 1 .. n, r) = k + r
<1>1. \A i \in k + 1 .. n :
        /\ {j \in k + 1 .. n : j <= i} = k + 1 .. i
        /\ Cardinality(k + 1 .. i) = i - k
  <2> SUFFICES ASSUME NEW i \in k + 1 .. n
               PROVE  /\ {j \in k + 1 .. n : j <= i} = k + 1 .. i
                      /\ Cardinality(k + 1 .. i) = i - k
    OBVIOUS
  <2>1. {j \in k + 1 .. n : j <= i} = k + 1 .. i
    OBVIOUS
  <2>2. k + 1 \in Int /\ i \in Int /\ ~ (k + 1 > i) /\ i - (k + 1) + 1 = i - k
    OBVIOUS
  <2>3. Cardinality(k + 1 .. i) = i - k
    BY <2>2, FS_Interval
  <2> QED
    BY <2>1, <2>3
<1>2. k + r \in k + 1 .. n /\ (k + r) - k = r
  OBVIOUS
<1>3. \A i \in k + 1 .. n :
        Cardinality({j \in k + 1 .. n : j <= i}) = r <=> i = k + r
  <2> SUFFICES ASSUME NEW i \in k + 1 .. n
               PROVE  Cardinality({j \in k + 1 .. n : j <= i}) = r <=> i = k + r
    OBVIOUS
  <2>1. Cardinality({j \in k + 1 .. n : j <= i}) = i - k
    BY <1>1
  <2>2. i - k = r <=> i = k + r
    OBVIOUS
  <2> QED
    BY <2>1, <2>2
<1> QED
  BY <1>2, <1>3 DEF Nth

\* The entries after the cursor are those after position k of the log.
SuffixAfter(S, e, after, k) ==
  /\ e.log \in Seq(S)
  /\ k \in 0 .. Len(e.log)
  /\ Later(e, after) = k + 1 .. Len(e.log)

\* Where the entries after the cursor are a suffix of the log, pull serves
\* that suffix in the order of the log.
LEMMA PendingIsSuffix ==
  ASSUME NEW S, NEW e, NEW after, NEW k, SuffixAfter(S, e, after, k)
  PROVE  /\ Pending(e, after) \in Seq(S)
         /\ Len(Pending(e, after)) = Len(e.log) - k
         /\ \A i \in 1 .. Len(e.log) - k : Pending(e, after)[i] = e.log[k + i]
<1>1. PICK n, log : n = Len(e.log) /\ n \in Nat /\ log = e.log
                    /\ log \in Seq(S) /\ k \in Nat /\ k <= n
  <2>1. /\ Len(e.log) \in Nat /\ k \in Nat /\ k <= Len(e.log)
        /\ e.log \in Seq(S)
    BY DEF SuffixAfter
  <2> QED
    BY <2>1
<1>2. Cardinality(k + 1 .. n) = n - k
  <2>1. k + 1 \in Int /\ n \in Int /\ (IF k + 1 > n THEN 0 ELSE n - (k + 1) + 1) = n - k
    BY <1>1
  <2> QED
    BY <2>1, FS_Interval
<1>3. Pending(e, after) = [i \in 1 .. n - k |-> log[Nth(k + 1 .. n, i)]]
  BY <1>1, <1>2 DEF Pending, SuffixAfter
<1>4. \A i \in 1 .. n - k : Nth(k + 1 .. n, i) = k + i
  BY <1>1, NthOfInterval
<1>5. \A i \in 1 .. n - k : k + i \in 1 .. n
  BY <1>1
<1>6. \A i \in 1 .. n - k : log[k + i] \in S
  BY <1>1, <1>5
<1>7. n - k \in Nat
  BY <1>1
<1>8. PICK p : p = Pending(e, after)
  OBVIOUS
<1>9. p \in [1 .. n - k -> S] /\ \A i \in 1 .. n - k : p[i] = log[k + i]
  BY <1>3, <1>4, <1>6, <1>8
<1>10. p \in Seq(S) /\ Len(p) = n - k
  BY <1>7, <1>9
<1> QED
  BY <1>1, <1>8, <1>9, <1>10

\* What a page after position k of the log holds.
PageHolds(e, k, limit, p) ==
  LET n == Len(e.log)
      t == IF limit < n - k THEN limit ELSE n - k
  IN /\ Len(p.mutations) = t
     /\ \A i \in 1 .. t : p.mutations[i] = e.log[k + i]
     /\ p.cursor = IF t = 0 THEN e.server_sequence ELSE e.log[k + t].server_sequence
     /\ p.has_more <=> k + t < n

\* A page holds the next entries of the log up to the limit, and its cursor
\* is the sequence of the last of them.
LEMMA PageOfSuffix ==
  ASSUME NEW S, NEW e, NEW after, NEW k, SuffixAfter(S, e, after, k),
         NEW limit \in Nat
  PROVE  /\ Page(e, after, limit).mutations \in Seq(S)
         /\ PageHolds(e, k, limit, Page(e, after, limit))
<1>1. PICK n, pending, t, p :
        /\ n = Len(e.log) /\ n \in Nat /\ k \in Nat /\ k <= n
        /\ pending = Pending(e, after)
        /\ t = IF limit < n - k THEN limit ELSE n - k
        /\ p = Page(e, after, limit)
  BY DEF SuffixAfter
<1>2. /\ pending \in Seq(S) /\ Len(pending) = n - k
      /\ \A i \in 1 .. n - k : pending[i] = e.log[k + i]
  <2>1. /\ Pending(e, after) \in Seq(S)
        /\ Len(Pending(e, after)) = Len(e.log) - k
        /\ \A i \in 1 .. Len(e.log) - k : Pending(e, after)[i] = e.log[k + i]
    BY PendingIsSuffix
  <2> QED
    BY <1>1, <2>1
<1>3. t \in Nat /\ t <= n - k /\ n - k \in Nat
  BY <1>1
<1>4. PICK muts : muts = SubSeq(pending, 1, t)
  OBVIOUS
<1>5. /\ muts \in Seq(S) /\ Len(muts) = t
      /\ \A i \in 1 .. t : muts[i] = pending[i]
  <2>1. \A i \in 1 .. t : pending[i] \in S
    BY <1>2, <1>3
  <2>2. /\ muts \in Seq(S)
        /\ Len(muts) = IF 1 <= t THEN t - 1 + 1 ELSE 0
        /\ \A i \in 1 .. t - 1 + 1 : muts[i] = pending[1 + i - 1]
    <3>1. 1 \in Int /\ t \in Int
      BY <1>3
    <3> QED
      BY <1>4, <2>1, <3>1, SubSeqProperties
  <2>3. t - 1 + 1 = t /\ \A i \in 1 .. t : 1 + i - 1 = i
    BY <1>3
  <2> QED
    BY <1>3, <2>2, <2>3
<1>6. p = [mutations |-> muts,
           cursor    |-> IF muts = << >> THEN e.server_sequence
                         ELSE muts[t].server_sequence,
           has_more  |-> t < n - k]
  BY <1>1, <1>2, <1>4 DEF Page
<1>7. muts = << >> <=> t = 0
  BY <1>3, <1>5
<1>8. \A i \in 1 .. t : muts[i] = e.log[k + i]
  BY <1>2, <1>3, <1>5
<1>9. t # 0 => muts[t] = e.log[k + t]
  BY <1>3, <1>8
<1>10. t < n - k <=> k + t < n
  BY <1>1, <1>3
<1>11. /\ p.mutations = muts
       /\ p.cursor = IF t = 0 THEN e.server_sequence ELSE e.log[k + t].server_sequence
       /\ p.has_more <=> k + t < n
  BY <1>6, <1>7, <1>9, <1>10
<1>12. PageHolds(e, k, limit, p)
  BY <1>1, <1>5, <1>8, <1>11 DEF PageHolds
<1> QED
  BY <1>1, <1>5, <1>11, <1>12

-----------------------------------------------------------------------------
(* Logs whose sequences rise.                                              *)

\* The sequences of the log are naturals and rise from entry to entry.
Rising(log) ==
  /\ \A i \in 1 .. Len(log) : log[i].server_sequence \in Nat
  /\ \A i, j \in 1 .. Len(log) :
       i < j => log[i].server_sequence < log[j].server_sequence

\* Neighbours in order put all entries in order: the entry that is not after
\* an earlier one, were there any, would have a first such predecessor.
LEMMA NeighboursRise ==
  ASSUME NEW S, NEW log \in Seq(S),
         \A i \in 1 .. Len(log) : log[i].server_sequence \in Nat,
         \A i \in 2 .. Len(log) : log[i-1].server_sequence < log[i].server_sequence
  PROVE  Rising(log)
<1>1. PICK n : n = Len(log) /\ n \in Nat
  OBVIOUS
<1>2. PICK T : T = {j \in 1 .. n : \E i \in 1 .. n :
                      i < j /\ ~ (log[i].server_sequence < log[j].server_sequence)}
  OBVIOUS
<1>3. ASSUME T # {}
      PROVE  FALSE
  <2>1. T \in SUBSET Nat
    BY <1>1, <1>2
  <2>2. PICK j \in T : \A y \in T : j <= y
    BY <1>3, <2>1, LeastNat
  <2>3. PICK i \in 1 .. n :
          i < j /\ ~ (log[i].server_sequence < log[j].server_sequence)
    BY <1>2, <2>2
  <2>4. j \in 2 .. n /\ j - 1 \in 1 .. n
    BY <1>1, <1>2, <2>2, <2>3
  <2>5. j - 1 \notin T /\ i <= j - 1
    BY <1>1, <2>2, <2>3, <2>4
  <2>6. log[j-1].server_sequence < log[j].server_sequence
    BY <1>1, <2>4
  <2>7. i # j - 1
    BY <2>3, <2>6
  <2>8. log[i].server_sequence < log[j-1].server_sequence
    BY <1>1, <1>2, <2>3, <2>4, <2>5, <2>7
  <2>9. /\ log[i].server_sequence \in Nat /\ log[j].server_sequence \in Nat
        /\ log[j-1].server_sequence \in Nat
    BY <1>1, <2>3, <2>4
  <2> QED
    BY <2>3, <2>6, <2>8, <2>9
<1> QED
  BY <1>1, <1>2, <1>3 DEF Rising

\* After any cursor, what is left of a rising log is a suffix of it.
LEMMA LaterIsSuffix ==
  ASSUME NEW S, NEW e, e.log \in Seq(S), Rising(e.log), NEW after \in Nat
  PROVE  \E k \in 0 .. Len(e.log) : SuffixAfter(S, e, after, k)
<1>1. PICK n, log : n = Len(log) /\ n \in Nat /\ log = e.log /\ DOMAIN log = 1 .. n
  OBVIOUS
<1>2. PICK T : T = Later(e, after)
  OBVIOUS
<1>3. T = {i \in 1 .. n : log[i].server_sequence > after}
  BY <1>1, <1>2 DEF Later
<1>4. /\ \A i \in 1 .. n : log[i].server_sequence \in Nat
      /\ \A i, j \in 1 .. n : i < j => log[i].server_sequence < log[j].server_sequence
  BY <1>1 DEF Rising
<1>5. CASE T = {}
  <2>1. n \in 0 .. n /\ n + 1 .. n = {}
    BY <1>1
  <2>2. SuffixAfter(S, e, after, n)
    BY <1>1, <1>2, <1>5, <2>1 DEF SuffixAfter
  <2> QED
    BY <1>1, <2>1, <2>2
<1>6. CASE T # {}
  <2>1. T \in SUBSET Nat
    BY <1>1, <1>3
  <2>2. PICK x \in T : \A y \in T : x <= y
    BY <1>6, <2>1, LeastNat
  <2>3. x \in 1 .. n /\ x - 1 \in 0 .. n /\ (x - 1) + 1 = x
    BY <1>1, <1>3, <2>2
  <2>4. ASSUME NEW y \in x .. n
        PROVE  y \in T
    <3>1. y \in 1 .. n /\ (x = y \/ x < y)
      BY <1>1, <2>3, <2>4
    <3>2. log[x].server_sequence > after
      BY <1>3, <2>2
    <3> QED
      BY <1>3, <1>4, <2>3, <3>1, <3>2
  <2>5. T = x .. n
    BY <1>1, <1>3, <2>1, <2>2, <2>3, <2>4
  <2>6. SuffixAfter(S, e, after, x - 1)
    BY <1>1, <1>2, <2>3, <2>5 DEF SuffixAfter
  <2> QED
    BY <1>1, <2>3, <2>6
<1> QED
  BY <1>5, <1>6
=============================================================================

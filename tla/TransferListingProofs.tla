------------------------ MODULE TransferListingProofs ------------------------
(***************************************************************************)
(* Proofs about TransferListing for every set of ids, page size, filter,   *)
(* lifetime, delay and precision.  What pages have in common is the order  *)
(* of the list, in which rows never move: a row keeps its creation time    *)
(* and its id, so a cursor divides the rows in the same way for ever.      *)
(***************************************************************************)
EXTENDS TransferListing, FiniteSetTheorems, SequenceTheorems, TLAPS

RowsInv ==
  /\ clock \in 0 .. MaxTime
  /\ DOMAIN rows \subseteq Ids
  /\ IsFiniteSet(DOMAIN rows)
  /\ \A i \in DOMAIN rows :
       /\ rows[i].state \in TransferStates
       /\ rows[i].created \in 0 .. clock
       /\ rows[i].expires \in Nat

QueryInv == filter \in Filters /\ limit \in Limits

-----------------------------------------------------------------------------
(* Seconds.                                                                *)

\* Whole seconds keep the order of ticks.
LEMMA SecondsRise ==
  ASSUME NEW s \in Nat, NEW t \in Nat, s <= t
  PROVE  Second(s) \in Nat /\ Second(t) \in Nat /\ Second(s) <= Second(t)
<1>1. PICK d \in Nat : d = TicksPerSecond /\ d > 0
  BY ListingAssumption
<1>2. PICK a, b : a = s \div d /\ b = t \div d
  OBVIOUS
<1>3. /\ a \in Nat /\ b \in Nat
      /\ d * a <= s /\ s < d * a + d
      /\ d * b <= t /\ t < d * b + d
  BY <1>1, <1>2
<1>4. ASSUME b < a
      PROVE  FALSE
  <2>1. PICK c \in Nat : a = b + 1 + c
    <3>1. a - b - 1 \in Nat /\ a = b + 1 + (a - b - 1)
      BY <1>3, <1>4
    <3> QED
      BY <3>1
  <2>2. d * a = d * b + d + d * c
    BY <1>1, <1>3, <2>1
  <2>3. d * c \in Nat /\ d * b \in Nat /\ d * a \in Nat
    BY <1>1, <1>3, <2>1
  <2> QED
    BY <1>1, <1>3, <2>2, <2>3
<1> QED
  BY <1>1, <1>2, <1>3, <1>4 DEF Second

-----------------------------------------------------------------------------
(* The order of the list.                                                  *)

\* ORDER BY created_at DESC, id DESC is a strict total order of the rows.
LEMMA ListOrder ==
  ASSUME RowsInv, NEW i \in DOMAIN rows, NEW j \in DOMAIN rows
  PROVE  /\ ~ ListedBefore(i, i)
         /\ i # j => ListedBefore(i, j) \/ ListedBefore(j, i)
         /\ \A k \in DOMAIN rows :
              ListedBefore(i, j) /\ ListedBefore(j, k) => ListedBefore(i, k)
<1>1. \A k \in DOMAIN rows : k \in Nat /\ rows[k].created \in Nat
  <2>1. clock \in Nat
    BY ListingAssumption DEF RowsInv
  <2>2. Ids \subseteq Nat
    BY ListingAssumption
  <2>3. ASSUME NEW k \in DOMAIN rows
        PROVE  k \in Nat /\ rows[k].created \in Nat
    <3>1. PICK a : a = rows[k].created /\ a \in 0 .. clock /\ k \in Ids
      BY DEF RowsInv
    <3>2. k \in Nat
      BY <2>2, <3>1
    <3>3. \A t \in 0 .. clock : t \in Nat
      BY <2>1
    <3> QED
      BY <3>1, <3>2, <3>3
  <2> QED
    BY <2>3
<1>2. PICK a, b : a = rows[i].created /\ b = rows[j].created /\ a \in Nat /\ b \in Nat
  BY <1>1
<1>3. ~ ListedBefore(i, i) /\ (i # j => ListedBefore(i, j) \/ ListedBefore(j, i))
  BY <1>1, <1>2 DEF ListedBefore
<1>4. ASSUME NEW k \in DOMAIN rows, ListedBefore(i, j), ListedBefore(j, k)
      PROVE  ListedBefore(i, k)
  BY <1>1, <1>4 DEF ListedBefore
<1> QED
  BY <1>3, <1>4

Before(ids, i) == {j \in ids : ListedBefore(j, i)}
Rank(ids, i) == Cardinality(Before(ids, i)) + 1

\* Ranks are positions, and rise in the order of the list.
LEMMA RanksRise ==
  ASSUME RowsInv, NEW ids \in SUBSET DOMAIN rows, NEW i \in ids, NEW j \in ids
  PROVE  /\ IsFiniteSet(ids) /\ Cardinality(ids) \in Nat
         /\ Rank(ids, i) \in 1 .. Cardinality(ids)
         /\ ListedBefore(i, j) => Rank(ids, i) < Rank(ids, j)
<1>1. IsFiniteSet(ids)
  BY FS_Subset DEF RowsInv
<1>2. \A k \in ids : /\ Before(ids, k) \in SUBSET ids /\ k \notin Before(ids, k)
                     /\ IsFiniteSet(Before(ids, k))
                     /\ Cardinality(Before(ids, k)) \in Nat
  <2> SUFFICES ASSUME NEW k \in ids
               PROVE  /\ Before(ids, k) \in SUBSET ids /\ k \notin Before(ids, k)
                      /\ IsFiniteSet(Before(ids, k))
                      /\ Cardinality(Before(ids, k)) \in Nat
    OBVIOUS
  <2>1. Before(ids, k) \in SUBSET ids /\ k \notin Before(ids, k)
    BY ListOrder DEF Before
  <2>2. IsFiniteSet(Before(ids, k))
    BY <1>1, <2>1, FS_Subset
  <2> QED
    BY <2>1, <2>2, FS_CardinalityType
<1>3. Cardinality(ids) \in Nat
  BY <1>1, FS_CardinalityType
<1>4. PICK B, C : B = Before(ids, i) /\ C = Before(ids, j)
  OBVIOUS
<1>5. Cardinality(B) <= Cardinality(ids) /\ Cardinality(B) # Cardinality(ids)
  BY <1>1, <1>2, <1>4, FS_Subset
<1>6. Rank(ids, i) \in 1 .. Cardinality(ids)
  BY <1>2, <1>3, <1>4, <1>5 DEF Rank
<1>7. ASSUME ListedBefore(i, j)
      PROVE  Rank(ids, i) < Rank(ids, j)
  <2>1. B \in SUBSET C
    BY <1>4, <1>7, ListOrder DEF Before
  <2>2. i \in C /\ i \notin B
    BY <1>2, <1>4, <1>7 DEF Before
  <2>3. Cardinality(B) <= Cardinality(C) /\ Cardinality(B) # Cardinality(C)
    BY <1>2, <1>4, <2>1, <2>2, FS_Subset
  <2> QED
    BY <1>2, <1>4, <2>3 DEF Rank
<1> QED
  BY <1>1, <1>3, <1>6, <1>7

\* Every position up to the number of ids is the rank of one of them: ranks
\* are as many as the ids, and none of them is larger than that.
LEMMA RanksFill ==
  ASSUME RowsInv, NEW ids \in SUBSET DOMAIN rows, NEW n \in 1 .. Cardinality(ids)
  PROVE  Ranked(ids, n) \in ids /\ Rank(ids, Ranked(ids, n)) = n
<1>1. IsFiniteSet(ids)
  BY FS_Subset DEF RowsInv
<1>2. PICK c \in Nat : c = Cardinality(ids)
  BY <1>1, FS_CardinalityType
<1>3. PICK f, R : f = [i \in ids |-> Rank(ids, i)] /\ R = {Rank(ids, i) : i \in ids}
  OBVIOUS
<1>4. \A i, j \in ids : Rank(ids, i) = Rank(ids, j) => i = j
  <2> SUFFICES ASSUME NEW i \in ids, NEW j \in ids, i # j
               PROVE  Rank(ids, i) # Rank(ids, j)
    OBVIOUS
  <2>1. ListedBefore(i, j) \/ ListedBefore(j, i)
    BY ListOrder
  <2>2. Rank(ids, i) < Rank(ids, j) \/ Rank(ids, j) < Rank(ids, i)
    BY <2>1, RanksRise
  <2>3. Rank(ids, i) \in Nat /\ Rank(ids, j) \in Nat
    BY <1>2, RanksRise
  <2> QED
    BY <2>2, <2>3
<1>5. f \in Bijection(ids, R)
  BY <1>3, <1>4 DEF Bijection, Injection, Surjection, IsInjective
<1>6. Cardinality(R) = c
  BY <1>1, <1>2, <1>5, FS_Bijection DEF ExistsBijection
<1>7. R \in SUBSET (1 .. c)
  BY <1>2, <1>3, RanksRise
<1>8. IsFiniteSet(1 .. c) /\ Cardinality(1 .. c) = c
  <2>1. 1 \in Int /\ c \in Int /\ (IF 1 > c THEN 0 ELSE c - 1 + 1) = c
    OBVIOUS
  <2> QED
    BY <2>1, FS_Interval
<1>9. R = 1 .. c
  BY <1>6, <1>7, <1>8, FS_Subset
<1>10. \E i \in ids : Rank(ids, i) = n
  BY <1>2, <1>3, <1>9
<1>11. Ranked(ids, n) = CHOOSE i \in ids : Rank(ids, i) = n
  BY DEF Ranked, Rank, Before
<1> QED
  BY <1>10, <1>11

-----------------------------------------------------------------------------
(* One page.                                                               *)

\* A page holds selected rows in order; what it leaves out of the selection
\* comes after its last row, and is left out only when there is more.
PageInv(now) ==
  LET ids  == Selected(now)
      last == Len(Page(now))
  IN /\ last \in Nat /\ DOMAIN Page(now) = 1 .. last
     /\ HasMore(now) => last = limit /\ last \in 1 .. last
     /\ \A n \in 1 .. last : Page(now)[n] \in ids
     /\ \A m, n \in 1 .. last : m < n => ListedBefore(Page(now)[m], Page(now)[n])
     /\ \A i \in ids : \/ \E n \in 1 .. last : Page(now)[n] = i
                       \/ HasMore(now) /\ ListedBefore(Page(now)[last], i)

LEMMA PageIsFirstRows ==
  ASSUME RowsInv, QueryInv, NEW now
  PROVE  PageInv(now)
<1>1. PICK ids : ids = Selected(now) /\ ids \in SUBSET DOMAIN rows
  BY DEF Selected, Matching
<1>2. PICK c \in Nat : c = Cardinality(ids)
  <2>1. IsFiniteSet(ids)
    BY <1>1, FS_Subset DEF RowsInv
  <2> QED
    BY <2>1, FS_CardinalityType
<1>3. PICK lim \in Nat : lim = limit /\ lim # 0
  BY ListingAssumption DEF QueryInv
<1>4. PICK l, p : /\ l = (IF c > lim THEN lim ELSE c)
                  /\ p = [n \in 1 .. l |-> Ranked(ids, n)]
  OBVIOUS
<1>5. HasMore(now) <=> c > lim
  BY <1>1, <1>2, <1>3 DEF HasMore
<1>6. Page(now) = p
  BY <1>1, <1>2, <1>3, <1>4, <1>5 DEF Page
<1>7. l \in Nat /\ l <= c /\ (c > lim => l = lim) /\ (~ (c > lim) => l = c)
  BY <1>4
<1>8. DOMAIN p = 1 .. l /\ Len(p) = l
  BY <1>4, <1>7
<1>9. \A n \in 1 .. l : n \in 1 .. c
  BY <1>7
<1>10. \A n \in 1 .. l : p[n] \in ids /\ Rank(ids, p[n]) = n
  BY <1>1, <1>2, <1>4, <1>9, RanksFill
<1>11. \A i, j \in ids : Rank(ids, i) < Rank(ids, j) => ListedBefore(i, j)
  <2> SUFFICES ASSUME NEW i \in ids, NEW j \in ids, Rank(ids, i) < Rank(ids, j)
               PROVE  ListedBefore(i, j)
    OBVIOUS
  <2>1. /\ Rank(ids, i) \in Nat /\ Rank(ids, j) \in Nat
        /\ ListedBefore(j, i) => Rank(ids, j) < Rank(ids, i)
    BY <1>1, <1>2, RanksRise
  <2>2. i # j /\ ~ ListedBefore(j, i)
    BY <2>1
  <2> QED
    BY <1>1, <2>2, ListOrder
<1>12. \A m, n \in 1 .. l : m < n => ListedBefore(p[m], p[n])
  BY <1>10, <1>11
<1>13. ASSUME NEW i \in ids
       PROVE  \/ \E n \in 1 .. l : p[n] = i
              \/ HasMore(now) /\ ListedBefore(p[l], i)
  <2>1. PICK k : k = Rank(ids, i) /\ k \in 1 .. c
    BY <1>1, <1>2, RanksRise
  <2>2. CASE k \in 1 .. l
    <3>1. p[k] \in ids /\ Rank(ids, p[k]) = k
      BY <1>10, <2>2
    <3>2. p[k] = i
      <4>1. ~ (Rank(ids, p[k]) < Rank(ids, i)) /\ ~ (Rank(ids, i) < Rank(ids, p[k]))
        BY <2>1, <3>1
      <4>2. ~ ListedBefore(p[k], i) /\ ~ ListedBefore(i, p[k])
        BY <1>1, <3>1, <4>1, RanksRise
      <4> QED
        BY <1>1, <3>1, <4>2, ListOrder
    <3> QED
      BY <2>2, <3>2
  <2>3. CASE k \notin 1 .. l
    <3>1. l < k /\ c > lim /\ l \in 1 .. l
      BY <1>3, <1>7, <2>1, <2>3
    <3>2. p[l] \in ids /\ Rank(ids, p[l]) < Rank(ids, i)
      BY <1>10, <2>1, <3>1
    <3> QED
      BY <1>5, <1>11, <3>1, <3>2
  <2> QED
    BY <2>2, <2>3
<1>14. HasMore(now) => l = limit /\ l \in 1 .. l
  BY <1>3, <1>5, <1>7
<1>15. /\ Len(Page(now)) = l /\ DOMAIN Page(now) = 1 .. l
       /\ \A n : Page(now)[n] = p[n]
  BY <1>6, <1>8
<1> QED
  BY <1>1, <1>6, <1>7, <1>8, <1>10, <1>12, <1>13, <1>14 DEF PageInv

\* An item shows the state that its page was filtered by, but in the second of
\* its expiry.
LEMMA ItemsShowTheFilter ==
  ASSUME RowsInv, QueryInv, NEW now \in Nat, NEW i \in Matching(now)
  PROVE  LET item == Item(i, now)
         IN /\ item.id = i /\ item.shown \in TransferStates /\ item.on \in Nat
            /\ filter # "any" /\ item.shown # filter =>
                 /\ filter = "pending" /\ item.shown = "expired"
                 /\ item.on = Second(rows[i].expires)
<1>1. i \in DOMAIN rows /\ StateCondition(i, now)
  BY DEF Matching
<1>2. PICK st, ex : /\ st = rows[i].state /\ st \in TransferStates
                    /\ ex = rows[i].expires /\ ex \in Nat
  BY <1>1 DEF RowsInv
<1>3. PICK shown, on : /\ on = Second(now)
                       /\ shown = ShownState(on, Second(ex), st)
  OBVIOUS
<1>4. Item(i, now) = [id |-> i, shown |-> shown, on |-> on]
  BY <1>2, <1>3 DEF Item
<1>5. on \in Nat
  BY <1>3, SecondsRise
<1>6. shown = IF st = "pending" /\ Second(ex) <= on THEN "expired" ELSE st
  BY <1>3 DEF ShownState
<1>7. shown \in TransferStates
  BY <1>2, <1>6 DEF TransferStates, TerminalStates
<1>8. ASSUME filter # "any", shown # filter
      PROVE  filter = "pending" /\ shown = "expired" /\ on = Second(ex)
  <2>1. CASE filter = "pending"
    <3>1. st = "pending" /\ ex > now
      BY <1>1, <1>2, <2>1 DEF StateCondition
    <3>2. shown = "expired" /\ Second(ex) <= on
      BY <1>6, <1>8, <2>1, <3>1
    <3>3. on <= Second(ex) /\ Second(ex) \in Nat
      <4>1. now <= ex
        BY <1>2, <3>1
      <4> QED
        BY <1>2, <1>3, <4>1, SecondsRise
    <3> QED
      BY <1>5, <2>1, <3>2, <3>3
  <2>2. CASE filter = "expired"
    <3>1. st = "expired" \/ (st = "pending" /\ ex <= now)
      BY <1>1, <1>2, <2>2 DEF StateCondition
    <3>2. CASE st = "expired"
      BY <1>6, <1>8, <2>2, <3>2
    <3>3. CASE st = "pending" /\ ex <= now
      <4>1. Second(ex) <= on
        BY <1>2, <1>3, <3>3, SecondsRise
      <4> QED
        BY <1>6, <1>8, <2>2, <3>3, <4>1
    <3> QED
      BY <3>1, <3>2, <3>3
  <2>3. CASE filter # "pending" /\ filter # "expired"
    <3>1. st = filter
      BY <1>1, <1>2, <1>8, <2>3 DEF StateCondition
    <3> QED
      BY <1>6, <1>8, <2>3, <3>1
  <2> QED
    BY <2>1, <2>2, <2>3
<1> QED
  BY <1>2, <1>4, <1>5, <1>7, <1>8

-----------------------------------------------------------------------------
(* The invariant.                                                          *)

Items == [id : Ids, shown : TransferStates, on : Nat]

ListedIds == {listed[n].id : n \in 1 .. Len(listed)}

ListedInv ==
  /\ listed \in Seq(Items)
  /\ \A n \in 1 .. Len(listed) : listed[n].id \in DOMAIN rows
  /\ ListedOnceInOrder
  /\ ShownAsFiltered

\* A cursor is held between two pages and is the position of the last item.
CursorInv ==
  /\ cursor = None => listed = << >> \/ ended
  /\ cursor # None =>
       /\ ~ ended /\ Len(listed) \in 1 .. Len(listed)
       /\ cursor = Position(listed[Len(listed)].id)

\* What matched at every page is listed, or comes after the cursor.
SteadyInv ==
  /\ ended \in BOOLEAN
  /\ steady = None => ~ ended /\ cursor = None
  /\ steady # None =>
       /\ steady[1] \subseteq DOMAIN rows
       /\ ~ ended => cursor # None
       /\ \A i \in steady[1] : i \in ListedIds \/ (~ ended /\ AfterCursor(i))

IInv == RowsInv /\ QueryInv /\ ListedInv /\ CursorInv /\ SteadyInv

\* Rows are added and settled; they keep their creation and expiry.
RowsStay ==
  \A i \in DOMAIN rows :
    /\ i \in DOMAIN rows'
    /\ rows'[i].created = rows[i].created
    /\ rows'[i].expires = rows[i].expires

\* What a client has received says the same of rows that stay.
LEMMA ClientUndisturbed ==
  ASSUME IInv, RowsStay, RowsInv',
         UNCHANGED <<query, cursor, listed, ended, steady>>
  PROVE  IInv'
<1>1. /\ filter' = filter /\ limit' = limit /\ cursor' = cursor
      /\ listed' = listed /\ ended' = ended /\ steady' = steady
  BY DEF query
<1>2. QueryInv'
  BY <1>1 DEF IInv, QueryInv
<1>3. \A i, j \in DOMAIN rows : ListedBefore(i, j) => ListedBefore(i, j)'
  BY DEF RowsStay, ListedBefore
<1>4. \A n \in 1 .. Len(listed) : listed[n].id \in DOMAIN rows
  BY DEF IInv, ListedInv
<1>5. ListedOnceInOrder'
  <2> SUFFICES ASSUME NEW m \in 1 .. Len(listed), NEW n \in 1 .. Len(listed), m < n
               PROVE  ListedBefore(listed[m].id, listed[n].id)'
    BY <1>1 DEF ListedOnceInOrder
  <2>1. ListedBefore(listed[m].id, listed[n].id)
    BY DEF IInv, ListedInv, ListedOnceInOrder
  <2> QED
    BY <1>1, <1>4, <2>1 DEF RowsStay, ListedBefore
<1>6. ShownAsFiltered'
  <2> SUFFICES ASSUME NEW n \in 1 .. Len(listed),
                      filter # "any", listed[n].shown # filter
               PROVE  /\ filter = "pending" /\ listed[n].shown = "expired"
                      /\ listed[n].on = Second(rows'[listed[n].id].expires)
    BY <1>1 DEF ShownAsFiltered, Second
  <2>1. /\ filter = "pending" /\ listed[n].shown = "expired"
        /\ listed[n].on = Second(rows[listed[n].id].expires)
    BY DEF IInv, ListedInv, ShownAsFiltered
  <2> QED
    BY <1>4, <2>1 DEF RowsStay
<1>7. ListedInv'
  BY <1>1, <1>4, <1>5, <1>6 DEF IInv, ListedInv, RowsStay
<1>8. CursorInv'
  <2>1. ASSUME cursor # None
        PROVE  cursor = Position(listed[Len(listed)].id)'
    <3>1. PICK i : i = listed[Len(listed)].id /\ i \in DOMAIN rows
                   /\ cursor = <<rows[i].created, i>>
      BY <1>4, <2>1 DEF IInv, CursorInv, Position
    <3>2. cursor = <<rows'[i].created, i>>
      BY <3>1 DEF RowsStay
    <3> QED
      BY <1>1, <3>1, <3>2 DEF Position
  <2> QED
    BY <1>1, <2>1 DEF IInv, CursorInv
<1>9. SteadyInv'
  <2>1. \A i \in DOMAIN rows : AfterCursor(i) => AfterCursor(i)'
    BY <1>1 DEF AfterCursor, RowsStay
  <2>2. ListedIds' = ListedIds
    BY <1>1 DEF ListedIds
  <2>3. DOMAIN rows \subseteq DOMAIN rows'
    BY DEF RowsStay
  <2> QED
    BY <1>1, <2>1, <2>2, <2>3 DEF IInv, SteadyInv
<1> QED
  BY <1>2, <1>7, <1>8, <1>9 DEF IInv

\* The rows' own invariant.
LEMMA RowsInvariant ==
  ASSUME RowsInv, Next
  PROVE  RowsInv' /\ RowsStay
<1>1. /\ clock \in Nat /\ MaxTime \in Nat /\ Lifetime \in Nat /\ Ids \subseteq Nat
      /\ clock <= MaxTime
  BY ListingAssumption DEF RowsInv
<1>2. ASSUME NEW i \in Ids, NEW now \in Read, Create(i, now)
      PROVE  RowsInv' /\ RowsStay
  <2>1. now \in 0 .. clock /\ now + Lifetime \in Nat /\ clock' = clock
    BY <1>1, <1>2 DEF Read, Create
  <2>2. /\ DOMAIN rows' = DOMAIN rows \cup {i} /\ i \notin DOMAIN rows
        /\ rows'[i] = [state |-> "pending", created |-> now,
                       expires |-> now + Lifetime, settled |-> 0]
        /\ \A j \in DOMAIN rows : rows'[j] = rows[j]
    BY <1>2 DEF Create
  <2>3. IsFiniteSet(DOMAIN rows')
    BY <2>2, FS_AddElement DEF RowsInv
  <2>4. "pending" \in TransferStates
    BY DEF TransferStates
  <2>5. \A j \in DOMAIN rows' :
          /\ rows'[j].state \in TransferStates
          /\ rows'[j].created \in 0 .. clock
          /\ rows'[j].expires \in Nat
    <3>1. \A j \in DOMAIN rows :
            /\ rows'[j].state \in TransferStates
            /\ rows'[j].created \in 0 .. clock
            /\ rows'[j].expires \in Nat
      BY <2>2 DEF RowsInv
    <3>2. /\ rows'[i].state = "pending" /\ rows'[i].created = now
          /\ rows'[i].expires = now + Lifetime
      BY <2>2
    <3> QED
      BY <2>1, <2>2, <2>4, <3>1, <3>2
  <2>6. RowsStay
    BY <2>2 DEF RowsStay
  <2> QED
    BY <2>1, <2>2, <2>3, <2>5, <2>6 DEF RowsInv
<1>3. ASSUME NEW i \in DOMAIN rows, NEW now \in Read, NEW state \in TerminalStates,
             Settle(i, now, state)
      PROVE  RowsInv' /\ RowsStay
  <2>1. PICK first : /\ clock' = clock
                     /\ rows' = [rows EXCEPT ![i].state = state, ![i].settled = first]
    <3>1. PICK first : first = IF rows[i].state = "pending" THEN clock ELSE rows[i].settled
      OBVIOUS
    <3> QED
      BY <1>3, <3>1 DEF Settle
  <2>2. DOMAIN rows' = DOMAIN rows /\ state \in TransferStates
    BY <2>1 DEF TransferStates
  <2>3. \A j \in DOMAIN rows \ {i} : rows'[j] = rows[j]
    BY <2>1
  <2>4. rows'[i] = [rows[i] EXCEPT !.state = state, !.settled = first]
    BY <2>1
  <2>5. /\ rows'[i].created = rows[i].created
        /\ rows'[i].expires = rows[i].expires
    BY <2>4
  <2>6. rows'[i].state \in TransferStates \/ rows'[i].state = rows[i].state
    BY <2>2, <2>4
  <2>7. RowsStay
    BY <2>2, <2>3, <2>5 DEF RowsStay
  <2>8. \A j \in DOMAIN rows' :
          /\ rows'[j].state \in TransferStates
          /\ rows'[j].created \in 0 .. clock
          /\ rows'[j].expires \in Nat
    BY <2>2, <2>3, <2>5, <2>6 DEF RowsInv
  <2> QED
    BY <2>1, <2>2, <2>7, <2>8 DEF RowsInv
<1>4. CASE Tick
  <2>1. clock' \in 0 .. MaxTime /\ clock <= clock' /\ clock' \in Nat /\ rows' = rows
    BY <1>1, <1>4 DEF Tick
  <2>2. \A t \in 0 .. clock : t \in 0 .. clock'
    BY <1>1, <2>1
  <2> QED
    BY <2>1, <2>2 DEF RowsInv, RowsStay
<1>5. ASSUME NEW now \in Read, List(now)
      PROVE  RowsInv' /\ RowsStay
  BY <1>5 DEF List, RowsInv, RowsStay
<1> QED
  BY <1>2, <1>3, <1>4, <1>5 DEF Next

\* A page adds items of selected rows to the end of what is listed.
PageAdded(now) ==
  LET k == Len(listed)
      l == Len(Page(now))
  IN /\ listed' \in Seq(Items) /\ k \in Nat /\ l \in Nat
     /\ Len(listed') = k + l
     /\ \A n \in 1 .. k : listed'[n] = listed[n] /\ n \in 1 .. Len(listed')
     /\ \A n \in 1 .. l : listed'[k + n] = Item(Page(now)[n], now) /\ k + n \in 1 .. Len(listed')
     /\ \A m \in 1 .. Len(listed') : m \in 1 .. k \/ \E n \in 1 .. l : m = k + n

LEMMA ListAddsThePage ==
  ASSUME IInv, NEW now \in Nat, List(now)
  PROVE  PageAdded(now)
<1>0. PICK p : p = Page(now)
  OBVIOUS
<1>1. PICK l \in Nat : l = Len(p) /\ p = Page(now) /\ DOMAIN p = 1 .. l
  BY <1>0, PageIsFirstRows DEF IInv, PageInv
<1>2. \A n \in 1 .. l : p[n] \in Matching(now)
  BY <1>1, PageIsFirstRows DEF IInv, PageInv, Selected
<1>3. PICK new : new = [n \in 1 .. l |-> Item(p[n], now)]
  OBVIOUS
<1>4. \A n \in 1 .. l : Item(p[n], now) \in Items
  <2> SUFFICES ASSUME NEW n \in 1 .. l
               PROVE  Item(p[n], now) \in Items
    OBVIOUS
  <2>1. p[n] \in Matching(now) /\ p[n] \in Ids
    BY <1>2 DEF Matching, IInv, RowsInv
  <2>2. PICK item : item = Item(p[n], now)
    OBVIOUS
  <2>3. item.id = p[n] /\ item.shown \in TransferStates /\ item.on \in Nat
    BY <2>1, <2>2, ItemsShowTheFilter DEF IInv
  <2>4. item = [id |-> item.id, shown |-> item.shown, on |-> item.on]
    BY <2>2 DEF Item
  <2> QED
    BY <2>1, <2>2, <2>3, <2>4 DEF Items
<1>5. new \in Seq(Items) /\ Len(new) = l
  BY <1>3, <1>4
<1>6. listed \in Seq(Items) /\ listed' = listed \o new
  BY <1>1, <1>3 DEF IInv, ListedInv, List
<1>7. PICK k \in Nat : k = Len(listed)
  BY <1>6
<1>8. /\ listed' \in Seq(Items) /\ Len(listed') = k + l
      /\ \A n \in 1 .. k + l : listed'[n] = IF n <= k THEN listed[n] ELSE new[n - k]
  <2>1. PICK s, t : s = listed /\ t = listed' /\ s \in Seq(Items) /\ t = s \o new
    BY <1>6
  <2>2. /\ t \in Seq(Items) /\ Len(t) = k + l
        /\ \A n \in 1 .. k + l : t[n] = IF n <= k THEN s[n] ELSE new[n - k]
    <3>1. s \in Seq(Items) /\ new \in Seq(Items)
      BY <1>5, <2>1
    <3>2. /\ s \o new \in Seq(Items)
          /\ Len(s \o new) = Len(s) + Len(new)
          /\ \A n \in 1 .. Len(s) + Len(new) :
               (s \o new)[n] = IF n <= Len(s) THEN s[n] ELSE new[n - Len(s)]
      BY <3>1, ConcatProperties
    <3>3. Len(s) = k /\ Len(new) = l /\ t = s \o new
      BY <1>5, <1>7, <2>1
    <3> QED
      BY <3>2, <3>3, Zenon
  <2> QED
    BY <2>1, <2>2
<1>9. \A n \in 1 .. k : n \in 1 .. k + l /\ n <= k
  BY <1>7
<1>10. \A n \in 1 .. l : k + n \in 1 .. k + l /\ ~ (k + n <= k) /\ (k + n) - k = n
  BY <1>7
<1>11. \A m \in 1 .. k + l : m \in 1 .. k \/ (m - k \in 1 .. l /\ m = k + (m - k))
  BY <1>7
<1>12. \A n \in 1 .. l : listed'[k + n] = Item(p[n], now)
  BY <1>3, <1>8, <1>10
<1>13. \A n \in 1 .. k : listed'[n] = listed[n]
  BY <1>8, <1>9
<1> QED
  BY <1>1, <1>7, <1>8, <1>9, <1>10, <1>11, <1>12, <1>13 DEF PageAdded

\* Every row that a page may hold comes after everything that is listed.
LEMMA SelectedComeLast ==
  ASSUME IInv, NEW now, ~ ended, NEW i \in Selected(now), NEW n \in 1 .. Len(listed)
  PROVE  ListedBefore(listed[n].id, i)
<1>1. PICK k : k = Len(listed) /\ k \in Nat /\ n \in 1 .. k
  BY DEF IInv, ListedInv
<1>2. cursor # None /\ k \in 1 .. k
  BY <1>1 DEF IInv, CursorInv
<1>3. PICK last : last = listed[k].id /\ cursor = <<rows[last].created, last>>
  BY <1>1, <1>2 DEF IInv, CursorInv, Position
<1>4. last \in DOMAIN rows /\ listed[n].id \in DOMAIN rows /\ i \in DOMAIN rows
  BY <1>1, <1>2, <1>3 DEF IInv, ListedInv, Selected, Matching
<1>5. ListedBefore(last, i)
  <2>1. cursor[1] = rows[last].created /\ cursor[2] = last
    BY <1>3
  <2>2. \/ rows[i].created < rows[last].created
        \/ rows[i].created = rows[last].created /\ i < last
    BY <1>2, <2>1 DEF Selected, AfterCursor
  <2> QED
    BY <2>2 DEF ListedBefore
<1>6. n = k \/ (n < k /\ ListedBefore(listed[n].id, last))
  BY <1>1, <1>2, <1>3 DEF IInv, ListedInv, ListedOnceInOrder
<1>7. CASE n = k
  BY <1>3, <1>5, <1>7
<1>8. CASE ListedBefore(listed[n].id, last)
  BY <1>4, <1>5, <1>8, ListOrder DEF IInv
<1> QED
  BY <1>6, <1>7, <1>8

\* One page keeps the invariant.
LEMMA ListInvariant ==
  ASSUME IInv, NEW now \in Nat, List(now)
  PROVE  IInv'
<1>1. PICK k, l, p : /\ k = Len(listed) /\ p = Page(now) /\ l = Len(p)
                     /\ k \in Nat /\ l \in Nat
  BY ListAddsThePage DEF PageAdded
<1>2. /\ listed' \in Seq(Items) /\ Len(listed') = k + l
      /\ \A n \in 1 .. k : listed'[n] = listed[n] /\ n \in 1 .. Len(listed')
      /\ \A n \in 1 .. l : listed'[k + n] = Item(p[n], now) /\ k + n \in 1 .. Len(listed')
      /\ \A m \in 1 .. Len(listed') : m \in 1 .. k \/ \E n \in 1 .. l : m = k + n
  BY <1>1, ListAddsThePage DEF PageAdded
<1>3. /\ \A n \in 1 .. l : p[n] \in Selected(now)
      /\ HasMore(now) => l = limit /\ l \in 1 .. l
      /\ \A m, n \in 1 .. l : m < n => ListedBefore(p[m], p[n])
      /\ \A i \in Selected(now) : \/ \E n \in 1 .. l : p[n] = i
                                  \/ HasMore(now) /\ ListedBefore(p[l], i)
  BY <1>1, PageIsFirstRows DEF IInv, PageInv
<1>4. /\ ~ ended /\ rows' = rows /\ clock' = clock /\ filter' = filter /\ limit' = limit
      /\ cursor' = NextCursor(now) /\ ended' = (NextCursor(now) = None)
      /\ steady' = IF steady = None THEN <<Matching(now)>>
                   ELSE <<steady[1] \cap Matching(now)>>
  BY DEF List, query
<1>5. RowsInv' /\ QueryInv'
  BY <1>4 DEF IInv, RowsInv, QueryInv
<1>6. \A i, j : ListedBefore(i, j)' <=> ListedBefore(i, j)
  BY <1>4 DEF ListedBefore
<1>7. Selected(now) \subseteq Matching(now) /\ Matching(now) \subseteq DOMAIN rows
  BY DEF Selected, Matching
<1>8. \A n \in 1 .. l : listed'[k + n].id = p[n]
  <2>1. \A i : Item(i, now).id = i
    BY DEF Item
  <2> QED
    BY <1>2, <2>1
<1>9. \A n \in 1 .. k : listed[n].id \in DOMAIN rows
  BY <1>1 DEF IInv, ListedInv
<1>10. \A m \in 1 .. Len(listed') : listed'[m].id \in DOMAIN rows'
  BY <1>2, <1>3, <1>4, <1>7, <1>8, <1>9
<1>11. ListedOnceInOrder'
  <2> SUFFICES ASSUME NEW m \in 1 .. Len(listed'), NEW n \in 1 .. Len(listed'), m < n
               PROVE  ListedBefore(listed'[m].id, listed'[n].id)
    BY <1>6 DEF ListedOnceInOrder
  <2>1. CASE m \in 1 .. k /\ n \in 1 .. k
    BY <1>1, <1>2, <2>1 DEF IInv, ListedInv, ListedOnceInOrder
  <2>2. ASSUME m \in 1 .. k, NEW b \in 1 .. l, n = k + b
        PROVE  ListedBefore(listed'[m].id, listed'[n].id)
    <3>1. listed'[m].id = listed[m].id /\ listed'[n].id = p[b]
      BY <1>2, <1>8, <2>2
    <3>2. p[b] \in Selected(now) /\ m \in 1 .. Len(listed)
      BY <1>1, <1>3, <2>2
    <3> QED
      BY <1>4, <3>1, <3>2, SelectedComeLast
  <2>3. ASSUME NEW a \in 1 .. l, m = k + a, n \in 1 .. k
        PROVE  FALSE
    BY <1>1, <2>3
  <2>4. ASSUME NEW a \in 1 .. l, m = k + a, NEW b \in 1 .. l, n = k + b
        PROVE  ListedBefore(listed'[m].id, listed'[n].id)
    <3>1. a < b
      BY <1>1, <2>4
    <3> QED
      BY <1>3, <1>8, <2>4, <3>1
  <2> QED
    BY <1>2, <2>1, <2>2, <2>3, <2>4
<1>12. ShownAsFiltered'
  <2> SUFFICES ASSUME NEW n \in 1 .. Len(listed'),
                      filter # "any", listed'[n].shown # filter
               PROVE  /\ filter = "pending" /\ listed'[n].shown = "expired"
                      /\ listed'[n].on = Second(rows[listed'[n].id].expires)
    BY <1>4 DEF ShownAsFiltered, Second
  <2>1. CASE n \in 1 .. k
    BY <1>1, <1>2, <2>1 DEF IInv, ListedInv, ShownAsFiltered
  <2>2. ASSUME NEW a \in 1 .. l, n = k + a
        PROVE  /\ filter = "pending" /\ listed'[n].shown = "expired"
               /\ listed'[n].on = Second(rows[listed'[n].id].expires)
    <3>1. PICK i \in Matching(now) : i = p[a]
      BY <1>3, <1>7
    <3>2. listed'[n] = Item(i, now)
      BY <1>2, <2>2, <3>1
    <3> QED
      BY <3>1, <3>2, ItemsShowTheFilter DEF IInv
  <2> QED
    BY <1>2, <2>1, <2>2
<1>13. ListedInv'
  BY <1>2, <1>10, <1>11, <1>12 DEF ListedInv, Items
<1>14. /\ HasMore(now) => cursor' = Position(p[l]) /\ ~ ended' /\ cursor' # None
       /\ ~ HasMore(now) => cursor' = None /\ ended'
  <2>1. \A i : Position(i) # None
    BY DEF Position, None
  <2> QED
    BY <1>1, <1>3, <1>4, <2>1 DEF NextCursor
<1>15. CursorInv'
  <2>1. ASSUME HasMore(now)
        PROVE  /\ Len(listed') \in 1 .. Len(listed')
               /\ cursor' = Position(listed'[Len(listed')].id)
    <3>1. l \in 1 .. l
      BY <1>3, <2>1
    <3>2. listed'[k + l].id = p[l] /\ k + l \in 1 .. Len(listed')
      BY <1>2, <1>8, <3>1
    <3> QED
      BY <1>2, <1>14, <2>1, <3>2
  <2>2. None' = None /\ \A i : Position(i)' = Position(i)
    BY <1>4 DEF None, Position
  <2> QED
    BY <1>14, <2>1, <2>2 DEF CursorInv
<1>16. SteadyInv'
  <2>1. PICK st : steady' = <<st>> /\ st \subseteq Matching(now)
                  /\ (steady # None => st \subseteq steady[1])
    BY <1>4
  <2>2. steady' # None /\ steady'[1] = st
    BY <2>1 DEF None
  <2>3. ListedIds \subseteq ListedIds' /\ \A n \in 1 .. l : p[n] \in ListedIds'
    BY <1>1, <1>2, <1>8 DEF ListedIds
  <2>4. ASSUME NEW i \in st
        PROVE  i \in ListedIds' \/ (~ ended' /\ AfterCursor(i)')
    <3>1. i \in ListedIds \/ AfterCursor(i)
      <4>1. CASE steady = None
        BY <4>1 DEF IInv, SteadyInv, AfterCursor
      <4>2. CASE steady # None
        BY <2>1, <2>4, <4>2 DEF IInv, SteadyInv
      <4> QED
        BY <4>1, <4>2
    <3>2. CASE i \in ListedIds
      BY <2>3, <3>2
    <3>3. CASE AfterCursor(i)
      <4>1. i \in Selected(now)
        BY <2>1, <3>3 DEF Selected
      <4>2. CASE \E n \in 1 .. l : p[n] = i
        BY <2>3, <4>2
      <4>3. CASE HasMore(now) /\ ListedBefore(p[l], i)
        <5>1. PICK last : last = p[l] /\ cursor' = <<rows[last].created, last>> /\ ~ ended'
          BY <1>14, <4>3 DEF Position
        <5>2. cursor'[1] = rows[last].created /\ cursor'[2] = last
          BY <5>1
        <5>3. \/ rows[i].created < rows[last].created
              \/ rows[i].created = rows[last].created /\ i < last
          <6>1. last \in DOMAIN rows /\ i \in DOMAIN rows
            BY <1>3, <1>7, <2>1, <4>3, <5>1
          <6>2. PICK a, b : a = rows[last].created /\ b = rows[i].created
            OBVIOUS
          <6>3. a > b \/ (a = b /\ last > i)
            BY <4>3, <5>1, <6>2 DEF ListedBefore
          <6> QED
            BY <6>2, <6>3
        <5>4. AfterCursor(i)'
          BY <1>4, <5>2, <5>3 DEF AfterCursor
        <5> QED
          BY <5>1, <5>4
      <4> QED
        BY <1>3, <4>1, <4>2, <4>3
    <3> QED
      BY <3>1, <3>2, <3>3
  <2>5. ended' \in BOOLEAN /\ (~ ended' => cursor' # None) /\ None' = None
    BY <1>4 DEF None
  <2> QED
    BY <1>4, <1>7, <2>1, <2>2, <2>4, <2>5 DEF SteadyInv
<1> QED
  BY <1>5, <1>13, <1>15, <1>16 DEF IInv

-----------------------------------------------------------------------------
(* The theorems.                                                           *)

\* The invariant holds of an empty list and is kept by every step.
LEMMA InductiveInvariant == Spec => []IInv
<1>1. Init => IInv
  <2> SUFFICES ASSUME Init
               PROVE  IInv
    OBVIOUS
  <2>1. RowsInv
    <3>1. clock \in 0 .. MaxTime
      BY ListingAssumption DEF Init
    <3>2. DOMAIN rows = {}
      BY DEF Init
    <3> QED
      BY <3>1, <3>2, FS_EmptySet DEF RowsInv
  <2>2. QueryInv
    BY DEF Init, QueryInv
  <2>3. listed = << >> /\ Len(listed) = 0 /\ listed \in Seq(Items)
    BY DEF Init
  <2>4. \A n : n \notin 1 .. Len(listed)
    BY <2>3
  <2>5. ListedInv
    BY <2>3, <2>4 DEF ListedInv, ListedOnceInOrder, ShownAsFiltered
  <2>6. CursorInv /\ SteadyInv
    BY <2>3 DEF Init, CursorInv, SteadyInv
  <2> QED
    BY <2>1, <2>2, <2>5, <2>6 DEF IInv
<1>2. IInv /\ [Next]_vars => IInv'
  <2> SUFFICES ASSUME IInv, [Next]_vars
               PROVE  IInv'
    OBVIOUS
  <2>1. ASSUME Next, UNCHANGED <<query, cursor, listed, ended, steady>>
        PROVE  IInv'
    BY <2>1, RowsInvariant, ClientUndisturbed DEF IInv
  <2>2. ASSUME NEW i \in Ids, NEW now \in Read, Create(i, now)
        PROVE  IInv'
    <3>1. Next
      BY <2>2 DEF Next
    <3> QED
      BY <2>1, <2>2, <3>1 DEF Create
  <2>3. ASSUME NEW i \in DOMAIN rows, NEW now \in Read, NEW state \in TerminalStates,
               Settle(i, now, state)
        PROVE  IInv'
    <3>1. Next
      BY <2>3 DEF Next
    <3> QED
      BY <2>1, <2>3, <3>1 DEF Settle
  <2>4. CASE Tick
    <3>1. Next
      BY <2>4 DEF Next
    <3> QED
      BY <2>1, <2>4, <3>1 DEF Tick
  <2>5. ASSUME NEW now \in Read, List(now)
        PROVE  IInv'
    <3>1. clock \in Nat
      BY ListingAssumption DEF IInv, RowsInv
    <3>2. now \in 0 .. clock
      BY DEF Read
    <3>3. now \in Nat
      BY <3>1, <3>2
    <3> QED
      BY <2>5, <3>3, ListInvariant
  <2>6. CASE UNCHANGED vars
    <3>1. /\ UNCHANGED <<query, cursor, listed, ended, steady>>
          /\ rows' = rows /\ clock' = clock
      BY <2>6 DEF vars
    <3>2. RowsInv' /\ RowsStay
      BY <3>1 DEF IInv, RowsInv, RowsStay
    <3> QED
      BY <3>1, <3>2, ClientUndisturbed
  <2> QED
    BY <2>2, <2>3, <2>4, <2>5, <2>6 DEF Next
<1> QED
  BY <1>1, <1>2, PTL DEF Spec

\* Rows live as long as they were created for, and a cursor is the position of
\* the last item received (list_transfers and encode_cursor in
\* src/src/memebank_routes.rs).
THEOREM TypeCorrect == Spec => []TypeOK
<1>1. IInv => TypeOK
  <2> SUFFICES ASSUME IInv
               PROVE  TypeOK
    OBVIOUS
  <2>1. /\ clock \in 0 .. MaxTime
        /\ \A i \in DOMAIN rows : /\ i \in Ids /\ rows[i].state \in TransferStates
                                  /\ rows[i].created \in 0 .. clock
    BY DEF IInv, RowsInv
  <2>2. ASSUME cursor # None
        PROVE  /\ ~ ended /\ listed # << >> /\ cursor[2] = listed[Len(listed)].id
    <3>1. /\ ~ ended /\ Len(listed) \in 1 .. Len(listed)
          /\ cursor = Position(listed[Len(listed)].id)
      BY <2>2 DEF IInv, CursorInv
    <3>2. listed # << >>
      BY <3>1
    <3> QED
      BY <3>1, <3>2 DEF Position
  <2> QED
    BY <2>1, <2>2 DEF TypeOK
<1> QED
  BY <1>1, InductiveInvariant, PTL

\* No transfer is listed twice, and items come in strictly descending order of
\* creation and id, whatever commits between two pages.
THEOREM ListedOnceInOrderHolds == Spec => []ListedOnceInOrder
<1>1. IInv => ListedOnceInOrder
  BY DEF IInv, ListedInv
<1> QED
  BY <1>1, InductiveInvariant, PTL

\* A client that has paged to the end has received every transfer that matched
\* at all of its pages.
THEOREM NothingSkippedHolds == Spec => []NothingSkipped
<1>1. IInv => NothingSkipped
  BY DEF IInv, SteadyInv, NothingSkipped, ListedIds
<1> QED
  BY <1>1, InductiveInvariant, PTL

\* A page filtered by state shows that state (state_condition against
\* transfer_response), but in the second of a transfer's expiry.
THEOREM ShownAsFilteredHolds == Spec => []ShownAsFiltered
<1>1. IInv => ShownAsFiltered
  BY DEF IInv, ListedInv
<1> QED
  BY <1>1, InductiveInvariant, PTL
=============================================================================

--------------------------- MODULE TransferListing ---------------------------
(***************************************************************************)
(* A client that pages through list_transfers (src/src/memebank_routes.rs) *)
(* with a state filter, while transfers are created, settled and expire.   *)
(* Each page is one SELECT.  A row may become visible some time after its  *)
(* created_at: the handler reads the clock before it waits for its locks.  *)
(*                                                                         *)
(* Times are in ticks, the precision of the database; responses and the    *)
(* policy see whole seconds of TicksPerSecond ticks.                       *)
(***************************************************************************)
EXTENDS TransferPolicy, Sequences, FiniteSets

CONSTANTS
  Ids,            \* UUIDs by their rank: a set of numbers
  Filters,        \* the state filters asked for, "any" for none
  Limits,         \* the page limits asked for
  Lifetime,       \* from creation to expires_at, in ticks
  Receipts,       \* the dispositions acknowledged with
  Delay,          \* bounds the ticks from reading the clock to the commit
  TicksPerSecond,
  MaxTime         \* bounds the clock

ASSUME ListingAssumption ==
  /\ Ids \subseteq Nat
  /\ Filters \subseteq TransferStates \cup {"any"}
  /\ Limits \subseteq Nat \ {0}
  /\ Receipts \subseteq Dispositions
  /\ Lifetime \in Nat /\ Delay \in Nat /\ MaxTime \in Nat
  /\ TicksPerSecond \in Nat \ {0}

VARIABLES
  clock,
  rows,    \* the subject's committed transfers, by id, and when they were first
           \* settled
  filter, limit, \* the query the client pages with
  cursor,  \* the last next_cursor, or None
  listed,  \* [id, shown] of the items received, in order
  ended,   \* the last page had no next_cursor
  steady   \* the rows that matched at every page so far

query == <<filter, limit>>
vars == <<clock, rows, query, cursor, listed, ended, steady>>

None == <<>>
Second(t) == t \div TicksPerSecond

Init ==
  /\ clock = 0
  /\ rows = [i \in {} |-> None]
  /\ filter \in Filters /\ limit \in Limits
  /\ cursor = None
  /\ listed = << >>
  /\ ended = FALSE
  /\ steady = None
-----------------------------------------------------------------------------
\* The times at which a handler that commits now may have read the clock.
Read == {t \in 0 .. clock : t + Delay >= clock}

\* A create commits; its created_at is the clock that its handler read.
Create(i, created) ==
  /\ i \notin DOMAIN rows
  /\ rows' = [j \in DOMAIN rows \cup {i} |->
       IF j = i THEN [state |-> "pending", created |-> created,
                      expires |-> created + Lifetime, settled |-> 0]
                ELSE rows[j]]
  /\ UNCHANGED <<clock, query, cursor, listed, ended, steady>>

\* An acknowledgement or a cancel commits, which writes an overdue row as
\* expired; now is the clock that its handler read.  It decided on the row as it
\* then read it, pending, and replaces what another settled in between.
Settle(i, now, state) ==
  LET until == Second(rows[i].expires)
  IN /\ rows[i].state = "pending" \/ now <= rows[i].settled
     /\ \/ state = CancelState(Second(now), until, "pending")
        \/ \E d \in Receipts :
             state = AcknowledgeState(Second(now), until, "pending", d)
  /\ rows' = [rows EXCEPT
       ![i].state = state, ![i].settled = IF rows[i].state = "pending" THEN clock ELSE @]
  /\ UNCHANGED <<clock, query, cursor, listed, ended, steady>>

Tick ==
  /\ clock < MaxTime
  /\ clock' = clock + 1
  /\ UNCHANGED <<rows, query, cursor, listed, ended, steady>>

\* Mutant: expiry is left out of the condition.
StateConditionStored(i, now) == filter = "any" \/ rows[i].state = filter

\* state_condition: compared by the database, with all its ticks.
StateCondition(i, now) ==
  CASE filter = "any" -> TRUE
    [] filter = "pending" -> rows[i].state = "pending" /\ rows[i].expires > now
    [] filter = "expired" -> \/ rows[i].state = "expired"
                             \/ rows[i].state = "pending" /\ rows[i].expires <= now
    [] OTHER -> rows[i].state = filter

\* Mutant: the cursor compares creation times only.
AfterCursorByTime(i) == cursor # None => rows[i].created < cursor[1]

\* Mutant: rows of the cursor's time are sent whatever their id.
AfterCursorInclusive(i) == cursor # None => rows[i].created <= cursor[1]

\* The cursor's row and all before it in the order of the list are left out.
AfterCursor(i) ==
  cursor # None =>
    \/ rows[i].created < cursor[1]
    \/ rows[i].created = cursor[1] /\ i < cursor[2]

\* ORDER BY created_at DESC, id DESC.
ListedBefore(i, j) ==
  \/ rows[i].created > rows[j].created
  \/ rows[i].created = rows[j].created /\ i > j

Matching(now) == {i \in DOMAIN rows : StateCondition(i, now)}

Selected(now) == {i \in Matching(now) : AfterCursor(i)}

\* The n-th of the ids in the order of the list.
Ranked(ids, n) ==
  CHOOSE i \in ids : Cardinality({j \in ids : ListedBefore(j, i)}) + 1 = n

\* LIMIT limit + 1 tells whether there is more.
HasMore(now) == Cardinality(Selected(now)) > limit

\* The first limit rows, in order.
Page(now) ==
  [n \in 1 .. IF HasMore(now) THEN limit ELSE Cardinality(Selected(now)) |->
     Ranked(Selected(now), n)]

Position(i) == <<rows[i].created, i>>

\* Mutant: the last page hands the old cursor out again.
NextCursorKept(now) == IF HasMore(now) THEN Position(Page(now)[limit]) ELSE cursor

\* encode_cursor of the last item, when there is more.
NextCursor(now) == IF HasMore(now) THEN Position(Page(now)[limit]) ELSE None

\* transfer_response shows whole seconds.
Item(i, now) ==
  [id |-> i,
   shown |-> ShownState(Second(now), Second(rows[i].expires), rows[i].state),
   on |-> Second(now)]

\* list_transfers, whose SELECT and response use one reading of the clock.
List(now) ==
  /\ ~ ended
  /\ listed' = listed \o [n \in DOMAIN Page(now) |-> Item(Page(now)[n], now)]
  /\ cursor' = NextCursor(now)
  /\ ended' = (NextCursor(now) = None)
  /\ steady' = IF steady = None THEN <<Matching(now)>>
               ELSE <<steady[1] \cap Matching(now)>>
  /\ UNCHANGED <<clock, rows, query>>

Next ==
  \/ \E i \in Ids, now \in Read : Create(i, now)
  \/ \E i \in DOMAIN rows, now \in Read, state \in TerminalStates : Settle(i, now, state)
  \/ Tick
  \/ \E now \in Read : List(now)

Spec == Init /\ [][Next]_vars
-----------------------------------------------------------------------------
(* Properties.                                                             *)

\* Rows live as long as they were created for, and a cursor is held exactly
\* between two pages: it is the position of the last item received.
TypeOK ==
  /\ clock \in 0 .. MaxTime
  /\ \A i \in DOMAIN rows :
       /\ i \in Ids /\ rows[i].state \in TransferStates
       /\ rows[i].created \in 0 .. clock
  /\ cursor # None => listed # << >> /\ cursor[2] = listed[Len(listed)].id
  /\ ended => cursor = None

\* Paging yields no transfer twice, in strictly descending order of creation
\* and id, whatever is created, settled or expires between two pages and
\* however many were created at one time.
ListedOnceInOrder ==
  \A m, n \in 1 .. Len(listed) : m < n => ListedBefore(listed[m].id, listed[n].id)

\* A client that has paged to the end has received every transfer that
\* matched its filter at all of its pages: nothing that stays is skipped.
NothingSkipped ==
  ended => steady[1] \subseteq {listed[n].id : n \in 1 .. Len(listed)}

\* An item shows the state that was asked for, but for one second: a transfer
\* listed as pending in the second of its expiry is shown as expired, because
\* the database compares ticks and the response whole seconds.
ShownAsFiltered ==
  \A n \in 1 .. Len(listed) :
    LET item == listed[n]
    IN filter # "any" /\ item.shown # filter =>
         /\ filter = "pending" /\ item.shown = "expired"
         /\ item.on = Second(rows[item.id].expires)
=============================================================================

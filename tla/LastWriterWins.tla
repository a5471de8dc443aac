--------------------------- MODULE LastWriterWins ---------------------------
(***************************************************************************)
(* What the sync engine promises about conflicts, with no notion of a      *)
(* current head that is compared and replaced: mutations are accepted one  *)
(* by one, and the visible head of an object is the greatest of all that   *)
(* were ever accepted for it, by clock, then deletion, then device, then   *)
(* mutation identifier, then arrival.                                      *)
(***************************************************************************)
EXTENDS Naturals, Sequences

CONSTANTS Mutations

VARIABLES accepted, \* the sequenced mutations accepted so far
          heads     \* the visible head of every object that has one

vars == <<accepted, heads>>

Rank(s) ==
  <<s.mutation.logical_clock,
    IF s.mutation.kind = "Tombstone" THEN 1 ELSE 0,
    s.mutation.device_id,
    s.mutation.mutation_id,
    s.server_sequence>>

\* s ranks above t: they first differ in a field where s is greater.
Outranks(s, t) ==
  \E f \in 1 .. 5 :
    /\ Rank(s)[f] > Rank(t)[f]
    /\ \A g \in 1 .. f - 1 : Rank(s)[g] = Rank(t)[g]

OfObject(S, o) == {s \in S : s.mutation.object_id = o}

Winner(S) == CHOOSE s \in S : \A t \in S \ {s} : Outranks(s, t)

Objects(S) == {s.mutation.object_id : s \in S}

Winners(S) == [o \in Objects(S) |-> Winner(OfObject(S, o))]

Init ==
  /\ accepted = {}
  /\ heads = Winners({})

\* A mutation is accepted with the next sequence number.
Accept(m, n) ==
  /\ \A s \in accepted : s.server_sequence < n
  /\ accepted' = accepted \cup {[server_sequence |-> n, mutation |-> m]}
  /\ heads' = Winners(accepted')

Next == \E m \in Mutations : \E n \in {1} \cup {s.server_sequence + 1 : s \in accepted} : Accept(m, n)

Spec == Init /\ [][Next]_vars
=============================================================================

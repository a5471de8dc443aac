----------------------------- MODULE VaultStore -----------------------------
(***************************************************************************)
(* What an application vault promises, docs/app-vault-step-up.md: an       *)
(* append-only log in which a mutation identifier is used once, a head for *)
(* every record, the greatest of its mutations by (logical_clock,          *)
(* source_device_id, mutation_id), and pushes that happen completely or    *)
(* not at all.  Identifiers are numbers, ordered as their text is.         *)
(***************************************************************************)
EXTENDS Naturals

CONSTANT Pushes  \* the sets of mutations that can be pushed

VARIABLES
  log,   \* app_vault_mutations
  heads  \* app_vault_record_heads, by namespace and record

vars == <<log, heads>>

\* Mutant: the last component of the order is forgotten.
OutranksByDevice(a, b) ==
  \/ a.clock > b.clock
  \/ a.clock = b.clock /\ a.source > b.source

Outranks(a, b) ==
  \/ a.clock > b.clock
  \/ a.clock = b.clock /\ a.source > b.source
  \/ a.clock = b.clock /\ a.source = b.source /\ a.id > b.id

KeyOf(m) == <<m.namespace, m.record>>
Keys(ms) == {KeyOf(m) : m \in ms}

\* The mutation w is the head of its record among ms.
IsWinner(w, ms) == w \in ms /\ \A m \in ms : KeyOf(m) = KeyOf(w) => m = w \/ Outranks(w, m)

\* Those of a push whose identifier is not used yet.
Fresh(ms) == {m \in ms : \A n \in log : n.id # m.id}

Init ==
  /\ log = {}
  /\ heads = [k \in {} |-> {}]

Push(ms) ==
  /\ log' = log \cup Fresh(ms)
  /\ heads' \in [Keys(log') -> log']
  /\ \A k \in Keys(log') : KeyOf(heads'[k]) = k /\ IsWinner(heads'[k], log')

Next == \E ms \in Pushes : Push(ms)

Spec == Init /\ [][Next]_vars
=============================================================================

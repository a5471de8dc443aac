--------------------------- MODULE AppVaultProofs ---------------------------
(***************************************************************************)
(* Proofs about AppVault for every set of devices, requests and handlers.  *)
(* IInv is the inductive invariant: transactions that run together have    *)
(* different identifiers and different locked heads, and what one of them  *)
(* is about to write is right for the committed log until it commits.      *)
(***************************************************************************)
EXTENDS AppVault, TLAPS

Pcs == {"idle", "validated", "begun", "locked", "inserted", "updated"}

\* What the policy checked of a mutation, and the numbers of its order.
Good(m) ==
  /\ m.id \in Nat /\ m.source \in Nat /\ m.clock \in Nat
  /\ m.signed /\ m.app = App /\ m.namespace \in Namespaces

UniqueIds(ms) == \A m, n \in ms : m.id = n.id => m = n

Valid(r) ==
  /\ r \in Requests
  /\ \A m \in Pushed(r) : Good(m)
  /\ UniqueIds(Pushed(r))

\* The condition of Winners, of the rows of one handler.
Win(rows, new) ==
  /\ \A k \in DOMAIN new : Store!KeyOf(new[k]) = k /\ Store!IsWinner(new[k], rows)
  /\ \A k \in Store!Keys(rows) :
       k \in DOMAIN new
         <=> (k \in DOMAIN heads =>
                \E m \in rows : Store!KeyOf(m) = k /\ Store!Outranks(m, heads[k]))

IsState(s) ==
  /\ DOMAIN s = {"pc", "request", "at", "revoked", "enabled", "rows", "heads", "locks"}
  /\ s.pc \in Pcs

\* The rows of a handler are those of its push that the log does not have.
RowsInv(s) ==
  /\ s.pc \notin {"inserted", "updated"} => s.rows = {}
  /\ s.pc # "idle" => Valid(s.request) /\ s.rows \subseteq Pushed(s.request)
  /\ \A m \in s.rows : \A n \in log : n.id # m.id
  /\ s.pc \in {"inserted", "updated"} =>
       \A m \in Pushed(s.request) : m \in s.rows \/ \E n \in log : n.id = m.id

\* A revoked device stays revoked, so that its transaction inserts nothing; what
\* others insert is their own, and the application was enabled.
OriginInv(s) ==
  /\ s.revoked =>
       /\ s.rows = {}
       /\ s.pc \in {"begun", "locked"} => device[s.request.device] = "revoked"
  /\ \A m \in s.rows : m.source = s.request.device /\ s.enabled

WinInv(s) == s.pc = "updated" => Store!Keys(s.rows) \subseteq s.locks /\ Win(s.rows, s.heads)

Sound(s) == IsState(s) /\ RowsInv(s) /\ OriginInv(s) /\ WinInv(s)

Apart(s, t) ==
  /\ s.locks \cap t.locks = {}
  /\ \A m \in s.rows, n \in t.rows : m.id # n.id

LogInv == (\A m \in log : Good(m)) /\ UniqueIds(log)

IInv ==
  /\ DOMAIN handler = Handlers /\ DOMAIN device = Devices
  /\ \A h \in Handlers : Sound(handler[h])
  /\ \A g, h \in Handlers : g # h => Apart(handler[g], handler[h])
  /\ LogInv
  /\ HeadsAreWinners
  /\ LogIsAuthorised
-----------------------------------------------------------------------------
(* The order of mutations.                                                 *)

LEMMA OutranksTransitive ==
  ASSUME NEW a, NEW b, NEW c, Good(a), Good(b), Good(c),
         Store!Outranks(a, b), Store!Outranks(b, c)
  PROVE  Store!Outranks(a, c)
BY DEF Store!Outranks, Good

LEMMA OutranksTotal ==
  ASSUME NEW a, NEW b, Good(a), Good(b), a.id # b.id
  PROVE  Store!Outranks(a, b) \/ Store!Outranks(b, a)
BY DEF Store!Outranks, Good

\* The policy leaves no identifier twice in a push.
LEMMA PolicyIsValid ==
  ASSUME NEW r \in Requests, NEW now, NEW lifecycle, PolicyAccepts(now, r, lifecycle)
  PROVE  Valid(r)
<1>1. \A i \in 1 .. Len(r.mutations) : Good(r.mutations[i])
  <2> SUFFICES ASSUME NEW i \in 1 .. Len(r.mutations)
               PROVE  Good(r.mutations[i])
    OBVIOUS
  <2>1. /\ r.mutations[i].id \in Nat /\ r.mutations[i].source \in Nat
        /\ r.mutations[i].clock \in Nat
    BY VaultAssumption
  <2>2. AcceptsMutation(now, r, r.mutations[i]) /\ r.path = App
    BY DEF PolicyAccepts
  <2> QED
    BY <2>1, <2>2 DEF AcceptsMutation, Good
<1>2. \A i, j \in 1 .. Len(r.mutations) :
        r.mutations[i].id = r.mutations[j].id => i = j
  BY DEF PolicyAccepts, IsRepetition
<1> QED
  BY <1>1, <1>2 DEF Valid, UniqueIds, Pushed
-----------------------------------------------------------------------------
(* The steps that change one handler and no row.                           *)

Moves(h, s) ==
  /\ handler' = [handler EXCEPT ![h] = s]
  /\ UNCHANGED <<device, log, heads, origins>>

LEMMA MoveInvariant ==
  ASSUME IInv, NEW h \in Handlers, NEW s, Moves(h, s), Sound(s),
         \A g \in Handlers \ {h} : Apart(handler[g], s)
  PROVE  IInv'
<1>1. /\ DOMAIN handler' = Handlers
      /\ handler'[h] = s
      /\ \A g \in Handlers \ {h} : handler'[g] = handler[g]
  BY DEF IInv, Moves
<1>2. \A t : Sound(t) => Sound(t)'
  BY DEF Moves, Sound, IsState, RowsInv, OriginInv, WinInv, Win
<1>3. \A g \in Handlers : Sound(handler'[g])
  BY <1>1 DEF IInv
<1>4. \A g \in Handlers : Sound(handler[g])'
  BY <1>3 DEF Moves, Sound, IsState, RowsInv, OriginInv, WinInv, Win
<1>5. \A f, g \in Handlers : f # g => Apart(handler'[f], handler'[g])
  <2>1. \A t, u : Apart(t, u) => Apart(u, t)
    BY DEF Apart
  <2> QED
    BY <1>1, <2>1 DEF IInv
<1>6. \A f, g \in Handlers : f # g => Apart(handler[f], handler[g])'
  BY <1>5 DEF Apart
<1>7. LogInv' /\ HeadsAreWinners' /\ LogIsAuthorised' /\ DOMAIN device' = Devices
  BY DEF IInv, Moves, LogInv, HeadsAreWinners, LogIsAuthorised
<1> QED
  BY <1>1, <1>4, <1>6, <1>7 DEF IInv

\* A handler may always give up.
LEMMA IdleInvariant ==
  ASSUME IInv, NEW h \in Handlers, Moves(h, Idle)
  PROVE  IInv'
<1>1. Sound(Idle)
  BY DEF Sound, IsState, RowsInv, OriginInv, WinInv, Idle, Pcs
<1>2. \A g \in Handlers \ {h} : Apart(handler[g], Idle)
  BY DEF Apart, Idle
<1> QED
  BY <1>1, <1>2, MoveInvariant

LEMMA ValidateInvariant ==
  ASSUME IInv, NEW h \in Handlers, NEW r \in Requests, Validate(h, r)
  PROVE  IInv'
<1>1. PICK s : s = [Idle EXCEPT !.pc = "validated", !.request = r]
  OBVIOUS
<1>2. Moves(h, s)
  BY <1>1 DEF Validate, Moves
<1> /\ DOMAIN s = {"pc", "request", "at", "revoked", "enabled", "rows", "heads", "locks"}
    /\ s.pc = "validated" /\ s.request = r /\ s.revoked = FALSE
    /\ s.rows = {} /\ s.locks = {}
  BY <1>1 DEF Idle
<1>3. Valid(r)
  BY PolicyIsValid DEF Validate
<1>4. Sound(s)
  BY <1>3 DEF Sound, IsState, RowsInv, OriginInv, WinInv, Pcs
<1>5. \A g \in Handlers \ {h} : Apart(handler[g], s)
  BY DEF Apart
<1> QED
  BY <1>2, <1>4, <1>5, MoveInvariant

LEMMA BeginInvariant ==
  ASSUME IInv, NEW h \in Handlers, BeginTransaction(h)
  PROVE  IInv'
<1>1. PICK me : me = handler[h] /\ Sound(me) /\ me.pc = "validated"
  BY DEF IInv, BeginTransaction
<1>2. PICK s : s = [me EXCEPT !.pc = "begun", !.at = clock,
                              !.revoked = device[me.request.device] = "revoked"]
  OBVIOUS
<1>3. /\ DOMAIN s = DOMAIN me
      /\ s.pc = "begun" /\ s.revoked = (device[me.request.device] = "revoked")
      /\ s.request = me.request /\ s.rows = me.rows /\ s.locks = me.locks
  BY <1>1, <1>2 DEF Sound, IsState
<1>4. Moves(h, s)
  BY <1>1, <1>2 DEF BeginTransaction, Moves
<1>5. IsState(s) /\ RowsInv(s) /\ WinInv(s)
  BY <1>1, <1>3 DEF Sound, IsState, RowsInv, WinInv, Pcs
<1>6. OriginInv(s)
  BY <1>1, <1>3 DEF Sound, RowsInv, OriginInv
<1>7. \A g \in Handlers \ {h} : Apart(handler[g], s)
  BY <1>1, <1>3 DEF IInv, Apart
<1> QED
  BY <1>4, <1>5, <1>6, <1>7, MoveInvariant DEF Sound

LEMMA LockInvariant ==
  ASSUME IInv, NEW h \in Handlers, LockHeads(h)
  PROVE  IInv'
<1>1. PICK me : me = handler[h] /\ Sound(me) /\ me.pc = "begun"
  BY DEF IInv, LockHeads
<1>2. PICK keys : /\ AreFree(h, keys)
                  /\ handler' = [handler EXCEPT ![h].pc = "locked", ![h].locks = keys]
  BY DEF LockHeads
<1>3. PICK s : s = [me EXCEPT !.pc = "locked", !.locks = keys]
  OBVIOUS
<1>4. /\ DOMAIN s = DOMAIN me
      /\ s.pc = "locked" /\ s.locks = keys
      /\ s.request = me.request /\ s.rows = me.rows /\ s.revoked = me.revoked
  BY <1>1, <1>3 DEF Sound, IsState
<1>5. Moves(h, s)
  BY <1>1, <1>2, <1>3 DEF LockHeads, Moves
<1>6. Sound(s)
  BY <1>1, <1>4 DEF Sound, IsState, RowsInv, OriginInv, WinInv, Pcs
<1>7. \A g \in Handlers \ {h} : Apart(handler[g], s)
  BY <1>1, <1>2, <1>4 DEF IInv, Apart, AreFree
<1> QED
  BY <1>5, <1>6, <1>7, MoveInvariant

\* The rows of other transactions have other identifiers: those it waited for.
LEMMA InsertInvariant ==
  ASSUME IInv, NEW h \in Handlers, InsertMutations(h)
  PROVE  IInv'
<1>1. PICK me : me = handler[h] /\ Sound(me) /\ me.pc = "locked"
  BY DEF IInv, InsertMutations
<1>2. PICK pushed : pushed = Pushed(me.request) /\ Valid(me.request)
  BY <1>1 DEF Sound, RowsInv
<1>3. CASE handler' = [handler EXCEPT ![h] = Idle]
  <2>1. Moves(h, Idle)
    BY <1>3 DEF InsertMutations, Moves
  <2> QED
    BY <2>1, IdleInvariant
<1>4. CASE /\ \A m \in pushed : PolicyAllowsInsert(h, m)
           /\ handler' = [handler EXCEPT ![h].pc = "inserted", ![h].enabled = enabled,
                                         ![h].rows = Store!Fresh(pushed)]
  <2>1. PICK s : s = [me EXCEPT !.pc = "inserted", !.enabled = enabled,
                                !.rows = Store!Fresh(pushed)]
    OBVIOUS
  <2>2. /\ DOMAIN s = DOMAIN me
        /\ s.pc = "inserted" /\ s.enabled = enabled /\ s.rows = Store!Fresh(pushed)
        /\ s.request = me.request /\ s.locks = me.locks /\ s.revoked = me.revoked
    BY <1>1, <2>1 DEF Sound, IsState
  <2>3. Moves(h, s)
    BY <1>1, <1>4, <2>1 DEF InsertMutations, Moves
  <2>4. IsState(s) /\ WinInv(s)
    BY <1>1, <2>2 DEF Sound, IsState, WinInv, Pcs
  <2>5. RowsInv(s)
    BY <1>2, <2>2 DEF RowsInv, Store!Fresh
  <2>6. OriginInv(s)
    <3>1. me.revoked /\ Store!Fresh(pushed) # {} => FALSE
      BY <1>1, <1>4 DEF Sound, OriginInv, PolicyAllowsInsert, Store!Fresh
    <3>2. \A m \in Store!Fresh(pushed) : m.source = me.request.device /\ enabled
      BY <1>1, <1>4 DEF PolicyAllowsInsert, Store!Fresh
    <3> QED
      BY <2>2, <3>1, <3>2 DEF OriginInv
  <2>7. \A g \in Handlers \ {h} : Apart(handler[g], s)
    <3>1. \A g \in Handlers \ {h} : \A m \in pushed, n \in handler[g].rows : m.id # n.id
      BY <1>1, <1>2 DEF InsertMutations
    <3>2. \A g \in Handlers \ {h} : handler[g].locks \cap s.locks = {}
      BY <1>1, <2>2 DEF IInv, Apart
    <3> QED
      BY <2>2, <3>1, <3>2 DEF Apart, Store!Fresh
  <2> QED
    BY <2>3, <2>4, <2>5, <2>6, <2>7, MoveInvariant DEF Sound
<1> QED
  BY <1>1, <1>2, <1>3, <1>4 DEF InsertMutations

\* The keys that are written are locked, and were locked by nobody else.
LEMMA UpdateInvariant ==
  ASSUME IInv, NEW h \in Handlers, UpdateHeads(h)
  PROVE  IInv'
<1>1. PICK me : me = handler[h] /\ Sound(me) /\ me.pc = "inserted"
  BY DEF IInv, UpdateHeads
<1>2. PICK keys : keys = Store!Keys(me.rows)
  OBVIOUS
<1>3. PICK new : /\ Winners(h, new)
                 /\ handler' = [handler EXCEPT ![h].pc = "updated", ![h].heads = new,
                                               ![h].locks = @ \cup keys]
  BY <1>1, <1>2 DEF UpdateHeads
<1>4. PICK s : s = [me EXCEPT !.pc = "updated", !.heads = new, !.locks = @ \cup keys]
  OBVIOUS
<1>5. /\ DOMAIN s = DOMAIN me
      /\ s.pc = "updated" /\ s.heads = new /\ s.locks = me.locks \cup keys
      /\ s.request = me.request /\ s.rows = me.rows
      /\ s.revoked = me.revoked /\ s.enabled = me.enabled
  BY <1>1, <1>4 DEF Sound, IsState
<1>6. Moves(h, s)
  BY <1>1, <1>3, <1>4 DEF UpdateHeads, Moves
<1>7. IsState(s) /\ RowsInv(s) /\ OriginInv(s)
  BY <1>1, <1>5 DEF Sound, IsState, RowsInv, OriginInv, Pcs
<1>8. WinInv(s)
  <2>1. Win(me.rows, new)
    BY <1>1, <1>3 DEF Winners, Win
  <2> QED
    BY <1>2, <1>5, <2>1 DEF WinInv
<1>9. \A g \in Handlers \ {h} : Apart(handler[g], s)
  <2>1. AreFree(h, keys)
    BY <1>1, <1>2 DEF UpdateHeads
  <2> QED
    BY <1>1, <1>5, <2>1 DEF IInv, Apart, AreFree
<1> QED
  BY <1>6, <1>7, <1>8, <1>9, MoveInvariant DEF Sound
-----------------------------------------------------------------------------
(* The commit, which is also the step of the abstract store.               *)

\* Its rows are those of the push that are new when it commits.
LEMMA CommitRows ==
  ASSUME IInv, NEW h \in Handlers, Commit(h)
  PROVE  /\ Valid(handler[h].request)
         /\ handler[h].rows = Store!Fresh(Pushed(handler[h].request))
<1>1. RowsInv(handler[h]) /\ handler[h].pc = "updated"
  BY DEF IInv, Sound, Commit
<1> QED
  BY <1>1 DEF RowsInv, Store!Fresh

LEMMA CommitLog ==
  ASSUME IInv, NEW h \in Handlers, Commit(h)
  PROVE  LogInv' /\ LogIsAuthorised'
<1>1. Valid(handler[h].request) /\ handler[h].rows = Store!Fresh(Pushed(handler[h].request))
  BY CommitRows
<1>2. PICK rows : rows = handler[h].rows /\ log' = log \cup rows
  BY DEF Commit
<1>3. /\ \A m \in rows : Good(m) /\ \A n \in log : n.id # m.id
      /\ UniqueIds(rows)
  BY <1>1, <1>2 DEF Valid, UniqueIds, Store!Fresh
<1>4. (\A m \in log' : Good(m)) /\ UniqueIds(log')
  BY <1>2, <1>3 DEF IInv, LogInv, UniqueIds
<1>5. PICK me : me = handler[h] /\ OriginInv(me)
  BY DEF IInv, Sound
<1>6. PICK new : new = [mutation : rows, device : {me.request.device},
                        revoked : {me.revoked}, enabled : {me.enabled}]
  OBVIOUS
<1>7. origins' = origins \cup new
  BY <1>2, <1>5, <1>6 DEF Commit
<1>8. ASSUME NEW o \in new
      PROVE  /\ o.mutation \in rows
             /\ o.mutation.signed /\ o.mutation.app = App /\ o.mutation.namespace \in Namespaces
             /\ o.mutation.source = o.device /\ ~ o.revoked /\ o.enabled
  <2>1. /\ o.mutation \in rows /\ o.device = me.request.device
        /\ o.revoked = me.revoked /\ o.enabled = me.enabled
    BY <1>6
  <2>2. ~ me.revoked /\ me.enabled /\ o.mutation.source = me.request.device
    BY <1>2, <1>5, <2>1 DEF OriginInv
  <2> QED
    BY <1>3, <2>1, <2>2 DEF Good
<1>9. rows = {o.mutation : o \in new}
  <2>1. ASSUME NEW m \in rows
        PROVE  \E o \in new : o.mutation = m
    <3>1. PICK o : o = [mutation |-> m, device |-> me.request.device,
                        revoked |-> me.revoked, enabled |-> me.enabled]
      OBVIOUS
    <3>2. o \in new /\ o.mutation = m
      BY <1>6, <3>1
    <3> QED
      BY <3>2
  <2> QED
    BY <1>8, <2>1
<1>10. LogIsAuthorised'
  <2>1. log' = {o.mutation : o \in origins'}
    BY <1>2, <1>7, <1>9 DEF IInv, LogIsAuthorised
  <2>2. \A o \in origins' :
          /\ o.mutation.signed /\ o.mutation.app = App /\ o.mutation.namespace \in Namespaces
          /\ o.mutation.source = o.device /\ ~ o.revoked /\ o.enabled
    BY <1>7, <1>8 DEF IInv, LogIsAuthorised
  <2> QED
    BY <2>1, <2>2 DEF LogIsAuthorised
<1> QED
  BY <1>4, <1>10 DEF LogInv, Good

\* The new heads win against the old log, the old ones that stay against the
\* new rows.
LEMMA CommitHeads ==
  ASSUME IInv, NEW h \in Handlers, Commit(h)
  PROVE  HeadsAreWinners'
<1>1. PICK rows, new :
        /\ rows = handler[h].rows /\ new = handler[h].heads
        /\ log' = log \cup rows
        /\ heads' = [k \in DOMAIN heads \cup DOMAIN new |->
                      IF k \in DOMAIN new THEN new[k] ELSE heads[k]]
  BY DEF Commit
<1>2. Win(rows, new)
  BY <1>1 DEF IInv, Sound, WinInv, Commit
<1>3. /\ \A m \in rows : Good(m) /\ \A n \in log : n.id # m.id
      /\ \A n \in log : Good(n)
  <2>1. Valid(handler[h].request) /\ rows = Store!Fresh(Pushed(handler[h].request))
    BY <1>1, CommitRows
  <2> QED
    BY <2>1 DEF Valid, Store!Fresh, IInv, LogInv
<1>4. /\ DOMAIN heads = Store!Keys(log)
      /\ \A k \in DOMAIN heads : Store!KeyOf(heads[k]) = k /\ Store!IsWinner(heads[k], log)
  BY DEF IInv, HeadsAreWinners
<1>5. Store!Keys(log') = Store!Keys(log) \cup Store!Keys(rows)
  BY <1>1 DEF Store!Keys
<1>6. DOMAIN new \subseteq Store!Keys(rows)
  BY <1>2 DEF Win, Store!IsWinner, Store!Keys
<1>7. DOMAIN heads' = Store!Keys(log')
  BY <1>1, <1>2, <1>4, <1>5, <1>6 DEF Win
<1>8. ASSUME NEW k \in DOMAIN new
      PROVE  Store!KeyOf(new[k]) = k /\ Store!IsWinner(new[k], log')
  <2>1. /\ Store!KeyOf(new[k]) = k
        /\ new[k] \in rows
        /\ \A m \in rows : Store!KeyOf(m) = k => m = new[k] \/ Store!Outranks(new[k], m)
    BY <1>2 DEF Win, Store!IsWinner
  <2>2. ASSUME NEW n \in log, Store!KeyOf(n) = k
        PROVE  Store!Outranks(new[k], n)
    <3>1. k \in DOMAIN heads
      BY <1>4, <2>2 DEF Store!Keys
    <3>2. PICK m \in rows : Store!KeyOf(m) = k /\ Store!Outranks(m, heads[k])
      BY <1>2, <1>6, <3>1 DEF Win
    <3>3. heads[k] \in log /\ (n = heads[k] \/ Store!Outranks(heads[k], n))
      BY <1>4, <2>2, <3>1 DEF Store!IsWinner
    <3>4. Good(new[k]) /\ Good(m) /\ Good(heads[k]) /\ Good(n)
      BY <1>3, <2>1, <3>3
    <3>5. Store!Outranks(new[k], heads[k])
      BY <2>1, <3>2, <3>4, OutranksTransitive
    <3> QED
      BY <3>3, <3>4, <3>5, OutranksTransitive
  <2> QED
    BY <1>1, <2>1, <2>2 DEF Store!IsWinner
<1>9. ASSUME NEW k \in DOMAIN heads, k \notin DOMAIN new
      PROVE  Store!KeyOf(heads[k]) = k /\ Store!IsWinner(heads[k], log')
  <2>1. /\ Store!KeyOf(heads[k]) = k
        /\ heads[k] \in log
        /\ \A n \in log : Store!KeyOf(n) = k => n = heads[k] \/ Store!Outranks(heads[k], n)
    BY <1>4 DEF Store!IsWinner
  <2>2. ASSUME NEW m \in rows, Store!KeyOf(m) = k
        PROVE  Store!Outranks(heads[k], m)
    <3>1. ~ Store!Outranks(m, heads[k])
      BY <1>2, <1>9, <2>2 DEF Win, Store!Keys
    <3>2. Good(m) /\ Good(heads[k]) /\ m.id # heads[k].id
      BY <1>3, <2>1
    <3> QED
      BY <3>1, <3>2, OutranksTotal
  <2> QED
    BY <1>1, <2>1, <2>2 DEF Store!IsWinner
<1>10. \A k \in DOMAIN heads' :
         Store!KeyOf(heads'[k]) = k /\ Store!IsWinner(heads'[k], log')
  BY <1>1, <1>8, <1>9
<1> QED
  BY <1>7, <1>10 DEF HeadsAreWinners

\* The other transactions have locked the heads that they replace, so that the
\* commit changes none of those.
LEMMA CommitOthers ==
  ASSUME IInv, NEW h \in Handlers, Commit(h), NEW g \in Handlers, g # h
  PROVE  handler'[g] = handler[g] /\ Sound(handler[g])'
<1>1. handler'[g] = handler[g]
  BY DEF IInv, Commit
<1>2. PICK s, me : s = handler[g] /\ me = handler[h] /\ Sound(s) /\ Sound(me) /\ Apart(me, s)
                   /\ log' = log \cup me.rows /\ device' = device
                   /\ me.pc = "updated"
                   /\ heads' = [k \in DOMAIN heads \cup DOMAIN me.heads |->
                                IF k \in DOMAIN me.heads THEN me.heads[k] ELSE heads[k]]
  BY DEF IInv, Commit
<1>3. IsState(s) /\ OriginInv(s)'
  BY <1>2 DEF Sound, OriginInv
<1>4. RowsInv(s)'
  BY <1>2 DEF Sound, RowsInv, Apart
<1>5. ASSUME s.pc = "updated" PROVE Store!Keys(s.rows) \subseteq s.locks /\ Win(s.rows, s.heads)'
  <2>1. /\ Store!Keys(s.rows) \subseteq s.locks /\ Win(s.rows, s.heads)
        /\ Store!Keys(me.rows) \subseteq me.locks /\ Win(me.rows, me.heads)
    BY <1>2, <1>5 DEF Sound, WinInv
  <2>2. DOMAIN me.heads \subseteq Store!Keys(me.rows)
    BY <2>1 DEF Win, Store!IsWinner, Store!Keys
  <2>3. \A k \in Store!Keys(s.rows) :
          (k \in DOMAIN heads' <=> k \in DOMAIN heads) /\ (k \in DOMAIN heads => heads'[k] = heads[k])
    BY <1>2, <2>1, <2>2 DEF Apart
  <2> QED
    BY <2>1, <2>3 DEF Win
<1>6. Sound(s)'
  BY <1>3, <1>4, <1>5 DEF Sound, IsState, WinInv
<1> QED
  BY <1>1, <1>2, <1>6

LEMMA CommitInvariant ==
  ASSUME IInv, NEW h \in Handlers, Commit(h)
  PROVE  IInv'
<1>1. DOMAIN handler' = Handlers /\ DOMAIN device' = Devices /\ handler'[h] = Idle
  BY DEF IInv, Commit
<1>2. Sound(Idle)'
  BY DEF Sound, IsState, RowsInv, OriginInv, WinInv, Idle, Pcs
<1>3. \A g \in Handlers \ {h} : handler'[g] = handler[g]
  BY CommitOthers
<1>4. \A f, g \in Handlers : f # g => Apart(handler'[f], handler'[g])
  BY <1>1, <1>3 DEF IInv, Apart, Idle
<1>5. LogInv' /\ HeadsAreWinners' /\ LogIsAuthorised'
  BY CommitLog, CommitHeads
<1> QED
  BY <1>1, <1>2, <1>3, <1>4, <1>5, CommitOthers DEF IInv
-----------------------------------------------------------------------------
(* The invariant.                                                          *)

LEMMA InitInvariant == Init => IInv
<1> SUFFICES ASSUME Init PROVE IInv
  OBVIOUS
<1>1. DOMAIN handler = Handlers /\ DOMAIN device = Devices /\ LogIsAuthorised
  BY DEF Init, LogIsAuthorised
<1>2. Sound(Idle) /\ Apart(Idle, Idle)
  BY DEF Sound, IsState, RowsInv, OriginInv, WinInv, Apart, Idle, Pcs
<1>3. \A h \in Handlers : handler[h] = Idle
  BY DEF Init
<1>4. LogInv /\ HeadsAreWinners
  BY DEF Init, LogInv, UniqueIds, HeadsAreWinners, NoHeads, Store!Keys
<1> QED
  BY <1>1, <1>2, <1>3, <1>4 DEF IInv

\* No transition leads out of "revoked".
LEMMA DeviceInvariant ==
  ASSUME IInv, NEW d \in Devices, NEW to \in Lifecycles, ChangeDevice(d, to)
  PROVE  IInv'
<1>1. DOMAIN device' = Devices /\ DOMAIN handler' = Handlers /\ LogInv'
      /\ HeadsAreWinners' /\ LogIsAuthorised'
  BY DEF IInv, ChangeDevice, LogInv, HeadsAreWinners, LogIsAuthorised
<1>2. \A e \in Devices : device[e] = "revoked" => device'[e] = "revoked"
  BY DEF IInv, ChangeDevice, CanTransitionTo
<1>3. ASSUME NEW g \in Handlers
      PROVE  Sound(handler[g])'
  <2>1. PICK s : s = handler[g] /\ handler'[g] = s /\ Sound(s)
    BY DEF IInv, ChangeDevice
  <2>2. IsState(s) /\ RowsInv(s)' /\ WinInv(s)'
    BY <2>1 DEF ChangeDevice, Sound, RowsInv, WinInv, Win
  <2>3. OriginInv(s)'
    <3>1. s.pc \in {"begun", "locked"} => s.request.device \in Devices
      BY <2>1, VaultAssumption DEF Sound, RowsInv, Valid
    <3> QED
      BY <1>2, <2>1, <3>1 DEF Sound, OriginInv
  <2> QED
    BY <2>1, <2>2, <2>3 DEF Sound, IsState
<1>4. \A f, g \in Handlers : f # g => Apart(handler[f], handler[g])'
  BY DEF IInv, ChangeDevice, Apart
<1> QED
  BY <1>1, <1>3, <1>4 DEF IInv

\* Nothing that the invariant mentions changes.
LEMMA StutterInvariant ==
  ASSUME IInv, UNCHANGED <<device, log, heads, handler, origins>>
  PROVE  IInv'
<1>1. \A s : Sound(s) => Sound(s)'
  BY DEF Sound, IsState, RowsInv, OriginInv, WinInv, Win
<1>2. \A g \in Handlers : Sound(handler[g])'
  BY <1>1 DEF IInv, Sound, IsState, RowsInv, OriginInv, WinInv, Win
<1>3. \A f, g \in Handlers : f # g => Apart(handler[f], handler[g])'
  BY DEF IInv, Apart
<1> QED
  BY <1>2, <1>3 DEF IInv, LogInv, HeadsAreWinners, LogIsAuthorised

LEMMA NextInvariant == IInv /\ [Next]_vars => IInv'
<1> SUFFICES ASSUME IInv, [Next]_vars PROVE IInv'
  OBVIOUS
<1>1. ASSUME NEW h \in Handlers, Rollback(h) PROVE IInv'
  BY <1>1, IdleInvariant DEF Rollback, Moves
<1>2. CASE SwitchApplication \/ Tick \/ UNCHANGED vars
  BY <1>2, StutterInvariant DEF SwitchApplication, Tick, vars
<1> QED
  BY <1>1, <1>2, ValidateInvariant, BeginInvariant, LockInvariant, InsertInvariant,
     UpdateInvariant, CommitInvariant, DeviceInvariant DEF Next

THEOREM InductiveInvariant == Spec => []IInv
BY InitInvariant, NextInvariant, PTL DEF Spec

\* The head of every record is the greatest of its committed mutations, for any
\* pushes that run together: AppVault!HeadsAreWinners of the transaction.
THEOREM HeadsAreWinnersHolds == Spec => []HeadsAreWinners
<1>1. IInv => HeadsAreWinners
  BY DEF IInv
<1> QED
  BY <1>1, InductiveInvariant, PTL

\* What the log holds was signed, belongs to the application and has for its
\* source the device that pushed it, which was not revoked when its transaction
\* began; the application was enabled when it was inserted.
THEOREM LogIsAuthorisedHolds == Spec => []LogIsAuthorised
<1>1. IInv => LogIsAuthorised
  BY DEF IInv
<1> QED
  BY <1>1, InductiveInvariant, PTL

\* The transactions implement the store: a commit is a push, every other step
\* stutters.
LEMMA CommitIsPush ==
  ASSUME IInv, NEW h \in Handlers, Commit(h)
  PROVE  Store!Next
<1>1. PICK pushed : /\ pushed = Pushed(handler[h].request)
                    /\ handler[h].rows = Store!Fresh(pushed)
                    /\ handler[h].request \in Requests
  BY CommitRows DEF Valid
<1>2. log' = log \cup Store!Fresh(pushed)
  BY <1>1 DEF Commit
<1>3. HeadsAreWinners'
  BY CommitHeads
<1>4. /\ heads' \in [Store!Keys(log') -> log']
      /\ \A k \in Store!Keys(log') :
           Store!KeyOf(heads'[k]) = k /\ Store!IsWinner(heads'[k], log')
  <2>1. heads' = [k \in DOMAIN heads' |-> heads'[k]]
    BY DEF Commit
  <2>2. \A k \in Store!Keys(log') : heads'[k] \in log'
    BY <1>3 DEF HeadsAreWinners, Store!IsWinner
  <2>3. DOMAIN heads' = Store!Keys(log')
    BY <1>3 DEF HeadsAreWinners
  <2> QED
    BY <1>3, <2>1, <2>2, <2>3 DEF HeadsAreWinners
<1>5. Store!Push(pushed)
  BY <1>2, <1>4 DEF Store!Push
<1> QED
  BY <1>1, <1>5 DEF Store!Next, Pushed

THEOREM ImplementsStoreHolds == Spec => ImplementsStore
<1>1. Init => Store!Init
  BY DEF Init, Store!Init, NoHeads
<1>2. IInv /\ [Next]_vars => [Store!Next]_Store!vars
  BY CommitIsPush DEF Next, vars, Store!vars, Validate, BeginTransaction, LockHeads,
     InsertMutations, UpdateHeads, Rollback, ChangeDevice, SwitchApplication, Tick
<1> QED
  BY <1>1, <1>2, InductiveInvariant, PTL DEF Spec, ImplementsStore, Store!Spec
=============================================================================

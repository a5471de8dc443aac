------------------------------ MODULE AppVault ------------------------------
(***************************************************************************)
(* Pushes to an application vault: validate_app_vault_push of              *)
(* src/src/app_vault.rs, then one transaction under the constraints and    *)
(* row-level policies of src/schema/schema.sql, while other devices push,  *)
(* devices change their lifecycle and the application is switched off.     *)
(* The statements of the transaction are not in the repository; they       *)
(* follow src/docs/app-vault-step-up.md:55-67.                             *)
(*                                                                         *)
(* One user and one application: every key holds both.  Times are in units *)
(* of 1/Fraction seconds.  A mutation is a record with the fields id, app, *)
(* namespace, record, source, clock, updated, and whether it is valid and  *)
(* its signature verifies.                                                 *)
(***************************************************************************)
EXTENDS DeviceLifecycle, Naturals, Sequences

CONSTANTS
  Devices, Handlers,
  Requests,     \* [path, device, mutations]: path_app_id, the credential, the body
  App, Namespaces,   \* AppVaultPolicy, and the row of app_vault_applications
  MaxBatch, MaxSkew, \* max_batch_size, max_future_skew_seconds
  MaxClock,     \* i64::MAX
  Fraction,
  MaxTime       \* bounds the clock

ASSUME VaultAssumption ==
  /\ MaxBatch \in Nat /\ MaxSkew \in Nat /\ MaxClock \in Nat
  /\ Fraction \in Nat \ {0} /\ MaxTime \in Nat
  /\ \A r \in Requests :
       /\ r.device \in Devices
       /\ \A i \in 1 .. Len(r.mutations) :
            LET m == r.mutations[i]
            IN m.id \in Nat /\ m.source \in Nat /\ m.clock \in Nat /\ m.updated \in Nat

VARIABLES
  clock,
  device,   \* devices.lifecycle_state
  enabled,  \* app_vault_applications.enabled
  log,      \* committed rows of app_vault_mutations
  heads,    \* committed rows of app_vault_record_heads
  handler,
  origins   \* of each committed mutation, the device whose credential pushed it,
            \* whether that was revoked when its transaction began, and whether
            \* the application was enabled when the row was inserted

vars == <<clock, device, enabled, log, heads, handler, origins>>

Store == INSTANCE VaultStore WITH
  Pushes <- {{r.mutations[i] : i \in 1 .. Len(r.mutations)} : r \in Requests}

NoHeads == [k \in {} |-> {}]

Idle == [pc |-> "idle", request |-> <<>>, at |-> 0, revoked |-> FALSE, enabled |-> FALSE,
         rows |-> {}, heads |-> NoHeads, locks |-> {}]

Init ==
  /\ clock = 0
  /\ device = [d \in Devices |-> "active"]
  /\ enabled = FALSE
  /\ log = {}
  /\ heads = NoHeads
  /\ handler = [h \in Handlers |-> Idle]
  /\ origins = {}

Pushed(r) == {r.mutations[i] : i \in 1 .. Len(r.mutations)}
-----------------------------------------------------------------------------
\* What the policy accepts of one mutation.  chrono's timestamp() drops the
\* fraction of a second, and the caller's clock is in whole seconds.
AcceptsMutation(now, r, m) ==
  /\ m.app = r.path
  /\ m.namespace \in Namespaces
  /\ m.source = r.device
  /\ m.updated \div Fraction <= now \div Fraction + MaxSkew
  /\ m.clock <= MaxClock
  /\ m.signed

\* mutation_ids or record_clocks holds it already.
IsRepetition(m, n) ==
  \/ m.id = n.id
  \/ /\ m.namespace = n.namespace /\ m.record = n.record
     /\ m.source = n.source /\ m.clock = n.clock

\* validate_app_vault_push, with the lifecycle that the caller loaded.
PolicyAccepts(now, r, lifecycle) ==
  LET ms == r.mutations
  IN /\ lifecycle = "active"
     /\ r.path = App
     /\ Len(ms) \in 1 .. MaxBatch
     /\ \A i \in 1 .. Len(ms) : ms[i].valid /\ AcceptsMutation(now, r, ms[i])
     /\ \A i, j \in 1 .. Len(ms) : i # j => ~ IsRepetition(ms[i], ms[j])

\* Mutant: the lifecycle was checked before the transaction.
PolicyAllowsInsertOfAny(h, m) ==
  /\ m.source = handler[h].request.device
  /\ enabled /\ m.app = App /\ m.namespace \in Namespaces

\* Mutant: the application was checked before the transaction.
PolicyAllowsInsertDisabled(h, m) ==
  /\ m.source = handler[h].request.device
  /\ device[handler[h].request.device] = "active"
  /\ m.app = App /\ m.namespace \in Namespaces

\* The INSERT policy of app_vault_mutations looks at the claims of the
\* transaction and at the device and application rows of the moment.
PolicyAllowsInsert(h, m) ==
  /\ m.source = handler[h].request.device
  /\ device[handler[h].request.device] = "active"
  /\ enabled /\ m.app = App /\ m.namespace \in Namespaces

\* app_vault_mutations_future_skew, with all digits; received_at is now().
IsNotFromTheFuture(h, m) == m.updated <= handler[h].at + MaxSkew * Fraction
-----------------------------------------------------------------------------
(* The steps of a push.                                                    *)

Validate(h, r) ==
  /\ handler[h].pc = "idle"
  /\ PolicyAccepts(clock, r, device[r.device])
  /\ handler' = [handler EXCEPT ![h] = [Idle EXCEPT !.pc = "validated", !.request = r]]
  /\ UNCHANGED <<clock, device, enabled, log, heads, origins>>

\* BEGIN and the claims of the request: now() is fixed.
BeginTransaction(h) ==
  /\ handler[h].pc = "validated"
  /\ handler' = [handler EXCEPT
       ![h].pc = "begun", ![h].at = clock,
       ![h].revoked = device[handler[h].request.device] = "revoked"]
  /\ UNCHANGED <<clock, device, enabled, log, heads, origins>>

\* No other transaction has locked or written the head of one of these keys.
AreFree(h, keys) == \A g \in Handlers \ {h} : handler[g].locks \cap keys = {}

\* "lock the affected head rows": there is nothing to lock where a record has
\* no head yet.  In a stable order, so that waiting for all is no deadlock.
LockHeads(h) ==
  LET keys == Store!Keys(Pushed(handler[h].request)) \cap DOMAIN heads
  IN /\ handler[h].pc = "begun"
     /\ AreFree(h, keys)
     /\ handler' = [handler EXCEPT ![h].pc = "locked", ![h].locks = keys]
     /\ UNCHANGED <<clock, device, enabled, log, heads, origins>>

\* "insert idempotent mutation rows": an identifier that is used is left as it
\* is, one that another transaction is inserting is waited for, and a row that
\* a constraint or policy refuses ends the transaction.
InsertMutations(h) ==
  LET pushed == Pushed(handler[h].request)
      accepted == \A m \in pushed : PolicyAllowsInsert(h, m) /\ IsNotFromTheFuture(h, m)
  IN /\ handler[h].pc = "locked"
     /\ \A g \in Handlers \ {h} : \A m \in pushed, n \in handler[g].rows : m.id # n.id
     /\ \/ /\ accepted
           /\ handler' = [handler EXCEPT ![h].pc = "inserted", ![h].enabled = enabled,
                                         ![h].rows = Store!Fresh(pushed)]
        \/ /\ ~ accepted
           /\ handler' = [handler EXCEPT ![h] = Idle]
     /\ UNCHANGED <<clock, device, enabled, log, heads, origins>>

\* Mutant: a head that was not there to be locked is taken to be still missing.
WinnersByLock(h, new) ==
  LET rows == handler[h].rows
  IN /\ \A k \in DOMAIN new : Store!KeyOf(new[k]) = k /\ Store!IsWinner(new[k], rows)
     /\ \A k \in Store!Keys(rows) :
          k \in DOMAIN new
            <=> (k \in handler[h].locks =>
                   \E m \in rows : Store!KeyOf(m) = k /\ Store!Outranks(m, heads[k]))

\* The new heads: the winners among the new rows, where they also win against
\* the head that is there now.
Winners(h, new) ==
  LET rows == handler[h].rows
  IN /\ \A k \in DOMAIN new : Store!KeyOf(new[k]) = k /\ Store!IsWinner(new[k], rows)
     /\ \A k \in Store!Keys(rows) :
          k \in DOMAIN new
            <=> (k \in DOMAIN heads =>
                   \E m \in rows : Store!KeyOf(m) = k /\ Store!Outranks(m, heads[k]))

\* "update only winning heads": waits for the heads that others have locked or
\* written and compares with what they are then.
UpdateHeads(h) ==
  LET keys == Store!Keys(handler[h].rows)
  IN /\ handler[h].pc = "inserted"
     /\ AreFree(h, keys)
     /\ \E won \in SUBSET keys : \E new \in [won -> handler[h].rows] :
          /\ Winners(h, new)
          /\ handler' = [handler EXCEPT ![h].pc = "updated", ![h].heads = new,
                                        ![h].locks = @ \cup keys]
     /\ UNCHANGED <<clock, device, enabled, log, heads, origins>>

Commit(h) ==
  LET me == handler[h]
  IN /\ me.pc = "updated"
     /\ log' = log \cup me.rows
     /\ heads' = [k \in DOMAIN heads \cup DOMAIN me.heads |->
                    IF k \in DOMAIN me.heads THEN me.heads[k] ELSE heads[k]]
     /\ origins' = origins \cup
          [mutation : me.rows, device : {me.request.device},
           revoked : {me.revoked}, enabled : {me.enabled}]
     /\ handler' = [handler EXCEPT ![h] = Idle]
     /\ UNCHANGED <<clock, device, enabled>>

\* The client goes away, the process dies, or PostgreSQL ends one of several
\* transactions that wait for each other.
Rollback(h) ==
  /\ handler[h].pc # "idle"
  /\ handler' = [handler EXCEPT ![h] = Idle]
  /\ UNCHANGED <<clock, device, enabled, log, heads, origins>>

\* Nothing that a push holds prevents a change of its device.
ChangeDevice(d, to) ==
  /\ to # device[d]
  /\ CanTransitionTo(device[d], to)
  /\ device' = [device EXCEPT ![d] = to]
  /\ UNCHANGED <<clock, enabled, log, heads, handler, origins>>

\* The application starts out disabled; an operator enables it, and may not
\* keep it so.
SwitchApplication ==
  /\ enabled' = ~ enabled
  /\ UNCHANGED <<clock, device, log, heads, handler, origins>>

Tick ==
  /\ clock < MaxTime
  /\ clock' = clock + 1
  /\ UNCHANGED <<device, enabled, log, heads, handler, origins>>

Next ==
  \/ \E h \in Handlers :
       \/ \E r \in Requests : Validate(h, r)
       \/ BeginTransaction(h)
       \/ LockHeads(h)
       \/ InsertMutations(h)
       \/ UpdateHeads(h)
       \/ Commit(h)
       \/ Rollback(h)
  \/ \E d \in Devices : \E to \in Lifecycles : ChangeDevice(d, to)
  \/ SwitchApplication
  \/ Tick

Spec == Init /\ [][Next]_vars
-----------------------------------------------------------------------------
(* Properties.                                                             *)

\* Every record with a mutation has a head, and it is the greatest of all its
\* committed mutations, whichever pushes ran together and whether or not there
\* was a head to lock when they began (the comparison of the last statement).
HeadsAreWinners ==
  /\ DOMAIN heads = Store!Keys(log)
  /\ \A k \in DOMAIN heads : Store!KeyOf(heads[k]) = k /\ Store!IsWinner(heads[k], log)

\* A push happens as one step of the store, with all its mutations that were
\* new by then and their heads, or not at all: repeated, refused for one of its
\* mutations, rolled back or overlapping with others that use its identifiers.
ImplementsStore == Store!Spec

\* Whatever the log holds was signed, is of the application and has for its
\* source the device whose credential pushed it.  That was not yet revoked when
\* the transaction began and the application was enabled when the row was
\* inserted, although the policy had looked at the device earlier and nothing
\* locks either.
LogIsAuthorised ==
  /\ log = {o.mutation : o \in origins}
  /\ \A o \in origins :
       /\ o.mutation.signed /\ o.mutation.app = App /\ o.mutation.namespace \in Namespaces
       /\ o.mutation.source = o.device
       /\ ~ o.revoked /\ o.enabled
=============================================================================

# ClipTown backend: TLA+ models and proofs

This directory specifies the parts of the ClipTown Rust backend whose
correctness depends on order, time or concurrency: the offline-first sync
engine and its delivery, the MemeBank transfer API with its idempotency keys,
its listing and the service it runs in, delegated authorization, external
step-up authorisation, and pushes to application vaults. TLC checks each of
them on small instances; TLAPS proves every safety property and refinement that
holds there for every value of the constants. Liveness is model-checked only.

Paths such as `src/src/sync_protocol.rs` are relative to the directory that
holds both `src/` (the repository) and `tla/` (this project).

| prefix | meaning |
| --- | --- |
| SP | `src/src/sync_protocol.rs` |
| MR | `src/src/memebank_routes.rs` |
| MT | `src/src/memebank_transfer.rs` |
| MA | `src/src/memebank_auth.rs` |
| MI | `src/src/memebank_integration.rs` |
| AV | `src/src/app_vault.rs` |
| SQL | `src/schema/schema.sql` |

## 1. Inventory

### Sync engine (SP) — modelled

*State.* `SyncEngine`: `server_sequence`, one conflict winner per object
(`records`), the append-only `log`, and the replay window (`replay_index`, a
map, and `replay_order`, a queue) of at most `replay_capacity` identifiers.

*Operations.* `new`, `transitioned` (validate, look up the window, sequence,
resolve, append, remember), `apply` (`transitioned` and commit), `pull` (one
page after a cursor), `snapshot`, `restore`/`validate_snapshot`.

*Interactions.* The engine is a pure state machine under a transport and
persistence shell which the repository does not contain: the documentation of
`transitioned` (SP:126-133) says that the shell persists the returned engine
before it commits it, and that the HTTP server, the cloud relay and local peers
run the same transition.

*Hard behaviours.* The same mutations in different orders at different peers;
retries inside and after the replay window; an identifier reused with other
content; a deletion racing an edit of the same clock; the window at its limit;
the sequence at its largest value; a crash between persisting and committing;
pages taken while the log grows; a snapshot that is accepted but is no state
that the engine could reach.

*Correct when* a retry inside the window makes no second entry and is answered
with its own entry; the head of an object is the winner of its whole history
whatever the order; a deleted object stays deleted; pages neither skip nor
repeat; whatever a client was told survives a crash; every snapshot a running
engine takes can be restored.

### MemeBank transfer API (MR, MT, SQL:950-1027) — modelled

*State.* The tables `accounts`, `memebank_transfers` and
`memebank_transfer_idempotency`, and per request in progress: the captured
`now`, the row read, the uncommitted writes and the advisory lock.

*Operations.* `create_transfer`, `acknowledge_transfer`, `cancel_transfer`,
`get_transfer`, `list_transfers`. Each runs awaited SQL statements in one
PostgreSQL transaction (READ COMMITTED, row level security by subject).

*Interactions.* Handlers meet in the database only: the row of the account
(`ensure_account`), `pg_advisory_xact_lock` over subject and key, the unique
index on (subject, key), the row of the transfer, and the clock, by which a
pending transfer is shown as expired without being written so.

*Hard behaviours.* Two requests with one key; two keys and one transfer; a
cancel, which takes no lock; a binding or a transfer that expires during a
request; a client that disconnects between two statements or loses the answer;
waiting for rows, keys and accounts in one transaction; a list that is paged
while transfers are created (some committed late), settled and expire.

*Correct when* a key has one effect while its binding lives, a replay finds the
result of its own request, a terminal state is final, answers do not contradict
each other, every call ends, every commit is one atomic step of the contract
that the prototype (MI) states, and a paging client sees every transfer that
stays, once, in order.

### HTTP service (`main.rs`) — partly modelled

*State.* Whether the process is down, serving or draining, the pool of
database connections with its size, and per request what it knows so far.

*Operations.* `run` (configuration, pool, authenticator, listener, serve),
graceful shutdown on a signal; `/`, `/healthz` and `/readyz`, which keep no
state and are left out.

*Interactions.* Every transfer request is authorised by an introspection at the
shared-auth service, then takes one connection of the pool for its transaction.

*Hard behaviours.* A session revoked while the answer is on its way; all
connections held by transactions that wait for each other; a COMMIT whose answer
is lost; a kill between any two steps and a restart; a shutdown with requests at
every stage.

*Correct when* what is committed was authorised, a retry after any failure
finds what was committed, nothing ended keeps a connection or a lock, every
request ends, and a draining process stops.

### Delegated authorization (MA, MT:24-180, and MI:104-347) — modelled

*State.* None: a decision over the claims of one introspection, the operation
and the time. The prototype holds a second, older copy of the policy.

*Correct when* only a current token of the right client, audience and scope, and
for writes a recent strong authentication, grants; when what lapsed does not
come back; and when it is known where the two policies differ.

### MemeBank integration prototype (MI) — partly modelled

`main.rs` declares no such module, so nothing of it runs. It is the repository's
statement of the transfer contract with atomic operations: records, idempotency
and expiry, which `IntegrationPrototype` takes as the abstract specification of
the routes. Its envelope formats, cursor check and SQL file are left out.

### Application-vault push (AV:180-256, SQL:417-599, 824-840) — modelled

*State.* `app_vault_mutations` (append-only, identifiers unique),
`app_vault_record_heads`, `app_vault_applications.enabled`, the devices, and
pushes in progress with their locks and uncommitted rows.

*Operations.* `validate_app_vault_push` (pure Rust), then a transaction: lock
the heads that exist, insert the mutations under the tables' constraints and
row-level policy, update the heads that the batch wins, commit. The repository
has the policy, constraints and triggers; the transaction's statements are the
prose of `src/docs/app-vault-step-up.md:50-67`.

*Hard behaviours.* Two pushes with the first mutations of one record, where there
is no head to lock; a batch repeated after a lost answer, in part or under used
identifiers; a device revoked or the application switched off in between; one
refused row in a batch.

*Correct when* a push happens whole or not at all, the head of a record is the
greatest of its mutations, and each logged mutation is one of the device that
pushed it, begun before that device was revoked and inserted while the application
was enabled.

### External step-up (AV:258-408, SQL:600-784) — modelled

*State.* Challenges with `consumed_at`/`invalidated_at`, proofs with
`verified_at`/`consumed_at`, the lifecycle of devices, and transactions in
progress.

*Operations.* `validate_step_up_authorization` (pure Rust),
`consume_external_step_up` (one SELECT ... FOR UPDATE and two UPDATEs in the
transaction of the protected action). Issuing, storing and invalidating are
SQL writes without code in the repository; the tables' keys and CHECKs bound
what they can do.

*Hard behaviours.* Two transactions with one challenge; a device revoked
between policy, BEGIN, SELECT and COMMIT; two copies of the same rules, one in
whole seconds and one with all digits, each with an allowance for skewed clocks.

*Correct when* a challenge authorises one action, exactly the one it was issued
for and within both windows, but for the skew; a device revoked before the
transaction starts performs nothing; and the two copies of the rules differ inside
a second only.

### Other components

| component | state and operations | status |
| --- | --- | --- |
| Device lifecycle (`account_security.rs`) | `can_transition_to`; PIN, unlock and OTP policies as bounds | transitions modelled in `DeviceLifecycle`; the bounds are comparisons of constants |
| Encrypted object manifests (`encrypted_objects.rs`) | `EncryptedObjectManifest::validate`, `ObjectGrantPolicy::validate` | not modelled: comparisons of one value's fields with constants, no state and no arithmetic |
| Sync model checker binary (`bin/sync-model-check.rs`) | exhaustive test driver of the engine | not modelled; the catalogue of `MCSyncEngine` follows it |
| Tables without code (SQL: prekeys, mailbox, recovery, clips, uploads) | tables and policies only | not modelled: nothing in the repository writes them |
| Shared-auth client (`vendor/`) | HTTP client | not modelled: vendored |
| Scripts, deployment, conformance text | | not modelled: not part of the running program |

## 2. Modules

```
SyncCore                    the engine as operators on an engine value
  SyncCoreProofs            TLAPS: what one transition does to any engine
  SyncEngine                one engine and the caller of apply
    LastWriterWins          abstract store that SyncEngine implements
    SyncRestore             any snapshot that validate_snapshot accepts
      SyncEngineProofs      TLAPS, of both
  SyncPeers                 several engines, deliveries in any order
  SyncShell                 persist/commit, crashes, retries, paging devices
    SyncDeliveryProofs      TLAPS, of both
TransferPolicy              pending -> terminal states, expiry (pure)
  MemebankTransfers         create/acknowledge/cancel/get, statement by statement
    MemebankTransfersProofs TLAPS
    IntegrationPrototype    abstract contract that serial calls implement
    TransferService         authorization, pool, faults, shutdown around them
      TransferServiceProofs TLAPS, of DelegatedPolicy too
  TransferListing           list_transfers with cursor, filter and late commits
    TransferListingProofs   TLAPS
DelegatedPolicy             adapter, policy of the routes, policy of the prototype
DeviceLifecycle             can_transition_to
  StepUpPolicy              the Rust and the SQL rules (pure)
    StepUp                  policy, transaction, locks, devices
      StepUpProofs          TLAPS
  AppVault                  pushes, statement by statement
    VaultStore              abstract store that AppVault implements
    AppVaultProofs          TLAPS
```

`MC*` modules hold catalogues of small values and symmetry sets. `PROJECT.json`
maps every definition to the lines it translates.

### How state and actions correspond to the code

**SyncCore** keeps the six fields of the Rust struct under their own names.
Strings are numbers that stand for the rank of the string in its lexicographic
order, because `wins_conflict` compares them; 0 is an identifier (or payload)
that `validate_mutation` refuses. The payload of a kind is one number, since
the engine only tests it and compares it for equality. `MaxSequence` is
`u64::MAX`. `transitioned` is `IsAccepted` and `Accepted` on success,
`IsReplay`, `IsIdempotencyConflict` and `ValidMutation`/`IsExhausted` on its
other returns; `remember_replay` is `RememberedOrder` and `ExpiredIds`;
`pull` is `CanPull` and `Page`, the first entries of `Later`, which takes the
log in order as `filter` does; `validate_snapshot` is `ValidSnapshot`.
`SyncEngine!Apply` is the whole of `apply`, with the returned `ApplyResult` or
error in `reply`.

**SyncShell** splits `apply` where its documentation allows a crash: `Persist`
writes the transition, `Commit` makes it operational and answers. Devices hold a
cursor and what they received; a page in flight survives the server's crash.

**MemebankTransfers** has one action per awaited SQL statement; `handler[h].pc`
names the next one. Writes stay in `handler[h].writes` until `Commit`. READ
COMMITTED means: a statement reads committed rows (and its own writes, which no
handler reads back), an UPDATE or a conflicting INSERT waits for the writer of
the row. The advisory lock is held by every handler of the key between
`LockIdempotency` and the end of its transaction (`HoldsLock`). `now` is read
once, in `Begin`, as in the code. `Disconnect` drops the future at any await:
the transaction rolls back, or, after the commit, the answer is lost. A call
record stands for all that operation, normalized route and digest tell apart,
so `SameRequest` is equality of calls. `Enter` is what each handler does before
its transaction; `Begin` adds the operation's own checks; `Query` is the next
statement before the commit, `Statement` also the commit.

**TransferService** extends `MemebankTransfers` and `DelegatedPolicy` and
replaces the environment of the former. `request[h].stage` goes from `sent` (the
introspection is on its way) to `known` (answered) to `running`, when
`Authorize` runs the policy and `Begin` at one moment, since no await separates
them. `Acquire` is `database.begin`; every statement and the commit need the
connection. `RunQuery` and `RunCommit` are those of `MemebankTransfers`;
`QueryFails` and `CommitUnanswered` are the errors mapped to
`temporarily_unavailable`, before and after the commit took effect. `effects` is
a history of what was committed and by which authority.

**IntegrationPrototype** has one action per operation; `Records` and
`IdempotencyRecords` in `MemebankTransfers` are the refinement mapping.

**DelegatedPolicy** takes the introspection answer as a record: optional times
are sets of at most one time, scopes and methods sets, overlong or absent
strings values outside `Names`. `iat` and `nbf` are separate fields: the adapter
requires `nbf` and passes it on as the start of the token, the prototype looks
at `iat` only.

**TransferListing** takes one SELECT per page, for which the handler has read the
clock up to `Delay` ticks before. A row becomes visible up to `Delay` ticks after
its `created_at`, because create reads the clock before it waits for its locks.
`Settle` is the commit of an acknowledgement or cancel that read the row as pending;
it may replace what another settled after that (`settled` is when a row first was).
The database compares ticks, the response whole seconds.

**StepUp** runs the Rust policy, `BEGIN` (which fixes `transaction_timestamp()`),
the SELECT on the snapshot of the statement, the wait for the row locks with the
re-evaluation that READ COMMITTED performs on the locked rows, and the commit of
both markers with the protected action. The device row is joined, not locked, so
its lifecycle is the one of the SELECT. Times are ticks: the SQL and the CHECKs of
the tables compare them as they are, the Rust policy what `Second` leaves of them
(`timestamp()` for the proof; the clock and the challenge reach it in whole seconds
by its signature). `done` keeps each committed action with the request, rows and
time it was decided on.

**AppVault** has one action per statement of the push. `LockHeads` can lock only
heads that exist; `InsertMutations` waits for a transaction that is inserting
one of its identifiers (the unique index), drops identifiers that are used
(idempotent rows), and ends the transaction when the policy or a CHECK refuses a
row; `UpdateHeads` waits for heads that others have locked or written meanwhile
and compares with what they are then. `received_at` is fixed at `BEGIN`
(`handler[h].at`); times have fractions, which the Rust comparison drops and the
CHECK keeps. `origins` is a history: for each logged mutation the device whose
transaction inserted it, whether it was revoked when that transaction began, and
whether the application was enabled when the rows were inserted.

## 3. Runs

| run | question | bounds | states |
| --- | --- | --- | --- |
| `sync_engine` | one engine, every order of six mutations | window 2, sequences up to 5 | 2 485 |
| `sync_peers` | two engines, deliveries in any order | window 1, sequences up to 4, five mutations | 90 951 |
| `sync_shell` | crash, retry, paging; liveness | window 1, sequences up to 3, page limit 1, 2 devices, 1 crash | 4 084 |
| `sync_restore` | every small snapshot that is accepted | log of at most 2, sequences up to 4 | 4 399 |
| `transfers_serial` | two subjects, calls one after another; refinement of the prototype | 3 calls, clock up to 3 | 367 046 |
| `transfers_concurrent` | two handlers, one key | 3 calls, clock up to 3, two bodies | about 1.5 million |
| `transfers_service` | authorization, pool, faults, shutdown; liveness | 2 handlers, 2 keys, 3 calls, pool of 1 or 2, clock up to 1 | about 68 000 |
| `transfers_reopened` | violation, see section 6 | two handlers, two keys | |
| `transfers_unavailable` | violation, see section 6 | one handler, two keys | |
| `transfer_listing` | paging while transfers change | 3 ids, limits 1 and 2, clock up to 2 in half seconds | 1 580 740 |
| `step_up` | competing proofs and transactions | 2 handlers, 2 challenges, 6 proofs, clock up to 2 in half seconds | 506 623 |
| `vault_push` | overlapping pushes of two devices; refinement of the store | 2 handlers, 8 batches over 2 records, clock up to 1 | 623 006 |

Why these bounds reach the interesting cases:

* *Sync.* A window of one or two with sequences up to 3–5 fills and expires
  several times, so an identifier is accepted again after it was forgotten. The
  catalogues decide conflicts by every field of the order: clock, deletion,
  device, identifier; they contain a reused identifier and a malformed digest.
  The sequence reaches `MaxSequence` in every run.
* *Transfers.* A body expires after three ticks and a binding after at most two,
  so bindings expire before, with and after their transfer within the clock.
  Three calls are a create, and two calls that race on it, or two creates of one
  key around its expiry and a retry.
* *Service.* The database starts with a transfer that an earlier run created, so
  three calls are that one and two that meet on its key or row, with one
  connection or two. The account row exists from the start, so nobody waits for it
  in this run; `transfers_concurrent` inserts it. The delete token expires at the last tick, and the session can
  be revoked at every stage. Kills and restarts are not bounded.
* *Vault.* The batches contain two first mutations of one record with equal
  clocks, a batch that shares an identifier with its own retry and one with
  another device's, a mutation inside the last allowed second and after the last
  allowed moment, an unsigned one, and one of another device. Two pushes overlap
  everywhere.
* *Listing.* Two ticks per second separate the database's comparison from the
  response's; creation times repeat; a delay of one tick lets a row appear behind
  the clock; a transfer lives for one tick, so some expire between two pages and in
  the middle of a second; with three ids and a limit of one there are three pages.
* *Step-up.* Two ticks per second, a skew of one second and lifetimes of at most two:
  limits fall on a second and inside one. Two challenges, created after the clock
  begins; proofs issued before them, as early as the skew allows or a tick too
  early, that expire inside a second, or outlive their challenge by one or two ticks,
  name another action or are forged, competing to be stored; a request with
  another body and one with another device's credential.

### What the properties say

* `ReplayWindow`, `RetriedOnce`: two log entries with one identifier are more
  than `ReplayCapacity` apart; also across crashes.
* `ReplyNamesItsEntry`, `AckedIsDurable`: a success names the log entry of the
  caller's own mutation, and that entry is never lost.
* `NoResurrection`, `Convergence`, `RedeliveryIsHarmless`, `LastWriterWins`:
  heads are a function of what was accepted, not of the order, not of how often.
* `SnapshotRestores`, `SequencesStayFresh`, `PagesPartitionTheLog`, `StaysRestorable`:
  snapshots of a running engine are accepted; from any accepted snapshot sequences
  are fresh and pages partition what is pending, gaps included, and what was
  restored can be saved and restored again.
* `CursorWithinServer`, `SeenIsLogPrefix`, `CatchUp`: a device has exactly the log
  up to its cursor and reaches its end.
* `OneEffectPerKey`, `LookupStaysTrue`: one transfer per live key; what
  `active_idempotency` read is still true at the end of its transaction.
* `BindingsNameTheirTransfer`, `AnswersMatchCalls`: a replay finds the result of
  its own request and subject.
* `AnswersAgree`, `ImplementsPrototype`: hold when calls do not overlap
  (`transfers_serial`): answers never show two terminal states, and each commit is
  one atomic operation of the contract. `TerminalIsFinal` is proved for them and
  violated when calls overlap (section 6).
* `EffectsWereAuthorised`: whatever was committed had a token that was good for
  it when it was decided, of a session that was live when the auth service
  answered, and never of one revoked before the request arrived.
* `EffectsCanBeReplayed`: a keyed call whose client was told nothing, or an error,
  is found by the retry while its binding lives, across kills and restarts.
* `LocksHaveConnections`, `EveryRequestEnds`, `Drains`: no path out of a handler
  keeps a connection or lock; there is no cycle of waiting over the pool, account
  rows, keys and transfer rows; a draining process stops.
* `ListedOnceInOrder`, `NothingSkipped`, `ShownAsFiltered`: see their comments;
  the last allows the one second in which filter and response disagree.
* `OneActionPerChallenge`, `RevokedDevicesStartNothing`: see section 1.
* `ActionsWereAuthorised`: a committed action is the request of its challenge, with
  a genuine proof; it happened before the proof expired, and the proof expired no
  later than the challenge; the challenge was created, and the proof issued, no
  later than the skew after the action, and the challenge no later than the skew
  after the proof. The SQL allows exactly this, so the lower bounds are no stronger.
* `PoliciesAgreeToTheSecond`: where one copy of the rules accepts a stored proof and
  the other does not, a limit and the time compared with it lie in one second, and
  the property says which. It cannot be stronger: section 6 has an example of
  either direction.
* `HeadsAreWinners`, `ImplementsStore`, `LogIsAuthorised`: a push is one atomic
  step of `VaultStore`, with the winners as heads, although some records have
  nothing to lock; the log holds exactly the mutations of `origins`, each signed, of
  this application, from the device it names, in a transaction that began before
  that device was revoked, inserted while the application was enabled.

Every property has a mutant, a plausible bug of the definition it is about
(`PROJECT.json`, "mutants"; the operators marked "Mutant:" in the modules), and
TLC finds the property violated when the mutant replaces the definition.

### Fairness

* `SyncShell`: weak fairness of `Commit`, `Restart` and each device's `Pull` (the
  shell finishes what it persisted, is restarted by its supervisor, and devices
  poll), strong fairness of `ReceivePage`: a page may be lost again and again,
  but not always. Crashes are bounded by `MaxCrashes`; no client is assumed to
  submit anything.
* `TransferService`: weak fairness of each handler's `Progress` and of `Stop`. The
  HTTP client bounds every introspection and the pool every wait for a
  connection, futures are polled, PostgreSQL wakes the waiter of a free lock, and
  axum returns when the last request has ended. A handler is at one stage at a
  time, so fairness of the disjunction is fairness of each stage. Lock waits need
  no strong fairness because calls are bounded (`MaxCalls`): no handler is
  overtaken forever. Clients, faults, signals, kills and restarts are possible
  and never assumed.
* The other specifications state safety only and have no fairness.

`CHECK_DEADLOCK FALSE` is set where a behaviour may really come to rest: all
calls were made, all sequences given, the list has ended.

## 4. Proofs

| module | theorem | what it says |
| --- | --- | --- |
| `SyncEngineProofs` | `TypeCorrect`, `ReplayWindowHolds`, `ReplyNamesItsEntryHolds`, `NoResurrectionHolds`, `SnapshotRestoresHolds` | the invariants of `sync_engine` |
| | `ImplementsLastWriterWins` | `SyncEngine!Spec => LastWriterWins!Spec` |
| | `SequencesStayFreshHolds`, `PagesPartitionTheLogHolds`, `StaysRestorableHolds` | the invariants of `sync_restore`, for every set of snapshots |
| `SyncDeliveryProofs` | `ConvergenceHolds`, `RedeliveryIsHarmlessHolds` | the properties of `sync_peers`, for any number of peers |
| | `AckedIsDurableHolds`, `RetriedOnceHolds`, `SeenIsLogPrefixHolds`, `CursorWithinServerHolds` | the invariants of `sync_shell`, for any number of devices and crashes and every page limit |
| | `AlwaysRestorable` | the persisted snapshot always passes `validate_snapshot` |
| `MemebankTransfersProofs` | `TypeCorrect`, `OneEffectPerKeyHolds`, `LookupStaysTrueHolds`, `AnswersMatchCallsHolds` | the invariants of `transfers_concurrent`, for any number of handlers and calls |
| | `BindingsNameTheirTransferHolds` | the invariant of `transfers_serial`, also for concurrent calls |
| | `AnswersAgreeHolds` | `Serial => (Spec => []AnswersAgree)` |
| | `ImplementsPrototypeHolds` | `Serial => (Spec => Prototype!Spec)` |
| | `TerminalIsFinalHolds` | `Serial => (Spec => TerminalIsFinal)`: what `transfers_reopened` refutes needs two requests that overlap |
| `TransferServiceProofs` | `EffectsWereAuthorisedHolds`, `EffectsCanBeReplayedHolds`, `LocksHaveConnectionsHolds` | the invariants of `transfers_service`, for every set of tokens, requests and pool sizes |
| | `TransfersStayCorrect` | `OneEffectPerKey`, `LookupStaysTrue` and `BindingsNameTheirTransfer` in the service too |
| | `PrototypeDiffersInNotBefore` | of what the prototype's policy grants, the routes' policy grants exactly the tokens whose `nbf` has come, but for the skew, and whose lifetime from `nbf` is within bounds |
| | `GrantsHaveNoGaps` | granted at two times, granted at all times between |
| `TransferListingProofs` | `TypeCorrect`, `ListedOnceInOrderHolds`, `NothingSkippedHolds`, `ShownAsFilteredHolds` | the invariants of `transfer_listing`, for every page size, filter, delay and precision |
| `StepUpProofs` | `TypeCorrect`, `OneActionPerChallengeHolds`, `ActionsWereAuthorisedHolds`, `RevokedDevicesStartNothingHolds`, `PoliciesAgreeToTheSecondHolds` | the invariants of `step_up` |
| `AppVaultProofs` | `HeadsAreWinnersHolds`, `LogIsAuthorisedHolds` | the invariants of `vault_push` |
| | `ImplementsStoreHolds` | `AppVault!Spec => VaultStore!Spec` |

**Assumptions.** `MutationsAssumption` (mutations are records of the Rust type),
`CapacityAssumption` (`replay_capacity > 0`, which `new` enforces),
`SequenceAssumption`, `PageLimitAssumption` (a page has room for an entry, which
`pull` enforces), `SnapshotsAssumption` (snapshots are records of the Rust type);
for transfers `TimesAssumption`, `BodiesAssumption` and `ReceiptsAssumption`
(times are natural numbers, the shortest retention and the time to live positive,
receipts are dispositions); for the service `ServiceAssumption` (introspections
have the types that the client decodes, a request's subject is its token's, a pool
has a connection, and the transfer that the database starts with was one of the
calls); for the listing `ListingAssumption` (types, and a positive page limit);
for step-up `PolicyAssumption` (a positive lifetime, at least one tick per second), `RowsAssumption` (rows
satisfy their keys and CHECKs) and `InputsAssumption`; for the delegated policies
`NamesAssumption` and `PolicyAssumption` (UUIDs are portable, configured names
acceptable, bounds not negative, the prototype's lifetime the shorter); for the
vault `VaultAssumption` (types of requests and bounds). `SyncPeers` assumes that
an identifier is not reused with other content (`UniqueIdsAssumption`): engines that
met the two in different orders need not agree. TLC evaluates them in every run of
those modules. Three theorems about transfers have the hypothesis `Serial`, at most
one handler: they are false without it (section 6), and it bounds neither calls,
keys, subjects nor disconnections.

**Sync engine.** The stated properties are not inductive: that a retry makes no
second entry says nothing about which identifiers the window holds. `EngineInv`
(in `SyncCoreProofs`) adds that the log is dense (entry *i* has sequence *i*:
`LogInv`), that the window is exactly the tail of the log (`WindowInv`), that
equal identifiers are spaced (`SpacedInv`) and that every head beats all the rest
of its object's log (`HeadsInv`). `WindowInv` gives that expiry removes the oldest
identifier and no retained one, hence `SpacedInv`; transitivity and totality of
`wins_conflict` (`WinsTransitive`, `WinsTotal`) give `HeadsInv`, and with it the
refinement: each step of the engine is a step of the last-writer-wins store or a
stutter. `AcceptedKeepsInv`, `NewEngineInv` and `InvIsValidSnapshot` say all this
of a single transition, so that peers and the shell use them as they are.

**Peers and shell.** In `SyncPeers` every engine satisfies `EngineInv`; two heads
of one object over the same known mutations beat each other unless they are the
same mutation, and the order never reaches the server sequence when identifiers
differ. In `SyncShell`, `StagedInv` ties the operational engine to the persisted
one: they are equal unless a transition is staged, and then the persisted one is
the staged one and its answer names one of its log entries. `DevicesInv` says that
a device has seen exactly the persisted log up to its cursor, and that a page in
flight is the stretch from there to the cursor it brings; `DevicesUndisturbed` that
this survives every growth of the log, and `ServerInv` that the log a process serves
is always the beginning of the persisted one.

**Pages and restored engines.** A restored engine need not satisfy `EngineInv`: its
log may have gaps, and its heads and window may have nothing to do with it.
`RestoredInv` is what remains: the log rises (`ValidIsRestored` gets it from what
`validate_snapshot` compares between neighbours) and stays below the server
sequence. In a rising log what comes after a cursor is a suffix (`LaterIsSuffix`),
so a page is a stretch of the log (`PageOfSuffix`) and the next one starts where it
ended, gaps or not. The same lemmas serve the devices of the shell, whose log is
dense.

**Transfers.** `OneEffectPerKey` speaks of committed rows only. `IInv` adds
(`Sound`) what each handler may rely on at each statement: the id that it is about
to insert is unused, its uncommitted rows are those of its call, the row it
answers with exists, and what it read of its key is still so. `Apart` says that
two handlers insert different ids and hold different advisory locks. `Stable`
lists what other handlers may do meanwhile: add rows, change states, but neither
a row's call or creation nor the binding of a locked key; `SoundStays` shows that
`Sound` survives it, and `CommitIsStable` that a commit does no more. `CoveredInv`
is the step from locks to effects: the key of a transfer stays bound at least
until its first binding has expired, because only an expired binding is replaced
and then by one that expires later (`CommitCovered`). A second insert under the
key therefore read a clock past that expiry (`CommitOneEffect`).

**Transfers that do not overlap.** `SerialInv` adds to `IInv` that nothing has
happened since the only handler read its clock: no row was updated later (`Latest`),
its decision still follows from the committed row (`Deciding`, `Writing`: a row it
writes is pending and `Settles` at the handler's time), and an acknowledgement that
writes no row repeats what the row holds (`Repeating`). `Told` relates an answer to
the row: a terminal state that was shown is the stored one, or an expiry whose time
has come and which nobody wrote down. It is stable because a row that expired can
only be settled as expired (`ToldAfterSettling`), and it gives `AnswersAgree`. For
the refinement every commit is matched with one operation of the prototype at the
handler's time (`CommitCreates`, `CommitAcknowledges`, `CommitCancels`) or changes
no record (`CommitsNothing`: replays, gets, cancels of settled rows); `CommitBindsKey`
shows that the key was free by that time and is bound for a time the prototype
allows. TLC checked `SerialInv` on the instance of `transfers_serial` first.

**Service.** The steps of `TransferService` are those of `MemebankTransfers` under
guards, rollbacks, or neither's state, so `IInv` carries over. `ServiceInv` adds
what is known of a request at each stage (`IsRequest`: a session that was revoked
when the request arrived is not introspected as active), that a handler runs exactly while its
request does and for a call that was authorised (`RunsInv`), that locks and writes
need a connection and a connection a transaction (`HasConnection`), and the history
of effects (`EffectsInv`). That a committed call is found by its retry follows
because a live binding is never replaced.

**Listing.** A row never moves in the order of the list, so a cursor divides the
rows once and for all (`CursorInv`); a page takes the first rows after it by rank
(`PageInv`, with ranks that fill the positions). `SteadyInv` says that what matched
at every page so far is listed or still ahead of the cursor. Rows that appear
behind the cursor are new ids, and rows that settle stay where they are. That an
item shows the state of the filter, but in the second of its expiry, is the order
of ticks and seconds (`SecondsRise`).

**Step-up.** `IInv` adds that stored proofs are genuine and one per challenge
(`StoredProofs`), that reserved rows are open and belong to one handler
(`ReservedRows`), that a selected request is authorised and its device was not
revoked when its transaction began (`Decided`), and that the consumed rows are
exactly those of the committed actions (`ConsumedRows`). Steps that change only a
handler share one lemma (`MoveInvariant`). `PoliciesAgreeToTheSecond` follows because
the SQL omits what the tables' CHECKs and the storing of verified proofs guarantee,
and because every comparison of ticks has the answer of the comparison of their
seconds unless both lie in one second (`SecondsKeepOrder`, `SecondsShift`,
`WindowInSeconds`, `ComparedInSeconds`).

**Vault.** That heads are winners of the committed log says nothing of
transactions in progress. `IInv` adds that two of them share neither a locked head
nor an identifier they insert (`Apart`), that the rows of one are exactly the part
of its push that the log does not have (`RowsInv`), that the heads it is about to
write are the winners of its rows against the committed heads (`WinInv`), which
stays true because those heads are locked, and that a transaction begun by a
revoked device has inserted nothing, since a revoked device stays so, nor one that
found the application disabled (`OriginInv`). `Commit` is then a step of the store (`CommitIsPush`), and every
other action a stutter.

**Model-checked only.** Liveness (`CatchUp`, `EveryRequestEnds`, `Drains`): it
needs fairness and ENABLED, which are out of the prover's reach. So is induction
over data, which is why no definition is recursive: the n-th entry of a page, for
one, is defined by counting (`Nth`). The properties of the two violation runs have counterexamples, and
are refuted, not proved; `TerminalIsFinal` is proved for calls that do not overlap.

## 5. Abstractions and what is left out

* Field formats, lengths and base64 are valid or not; ciphertext is opaque.
* In `MemebankTransfers` authentication has happened, a call carries its subject,
  and the database is available: its failures are the rollbacks of `Disconnect`
  and the constraint violations that the model decides. `TransferService` adds
  tokens, the pool and failing statements. Row level security is the subject
  filter of `Owns`.
* Headers and body have been read when a request enters `TransferService`, which
  axum does before it calls the handler; a client that never finishes its body
  holds the drain of the process, and is not modelled.
* Clock values are far from the ends of their integer types, except the sequence
  of the engine.
* One user and one application in `AppVault`: every key and policy of its tables
  holds both.
* The clock is monotone, in whole seconds (ticks in `TransferListing`, `StepUp` and `AppVault`);
  in `MemebankTransfers` sub-second effects between filter and expiry are left to
  `TransferListing`.
* The shell around the engine, the caller of `consume_external_step_up` and the
  push transaction are not in the repository; they follow the documentation and
  signatures. They are
  the external entries of the map.

## 6. Disagreements between the code and what is said of it

Each has a run that TLC ends with a counterexample:

1. `transfers_reopened`: `acknowledge_transfer` and `cancel_transfer` read the
   row with a plain SELECT (MR:451, MR:510) and update it by id. Two that both
   read it as pending each write their own terminal state, and the later one
   replaces what the earlier one answered. The advisory lock does not help: it
   covers one key, and cancel takes none.
2. `transfers_unavailable`: repeating the stored disposition is accepted after the
   transfer expired (MT:320-337), but its binding would expire before it was
   created (MR:638-639), which the CHECK refuses: 503 on each attempt.

Met while modelling, without a run:

* `validate_snapshot` requires of a head only that its sequence is not beyond the
  server's, not that the log holds it.
* `validate_snapshot` accepts a replay order that repeats an identifier, when the
  index has one that the order lacks (SP:268); after a further mutation the
  engine's own snapshot is refused. `StaysRestorable` is therefore stated for
  orders without repetition.
* A replayed create or acknowledgement answers with the current row, not with
  `response_state`, which is stored and never read.
* A create retried within the last minute before its transfer expires fails the
  retention check before its binding is looked up (MR:221).
* `now` is read before the locks are waited for: `updated_at` may go backwards.
* A transfer committed late, behind a client's cursor, is missed by that paging
  (`NothingSkipped` is stated for transfers that were visible at every page).
* `src/docs/app-vault-step-up.md:103-104` says that proof issue and expiry must fit
  inside the challenge window. The expiry does; the issue time may lie before the
  creation of the challenge by the allowed skew (AV:317-323, SQL:743), which is five
  minutes, the longest lifetime of a challenge. Likewise an action may be committed
  before its challenge's `created_at` and its proof's `issued_at` by the skew (SQL:735,
  SQL:744). `step_up` reaches such actions (the first proof of `MCStepUp` is issued
  a tick before its challenge), and `ActionsWereAuthorised` states what is left of
  the windows.
* The two copies of the step-up rules differ inside a second. A proof that expires at
  10.9 is `ProofExpired` for the Rust policy at 10.2, which compares 10 with 10
  (AV:314), and accepted by the SQL (SQL:746); one that expires half a second after
  its challenge, in the same second, is accepted by Rust (AV:324) and refused by
  SQL (SQL:745). `PoliciesAgreeToTheSecond` confines the difference to such seconds.
* The prototype's policy looks at `iat` (MI:293-307), the adapter and policy of the
  routes at `nbf`: a token that was issued but is not yet valid is granted by the one
  and refused by the other (`PrototypeDiffersInNotBefore`).
* `src/docs/app-vault-step-up.md:64-65` makes the server sequence the pull cursor of the
  vault. It is a BIGSERIAL, drawn before the commit (SQL:474), so a reader could pass
  a number that becomes visible later; no code pulls, so nothing is stated of it.
* The device row is not locked by `consume_external_step_up`: a device revoked
  after the SELECT still completes the action of that transaction.
* Retention is bounded in whole seconds by MT:257-264 and with all digits by the
  CHECK SQL:952-955: a create of exactly the longest retention can pass the one
  and be refused, as 503, by the other.
* Likewise a vault mutation in the last allowed second passes AV:229 and is
  refused by the CHECK SQL:551 (`Future` in `MCAppVault`); its whole batch is
  rolled back, as `ImplementsStore` requires.
* `valid_issuer` accepts up to 512 bytes (MA:182-184), `required` at most 256 of
  the token's issuer (MA:156-160): with a longer issuer every token is refused.
* The prototype would not compile: MI:281 names `CLIPTOWN_AUDIIENCE`, which is
  not defined.

## 7. Plan

Done in this order: sync engine and its proof; peers, shell and restore;
transfers, listing; step-up and its proof; the prototype as abstract contract and
the delegated policies; the service around the routes; application-vault push
and its proof; the proofs of peers, shell and transfers; those of pages, devices and
restored engines, of the service, of the listing and of calls that do not overlap,
with the refinement of the prototype.

Next: what calls that do overlap still guarantee of terminal states (a transfer is
replaced only by a request that had read it as pending), as a property of
`transfers_concurrent` with its proof; the hazards of section 6 that no property
states yet.

Not modelled, and why: the bounds of PIN, unlock, OTP and object-manifest
policies are comparisons of one value with constants, without state, order or
arithmetic, which a model would only repeat; the health routes and configuration
are input and output; the tables without code have no program to be faithful to;
the vendored client, scripts and deployment files are not the running program.

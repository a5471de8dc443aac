-------------------------- MODULE MemebankTransfers --------------------------
(***************************************************************************)
(* The MemeBank transfer API, src/src/memebank_routes.rs: handlers that    *)
(* run concurrently, each a sequence of awaited SQL statements in one      *)
(* PostgreSQL transaction at READ COMMITTED (src/schema/schema.sql).       *)
(* Between two statements other handlers run, the client disconnects or    *)
(* the process dies; either rolls the transaction back.                    *)
(*                                                                         *)
(* A call stands for the authorised request: its subject, its key and all  *)
(* that operation, normalized route and body digest tell apart.  Time is   *)
(* in whole seconds of an arbitrary length.                                *)
(***************************************************************************)
EXTENDS TransferPolicy, FiniteSets

CONSTANTS
  Subjects, Keys,
  Bodies,       \* request bodies of create, records with a field expires
  Handlers,     \* the requests that can be in progress at the same time
  Operations,   \* the operations that clients call
  Receipts,     \* the dispositions that they acknowledge with
  MinRetention, MaxRetention, \* MIN_RETENTION_SECONDS, MAX_RETENTION_SECONDS
  KeyTtl,       \* IDEMPOTENCY_TTL_HOURS
  MaxTime,      \* bounds the clock
  MaxCalls      \* bounds the calls of a behaviour

ASSUME TimesAssumption ==
  /\ MinRetention \in Nat \ {0}
  /\ MaxRetention \in Nat
  /\ KeyTtl \in Nat \ {0}
  /\ MaxTime \in Nat
  /\ MaxCalls \in Nat

ASSUME BodiesAssumption == \A b \in Bodies : b.expires \in Nat

ASSUME ReceiptsAssumption == Receipts \subseteq Dispositions

VARIABLES
  clock,     \* Utc::now, in seconds
  accounts,  \* committed rows of cliptown.accounts
  transfers, \* committed rows of memebank_transfers, by id
  bindings,  \* committed rows of memebank_transfer_idempotency, by subject, key
  handler,   \* the state of every handler
  answers,   \* the responses that clients have received
  calls      \* the number of calls made

vars == <<clock, accounts, transfers, bindings, handler, answers, calls>>
database == <<accounts, transfers, bindings>>
-----------------------------------------------------------------------------
(* Calls, rows and transactions.                                           *)

Ids == 1 .. MaxCalls

Calls ==
  [op : {"create"} \cap Operations, subject : Subjects, key : Keys, body : Bodies]
  \cup [op : {"acknowledge"} \cap Operations, subject : Subjects, key : Keys,
        transfer : Ids, disposition : Receipts]
  \cup [op : {"cancel", "get"} \cap Operations, subject : Subjects, transfer : Ids]

IsKeyed(c) == c.op \in {"create", "acknowledge"}
KeyOf(c) == <<c.subject, c.key>>

None == <<>>
NoRows == [k \in {} |-> None]

\* The rows of `new` replace and extend those of `old`.
Merge(old, new) ==
  [k \in DOMAIN old \cup DOMAIN new |-> IF k \in DOMAIN new THEN new[k] ELSE old[k]]

\* The uncommitted writes of a transaction.
NoWrites == [accounts |-> {}, transfers |-> NoRows, bindings |-> NoRows]

Idle ==
  [pc |-> "idle", call |-> None, id |-> 0, now |-> 0, row |-> None,
   expired |-> FALSE, writes |-> NoWrites, answer |-> None]

\* From lock_idempotency to the end of the transaction.
Locked == {"lookup", "replay", "insert", "find", "update", "bind", "commit"}

HoldsLock(h, k) ==
  /\ handler[h].pc \in Locked
  /\ IsKeyed(handler[h].call)
  /\ KeyOf(handler[h].call) = k

Answer(status, id, state) == [status |-> status, id |-> id, state |-> state]
Failure(error) == Answer(error, 0, "none")

Init ==
  /\ clock = 0
  /\ accounts = {}
  /\ transfers = NoRows
  /\ bindings = NoRows
  /\ handler = [h \in Handlers |-> Idle]
  /\ answers = {}
  /\ calls = 0

\* An error return drops the transaction: its writes are rolled back.
Fail(h, error) ==
  handler' = [handler EXCEPT ![h].pc = "answer",
                             ![h].writes = NoWrites,
                             ![h].answer = Failure(error)]
-----------------------------------------------------------------------------
(* The statements of the handlers.                                         *)

\* CreateTransferRequest::validate, at the time that the handler captured.
InRetention(body, now) ==
  body.expires \in now + MinRetention .. now + MaxRetention

\* The request is authorised and validated, and the clock read, before any
\* statement: now is not read again.  The handler goes on at pc.
Enter(h, c, pc, answer) ==
  /\ handler[h].pc = "idle" /\ calls < MaxCalls
  /\ calls' = calls + 1
  /\ handler' = [handler EXCEPT ![h] =
       [Idle EXCEPT !.call = c, !.id = calls + 1, !.now = clock, !.pc = pc, !.answer = answer]]
  /\ UNCHANGED <<clock, database, answers>>

BeginCreate(h, c) ==
  /\ c.op = "create"
  /\ \/ /\ InRetention(c.body, clock)
        /\ Enter(h, c, "account", None)
     \/ /\ ~ InRetention(c.body, clock)
        /\ Enter(h, c, "answer", Failure("InvalidRetention"))

BeginAcknowledge(h, c) == c.op = "acknowledge" /\ Enter(h, c, "lock", None)
BeginCancel(h, c) == c.op = "cancel" /\ Enter(h, c, "find", None)
BeginGet(h, c) == c.op = "get" /\ Enter(h, c, "find", None)

Begin(h, c) ==
  BeginCreate(h, c) \/ BeginAcknowledge(h, c) \/ BeginCancel(h, c) \/ BeginGet(h, c)

\* INSERT ... ON CONFLICT DO NOTHING waits for a concurrent insert of the row.
EnsureAccount(h) ==
  LET s == handler[h].call.subject
  IN /\ handler[h].pc = "account"
     /\ \A g \in Handlers \ {h} : s \notin handler[g].writes.accounts
     /\ handler' = [handler EXCEPT ![h].pc = "lock",
                                   ![h].writes.accounts = {s} \ accounts]
     /\ UNCHANGED <<clock, database, answers, calls>>

\* Mutant: no pg_advisory_xact_lock.
LockNothing(h) ==
  /\ handler[h].pc = "lock"
  /\ handler' = [handler EXCEPT ![h].pc = "lookup"]
  /\ UNCHANGED <<clock, database, answers, calls>>

LockIdempotency(h) ==
  /\ handler[h].pc = "lock"
  /\ \A g \in Handlers : ~ HoldsLock(g, KeyOf(handler[h].call))
  /\ handler' = [handler EXCEPT ![h].pc = "lookup"]
  /\ UNCHANGED <<clock, database, answers, calls>>

\* Mutant: a binding is dropped at the second before it expires.
IsLiveEarly(k, now) == k \in DOMAIN bindings /\ bindings[k].expires > now + 1

\* active_idempotency finds a binding that has not expired.
IsLive(k, now) == k \in DOMAIN bindings /\ bindings[k].expires > now

\* Mutant: the operation and the digest are not compared.
SameRequestByKey(binding, c) == TRUE

\* evaluate_idempotency: same operation, route and digest.
SameRequest(binding, c) == binding.call = c

\* active_idempotency and evaluate_idempotency; an expired binding is deleted.
LookupIdempotency(h) ==
  LET c == handler[h].call
      k == KeyOf(c)
      next == IF c.op = "create" THEN "insert" ELSE "find"
  IN /\ handler[h].pc = "lookup"
     /\ \/ /\ IsLive(k, handler[h].now)
           /\ SameRequest(bindings[k], c)
           /\ handler' = [handler EXCEPT ![h].pc = "replay",
                                         ![h].id = bindings[k].transfer]
        \/ /\ IsLive(k, handler[h].now)
           /\ ~ SameRequest(bindings[k], c)
           /\ Fail(h, "IdempotencyConflict")
        \/ /\ ~ IsLive(k, handler[h].now)
           /\ handler' = [handler EXCEPT ![h].pc = next,
                                         ![h].expired = k \in DOMAIN bindings]
     /\ UNCHANGED <<clock, database, answers, calls>>

\* Mutant: the subject filter is forgotten.
OwnsByAnyone(subject, id) == id \in DOMAIN transfers

\* find_owned_transfer: by id and subject, committed rows only.
Owns(subject, id) ==
  id \in DOMAIN transfers /\ transfers[id].call.subject = subject

\* What the response shows of a row.
Shown(row, now) == ShownState(now, row.call.body.expires, row.state)

\* A replay answers with the current row of the bound transfer.
FindReplayed(h) ==
  LET me == handler[h]
  IN /\ me.pc = "replay"
     /\ \/ /\ Owns(me.call.subject, me.id)
           /\ handler' = [handler EXCEPT ![h].pc = "commit",
                ![h].answer = Answer("Ok", me.id, Shown(transfers[me.id], me.now))]
        \/ /\ ~ Owns(me.call.subject, me.id)
           /\ Fail(h, "Unavailable")
     /\ UNCHANGED <<clock, database, answers, calls>>

\* The new row, visible to this transaction only.
InsertTransfer(h) ==
  LET me == handler[h]
      row == [call |-> me.call, state |-> "pending", created |-> me.now, updated |-> me.now]
  IN /\ me.pc = "insert"
     /\ handler' = [handler EXCEPT ![h].pc = "bind",
          ![h].row = row,
          ![h].writes.transfers = [i \in {me.id} |-> row],
          ![h].answer = Answer("Ok", me.id, Shown(row, me.now))]
     /\ UNCHANGED <<clock, database, answers, calls>>

\* The state that a call on a transfer leads to, or the error it ends with.
Target(c, row, now) ==
  CASE c.op = "acknowledge" ->
         AcknowledgeState(now, row.call.body.expires, row.state, c.disposition)
    [] c.op = "cancel" -> CancelState(now, row.call.body.expires, row.state)
    [] OTHER -> row.state

\* The row is read without a lock, and the policy decides on what was read.
FindTransfer(h) ==
  LET me == handler[h]
      id == me.call.transfer
      row == transfers[id]
      target == Target(me.call, row, me.now)
      after == IF me.call.op = "acknowledge" THEN "bind" ELSE "commit"
  IN /\ me.pc = "find"
     /\ \/ /\ ~ Owns(me.call.subject, id)
           /\ Fail(h, "NotFound")
        \/ /\ Owns(me.call.subject, id)
           /\ target \in PolicyErrors
           /\ Fail(h, target)
        \/ /\ Owns(me.call.subject, id)
           /\ target \in TransferStates
           /\ handler' = [handler EXCEPT
                ![h].pc = IF target = row.state THEN after ELSE "update",
                ![h].row = [row EXCEPT !.state = target],
                ![h].answer = Answer("Ok", id, Shown([row EXCEPT !.state = target], me.now))]
     /\ UNCHANGED <<clock, database, answers, calls>>

\* Mutant: both readers lock the row FOR SHARE and then wait to update it.
UpgradeSharedLock(h) ==
  LET me == handler[h]
      id == me.call.transfer
  IN /\ me.pc = "update"
     /\ \A g \in Handlers \ {h} :
          handler[g].pc = "update" => handler[g].call.transfer # id
     /\ handler' = [handler EXCEPT
          ![h].pc = IF me.call.op = "acknowledge" THEN "bind" ELSE "commit",
          ![h].writes.transfers =
             [i \in {id} |-> [transfers[id] EXCEPT !.state = me.row.state, !.updated = me.now]]]
     /\ UNCHANGED <<clock, database, answers, calls>>

\* UPDATE ... WHERE id: waits for a concurrent writer of the row to finish,
\* then sets the state decided before, whatever the row holds by now.
UpdateTransfer(h) ==
  LET me == handler[h]
      id == me.call.transfer
  IN /\ me.pc = "update"
     /\ \A g \in Handlers \ {h} : id \notin DOMAIN handler[g].writes.transfers
     /\ handler' = [handler EXCEPT
          ![h].pc = IF me.call.op = "acknowledge" THEN "bind" ELSE "commit",
          ![h].writes.transfers =
             [i \in {id} |-> [transfers[id] EXCEPT !.state = me.row.state, !.updated = me.now]]]
     /\ UNCHANGED <<clock, database, answers, calls>>

\* expires_at of the binding: the transfer's, at most KeyTtl from now.
BindingExpiry(row, now) ==
  IF row.call.body.expires < now + KeyTtl THEN row.call.body.expires ELSE now + KeyTtl

\* Mutant: no CHECK on the times of a binding.
IsInsertableAnytime(k, expired, until, now) == k \in DOMAIN bindings => expired

\* UNIQUE (subject_id, idempotency_key) and CHECK (expires_at > created_at).
IsInsertable(k, expired, until, now) ==
  (k \in DOMAIN bindings => expired) /\ until > now

\* insert_idempotency: a refused insert is answered with Unavailable.
InsertIdempotency(h) ==
  LET me == handler[h]
      k == KeyOf(me.call)
      until == BindingExpiry(me.row, me.now)
      id == IF me.call.op = "create" THEN me.id ELSE me.call.transfer
      accepted == IsInsertable(k, me.expired, until, me.now)
  IN /\ me.pc = "bind"
     /\ \/ /\ accepted
           /\ handler' = [handler EXCEPT ![h].pc = "commit",
                ![h].writes.bindings =
                  [b \in {k} |-> [call |-> me.call, transfer |-> id,
                                  created |-> me.now, expires |-> until]]]
        \/ /\ ~ accepted
           /\ Fail(h, "Unavailable")
     /\ UNCHANGED <<clock, database, answers, calls>>

\* The writes become visible and the locks are released.
Commit(h) ==
  LET me == handler[h]
  IN /\ me.pc = "commit"
     /\ accounts' = accounts \cup me.writes.accounts
     /\ transfers' = Merge(transfers, me.writes.transfers)
     /\ bindings' = Merge(bindings, me.writes.bindings)
     /\ handler' = [handler EXCEPT ![h].pc = "answer", ![h].writes = NoWrites]
     /\ UNCHANGED <<clock, answers, calls>>

Respond(h) ==
  /\ handler[h].pc = "answer"
  /\ answers' = answers \cup 
       {[call |-> handler[h].call, answer |-> handler[h].answer]}
  /\ handler' = [handler EXCEPT ![h] = Idle]
  /\ UNCHANGED <<clock, database, calls>>

\* The client goes away or the process dies: the future is dropped and the
\* transaction rolled back.  After the commit only the answer is lost.
Disconnect(h) ==
  /\ handler[h].pc # "idle"
  /\ handler' = [handler EXCEPT ![h] = Idle]
  /\ UNCHANGED <<clock, database, answers, calls>>

Tick ==
  /\ clock < MaxTime
  /\ clock' = clock + 1
  /\ UNCHANGED <<database, handler, answers, calls>>

\* The statements before the COMMIT.
Query(h) ==
  \/ EnsureAccount(h)
  \/ LockIdempotency(h)
  \/ LookupIdempotency(h)
  \/ FindReplayed(h)
  \/ InsertTransfer(h)
  \/ FindTransfer(h)
  \/ UpdateTransfer(h)
  \/ InsertIdempotency(h)

\* The next step of the handler.
Statement(h) == Query(h) \/ Commit(h) \/ Respond(h)

Next ==
  \/ \E h \in Handlers :
       \/ \E c \in Calls : Begin(h, c)
       \/ Statement(h)
       \/ Disconnect(h)
  \/ Tick

Spec == Init /\ [][Next]_vars
-----------------------------------------------------------------------------
(* Properties.                                                             *)

\* The rows satisfy the column constraints of schema.sql, what a transaction
\* has written is a row it may commit, and no handler writes outside one.
TypeOK ==
  /\ clock \in 0 .. MaxTime
  /\ calls \in 0 .. MaxCalls
  /\ accounts \subseteq Subjects
  /\ DOMAIN transfers \subseteq Ids
  /\ \A i \in DOMAIN transfers :
       /\ transfers[i].call \in Calls /\ transfers[i].call.op = "create"
       /\ transfers[i].call.subject \in accounts
       /\ transfers[i].state \in TransferStates
       /\ transfers[i].created \in 0 .. clock /\ transfers[i].updated \in 0 .. clock
       /\ InRetention(transfers[i].call.body, transfers[i].created)
  /\ \A k \in DOMAIN bindings :
       /\ bindings[k].call \in Calls /\ KeyOf(bindings[k].call) = k
       /\ bindings[k].created < bindings[k].expires
  /\ \A h \in Handlers :
       handler[h].pc \in {"idle", "account", "lock", "lookup", "replay", "answer"}
         => handler[h].writes.transfers = NoRows /\ handler[h].writes.bindings = NoRows

\* A key has one effect while its binding lives: of two transfers that were
\* created with one subject and key, one was created only when the binding of
\* the other had expired by the clock its handler read; retries, duplicates
\* and rollbacks included (the advisory lock around active_idempotency).
OneEffectPerKey ==
  \A i, j \in DOMAIN transfers :
    /\ i # j
    /\ KeyOf(transfers[i].call) = KeyOf(transfers[j].call)
    => \/ transfers[i].created >= BindingExpiry(transfers[j], transfers[j].created)
       \/ transfers[j].created >= BindingExpiry(transfers[i], transfers[i].created)

\* What active_idempotency read stays true until its transaction ends, although
\* nothing locks the row: the binding that is replayed is still the committed
\* one, and where none was live none has been committed since, so that the
\* UNIQUE (subject_id, idempotency_key) index never refuses the insert.
LookupStaysTrue ==
  \A h \in Handlers : handler[h].pc \in Locked \ {"lookup"} /\ IsKeyed(handler[h].call) =>
    LET k == KeyOf(handler[h].call)
        replays == \/ handler[h].pc = "replay"
                   \/ handler[h].pc = "commit" /\ handler[h].writes.bindings = NoRows
    IN IF replays
       THEN IsLive(k, handler[h].now) /\ bindings[k].call = handler[h].call
       ELSE ~ IsLive(k, handler[h].now) /\ (handler[h].expired <=> k \in DOMAIN bindings)

\* A binding names a transfer of its own subject that exists, and the one that
\* its request created or acknowledged: a replay always finds its row.
BindingsNameTheirTransfer ==
  \A k \in DOMAIN bindings :
    LET b == bindings[k]
    IN /\ b.transfer \in DOMAIN transfers
       /\ transfers[b.transfer].call.subject = k[1]
       /\ b.call.op = "create" => transfers[b.transfer].call = b.call
       /\ b.call.op = "acknowledge" => b.call.transfer = b.transfer

\* A success answers the call that was made: a create is answered with a
\* transfer of that content, key and subject, whether it was made now or
\* replayed, and any other call with the transfer it names, owned by the
\* caller; what it names is committed.
AnswersMatchCalls ==
  \A a \in answers : a.answer.status = "Ok" =>
    /\ a.answer.id \in DOMAIN transfers
    /\ transfers[a.answer.id].call.subject = a.call.subject
    /\ IF a.call.op = "create"
       THEN transfers[a.answer.id].call = a.call
       ELSE a.answer.id = a.call.transfer

\* "Terminal transfer states cannot be reopened" and are never replaced: a row
\* that is not pending keeps its state.
TerminalIsFinal ==
  [][\A i \in DOMAIN transfers : transfers[i].state # "pending" =>
       transfers'[i].state = transfers[i].state]_vars

\* Two answers about one transfer never show two different terminal states,
\* although expiry is shown by the clock and written by cancel only.
AnswersAgree ==
  \A a, b \in answers :
    /\ a.answer.status = "Ok" /\ b.answer.status = "Ok"
    /\ a.answer.id = b.answer.id
    /\ {a.answer.state, b.answer.state} \subseteq TerminalStates
    => a.answer.state = b.answer.state

\* "Expired bindings can be replaced": no call fails for the bindings that the
\* table holds or that the call itself would write.
ExpiredBindingsAreReplaced ==
  \A a \in answers : a.answer.status # "Unavailable"

\* What the prototype would keep of the rows.
Records ==
  [i \in DOMAIN transfers |->
     [owner |-> transfers[i].call.subject, expires |-> transfers[i].call.body.expires,
      state |-> transfers[i].state, created |-> transfers[i].created,
      updated |-> transfers[i].updated]]

IdempotencyRecords ==
  [k \in DOMAIN bindings |->
     [call |-> bindings[k].call, transfer |-> bindings[k].transfer,
      expires |-> bindings[k].expires]]

Prototype == INSTANCE IntegrationPrototype WITH
  records <- Records, idempotency <- IdempotencyRecords,
  Times <- 0 .. MaxTime + KeyTtl, MaxLifetime <- MaxRetention

\* Calls that do not overlap implement the prototype: every commit, after
\* retries, lost answers, rollbacks and expired keys, is one of its atomic
\* operations, or changes nothing, at a time not before the row's last change.
ImplementsPrototype == Prototype!Spec
=============================================================================

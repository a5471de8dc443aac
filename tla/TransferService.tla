--------------------------- MODULE TransferService ---------------------------
(***************************************************************************)
(* The process around the transfer routes: src/src/main.rs starts it,      *)
(* serves until a signal and drains; every request is authorised by an     *)
(* introspection at the shared-auth service (src/src/memebank_auth.rs)     *)
(* before it takes one of the database connections of the pool.            *)
(*                                                                         *)
(* A request is here once its headers and body have been read, which axum  *)
(* does before it calls the handler.  Between the introspection and its    *)
(* answer the session may be revoked; between any two steps the process    *)
(* may be killed, and a statement or its answer may be lost.               *)
(***************************************************************************)
EXTENDS MemebankTransfers, DelegatedPolicy

CONSTANTS
  Tokens,    \* what the auth service knows of every token, by its name
  Requests,  \* the calls that clients make and the tokens they present
  Earlier,   \* a create that an earlier run of the service answered
  PoolSizes  \* the values of CLIPTOWN_DATABASE_MAX_CONNECTIONS

ASSUME ServiceAssumption ==
  /\ Earlier \in Calls /\ Earlier.op = "create" /\ InRetention(Earlier.body, 0)
  /\ \A t \in DOMAIN Tokens : IsIntrospection(Tokens[t])
  /\ \A r \in Requests :
       /\ r.token \in DOMAIN Tokens
       /\ r.call \in Calls /\ r.call.subject = Tokens[r.token].sub
  /\ PoolSizes \subseteq Nat \ {0}
  /\ MaxCalls # 0 \* the earlier create is one of the calls

VARIABLES
  phase,    \* of the process
  poolSize, \* read when the process starts
  conn,     \* the handlers that hold a connection
  request,  \* what every handler knows of its request
  revoked,  \* the sessions that the auth service has ended
  effects   \* what was committed, and by which authority: a history

serviceVars == <<phase, poolSize, conn, request, revoked, effects>>
allVars == <<vars, serviceVars>>

NoRequest ==
  [stage |-> "none", call |-> None, token |-> None, late |-> FALSE,
   active |-> FALSE, granted |-> 0]

\* The introspection of a token whose session is live, or is not.
Claims(r) == [Tokens[r.token] EXCEPT !.active = r.active]

IsFree(h) == request[h].stage = "none" /\ handler[h].pc = "idle"

\* Between begin_subject_transaction and the end of the transaction.
Statements ==
  {"account", "lock", "lookup", "replay", "insert", "find", "update", "bind", "commit"}
IsInTransaction(h) == handler[h].pc \in Statements

\* The database holds what the earlier create wrote.
ServiceInit ==
  LET row == [call |-> Earlier, state |-> "pending", created |-> 0, updated |-> 0]
      binding == [call |-> Earlier, transfer |-> 1, created |-> 0,
                  expires |-> BindingExpiry(row, 0)]
  IN /\ clock = 0 /\ calls = 1 /\ answers = {}
     /\ accounts = {Earlier.subject}
     /\ transfers = [i \in {1} |-> row]
     /\ bindings = [k \in {KeyOf(Earlier)} |-> binding]
     /\ handler = [h \in Handlers |-> Idle]
     /\ phase = "down"
     /\ poolSize \in PoolSizes
     /\ conn = {}
     /\ request = [h \in Handlers |-> NoRequest]
     /\ revoked = {}
     /\ effects = {}
-----------------------------------------------------------------------------
(* The process.                                                            *)

\* run: configuration, pool, authenticator and listener, in this order.
Start ==
  /\ phase = "down"
  /\ phase' = "serving"
  /\ poolSize' \in PoolSizes
  /\ UNCHANGED <<vars, conn, request, revoked, effects>>

\* shutdown_signal: SIGTERM or ctrl-c; no request is admitted any more.
Signal ==
  /\ phase = "serving"
  /\ phase' = "draining"
  /\ UNCHANGED <<vars, poolSize, conn, request, revoked, effects>>

\* with_graceful_shutdown returns when no request is in progress.
Stop ==
  /\ phase = "draining"
  /\ \A h \in Handlers : IsFree(h)
  /\ phase' = "down"
  /\ UNCHANGED <<vars, poolSize, conn, request, revoked, effects>>

\* The process dies: every future is dropped and every transaction rolled back.
Kill ==
  /\ phase # "down"
  /\ phase' = "down"
  /\ conn' = {}
  /\ request' = [h \in Handlers |-> NoRequest]
  /\ handler' = [h \in Handlers |-> Idle]
  /\ UNCHANGED <<clock, database, answers, calls, poolSize, revoked, effects>>
-----------------------------------------------------------------------------
(* The request before its transaction.                                     *)

\* The request is answered before any statement: it leaves nothing behind.
Reject(h) ==
  /\ request' = [request EXCEPT ![h] = NoRequest]
  /\ UNCHANGED vars

\* The requests that may still come to a call, which MaxCalls bounds.
Undecided == {h \in Handlers : request[h].stage \in {"sent", "known"}}

\* Mutant: requests are admitted while the process drains.
ArriveAlways(h, r) ==
  /\ phase # "down" /\ IsFree(h)
  /\ calls + Cardinality(Undecided) < MaxCalls
  /\ request' = [request EXCEPT ![h] =
       [NoRequest EXCEPT !.stage = "sent", !.call = r.call, !.token = r.token,
                         !.late = Tokens[r.token].sid \in revoked]]
  /\ UNCHANGED <<vars, phase, poolSize, conn, revoked, effects>>

\* authorize sends the bearer to the auth service.
Arrive(h, r) ==
  /\ phase = "serving" /\ IsFree(h)
  /\ calls + Cardinality(Undecided) < MaxCalls
  /\ request' = [request EXCEPT ![h] =
       [NoRequest EXCEPT !.stage = "sent", !.call = r.call, !.token = r.token,
                         !.late = Tokens[r.token].sid \in revoked]]
  /\ UNCHANGED <<vars, phase, poolSize, conn, revoked, effects>>

\* The auth service answers for the session as it is at that moment.
Introspect(h) ==
  /\ request[h].stage = "sent"
  /\ request' = [request EXCEPT
       ![h].stage = "known",
       ![h].active = Tokens[request[h].token].sid \notin revoked]
  /\ UNCHANGED <<vars, phase, poolSize, conn, revoked, effects>>

\* map_client_error: the client's timeouts, and answers that are not usable.
IntrospectionFails(h) ==
  /\ request[h].stage = "sent"
  /\ Reject(h)
  /\ UNCHANGED <<phase, poolSize, conn, revoked, effects>>

\* The policy grants the operation, and the subject parses as a UUID.
Grants(h) ==
  /\ Authorization(Claims(request[h]), request[h].call.op, clock) = "Granted"
  /\ Claims(request[h]).sub \in Uuids

\* No await separates the decision from the handler's reading of the clock,
\* which are one moment here.
Authorize(h) ==
  /\ request[h].stage = "known"
  /\ \/ /\ Grants(h)
        /\ Begin(h, request[h].call)
        /\ request' = [request EXCEPT ![h].stage = "running", ![h].granted = clock]
     \/ /\ ~ Grants(h)
        /\ Reject(h)
  /\ UNCHANGED <<phase, poolSize, conn, revoked, effects>>
-----------------------------------------------------------------------------
(* The transaction.                                                        *)

\* Mutant: only a transaction that commits gives its connection back.
ReleasedOnSuccess(h) ==
  IF handler[h].pc = "commit" THEN conn \ {h} ELSE conn

\* A transaction that has ended gives its connection back.
Released(h) == IF handler'[h].pc \in Statements THEN conn ELSE conn \ {h}

\* begin_subject_transaction: database.begin takes a connection of the pool.
Acquire(h) ==
  /\ IsInTransaction(h) /\ h \notin conn
  /\ Cardinality(conn) < poolSize
  /\ conn' = conn \cup {h}
  /\ UNCHANGED <<vars, phase, poolSize, request, revoked, effects>>

\* acquire_timeout, while all connections are taken.
AcquireTimeout(h) ==
  /\ IsInTransaction(h) /\ h \notin conn
  /\ Cardinality(conn) = poolSize
  /\ Fail(h, "Unavailable")
  /\ UNCHANGED <<clock, database, answers, calls, serviceVars>>

RunQuery(h) ==
  /\ h \in conn
  /\ Query(h)
  /\ conn' = Released(h)
  /\ UNCHANGED <<phase, poolSize, request, revoked, effects>>

\* The database fails a statement, or the COMMIT before it takes effect.
QueryFails(h) ==
  /\ h \in conn
  /\ Fail(h, "Unavailable")
  /\ conn' = Released(h)
  /\ UNCHANGED <<clock, database, answers, calls, phase, poolSize, request, revoked, effects>>

\* What the handler commits, and under which authority.
Effect(h) ==
  [request |-> request[h],
   bound |-> {handler[h].writes.bindings[k] : k \in DOMAIN handler[h].writes.bindings}]

RunCommit(h) ==
  /\ h \in conn
  /\ Commit(h)
  /\ conn' = Released(h)
  /\ effects' = effects \cup {Effect(h)}
  /\ UNCHANGED <<phase, poolSize, request, revoked>>

\* The COMMIT takes effect and its answer is lost: the client is told that the
\* service is unavailable.
CommitUnanswered(h) ==
  /\ h \in conn
  /\ handler[h].pc = "commit"
  /\ accounts' = accounts \cup handler[h].writes.accounts
  /\ transfers' = Merge(transfers, handler[h].writes.transfers)
  /\ bindings' = Merge(bindings, handler[h].writes.bindings)
  /\ Fail(h, "Unavailable")
  /\ conn' = Released(h)
  /\ effects' = effects \cup {Effect(h)}
  /\ UNCHANGED <<clock, answers, calls, phase, poolSize, request, revoked>>

\* The request is over: the handler holds neither a connection nor a row.
Forget(h) ==
  /\ request' = [request EXCEPT ![h] = NoRequest]
  /\ handler' = [handler EXCEPT ![h] = Idle]
  /\ conn' = conn \ {h}
  /\ UNCHANGED <<clock, database, answers, calls, phase, poolSize, revoked, effects>>

\* The answer is sent; answers are not kept here, no property is about them.
End(h) == handler[h].pc = "answer" /\ Forget(h)

\* The client goes away at any point.
Abandon(h) == ~ IsFree(h) /\ Forget(h)

Revoke(s) ==
  /\ s \notin revoked
  /\ revoked' = revoked \cup {s}
  /\ UNCHANGED <<vars, phase, poolSize, conn, request, effects>>

ServiceTick == Tick /\ UNCHANGED serviceVars
-----------------------------------------------------------------------------

\* What happens next for a handler, stage by stage.
Progress(h) ==
  \/ Introspect(h) \/ IntrospectionFails(h)
  \/ Authorize(h)
  \/ Acquire(h) \/ AcquireTimeout(h)
  \/ RunQuery(h)
  \/ RunCommit(h)
  \/ End(h)

ServiceNext ==
  \/ \E h \in Handlers :
       \/ \E r \in Requests : Arrive(h, r)
       \/ Progress(h)
       \/ QueryFails(h) \/ CommitUnanswered(h)
       \/ Abandon(h)
  \/ \E t \in DOMAIN Tokens : Revoke(Tokens[t].sid)
  \/ Start \/ Signal \/ Stop \/ Kill
  \/ ServiceTick

\* A handler is at one stage at a time: fairness of the whole is fairness of
\* each.  The HTTP client ends every introspection within its timeout, the pool
\* every wait for a connection; futures are polled, PostgreSQL wakes a waiter
\* whose lock is free, and axum returns when the last request ends.  Nothing is
\* assumed of clients, faults, signals or restarts.
ServiceFairness ==
  /\ \A h \in Handlers : WF_allVars(Progress(h))
  /\ WF_allVars(Stop)

ServiceSpec == ServiceInit /\ [][ServiceNext]_allVars /\ ServiceFairness
-----------------------------------------------------------------------------
(* Properties.                                                             *)

\* Everything committed was authorised end to end: by a token of the caller
\* with the one scope of the operation, current and (for a write) recently
\* authenticated at the time of the decision, whose session was still live
\* when the auth service answered; no request that arrived after its session
\* had been revoked commits anything; and what is bound to a key is the very
\* call that was authorised, whatever happened in between.
EffectsWereAuthorised ==
  \A e \in effects :
    LET claims == Claims(e.request)
        op == e.request.call.op
    IN /\ ~ e.request.late
       /\ claims.active
       /\ claims.scope = {RequiredScope(op)}
       /\ \A exp \in claims.exp : e.request.granted < exp
       /\ \/ ~ RequiresRecentLoa2(op)
          \/ \E t \in claims.auth_time : e.request.granted - t <= MaxAuthAge
       /\ \A b \in e.bound : b.call = e.request.call

\* A keyed call that took effect can be replayed until its binding expires,
\* although its client may have been told nothing, or "temporarily
\* unavailable", or the process died: the retry finds the same request bound.
EffectsCanBeReplayed ==
  \A e \in effects : \A b \in e.bound :
    LET k == KeyOf(b.call)
    IN b.expires > clock => k \in DOMAIN bindings /\ bindings[k] = b

\* A handler that holds a connection is in its transaction, and locks and
\* writes are held by those alone: a request that was answered, timed out or
\* abandoned leaves nothing behind that others wait for.
LocksHaveConnections ==
  \A h \in Handlers :
    /\ h \in conn => IsInTransaction(h) /\ phase # "down"
    /\ handler[h].writes # NoWrites \/ (\E k \in Subjects \X Keys : HoldsLock(h, k)) => h \in conn

\* Every request ends with its connection given back, although requests wait
\* for the auth service, for the pool, and for each other's keys and rows.
EveryRequestEnds ==
  \A h \in Handlers : ~ IsFree(h) ~> IsFree(h) /\ h \notin conn

\* "Shutdown stops admission, drains bounded in-flight requests": after the
\* signal the process stops.
Drains == phase = "draining" ~> phase = "down"
=============================================================================

------------------------ MODULE TransferServiceProofs ------------------------
(***************************************************************************)
(* Proofs about the authorisation policies and the service that applies    *)
(* them, for all tokens, requests, pools, handlers and faults: what        *)
(* MemebankTransfersProofs shows of the statements holds in the service    *)
(* too, and nothing is committed, kept or forgotten that should not be.    *)
(***************************************************************************)
EXTENDS TransferService, MemebankTransfersProofs

\* The two policies side by side: of the tokens that the prototype authorises,
\* the routes grant exactly those that also have an nbf which has come, with the
\* skew, and lies no further before the expiry than the routes allow.  Nothing
\* else in the routes' policy is stricter (lifetime, exact acr, methods for reads
\* and UUID subjects are not); but the prototype counts from the iat, so that a
\* token issued already and good only later is refused by the routes alone.
THEOREM PrototypeDiffersInNotBefore ==
  ASSUME NEW i, IsIntrospection(i), NEW op \in ApiOperations, NEW now \in Nat,
         PrototypeAuthorizes(i, op, now)
  PROVE  Authorization(i, op, now) = "Granted"
           <=> \E nbf \in i.nbf, exp \in i.exp :
                 nbf <= now + ClockSkew /\ exp - nbf \in 1 .. TokenLifetime
<1>1. PrototypeIsIssuedToClient(i) /\ PrototypeIsCurrent(i, now)
  BY DEF PrototypeAuthorizes
<1>2. PICK exp \in i.exp : now < exp
  BY <1>1 DEF PrototypeIsCurrent
<1>3. i.exp = {exp} /\ exp \in Nat
  BY <1>2 DEF IsIntrospection, IsOptionalTime
<1>4. IsIssuedToClient(i)
  BY <1>1, NamesAssumption DEF PrototypeIsIssuedToClient, IsIssuedToClient
<1>5. IsComplete(i) <=> i.nbf # {}
  BY <1>1, <1>3, NamesAssumption
  DEF PrototypeIsIssuedToClient, IsComplete, HasDelegationLineage
<1>6. i.nbf # {} /\ IsCurrent(i, now)
        <=> \E nbf \in i.nbf : nbf <= now + ClockSkew /\ exp - nbf \in 1 .. TokenLifetime
  <2>1. i.nbf = {} \/ \E nbf \in Nat : i.nbf = {nbf}
    BY DEF IsIntrospection, IsOptionalTime
  <2> QED BY <1>2, <1>3, <2>1 DEF IsCurrent
<1>7. i.scope = {RequiredScope(op)}
  BY DEF PrototypeAuthorizes
<1>8. RequiresRecentLoa2(op) => IsRecentLoa2(i, now)
  BY NamesAssumption DEF PrototypeAuthorizes, PrototypeIsRecentLoa2, IsRecentLoa2
<1>9. Authorization(i, op, now) = "Granted" <=> i.nbf # {} /\ IsCurrent(i, now)
  BY <1>4, <1>5, <1>7, <1>8 DEF Authorization
<1> QED BY <1>3, <1>6, <1>9

\* An authorisation that has lapsed does not come back: of three times, a token
\* that is granted an operation at the first and at the last is granted it in
\* between, although one test counts from the start of the token, one to its
\* end and one from the authentication, two of them with a skew.
THEOREM GrantsHaveNoGaps ==
  ASSUME NEW i, IsIntrospection(i), NEW op \in ApiOperations,
         NEW first \in Nat, NEW now \in Nat, NEW last \in Nat,
         first <= now, now <= last,
         Authorization(i, op, first) = "Granted",
         Authorization(i, op, last) = "Granted"
  PROVE  Authorization(i, op, now) = "Granted"
<1>1. /\ IsComplete(i) /\ IsIssuedToClient(i)
      /\ IsCurrent(i, first) /\ IsCurrent(i, last)
      /\ i.scope = {RequiredScope(op)}
  BY DEF Authorization
<1>2. \A nbf \in i.nbf, exp \in i.exp : nbf \in Nat /\ exp \in Nat
  BY DEF IsIntrospection, IsOptionalTime
<1>3. IsCurrent(i, now)
  <2> SUFFICES ASSUME NEW nbf \in i.nbf, NEW exp \in i.exp
      PROVE nbf <= now + ClockSkew /\ now < exp /\ exp - nbf \in 1 .. TokenLifetime
    BY DEF IsCurrent
  <2>1. /\ nbf <= first + ClockSkew /\ last < exp
        /\ exp - nbf \in 1 .. TokenLifetime
    BY <1>1 DEF IsCurrent
  <2> QED BY <2>1, <1>2, PolicyAssumption
<1>4. CASE ~ RequiresRecentLoa2(op)
  BY <1>1, <1>3, <1>4 DEF Authorization
<1>5. CASE RequiresRecentLoa2(op)
  <2>1. IsRecentLoa2(i, first) /\ IsRecentLoa2(i, last)
    BY <1>5 DEF Authorization
  <2>2. PICK t \in i.auth_time : t <= first + ClockSkew
    BY <2>1 DEF IsRecentLoa2
  <2>3. i.auth_time = {t} /\ t \in Nat
    BY <2>2 DEF IsIntrospection, IsOptionalTime
  <2>4. last - t <= MaxAuthAge
    BY <2>1, <2>3 DEF IsRecentLoa2
  <2>5. t <= now + ClockSkew /\ now - t <= MaxAuthAge
    BY <2>2, <2>3, <2>4, PolicyAssumption
  <2>6. IsRecentLoa2(i, now)
    BY <2>1, <2>3, <2>5 DEF IsRecentLoa2
  <2> QED BY <1>1, <1>3, <2>6 DEF Authorization
<1> QED BY <1>4, <1>5
-----------------------------------------------------------------------------
(* The inductive invariant.                                                *)

\* What is known of a request, stage by stage.
IsRequest(r) ==
  /\ DOMAIN r = {"stage", "call", "token", "late", "active", "granted"}
  /\ r.stage \in {"none", "sent", "known", "running"}
  /\ r.stage # "none" => phase # "down" /\ r.token \in DOMAIN Tokens /\ r.call \in Calls
  /\ r.stage # "none" /\ r.late => Tokens[r.token].sid \in revoked
  /\ r.stage \in {"known", "running"} => ~ (r.late /\ r.active)

\* EffectsWereAuthorised, of the request of one effect.
WasAuthorised(r) ==
  LET claims == Claims(r)
  IN /\ ~ r.late
     /\ claims.active
     /\ claims.scope = {RequiredScope(r.call.op)}
     /\ \A exp \in claims.exp : r.granted < exp
     /\ \/ ~ RequiresRecentLoa2(r.call.op)
        \/ \E t \in claims.auth_time : r.granted - t <= MaxAuthAge

RequestsInv ==
  /\ DOMAIN request = Handlers
  /\ \A h \in Handlers : IsRequest(request[h])

\* A handler runs exactly while its request does, for the call of the request.
RunsInv(r, s) ==
  /\ r.stage = "running" <=> s.pc # "idle"
  /\ r.stage = "running" => s.call = r.call /\ WasAuthorised(r)

\* LocksHaveConnections, of one handler.
HasConnection(held, s) ==
  /\ held => s.pc \in Statements /\ phase # "down"
  /\ s.writes # NoWrites => held
  /\ s.pc \in Locked /\ IsKeyed(s.call) => held

HandlersInv ==
  \A h \in Handlers :
    RunsInv(request[h], handler[h]) /\ HasConnection(h \in conn, handler[h])

EffectsInv ==
  \A e \in effects :
    /\ WasAuthorised(e.request)
    /\ \A b \in e.bound : b.call = e.request.call /\ b.expires \in Nat

ServiceInv ==
  /\ IInv /\ RequestsInv /\ HandlersInv /\ EffectsInv /\ EffectsCanBeReplayed
-----------------------------------------------------------------------------
(* The transfers, in the service.                                          *)

\* An earlier create was answered by time 0 and is bound for a while.
LEMMA EarlierIsBound ==
  ASSUME NEW r, r.call = Earlier
  PROVE  /\ Earlier \in Calls /\ Earlier.op = "create" /\ IsKeyed(Earlier)
         /\ Earlier.subject \in Subjects /\ InRetention(Earlier.body, 0)
         /\ BindingExpiry(r, 0) \in Nat \ {0}
<1>1. /\ Earlier \in Calls /\ Earlier.op = "create" /\ InRetention(Earlier.body, 0)
  BY ServiceAssumption
<1>2. Earlier.subject \in Subjects /\ Earlier.body.expires \in Nat
  BY <1>1, CallTypes
<1>3. Earlier.body.expires # 0
  BY <1>1, <1>2, TimesAssumption DEF InRetention
<1> QED
  BY <1>1, <1>2, <1>3, TimesAssumption DEF BindingExpiry, IsKeyed

LEMMA ServiceInitTransfers == ServiceInit => IInv
<1> SUFFICES ASSUME ServiceInit
             PROVE  IInv
  OBVIOUS
<1>1. PICK row : row = [call |-> Earlier, state |-> "pending", created |-> 0, updated |-> 0]
  OBVIOUS
<1>2. PICK binding : binding = [call |-> Earlier, transfer |-> 1, created |-> 0,
                                expires |-> BindingExpiry(row, 0)]
  OBVIOUS
<1>3. PICK k : k = KeyOf(Earlier)
  OBVIOUS
<1>4. /\ clock = 0 /\ calls = 1 /\ answers = {} /\ accounts = {Earlier.subject}
      /\ transfers = [i \in {1} |-> row] /\ bindings = [b \in {k} |-> binding]
      /\ handler = [h \in Handlers |-> Idle]
  BY <1>1, <1>2, <1>3 DEF ServiceInit
<1>5. /\ row.call = Earlier /\ row.state = "pending" /\ row.created = 0 /\ row.updated = 0
      /\ DOMAIN row = RowFields
  BY <1>1 DEF RowFields
<1>6. /\ binding.call = Earlier /\ binding.transfer = 1 /\ binding.created = 0
      /\ binding.expires = BindingExpiry(row, 0) /\ binding.expires \in Nat \ {0}
  BY <1>2, <1>5, EarlierIsBound
<1>7. /\ Earlier \in Calls /\ Earlier.op = "create" /\ IsKeyed(Earlier)
      /\ Earlier.subject \in Subjects /\ InRetention(Earlier.body, 0)
  BY <1>5, EarlierIsBound
<1>8. CountersInv
  BY <1>4, TimesAssumption, ServiceAssumption DEF CountersInv
<1>9. TransfersInv
  BY <1>4, <1>5, <1>7 DEF TransfersInv, TransferStates
<1>10. BindingsInv /\ CoveredInv
  BY <1>3, <1>4, <1>5, <1>6, <1>7 DEF BindingsInv, CoveredInv
<1>11. BindingsNameTheirTransfer /\ OneEffectPerKey /\ AnswersMatchCalls
  BY <1>3, <1>4, <1>5, <1>6, <1>7
  DEF BindingsNameTheirTransfer, OneEffectPerKey, AnswersMatchCalls, KeyOf
<1>12. ASSUME NEW g \in Handlers
       PROVE  Sound(handler[g]) /\ \A f \in Handlers : Apart(handler[f], handler[g])
  <2>1. handler[g] = Idle /\ \A f \in Handlers : handler[f] = Idle
    BY <1>4
  <2>2. Sound(Idle) /\ Apart(Idle, Idle)
    BY <1>8, IdleIsSound DEF Apart, Idle, Inserts, Locked
  <2> QED
    BY <2>1, <2>2
<1> QED
  BY <1>4, <1>8, <1>9, <1>10, <1>11, <1>12 DEF IInv, RowsInv

\* The process dies: all transactions are rolled back.
LEMMA KillTransfers ==
  ASSUME IInv, handler' = [h \in Handlers |-> Idle],
         UNCHANGED <<clock, database, answers, calls>>
  PROVE  IInv'
<1>1. UNCHANGED <<clock, accounts, transfers, bindings, answers, calls>>
  BY DEF database
<1>2. CountersInv' /\ RowsInv' /\ AnswersMatchCalls'
  BY <1>1 DEF IInv, CountersInv, RowsInv, TransfersInv, BindingsInv, CoveredInv, BindingExpiry,
     InRetention, BindingsNameTheirTransfer, OneEffectPerKey, AnswersMatchCalls
<1>3. Sound(Idle)'
  <2>1. Sound(Idle) /\ Stable(Idle)
    BY <1>1, IdleIsSound DEF IInv, CountersInv, Stable, Idle, Inserts, Locked
  <2> QED
    BY <2>1, SoundStays DEF IInv
<1>4. ASSUME NEW g \in Handlers
      PROVE  Sound(handler[g])'
  BY <1>3, <1>4, SoundThen
<1>5. \A f, g \in Handlers : f # g => Apart(handler'[f], handler'[g])
  BY DEF Apart, Idle, Inserts, Locked
<1>6. \A f, g \in Handlers : f # g => Apart(handler[f], handler[g])'
  BY <1>5 DEF Apart, Inserts, Replays
<1>7. DOMAIN handler' = Handlers
  OBVIOUS
<1> QED
  BY <1>2, <1>4, <1>6, <1>7 DEF IInv

\* The failure that a handler whose database is gone answers with.
Unavailable(s) == [s EXCEPT !.pc = "answer", !.writes = NoWrites, !.answer = Failure("Unavailable")]

LEMMA UnavailableState ==
  ASSUME IInv, NEW h \in Handlers, NEW s, s = Unavailable(handler[h])
  PROVE  /\ DOMAIN s = DOMAIN handler[h]
         /\ s.pc = "answer" /\ s.writes = NoWrites /\ s.answer.status = "Unavailable"
         /\ s.call = handler[h].call /\ s.now = handler[h].now
<1>1. Sound(handler[h])
  BY DEF IInv
<1> QED
  BY <1>1 DEF Unavailable, Sound, IsState, Failure, Answer

LEMMA CommitUnansweredTransfers ==
  ASSUME IInv, NEW h \in Handlers, CommitUnanswered(h)
  PROVE  IInv'
<1>1. PICK s : s = Unavailable(handler[h])
  OBVIOUS
<1>2. Commits(h) /\ handler' = [handler EXCEPT ![h] = s]
  BY <1>1 DEF CommitUnanswered, Fail, Commits, Unavailable
<1> QED
  BY <1>1, <1>2, UnavailableState, CommitsInvariant
-----------------------------------------------------------------------------
(* Steps of one request, and of one handler.                               *)

\* WasAuthorised is about the request and the tokens only.
LEMMA AuthorisedStays == \A r : WasAuthorised(r) <=> WasAuthorised(r)'
BY DEF WasAuthorised, Claims

\* A request that does not run yet, or no more.
LEMMA RequestStep ==
  ASSUME ServiceInv, NEW h \in Handlers, handler[h].pc = "idle",
         NEW r, request' = [request EXCEPT ![h] = r], IsRequest(r), r.stage # "running",
         UNCHANGED <<vars, phase, poolSize, conn, revoked, effects>>
  PROVE  ServiceInv'
<1>1. UNCHANGED <<clock, accounts, transfers, bindings, handler, answers, calls>>
  BY DEF vars
<1>2. IInv'
  BY StutterInvariant DEF ServiceInv
<1>3. /\ DOMAIN request' = Handlers
      /\ request'[h] = r
      /\ \A g \in Handlers \ {h} : request'[g] = request[g]
  BY DEF ServiceInv, RequestsInv
<1>4. RequestsInv'
  BY <1>3 DEF ServiceInv, RequestsInv, IsRequest
<1>5. HandlersInv'
  <2> SUFFICES ASSUME NEW g \in Handlers
               PROVE  RunsInv(request[g], handler[g])' /\ HasConnection(g \in conn, handler[g])'
    BY DEF HandlersInv
  <2>1. RunsInv(request[g], handler[g]) /\ HasConnection(g \in conn, handler[g])
    BY DEF ServiceInv, HandlersInv
  <2>2. HasConnection(g \in conn, handler[g])'
    BY <1>1, <2>1 DEF HasConnection
  <2>3. RunsInv(request[g], handler[g])'
    BY <1>1, <1>3, <2>1 DEF RunsInv, WasAuthorised, Claims
  <2> QED
    BY <2>2, <2>3
<1>6. EffectsInv' /\ EffectsCanBeReplayed'
  BY <1>1 DEF ServiceInv, EffectsInv, EffectsCanBeReplayed, WasAuthorised, Claims
<1> QED
  BY <1>2, <1>4, <1>5, <1>6 DEF ServiceInv

\* The handler goes on in its transaction, or ends it and its connection.
Advances(h, s) ==
  /\ handler' = [handler EXCEPT ![h] = s]
  /\ s.call = handler[h].call
  /\ \/ s.pc \in Statements /\ h \in conn /\ conn' = conn
     \/ s.pc = "answer" /\ s.writes = NoWrites /\ conn' = conn \ {h}

LEMMA AdvanceStep ==
  ASSUME ServiceInv, NEW h \in Handlers, handler[h].pc # "idle", NEW s, Advances(h, s),
         UNCHANGED <<phase, poolSize, request, revoked>>
  PROVE  RequestsInv' /\ HandlersInv'
<1>1. /\ handler'[h] = s
      /\ \A g \in Handlers \ {h} : handler'[g] = handler[g]
      /\ \A g \in Handlers \ {h} : g \in conn' <=> g \in conn
  BY DEF Advances, ServiceInv, IInv
<1>2. RequestsInv'
  BY DEF ServiceInv, RequestsInv, IsRequest
<1>3. ASSUME NEW g \in Handlers
      PROVE  RunsInv(request[g], handler[g])' /\ HasConnection(g \in conn, handler[g])'
  <2>1. RunsInv(request[g], handler[g]) /\ HasConnection(g \in conn, handler[g])
    BY DEF ServiceInv, HandlersInv
  <2>2. CASE g # h
    BY <1>1, <2>1, <2>2 DEF RunsInv, HasConnection, WasAuthorised, Claims
  <2>3. CASE g = h
    <3>1. s.pc # "idle" /\ s.call = handler[h].call
      BY DEF Advances, Statements
    <3>2. RunsInv(request[g], handler[g])'
      BY <1>1, <2>1, <2>3, <3>1 DEF RunsInv, WasAuthorised, Claims
    <3>3. HasConnection(g \in conn, handler[g])'
      <4>1. CASE s.pc \in Statements /\ h \in conn /\ conn' = conn
        BY <1>1, <2>1, <2>3, <4>1 DEF HasConnection
      <4>2. CASE s.pc = "answer" /\ s.writes = NoWrites /\ conn' = conn \ {h}
        BY <1>1, <2>3, <4>2 DEF HasConnection, Locked
      <4> QED
        BY <4>1, <4>2 DEF Advances
    <3> QED
      BY <3>2, <3>3
  <2> QED
    BY <2>2, <2>3
<1> QED
  BY <1>2, <1>3 DEF HandlersInv

\* Where the statements lead: to the next one, or to a failure.
LEMMA QueryGoesOn ==
  ASSUME IInv, NEW h \in Handlers, Query(h)
  PROVE  /\ UNCHANGED <<clock, database, answers, calls>>
         /\ handler[h].pc # "idle"
         /\ \E s : /\ handler' = [handler EXCEPT ![h] = s]
                   /\ s.call = handler[h].call
                   /\ s.pc \in Statements \/ (s.pc = "answer" /\ s.writes = NoWrites)
<1>1. PICK me : me = handler[h] /\ Sound(me)
  BY DEF IInv
<1>2. DOMAIN me = {"pc", "call", "id", "now", "row", "expired", "writes", "answer"}
  BY <1>1 DEF Sound, IsState
<1>3. ASSUME NEW e, Fail(h, e)
      PROVE  \E s : /\ handler' = [handler EXCEPT ![h] = s]
                    /\ s.call = handler[h].call
                    /\ s.pc \in Statements \/ (s.pc = "answer" /\ s.writes = NoWrites)
  <2>1. PICK s : s = [me EXCEPT !.pc = "answer", !.writes = NoWrites, !.answer = Failure(e)]
    OBVIOUS
  <2>2. s.call = me.call /\ s.pc = "answer" /\ s.writes = NoWrites
    BY <1>2, <2>1
  <2>3. handler' = [handler EXCEPT ![h] = s]
    BY <1>1, <1>3, <2>1 DEF Fail
  <2> QED
    BY <1>1, <2>2, <2>3
<1>4. ASSUME NEW s, handler' = [handler EXCEPT ![h] = s],
             s.call = me.call, s.pc \in Statements
      PROVE  \E t : /\ handler' = [handler EXCEPT ![h] = t]
                    /\ t.call = handler[h].call
                    /\ t.pc \in Statements \/ (t.pc = "answer" /\ t.writes = NoWrites)
  BY <1>1, <1>4
<1>5. CASE EnsureAccount(h)
  <2>1. PICK s : s = [me EXCEPT !.pc = "lock", !.writes.accounts = {me.call.subject} \ accounts]
    OBVIOUS
  <2>2. s.call = me.call /\ s.pc \in Statements
    BY <1>2, <2>1 DEF Statements
  <2>3. handler' = [handler EXCEPT ![h] = s] /\ me.pc = "account"
        /\ UNCHANGED <<clock, database, answers, calls>>
    BY <1>1, <1>5, <2>1 DEF EnsureAccount
  <2> QED
    BY <1>1, <1>4, <2>2, <2>3
<1>6. CASE LockIdempotency(h)
  <2>1. PICK s : s = [me EXCEPT !.pc = "lookup"]
    OBVIOUS
  <2>2. s.call = me.call /\ s.pc \in Statements
    BY <1>2, <2>1 DEF Statements
  <2>3. handler' = [handler EXCEPT ![h] = s] /\ me.pc = "lock"
        /\ UNCHANGED <<clock, database, answers, calls>>
    BY <1>1, <1>6, <2>1 DEF LockIdempotency
  <2> QED
    BY <1>1, <1>4, <2>2, <2>3
<1>7. CASE LookupIdempotency(h)
  <2>1. me.pc = "lookup" /\ UNCHANGED <<clock, database, answers, calls>>
    BY <1>1, <1>7 DEF LookupIdempotency
  <2>2. CASE Fail(h, "IdempotencyConflict")
    BY <1>1, <1>3, <2>1, <2>2
  <2>3. CASE \E s : s.call = me.call /\ s.pc \in Statements /\ handler' = [handler EXCEPT ![h] = s]
    BY <1>1, <1>4, <2>1, <2>3
  <2>4. ASSUME NEW id, handler' = [handler EXCEPT ![h].pc = "replay", ![h].id = id]
        PROVE  \E s : s.call = me.call /\ s.pc \in Statements /\ handler' = [handler EXCEPT ![h] = s]
    <3>1. PICK s : s = [me EXCEPT !.pc = "replay", !.id = id]
      OBVIOUS
    <3>2. s.call = me.call /\ s.pc \in Statements
      BY <1>2, <3>1 DEF Statements
    <3> QED
      BY <1>1, <2>4, <3>1, <3>2
  <2>5. ASSUME NEW next, next \in Statements, NEW expired,
               handler' = [handler EXCEPT ![h].pc = next, ![h].expired = expired]
        PROVE  \E s : s.call = me.call /\ s.pc \in Statements /\ handler' = [handler EXCEPT ![h] = s]
    <3>1. PICK s : s = [me EXCEPT !.pc = next, !.expired = expired]
      OBVIOUS
    <3>2. s.call = me.call /\ s.pc \in Statements
      BY <1>2, <2>5, <3>1
    <3> QED
      BY <1>1, <2>5, <3>1, <3>2
  <2>6. (IF me.call.op = "create" THEN "insert" ELSE "find") \in Statements
    BY DEF Statements
  <2> QED
    BY <1>1, <1>7, <2>2, <2>3, <2>4, <2>5, <2>6 DEF LookupIdempotency
<1>8. CASE FindReplayed(h)
  <2>1. me.pc = "replay" /\ UNCHANGED <<clock, database, answers, calls>>
    BY <1>1, <1>8 DEF FindReplayed
  <2>2. CASE Fail(h, "Unavailable")
    BY <1>1, <1>3, <2>1, <2>2
  <2>3. ASSUME NEW a, handler' = [handler EXCEPT ![h].pc = "commit", ![h].answer = a]
        PROVE  \E s : s.call = me.call /\ s.pc \in Statements /\ handler' = [handler EXCEPT ![h] = s]
    <3>1. PICK s : s = [me EXCEPT !.pc = "commit", !.answer = a]
      OBVIOUS
    <3>2. s.call = me.call /\ s.pc \in Statements
      BY <1>2, <3>1 DEF Statements
    <3> QED
      BY <1>1, <2>3, <3>1, <3>2
  <2>4. \/ Fail(h, "Unavailable")
        \/ \E s : s.call = me.call /\ s.pc \in Statements /\ handler' = [handler EXCEPT ![h] = s]
    BY <1>1, <1>8, <2>3 DEF FindReplayed
  <2> QED
    BY <1>1, <1>4, <2>1, <2>2, <2>4
<1>9. CASE InsertTransfer(h)
  <2>1. PICK row, a :
          /\ handler' = [handler EXCEPT ![h].pc = "bind", ![h].row = row,
                           ![h].writes.transfers = [i \in {me.id} |-> row], ![h].answer = a]
          /\ me.pc = "insert" /\ UNCHANGED <<clock, database, answers, calls>>
    BY <1>1, <1>9 DEF InsertTransfer
  <2>2. PICK s : s = [me EXCEPT !.pc = "bind", !.row = row,
                        !.writes.transfers = [i \in {me.id} |-> row], !.answer = a]
    OBVIOUS
  <2>3. s.call = me.call /\ s.pc \in Statements
    BY <1>2, <2>2 DEF Statements
  <2>4. handler' = [handler EXCEPT ![h] = s]
    BY <1>1, <2>1, <2>2
  <2> QED
    BY <1>1, <1>4, <2>1, <2>3, <2>4
<1>10. CASE FindTransfer(h)
  <2>1. me.pc = "find" /\ UNCHANGED <<clock, database, answers, calls>>
    BY <1>1, <1>10 DEF FindTransfer
  <2>2. ASSUME NEW pc, pc \in Statements, NEW row, NEW a,
               handler' = [handler EXCEPT ![h].pc = pc, ![h].row = row, ![h].answer = a]
        PROVE  \E s : s.call = me.call /\ s.pc \in Statements /\ handler' = [handler EXCEPT ![h] = s]
    <3>1. PICK s : s = [me EXCEPT !.pc = pc, !.row = row, !.answer = a]
      OBVIOUS
    <3>2. s.call = me.call /\ s.pc \in Statements
      BY <1>2, <2>2, <3>1
    <3>3. handler' = [handler EXCEPT ![h] = s]
      BY <1>1, <2>2, <3>1
    <3> QED
      BY <3>2, <3>3
  <2>3. PICK read : read = transfers[me.call.transfer]
    OBVIOUS
  <2>4. PICK target : target = Target(me.call, read, me.now)
    OBVIOUS
  <2>5. PICK row : row = [read EXCEPT !.state = target]
    OBVIOUS
  <2>6. PICK pc : /\ pc \in {"bind", "commit", "update"}
                  /\ pc = IF target = read.state
                         THEN IF me.call.op = "acknowledge" THEN "bind" ELSE "commit"
                         ELSE "update"
    OBVIOUS
  <2>7. PICK a : a = Answer("Ok", me.call.transfer, Shown(row, me.now))
    OBVIOUS
  <2>8. \/ Fail(h, "NotFound")
        \/ Fail(h, target)
        \/ handler' = [handler EXCEPT ![h].pc = pc, ![h].row = row, ![h].answer = a]
    BY <1>1, <1>10, <2>3, <2>4, <2>5, <2>6, <2>7, Zenon DEF FindTransfer
  <2>9. CASE Fail(h, "NotFound") \/ Fail(h, target)
    BY <1>1, <1>3, <2>1, <2>9
  <2>10. CASE handler' = [handler EXCEPT ![h].pc = pc, ![h].row = row, ![h].answer = a]
    <3>1. pc \in Statements
      BY <2>6 DEF Statements
    <3> QED
      BY <1>1, <1>4, <2>1, <2>2, <2>10, <3>1
  <2> QED
    BY <2>8, <2>9, <2>10
<1>11. CASE UpdateTransfer(h)
  <2>1. PICK pc, w :
          /\ handler' = [handler EXCEPT ![h].pc = pc, ![h].writes.transfers = w]
          /\ pc \in Statements
          /\ me.pc = "update" /\ UNCHANGED <<clock, database, answers, calls>>
    BY <1>1, <1>11 DEF UpdateTransfer, Statements
  <2>2. PICK s : s = [me EXCEPT !.pc = pc, !.writes.transfers = w]
    OBVIOUS
  <2>3. s.call = me.call /\ s.pc \in Statements
    BY <1>2, <2>1, <2>2
  <2>4. handler' = [handler EXCEPT ![h] = s]
    BY <1>1, <2>1, <2>2
  <2> QED
    BY <1>1, <1>4, <2>1, <2>3, <2>4
<1>12. CASE InsertIdempotency(h)
  <2>1. me.pc = "bind" /\ UNCHANGED <<clock, database, answers, calls>>
    BY <1>1, <1>12 DEF InsertIdempotency
  <2>2. ASSUME NEW b, handler' = [handler EXCEPT ![h].pc = "commit", ![h].writes.bindings = b]
        PROVE  \E s : s.call = me.call /\ s.pc \in Statements /\ handler' = [handler EXCEPT ![h] = s]
    <3>1. PICK s : s = [me EXCEPT !.pc = "commit", !.writes.bindings = b]
      OBVIOUS
    <3>2. s.call = me.call /\ s.pc \in Statements
      BY <1>2, <3>1 DEF Statements
    <3>3. handler' = [handler EXCEPT ![h] = s]
      BY <1>1, <2>2, <3>1
    <3> QED
      BY <3>2, <3>3
  <2>3. \/ Fail(h, "Unavailable")
        \/ \E b : handler' = [handler EXCEPT ![h].pc = "commit", ![h].writes.bindings = b]
    BY <1>12 DEF InsertIdempotency
  <2> QED
    BY <1>1, <1>3, <1>4, <2>1, <2>2, <2>3
<1> QED
  BY <1>5, <1>6, <1>7, <1>8, <1>9, <1>10, <1>11, <1>12 DEF Query
-----------------------------------------------------------------------------
(* The request before its transaction.                                     *)

LEMMA ArriveService ==
  ASSUME ServiceInv, NEW h \in Handlers, NEW r \in Requests, Arrive(h, r)
  PROVE  ServiceInv'
<1>1. handler[h].pc = "idle"
  BY DEF Arrive, IsFree
<1>2. r.token \in DOMAIN Tokens /\ r.call \in Calls /\ phase # "down"
  BY ServiceAssumption DEF Arrive
<1>3. PICK q : q = [NoRequest EXCEPT !.stage = "sent", !.call = r.call, !.token = r.token,
                                    !.late = Tokens[r.token].sid \in revoked]
  OBVIOUS
<1>4. /\ DOMAIN q = {"stage", "call", "token", "late", "active", "granted"}
      /\ q.stage = "sent" /\ q.call = r.call /\ q.token = r.token
      /\ q.late <=> Tokens[r.token].sid \in revoked
  BY <1>3 DEF NoRequest
<1>5. IsRequest(q)
  BY <1>2, <1>4 DEF IsRequest
<1>6. request' = [request EXCEPT ![h] = q]
  BY <1>3, Zenon DEF Arrive
<1> QED
  BY <1>1, <1>4, <1>5, <1>6, RequestStep DEF Arrive

LEMMA IntrospectService ==
  ASSUME ServiceInv, NEW h \in Handlers, Introspect(h)
  PROVE  ServiceInv'
<1>1. PICK r : r = request[h] /\ IsRequest(r) /\ r.stage = "sent"
  BY DEF ServiceInv, RequestsInv, Introspect
<1>2. handler[h].pc = "idle"
  BY <1>1 DEF ServiceInv, HandlersInv, RunsInv
<1>3. PICK live : live = (Tokens[r.token].sid \notin revoked)
  OBVIOUS
<1>4. PICK q : q = [r EXCEPT !.stage = "known", !.active = live]
  OBVIOUS
<1>5. /\ DOMAIN q = DOMAIN r /\ q.stage = "known" /\ q.active = live
      /\ q.call = r.call /\ q.token = r.token /\ q.late = r.late
  BY <1>1, <1>4 DEF IsRequest
<1>6. IsRequest(q)
  <2>1. /\ DOMAIN q = {"stage", "call", "token", "late", "active", "granted"}
        /\ q.token \in DOMAIN Tokens /\ q.call \in Calls /\ phase # "down"
    BY <1>1, <1>5 DEF IsRequest
  <2>2. q.late => Tokens[q.token].sid \in revoked
    BY <1>1, <1>5 DEF IsRequest
  <2>3. ~ (q.late /\ q.active)
    BY <1>3, <1>5, <2>2, Zenon
  <2> QED
    BY <1>5, <2>1, <2>2, <2>3 DEF IsRequest
<1>7. request' = [request EXCEPT ![h] = q]
  BY <1>1, <1>3, <1>4, Zenon DEF Introspect
<1> QED
  BY <1>2, <1>5, <1>6, <1>7, RequestStep DEF Introspect

LEMMA RejectService ==
  ASSUME ServiceInv, NEW h \in Handlers, request[h].stage # "running", Reject(h),
         UNCHANGED <<phase, poolSize, conn, revoked, effects>>
  PROVE  ServiceInv'
<1>1. handler[h].pc = "idle"
  BY DEF ServiceInv, HandlersInv, RunsInv
<1>2. IsRequest(NoRequest) /\ NoRequest.stage = "none"
  BY DEF IsRequest, NoRequest
<1> QED
  BY <1>1, <1>2, RequestStep DEF Reject

\* What the policy has decided on.
LEMMA GrantedIsAuthorised ==
  ASSUME NEW r, IsRequest(r), r.stage = "known", r.granted = clock,
         Authorization(Claims(r), r.call.op, clock) = "Granted"
  PROVE  WasAuthorised(r)
<1>1. PICK claims : claims = Claims(r)
  OBVIOUS
<1>2. /\ IsComplete(claims) /\ IsCurrent(claims, clock)
      /\ claims.scope = {RequiredScope(r.call.op)}
      /\ ~ RequiresRecentLoa2(r.call.op) \/ IsRecentLoa2(claims, clock)
  BY <1>1 DEF Authorization
<1>3. claims.active /\ claims.nbf # {}
  BY <1>2 DEF IsComplete, HasDelegationLineage
<1>4. \A exp \in claims.exp : clock < exp
  BY <1>2, <1>3 DEF IsCurrent
<1>5. ~ r.late
  <2>1. claims.active = r.active
    BY <1>1, ServiceAssumption DEF IsRequest, Claims, IsIntrospection
  <2> QED
    BY <1>3, <2>1 DEF IsRequest
<1>6. \/ ~ RequiresRecentLoa2(r.call.op)
      \/ \E t \in claims.auth_time : clock - t <= MaxAuthAge
  BY <1>2 DEF IsRecentLoa2
<1> QED
  BY <1>1, <1>2, <1>3, <1>4, <1>5, <1>6 DEF WasAuthorised

\* The handler starts, without a connection, a lock or a write.
LEMMA BeginStarts ==
  ASSUME IInv, NEW h \in Handlers, NEW c, Begin(h, c)
  PROVE  /\ UNCHANGED <<clock, database, answers>>
         /\ \E s : /\ handler' = [handler EXCEPT ![h] = s]
                   /\ s.call = c /\ s.writes = NoWrites
                   /\ s.pc \in {"account", "lock", "find", "answer"}
                   /\ s.pc = "find" => ~ IsKeyed(c)
<1>1. ASSUME NEW pc, NEW answer, Enter(h, c, pc, answer)
      PROVE  /\ UNCHANGED <<clock, database, answers>>
             /\ \E s : /\ handler' = [handler EXCEPT ![h] = s]
                       /\ s.call = c /\ s.writes = NoWrites /\ s.pc = pc
  <2>1. PICK s : s = [Idle EXCEPT !.call = c, !.id = calls + 1, !.now = clock, !.pc = pc,
                                  !.answer = answer]
    OBVIOUS
  <2>2. s.call = c /\ s.writes = NoWrites /\ s.pc = pc
    BY <2>1 DEF Idle
  <2>3. handler' = [handler EXCEPT ![h] = s] /\ UNCHANGED <<clock, database, answers>>
    BY <1>1, <2>1, Zenon DEF Enter
  <2> QED
    BY <2>2, <2>3
<1>2. CASE BeginCreate(h, c)
  <2>1. PICK pc, answer : Enter(h, c, pc, answer) /\ pc \in {"account", "answer"}
    BY <1>2 DEF BeginCreate
  <2> QED
    BY <1>1, <2>1
<1>3. CASE BeginAcknowledge(h, c)
  BY <1>1, <1>3 DEF BeginAcknowledge
<1>4. CASE BeginCancel(h, c) \/ BeginGet(h, c)
  <2>1. Enter(h, c, "find", None) /\ ~ IsKeyed(c)
    BY <1>4 DEF BeginCancel, BeginGet, IsKeyed
  <2> QED
    BY <1>1, <2>1
<1> QED
  BY <1>2, <1>3, <1>4 DEF Begin

LEMMA AuthorizeService ==
  ASSUME ServiceInv, NEW h \in Handlers, Authorize(h)
  PROVE  ServiceInv'
<1>1. PICK r : r = request[h] /\ IsRequest(r) /\ r.stage = "known"
  BY DEF ServiceInv, RequestsInv, Authorize
<1>2. CASE Reject(h)
  BY <1>1, <1>2, RejectService DEF Authorize
<1>3. CASE /\ Grants(h)
           /\ Begin(h, r.call)
           /\ request' = [request EXCEPT ![h].stage = "running", ![h].granted = clock]
  <2>1. PICK q : q = [r EXCEPT !.stage = "running", !.granted = clock]
    OBVIOUS
  <2>2. /\ DOMAIN q = DOMAIN r /\ q.stage = "running" /\ q.granted = clock
        /\ q.call = r.call /\ q.token = r.token /\ q.late = r.late /\ q.active = r.active
    BY <1>1, <2>1 DEF IsRequest
  <2>3. request' = [request EXCEPT ![h] = q]
    BY <1>1, <1>3, <2>1, Zenon
  <2>4. IsRequest(q)
    BY <1>1, <2>2 DEF IsRequest
  <2>5. WasAuthorised(q)
    <3>1. PICK k : k = [r EXCEPT !.granted = clock]
      OBVIOUS
    <3>2. /\ DOMAIN k = DOMAIN r /\ k.stage = "known" /\ k.granted = clock
          /\ k.call = r.call /\ k.token = r.token /\ k.late = r.late /\ k.active = r.active
      BY <1>1, <3>1 DEF IsRequest
    <3>3. Claims(k) = Claims(r) /\ Claims(q) = Claims(k)
      BY <2>2, <3>2 DEF Claims
    <3>4. Authorization(Claims(r), r.call.op, clock) = "Granted"
      BY <1>1, <1>3 DEF Grants
    <3>5. IsRequest(k)
      BY <1>1, <3>2 DEF IsRequest
    <3>6. Authorization(Claims(k), k.call.op, clock) = "Granted"
      BY <3>2, <3>3, <3>4
    <3>7. WasAuthorised(k)
      BY <3>2, <3>5, <3>6, GrantedIsAuthorised
    <3> QED
      BY <2>2, <3>2, <3>3, <3>7 DEF WasAuthorised
  <2>6. PICK s : /\ handler' = [handler EXCEPT ![h] = s]
                 /\ s.call = r.call /\ s.writes = NoWrites
                 /\ s.pc \in {"account", "lock", "find", "answer"}
                 /\ s.pc = "find" => ~ IsKeyed(r.call)
    BY <1>3, BeginStarts DEF ServiceInv
  <2>7. UNCHANGED <<clock, accounts, transfers, bindings, answers>>
    BY <1>3, BeginStarts DEF ServiceInv, database
  <2>8. UNCHANGED <<phase, poolSize, conn, revoked, effects>>
    BY DEF Authorize
  <2>9. IInv'
    BY <1>1, <1>3, BeginInvariant DEF ServiceInv, IsRequest
  <2>10. /\ handler'[h] = s /\ request'[h] = q /\ DOMAIN request' = Handlers
         /\ \A g \in Handlers \ {h} : handler'[g] = handler[g] /\ request'[g] = request[g]
    BY <2>3, <2>6 DEF ServiceInv, IInv, RequestsInv
  <2>11. RequestsInv'
    BY <2>4, <2>8, <2>10 DEF ServiceInv, RequestsInv, IsRequest
  <2>12. h \notin conn
    BY <1>1 DEF ServiceInv, HandlersInv, RunsInv, HasConnection, Statements
  <2>13. ASSUME NEW g \in Handlers
         PROVE  RunsInv(request[g], handler[g])' /\ HasConnection(g \in conn, handler[g])'
    <3>1. RunsInv(request[g], handler[g]) /\ HasConnection(g \in conn, handler[g])
      BY DEF ServiceInv, HandlersInv
    <3>2. CASE g # h
      BY <2>8, <2>10, <3>1, <3>2 DEF RunsInv, HasConnection, WasAuthorised, Claims
    <3>3. CASE g = h
      <4>1. RunsInv(request[g], handler[g])'
        BY <2>2, <2>5, <2>6, <2>10, <3>3 DEF RunsInv, WasAuthorised, Claims
      <4>2. HasConnection(g \in conn, handler[g])'
        BY <2>6, <2>8, <2>10, <2>12, <3>3 DEF HasConnection, Locked
      <4> QED
        BY <4>1, <4>2
    <3> QED
      BY <3>2, <3>3
  <2>14. EffectsInv' /\ EffectsCanBeReplayed'
    BY <2>7, <2>8 DEF ServiceInv, EffectsInv, EffectsCanBeReplayed, WasAuthorised, Claims
  <2> QED
    BY <2>9, <2>11, <2>13, <2>14 DEF ServiceInv, HandlersInv
<1> QED
  BY <1>1, <1>2, <1>3 DEF Authorize
-----------------------------------------------------------------------------
(* The transaction.                                                        *)

\* A handler in its transaction is not idle.
LEMMA HeldIsRunning ==
  ASSUME ServiceInv, NEW h \in Handlers, h \in conn
  PROVE  handler[h].pc # "idle"
BY DEF ServiceInv, HandlersInv, HasConnection, Statements

LEMMA AcquireService ==
  ASSUME ServiceInv, NEW h \in Handlers, Acquire(h)
  PROVE  ServiceInv'
<1>1. /\ UNCHANGED <<clock, accounts, transfers, bindings, handler, answers, calls>>
      /\ UNCHANGED <<phase, request, revoked, effects>>
      /\ conn' = conn \cup {h} /\ handler[h].pc \in Statements
  BY DEF Acquire, vars, IsInTransaction
<1>2. IInv'
  BY StutterInvariant DEF ServiceInv, Acquire
<1>3. RequestsInv' /\ EffectsInv' /\ EffectsCanBeReplayed'
  BY <1>1 DEF ServiceInv, RequestsInv, IsRequest, EffectsInv, EffectsCanBeReplayed,
     WasAuthorised, Claims
<1>4. phase # "down"
  BY <1>1 DEF ServiceInv, HandlersInv, RunsInv, RequestsInv, IsRequest, Statements
<1>5. ASSUME NEW g \in Handlers
      PROVE  RunsInv(request[g], handler[g])' /\ HasConnection(g \in conn, handler[g])'
  <2>1. RunsInv(request[g], handler[g]) /\ HasConnection(g \in conn, handler[g])
    BY DEF ServiceInv, HandlersInv
  <2> QED
    BY <1>1, <1>4, <2>1 DEF RunsInv, HasConnection, WasAuthorised, Claims
<1> QED
  BY <1>2, <1>3, <1>5 DEF ServiceInv, HandlersInv

\* Failing before the commit leaves the rows and the effects alone.
LEMMA FailService ==
  ASSUME ServiceInv, NEW h \in Handlers, handler[h].pc # "idle",
         Fail(h, "Unavailable"), conn' = conn \ {h},
         UNCHANGED <<clock, database, answers, calls, phase, poolSize, request, revoked, effects>>
  PROVE  ServiceInv'
<1>1. PICK s : s = Unavailable(handler[h])
  OBVIOUS
<1>2. Advances(h, s)
  BY <1>1, UnavailableState DEF ServiceInv, Advances, Fail, Unavailable
<1>3. IInv'
  BY FailInvariant DEF ServiceInv
<1>4. RequestsInv' /\ HandlersInv'
  BY <1>2, AdvanceStep
<1>5. EffectsInv' /\ EffectsCanBeReplayed'
  BY DEF ServiceInv, EffectsInv, EffectsCanBeReplayed, WasAuthorised, Claims, database
<1> QED
  BY <1>3, <1>4, <1>5 DEF ServiceInv

\* A failed handler has left its transaction.
LEMMA FailReleases ==
  ASSUME IInv, NEW h \in Handlers, Fail(h, "Unavailable"), conn' = Released(h)
  PROVE  conn' = conn \ {h}
<1>1. PICK s : s = Unavailable(handler[h])
  OBVIOUS
<1>2. handler' = [handler EXCEPT ![h] = s] /\ s.pc = "answer"
  BY <1>1, UnavailableState DEF Fail, Unavailable
<1>3. handler'[h].pc = "answer"
  BY <1>2 DEF IInv
<1> QED
  BY <1>3 DEF Released, Statements

LEMMA QueryFailsService ==
  ASSUME ServiceInv, NEW h \in Handlers, QueryFails(h)
  PROVE  ServiceInv'
BY HeldIsRunning, FailReleases, FailService DEF QueryFails, ServiceInv

LEMMA AcquireTimeoutService ==
  ASSUME ServiceInv, NEW h \in Handlers, AcquireTimeout(h)
  PROVE  ServiceInv'
<1>1. handler[h].pc # "idle" /\ h \notin conn
  BY DEF AcquireTimeout, IsInTransaction, Statements
<1>2. conn' = conn \ {h}
  BY <1>1 DEF AcquireTimeout, serviceVars
<1> QED
  BY <1>1, <1>2, FailService DEF AcquireTimeout, serviceVars

LEMMA QueryService ==
  ASSUME ServiceInv, NEW h \in Handlers, RunQuery(h)
  PROVE  ServiceInv'
<1>1. PICK s : /\ handler' = [handler EXCEPT ![h] = s]
               /\ s.call = handler[h].call
               /\ s.pc \in Statements \/ (s.pc = "answer" /\ s.writes = NoWrites)
  BY QueryGoesOn DEF ServiceInv, RunQuery
<1>2. /\ UNCHANGED <<clock, accounts, transfers, bindings, answers, calls>>
      /\ handler[h].pc # "idle"
  BY QueryGoesOn DEF ServiceInv, RunQuery, database
<1>3. UNCHANGED <<phase, poolSize, request, revoked, effects>> /\ h \in conn
  BY DEF RunQuery
<1>4. Advances(h, s)
  <2>1. handler'[h] = s
    BY <1>1 DEF ServiceInv, IInv
  <2> QED
    BY <1>1, <1>3, <2>1 DEF Advances, RunQuery, Released, Statements
<1>5. IInv'
  <2>1. Query(h) /\ IInv
    BY DEF RunQuery, ServiceInv
  <2> QED
    BY <2>1, QueryInvariant
<1>6. RequestsInv' /\ HandlersInv'
  BY <1>2, <1>3, <1>4, AdvanceStep
<1>7. EffectsInv' /\ EffectsCanBeReplayed'
  BY <1>2, <1>3 DEF ServiceInv, EffectsInv, EffectsCanBeReplayed, WasAuthorised, Claims
<1> QED
  BY <1>5, <1>6, <1>7 DEF ServiceInv
-----------------------------------------------------------------------------
(* The commit.                                                             *)

\* What the handler has bound is committed, for the call of its request.
LEMMA CommitBinds ==
  ASSUME IInv, NEW h \in Handlers, Commits(h), NEW b \in Effect(h).bound
  PROVE  /\ b.call = handler[h].call /\ b.expires \in Nat
         /\ KeyOf(b.call) \in DOMAIN bindings' /\ bindings'[KeyOf(b.call)] = b
<1>1. PICK me : me = handler[h] /\ Sound(me)
  BY DEF IInv
<1>2. PICK new : new = me.writes.bindings /\ bindings' = Merge(bindings, new)
  BY <1>1 DEF Commits
<1>3. PICK k \in DOMAIN new : b = new[k]
  BY <1>1, <1>2 DEF Effect
<1>4. k = KeyOf(me.call) /\ b.call = me.call /\ b.expires \in Nat
  <2>1. new # NoRows
    BY <1>3 DEF NoRows
  <2> QED
    BY <1>1, <1>2, <1>3, <2>1 DEF Sound, BindingWrites
<1>5. k \in DOMAIN bindings' /\ bindings'[k] = new[k]
  <2>1. PICK old : old = bindings
    OBVIOUS
  <2>2. bindings' = Merge(old, new)
    BY <1>2, <2>1
  <2> QED
    BY <1>3, <2>2 DEF Merge
<1> QED
  BY <1>1, <1>3, <1>4, <1>5

\* A binding that has not expired is not replaced.
LEMMA CommitKeepsLive ==
  ASSUME IInv, NEW h \in Handlers, Commits(h),
         NEW k \in DOMAIN bindings, bindings[k].expires > clock
  PROVE  k \in DOMAIN bindings' /\ bindings'[k] = bindings[k]
<1>1. PICK me : me = handler[h] /\ Sound(me)
  BY DEF IInv
<1>2. IsLive(k, me.now)
  <2>1. me.now \in Nat /\ clock \in Nat /\ me.now <= clock /\ bindings[k].expires \in Nat
    BY <1>1 DEF Sound, IsState, IInv, CountersInv, RowsInv, BindingsInv
  <2> QED
    BY <2>1 DEF IsLive
<1>3. CASE /\ DOMAIN bindings' = DOMAIN bindings
           /\ \A l \in DOMAIN bindings : bindings'[l] = bindings[l]
  BY <1>3
<1>4. CASE ~ (/\ DOMAIN bindings' = DOMAIN bindings
              /\ \A l \in DOMAIN bindings : bindings'[l] = bindings[l])
  <2>1. PICK n : /\ n = KeyOf(me.call)
                 /\ DOMAIN bindings' = DOMAIN bindings \cup {n}
                 /\ \A l \in DOMAIN bindings \ {n} : bindings'[l] = bindings[l]
                 /\ ~ IsLive(n, me.now)
    BY <1>1, <1>4, CommitBindings
  <2> QED
    BY <1>2, <2>1
<1> QED
  BY <1>3, <1>4

LEMMA CommitEffects ==
  ASSUME ServiceInv, NEW h \in Handlers, handler[h].pc # "idle", Commits(h),
         effects' = effects \cup {Effect(h)}, UNCHANGED clock
  PROVE  EffectsInv' /\ EffectsCanBeReplayed'
<1>1. IInv /\ HandlersInv
  BY DEF ServiceInv
<1>2. WasAuthorised(request[h]) /\ handler[h].call = request[h].call
  BY <1>1 DEF HandlersInv, RunsInv
<1>3. ASSUME NEW e \in effects'
      PROVE  /\ WasAuthorised(e.request)
             /\ \A b \in e.bound :
                  /\ b.call = e.request.call /\ b.expires \in Nat
                  /\ b.expires > clock' =>
                       KeyOf(b.call) \in DOMAIN bindings' /\ bindings'[KeyOf(b.call)] = b
  <2>1. CASE e = Effect(h)
    <3>1. e.request = request[h]
      BY <2>1 DEF Effect
    <3>2. ASSUME NEW b \in e.bound
          PROVE  /\ b.call = handler[h].call /\ b.expires \in Nat
                 /\ KeyOf(b.call) \in DOMAIN bindings' /\ bindings'[KeyOf(b.call)] = b
      BY <1>1, <2>1, <3>2, CommitBinds
    <3> QED
      BY <1>2, <3>1, <3>2
  <2>2. CASE e \in effects
    <3>1. /\ WasAuthorised(e.request)
          /\ \A b \in e.bound : b.call = e.request.call /\ b.expires \in Nat
      BY <2>2 DEF ServiceInv, EffectsInv
    <3>2. ASSUME NEW b \in e.bound, b.expires > clock
          PROVE  KeyOf(b.call) \in DOMAIN bindings' /\ bindings'[KeyOf(b.call)] = b
      <4>1. PICK k : k = KeyOf(b.call)
        OBVIOUS
      <4>2. k \in DOMAIN bindings /\ bindings[k] = b
        BY <2>2, <3>2, <4>1 DEF ServiceInv, EffectsCanBeReplayed
      <4>3. k \in DOMAIN bindings' /\ bindings'[k] = bindings[k]
        BY <1>1, <3>2, <4>2, CommitKeepsLive
      <4> QED
        BY <4>1, <4>2, <4>3
    <3> QED
      BY <3>1, <3>2
  <2> QED
    BY <2>1, <2>2
<1>4. EffectsInv'
  BY <1>3, AuthorisedStays DEF EffectsInv, WasAuthorised, Claims
<1>5. EffectsCanBeReplayed'
  BY <1>3 DEF EffectsCanBeReplayed
<1> QED
  BY <1>4, <1>5

LEMMA CommitService ==
  ASSUME ServiceInv, NEW h \in Handlers, RunCommit(h) \/ CommitUnanswered(h)
  PROVE  ServiceInv'
<1>1. /\ h \in conn /\ handler[h].pc = "commit" /\ conn' = Released(h)
      /\ effects' = effects \cup {Effect(h)}
      /\ UNCHANGED <<clock, phase, poolSize, request, revoked>>
  BY DEF RunCommit, CommitUnanswered, Commit
<1>2. Commits(h)
  BY DEF RunCommit, CommitUnanswered, Commit, Commits
<1>3. \E s : /\ handler' = [handler EXCEPT ![h] = s]
             /\ s.call = handler[h].call /\ s.pc = "answer" /\ s.writes = NoWrites
  <2>1. CASE RunCommit(h)
    <3>1. PICK me : me = handler[h] /\ Sound(me)
      BY DEF ServiceInv, IInv
    <3>2. PICK s : s = [me EXCEPT !.pc = "answer", !.writes = NoWrites]
      OBVIOUS
    <3>3. s.call = me.call /\ s.pc = "answer" /\ s.writes = NoWrites
      BY <3>1, <3>2 DEF Sound, IsState
    <3>4. handler' = [handler EXCEPT ![h] = s]
      BY <2>1, <3>1, <3>2 DEF RunCommit, Commit
    <3> QED
      BY <3>1, <3>3, <3>4
  <2>2. CASE CommitUnanswered(h)
    <3>1. PICK s : s = Unavailable(handler[h])
      OBVIOUS
    <3>2. handler' = [handler EXCEPT ![h] = s]
      BY <2>2, <3>1 DEF CommitUnanswered, Fail, Unavailable
    <3> QED
      BY <3>1, <3>2, UnavailableState DEF ServiceInv
  <2> QED
    BY <2>1, <2>2
<1>4. PICK s : /\ handler' = [handler EXCEPT ![h] = s]
               /\ s.call = handler[h].call /\ s.pc = "answer" /\ s.writes = NoWrites
  BY <1>3
<1>5. Advances(h, s)
  <2>1. handler'[h] = s
    BY <1>4 DEF ServiceInv, IInv
  <2> QED
    BY <1>1, <1>4, <2>1 DEF Advances, Released, Statements
<1>6. IInv'
  BY CommitInvariant, CommitUnansweredTransfers DEF ServiceInv, RunCommit
<1>7. RequestsInv' /\ HandlersInv'
  BY <1>1, <1>5, AdvanceStep
<1>8. EffectsInv' /\ EffectsCanBeReplayed'
  BY <1>1, <1>2, CommitEffects
<1> QED
  BY <1>6, <1>7, <1>8 DEF ServiceInv
-----------------------------------------------------------------------------
(* The end of a request, and of the process.                               *)

\* Requests and handlers start again from nothing.
LEMMA NothingHeld ==
  IsRequest(NoRequest)' /\ RunsInv(NoRequest, Idle)' /\ HasConnection(FALSE, Idle)'
BY DEF IsRequest, NoRequest, RunsInv, Idle, HasConnection, Locked

LEMMA ForgetService ==
  ASSUME ServiceInv, NEW h \in Handlers, Forget(h)
  PROVE  ServiceInv'
<1>1. /\ UNCHANGED <<clock, accounts, transfers, bindings, answers, calls>>
      /\ UNCHANGED <<phase, revoked, effects>> /\ conn' = conn \ {h}
  BY DEF Forget, database
<1>2. IInv'
  <2>1. Steps(h, Idle)
    BY DEF Forget, Steps
  <2> QED
    BY <2>1, IdleInvariant DEF ServiceInv
<1>3. /\ DOMAIN request' = Handlers /\ request'[h] = NoRequest /\ handler'[h] = Idle
      /\ \A g \in Handlers \ {h} : request'[g] = request[g] /\ handler'[g] = handler[g]
  BY DEF Forget, ServiceInv, RequestsInv, IInv
<1>4. RequestsInv'
  BY <1>1, <1>3, NothingHeld DEF ServiceInv, RequestsInv, IsRequest
<1>5. ASSUME NEW g \in Handlers
      PROVE  RunsInv(request[g], handler[g])' /\ HasConnection(g \in conn, handler[g])'
  <2>1. RunsInv(request[g], handler[g]) /\ HasConnection(g \in conn, handler[g])
    BY DEF ServiceInv, HandlersInv
  <2>2. CASE g # h
    BY <1>1, <1>3, <2>1, <2>2 DEF RunsInv, HasConnection, WasAuthorised, Claims
  <2>3. CASE g = h
    BY <1>1, <1>3, <2>3, NothingHeld DEF RunsInv, HasConnection, WasAuthorised, Claims
  <2> QED
    BY <2>2, <2>3
<1>6. EffectsInv' /\ EffectsCanBeReplayed'
  BY <1>1 DEF ServiceInv, EffectsInv, EffectsCanBeReplayed, WasAuthorised, Claims
<1> QED
  BY <1>2, <1>4, <1>5, <1>6 DEF ServiceInv, HandlersInv

LEMMA KillService ==
  ASSUME ServiceInv, Kill
  PROVE  ServiceInv'
<1>1. /\ UNCHANGED <<clock, accounts, transfers, bindings, answers, calls, revoked, effects>>
      /\ conn' = {} /\ phase' = "down"
      /\ request' = [h \in Handlers |-> NoRequest] /\ handler' = [h \in Handlers |-> Idle]
  BY DEF Kill, database
<1>2. IInv'
  BY KillTransfers DEF ServiceInv, Kill
<1>3. RequestsInv'
  BY <1>1, NothingHeld DEF RequestsInv, IsRequest
<1>4. HandlersInv'
  BY <1>1, NothingHeld DEF HandlersInv, RunsInv, HasConnection, WasAuthorised, Claims
<1>5. EffectsInv' /\ EffectsCanBeReplayed'
  BY <1>1 DEF ServiceInv, EffectsInv, EffectsCanBeReplayed, WasAuthorised, Claims
<1> QED
  BY <1>2, <1>3, <1>4, <1>5 DEF ServiceInv

\* The process stops only when no request is in progress.
LEMMA PhaseService ==
  ASSUME ServiceInv, Start \/ Signal \/ Stop
  PROVE  ServiceInv'
<1>1. /\ UNCHANGED <<clock, accounts, transfers, bindings, handler, answers, calls>>
      /\ UNCHANGED <<conn, request, revoked, effects>>
  BY DEF Start, Signal, Stop, vars
<1>2. IInv'
  BY StutterInvariant DEF ServiceInv, Start, Signal, Stop
<1>3. ASSUME NEW h \in Handlers
      PROVE  /\ request[h].stage = "none" \/ phase' # "down"
             /\ handler[h].pc = "idle" \/ phase' # "down"
  BY DEF Start, Signal, Stop, IsFree
<1>4. RequestsInv'
  BY <1>1, <1>3 DEF ServiceInv, RequestsInv, IsRequest
<1>5. ASSUME NEW g \in Handlers
      PROVE  RunsInv(request[g], handler[g])' /\ HasConnection(g \in conn, handler[g])'
  <2>1. RunsInv(request[g], handler[g]) /\ HasConnection(g \in conn, handler[g])
    BY DEF ServiceInv, HandlersInv
  <2> QED
    BY <1>1, <1>3, <2>1 DEF RunsInv, HasConnection, WasAuthorised, Claims, Statements
<1>6. EffectsInv' /\ EffectsCanBeReplayed'
  BY <1>1 DEF ServiceInv, EffectsInv, EffectsCanBeReplayed, WasAuthorised, Claims
<1> QED
  BY <1>2, <1>4, <1>5, <1>6 DEF ServiceInv, HandlersInv

\* Sessions are only ever added to the revoked ones.
LEMMA RevokeService ==
  ASSUME ServiceInv, NEW s, Revoke(s)
  PROVE  ServiceInv'
<1>1. /\ UNCHANGED <<clock, accounts, transfers, bindings, handler, answers, calls>>
      /\ UNCHANGED <<phase, conn, request, effects>> /\ revoked' = revoked \cup {s}
  BY DEF Revoke, vars
<1>2. IInv'
  BY StutterInvariant DEF ServiceInv, Revoke
<1>3. RequestsInv' /\ HandlersInv'
  BY <1>1 DEF ServiceInv, RequestsInv, IsRequest, HandlersInv, RunsInv, HasConnection,
     WasAuthorised, Claims
<1>4. EffectsInv' /\ EffectsCanBeReplayed'
  BY <1>1 DEF ServiceInv, EffectsInv, EffectsCanBeReplayed, WasAuthorised, Claims
<1> QED
  BY <1>2, <1>3, <1>4 DEF ServiceInv

LEMMA TickService ==
  ASSUME ServiceInv, ServiceTick
  PROVE  ServiceInv'
<1>1. /\ UNCHANGED <<accounts, transfers, bindings, handler, answers, calls>>
      /\ UNCHANGED <<phase, conn, request, revoked, effects>>
      /\ clock \in Nat /\ clock' = clock + 1
  BY DEF ServiceTick, Tick, serviceVars, database, ServiceInv, IInv, CountersInv
<1>2. IInv'
  BY TickInvariant DEF ServiceInv, ServiceTick
<1>3. RequestsInv' /\ HandlersInv' /\ EffectsInv'
  BY <1>1 DEF ServiceInv, RequestsInv, IsRequest, HandlersInv, RunsInv, HasConnection,
     EffectsInv, WasAuthorised, Claims
<1>4. EffectsCanBeReplayed'
  <2> SUFFICES ASSUME NEW e \in effects, NEW b \in e.bound, b.expires > clock'
               PROVE  KeyOf(b.call) \in DOMAIN bindings /\ bindings[KeyOf(b.call)] = b
    BY <1>1 DEF EffectsCanBeReplayed
  <2>1. b.expires \in Nat /\ b.expires > clock
    BY <1>1 DEF ServiceInv, EffectsInv
  <2> QED
    BY <2>1 DEF ServiceInv, EffectsCanBeReplayed
<1> QED
  BY <1>2, <1>3, <1>4 DEF ServiceInv

LEMMA StutterService ==
  ASSUME ServiceInv, UNCHANGED allVars
  PROVE  ServiceInv'
<1>1. /\ UNCHANGED <<clock, accounts, transfers, bindings, handler, answers, calls>>
      /\ UNCHANGED <<phase, conn, request, revoked, effects>>
  BY DEF allVars, serviceVars, vars
<1>2. IInv'
  BY StutterInvariant DEF ServiceInv, allVars
<1>3. RequestsInv' /\ HandlersInv'
  BY <1>1 DEF ServiceInv, RequestsInv, IsRequest, HandlersInv, RunsInv, HasConnection,
     WasAuthorised, Claims
<1>4. EffectsInv' /\ EffectsCanBeReplayed'
  BY <1>1 DEF ServiceInv, EffectsInv, EffectsCanBeReplayed, WasAuthorised, Claims
<1> QED
  BY <1>2, <1>3, <1>4 DEF ServiceInv
-----------------------------------------------------------------------------
(* The theorems.                                                           *)

LEMMA ServiceInitInvariant == ServiceInit => ServiceInv
<1> SUFFICES ASSUME ServiceInit
             PROVE  ServiceInv
  OBVIOUS
<1>1. IInv
  BY ServiceInitTransfers
<1>2. RequestsInv /\ HandlersInv /\ EffectsInv /\ EffectsCanBeReplayed
  BY DEF ServiceInit, RequestsInv, IsRequest, NoRequest, HandlersInv, RunsInv, HasConnection,
     Idle, Locked, EffectsInv, EffectsCanBeReplayed
<1> QED
  BY <1>1, <1>2 DEF ServiceInv

LEMMA ServiceNextInvariant ==
  ASSUME ServiceInv, [ServiceNext]_allVars
  PROVE  ServiceInv'
<1>1. ASSUME NEW h \in Handlers, NEW r \in Requests, Arrive(h, r)
      PROVE  ServiceInv'
  BY <1>1, ArriveService
<1>2. ASSUME NEW h \in Handlers, Introspect(h) \/ IntrospectionFails(h) \/ Authorize(h)
      PROVE  ServiceInv'
  BY <1>2, IntrospectService, RejectService, AuthorizeService DEF IntrospectionFails
<1>3. ASSUME NEW h \in Handlers, Acquire(h) \/ AcquireTimeout(h) \/ RunQuery(h) \/ QueryFails(h)
      PROVE  ServiceInv'
  BY <1>3, AcquireService, AcquireTimeoutService, QueryService, QueryFailsService
<1>4. ASSUME NEW h \in Handlers, RunCommit(h) \/ CommitUnanswered(h) \/ End(h) \/ Abandon(h)
      PROVE  ServiceInv'
  BY <1>4, CommitService, ForgetService DEF End, Abandon
<1>5. ASSUME NEW t \in DOMAIN Tokens, Revoke(Tokens[t].sid)
      PROVE  ServiceInv'
  BY <1>5, RevokeService
<1> QED
  BY <1>1, <1>2, <1>3, <1>4, <1>5, PhaseService, KillService, TickService, StutterService
  DEF ServiceNext, Progress

THEOREM ServiceInvariant == ServiceSpec => []ServiceInv
<1>1. ServiceInit => ServiceInv
  BY ServiceInitInvariant
<1>2. ServiceInv /\ [ServiceNext]_allVars => ServiceInv'
  BY ServiceNextInvariant
<1> QED
  BY <1>1, <1>2, PTL DEF ServiceSpec

\* Whatever is committed was authorised for that call, at the time of the
\* decision and with a session that was live when the auth service answered,
\* whatever is revoked, killed, lost or retried meanwhile.
THEOREM EffectsWereAuthorisedHolds == ServiceSpec => []EffectsWereAuthorised
<1>1. ServiceInv => EffectsWereAuthorised
  BY DEF ServiceInv, EffectsInv, WasAuthorised, EffectsWereAuthorised
<1> QED
  BY <1>1, ServiceInvariant, PTL

\* A keyed call that took effect is found by its retry until its binding
\* expires: after a lost COMMIT answer, a kill or a restart as well.
THEOREM EffectsCanBeReplayedHolds == ServiceSpec => []EffectsCanBeReplayed
<1>1. ServiceInv => EffectsCanBeReplayed
  BY DEF ServiceInv
<1> QED
  BY <1>1, ServiceInvariant, PTL

\* A request that was answered, timed out, abandoned or killed keeps neither a
\* connection nor a lock nor a write, for any number of handlers and any pool.
THEOREM LocksHaveConnectionsHolds == ServiceSpec => []LocksHaveConnections
<1>1. ServiceInv => LocksHaveConnections
  BY DEF ServiceInv, HandlersInv, HasConnection, LocksHaveConnections, IsInTransaction, HoldsLock
<1> QED
  BY <1>1, ServiceInvariant, PTL

\* What holds of the statements alone holds of the service around them, which
\* starts from the rows of an earlier run, loses connections and answers and is
\* killed and restarted.
THEOREM TransfersStayCorrect ==
  ServiceSpec => [](OneEffectPerKey /\ LookupStaysTrue /\ BindingsNameTheirTransfer)
<1>1. ServiceInv => OneEffectPerKey /\ LookupStaysTrue /\ BindingsNameTheirTransfer
  BY DEF ServiceInv, IInv, RowsInv, Sound, LookupInv, Replays, LookupStaysTrue
<1> QED
  BY <1>1, ServiceInvariant, PTL
=============================================================================

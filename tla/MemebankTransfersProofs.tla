----------------------- MODULE MemebankTransfersProofs -----------------------
(***************************************************************************)
(* Proofs about MemebankTransfers for every set of subjects, keys, bodies  *)
(* and handlers.  IInv says what every handler may rely on at each of its  *)
(* statements; Stable says what the others may change meanwhile: rows are  *)
(* added, calls and creation times of rows stay, and the bindings of a     *)
(* locked key are those that the holder of the lock has seen.              *)
(***************************************************************************)
EXTENDS MemebankTransfers, TLAPS

Pcs == {"idle", "account", "answer"} \cup {"lock"} \cup Locked

\* The transfer with this id is what the call was about.
Matches(c, id) ==
  /\ id \in DOMAIN transfers
  /\ transfers[id].call.subject = c.subject
  /\ IF c.op = "create" THEN transfers[id].call = c ELSE id = c.transfer

RowFields == {"call", "state", "created", "updated"}

IsState(s) ==
  /\ DOMAIN s = {"pc", "call", "id", "now", "row", "expired", "writes", "answer"}
  /\ DOMAIN s.writes = {"accounts", "transfers", "bindings"}
  /\ s.pc \in Pcs
  /\ s.now \in 0 .. clock
  /\ s.pc # "idle" => s.call \in Calls
  /\ s.pc \in {"account", "insert"} => s.call.op = "create"
  /\ s.pc \in {"lock", "lookup", "replay", "bind"} => IsKeyed(s.call)
  /\ s.pc \in {"find", "update"} => s.call.op # "create"

\* The handler was answered from an earlier binding.
Replays(s) ==
  \/ s.pc = "replay"
  \/ s.pc = "commit" /\ s.writes.bindings = NoRows

\* The handler will insert, or has inserted, a transfer under its own id.
Inserts(s) ==
  /\ s.pc \in {"account", "lock"} \cup Locked
  /\ s.call.op = "create"
  /\ ~ Replays(s)

IdInv(s) ==
  Inserts(s) => s.id \in 1 .. calls /\ s.id \notin DOMAIN transfers
                /\ InRetention(s.call.body, s.now)

AccountInv(s) ==
  /\ s.writes.accounts \subseteq Subjects
  /\ s.pc \in {"lock"} \cup Locked /\ s.call.op = "create"
       => s.call.subject \in accounts \cup s.writes.accounts

\* The row that FindTransfer read and decided on.
RowInv(s) ==
  s.pc \in {"update", "bind"} =>
    /\ s.row.call \in Calls /\ s.row.call.op = "create"
    /\ s.row.state \in TransferStates
    /\ s.call.op = "create" => s.row.call = s.call

TransferWrites(s) ==
  /\ s.pc \notin {"bind", "commit"} => s.writes.transfers = NoRows
  /\ s.pc \in {"bind", "commit"} =>
       IF s.call.op = "create"
       THEN IF Replays(s) THEN s.writes.transfers = NoRows
            ELSE s.writes.transfers = [i \in {s.id} |->
                   [call |-> s.call, state |-> "pending", created |-> s.now, updated |-> s.now]]
       ELSE \A i \in DOMAIN s.writes.transfers :
              LET w == s.writes.transfers[i]
              IN /\ i = s.call.transfer /\ DOMAIN w = RowFields
                 /\ w.call = transfers[i].call /\ w.created = transfers[i].created
                 /\ w.state \in TransferStates /\ w.updated = s.now

BindingWrites(s) ==
  /\ s.pc # "commit" => s.writes.bindings = NoRows
  /\ s.writes.bindings # NoRows =>
       /\ IsKeyed(s.call)
       /\ DOMAIN s.writes.bindings = {KeyOf(s.call)}
       /\ LET b == s.writes.bindings[KeyOf(s.call)]
          IN /\ b.call = s.call
             /\ b.transfer = IF s.call.op = "create" THEN s.id ELSE s.call.transfer
             /\ b.created = s.now
             /\ b.expires \in Nat /\ b.expires > s.now
             /\ s.call.op = "create" =>
                  \A r : r.call = s.call => b.expires = BindingExpiry(r, s.now)

AnswerInv(s) ==
  /\ s.pc = "replay" => Matches(s.call, s.id)
  /\ s.pc \in {"update", "bind", "commit"} /\ s.call.op # "create" =>
       Matches(s.call, s.call.transfer) /\ s.answer.id = s.call.transfer
  /\ s.pc \in {"bind", "commit"} /\ s.call.op = "create" =>
       IF Replays(s) THEN Matches(s.call, s.answer.id) ELSE s.answer.id = s.id
  /\ s.pc = "answer" /\ s.answer.status = "Ok" => Matches(s.call, s.answer.id)

\* LookupStaysTrue, of one handler.
LookupInv(s) ==
  s.pc \in Locked \ {"lookup"} /\ IsKeyed(s.call) =>
    LET k == KeyOf(s.call)
    IN IF Replays(s)
       THEN IsLive(k, s.now) /\ bindings[k].call = s.call
       ELSE ~ IsLive(k, s.now) /\ (s.expired <=> k \in DOMAIN bindings)

Sound(s) ==
  /\ IsState(s) /\ IdInv(s) /\ AccountInv(s) /\ RowInv(s)
  /\ TransferWrites(s) /\ BindingWrites(s) /\ AnswerInv(s) /\ LookupInv(s)

\* Two handlers insert different ids and hold different keys.
Apart(s, t) ==
  /\ Inserts(s) /\ Inserts(t) => s.id # t.id
  /\ {s.pc, t.pc} \subseteq Locked /\ IsKeyed(s.call) /\ IsKeyed(t.call)
       => KeyOf(s.call) # KeyOf(t.call)

CountersInv == clock \in 0 .. MaxTime /\ calls \in 0 .. MaxCalls

TransfersInv ==
  /\ accounts \subseteq Subjects
  /\ DOMAIN transfers \subseteq 1 .. calls
  /\ \A i \in DOMAIN transfers :
       /\ DOMAIN transfers[i] = RowFields
       /\ transfers[i].call \in Calls /\ transfers[i].call.op = "create"
       /\ transfers[i].call.subject \in accounts
       /\ transfers[i].state \in TransferStates
       /\ transfers[i].created \in 0 .. clock /\ transfers[i].updated \in 0 .. clock
       /\ InRetention(transfers[i].call.body, transfers[i].created)

BindingsInv ==
  \A k \in DOMAIN bindings :
    /\ bindings[k].call \in Calls /\ IsKeyed(bindings[k].call)
    /\ KeyOf(bindings[k].call) = k
    /\ bindings[k].created \in Nat /\ bindings[k].expires \in Nat
    /\ bindings[k].created < bindings[k].expires

\* The key of a transfer stays bound, to this one or to a later effect, at
\* least until the binding that it was created with has expired.
CoveredInv ==
  \A i \in DOMAIN transfers :
    LET k == KeyOf(transfers[i].call)
    IN /\ k \in DOMAIN bindings
       /\ BindingExpiry(transfers[i], transfers[i].created) <= bindings[k].expires

RowsInv ==
  /\ TransfersInv /\ BindingsInv /\ CoveredInv
  /\ BindingsNameTheirTransfer /\ OneEffectPerKey

IInv ==
  /\ DOMAIN handler = Handlers
  /\ CountersInv /\ RowsInv /\ AnswersMatchCalls
  /\ \A h \in Handlers : Sound(handler[h])
  /\ \A g, h \in Handlers : g # h => Apart(handler[g], handler[h])
-----------------------------------------------------------------------------
(* Calls and times.                                                        *)

LEMMA CallTypes ==
  ASSUME NEW c \in Calls
  PROVE  /\ c.subject \in Subjects
         /\ c.op = "create" => c.body.expires \in Nat
         /\ c.op \in {"create", "acknowledge", "cancel", "get"}
BY BodiesAssumption DEF Calls

\* The expiry of a binding depends on the body of its transfer and on a time.
LEMMA ExpiryOfCall ==
  ASSUME NEW r, NEW t, NEW now \in Nat, r.call = t.call,
         r.call \in Calls, r.call.op = "create"
  PROVE  /\ BindingExpiry(r, now) = BindingExpiry(t, now)
         /\ BindingExpiry(r, now) \in Nat
BY CallTypes, TimesAssumption DEF BindingExpiry
-----------------------------------------------------------------------------
(* What a handler relies on stays true while others take their steps.      *)

Stable(s) ==
  /\ clock' \in Nat /\ clock <= clock'
  /\ calls' \in Nat /\ calls <= calls'
  /\ accounts \subseteq accounts'
  /\ DOMAIN transfers \subseteq DOMAIN transfers'
  /\ \A i \in DOMAIN transfers : /\ transfers'[i].call = transfers[i].call
                                 /\ transfers'[i].created = transfers[i].created
  /\ Inserts(s) => s.id \notin DOMAIN transfers'
  /\ s.pc \in Locked /\ IsKeyed(s.call) =>
       LET k == KeyOf(s.call)
       IN /\ k \in DOMAIN bindings' <=> k \in DOMAIN bindings
          /\ k \in DOMAIN bindings => bindings'[k] = bindings[k]

LEMMA MatchesStays ==
  ASSUME NEW c, NEW id, NEW s, Stable(s), Matches(c, id)
  PROVE  Matches(c, id)'
BY DEF Stable, Matches

\* A state that is sound after a step is that of a sound handler.
LEMMA SoundThen ==
  ASSUME NEW g, NEW t, handler'[g] = t, Sound(t)'
  PROVE  Sound(handler[g])'
BY DEF Sound, IsState, IdInv, AccountInv, RowInv, TransferWrites, BindingWrites, AnswerInv,
   LookupInv, Matches, Inserts, Replays, IsLive

LEMMA SoundStays ==
  ASSUME CountersInv, NEW s, Sound(s), Stable(s)
  PROVE  Sound(s)'
<1>1. IsState(s)'
  BY DEF CountersInv, Sound, IsState, Stable
<1>2. IdInv(s)'
  BY DEF CountersInv, Sound, IdInv, Stable, Inserts, Replays, InRetention
<1>3. AccountInv(s)' /\ RowInv(s)'
  BY DEF Sound, AccountInv, RowInv, Stable
<1>4. AnswerInv(s)'
  BY MatchesStays DEF Sound, AnswerInv, Replays
<1>5. TransferWrites(s)'
  <2>1. ASSUME s.pc \in {"bind", "commit"}, s.call.op # "create"
        PROVE  s.call.transfer \in DOMAIN transfers
    BY <2>1 DEF Sound, AnswerInv, Matches
  <2> QED
    BY <2>1 DEF Sound, TransferWrites, Stable, Replays
<1>6. BindingWrites(s)'
  BY DEF Sound, BindingWrites, BindingExpiry
<1>7. LookupInv(s)'
  BY DEF Sound, LookupInv, Stable, Replays, IsLive
<1> QED
  BY <1>1, <1>2, <1>3, <1>4, <1>5, <1>6, <1>7 DEF Sound
-----------------------------------------------------------------------------
(* The steps that change one handler and no row.                           *)

Moves(h, s) ==
  /\ handler' = [handler EXCEPT ![h] = s]
  /\ UNCHANGED <<clock, database>>
  /\ calls' \in calls .. MaxCalls

LEMMA MoveInvariant ==
  ASSUME IInv, NEW h \in Handlers, NEW s, Moves(h, s), Sound(s)',
         \A g \in Handlers \ {h} : Apart(handler[g], s),
         AnswersMatchCalls'
  PROVE  IInv'
<1>1. /\ DOMAIN handler' = Handlers
      /\ handler'[h] = s
      /\ \A g \in Handlers \ {h} : handler'[g] = handler[g]
  BY DEF IInv, Moves
<1>2. CountersInv'
  BY DEF IInv, Moves, CountersInv
<1>3. RowsInv'
  <2>1. TransfersInv' /\ BindingsInv' /\ CoveredInv'
    BY DEF IInv, RowsInv, Moves, database, CountersInv, TransfersInv, BindingsInv,
       CoveredInv, BindingExpiry
  <2>2. BindingsNameTheirTransfer' /\ OneEffectPerKey'
    BY DEF IInv, RowsInv, Moves, database, BindingsNameTheirTransfer, OneEffectPerKey,
       BindingExpiry
  <2> QED
    BY <2>1, <2>2 DEF RowsInv
<1>4. ASSUME NEW g \in Handlers
      PROVE  Sound(handler[g])'
  <2>1. CASE g = h
    <3>1. PICK t : t = s /\ handler'[g] = t /\ Sound(t)'
      BY <1>1, <2>1
    <3> QED
      BY <3>1, SoundThen
  <2>2. CASE g # h
    <3>1. PICK t : t = handler[g] /\ handler'[g] = t /\ Sound(t)
      BY <1>1, <2>2 DEF IInv
    <3>2. Stable(t)
      BY <3>1 DEF IInv, CountersInv, Moves, database, Stable, Sound, IdInv
    <3>3. Sound(t)'
      BY <3>1, <3>2, SoundStays DEF IInv
    <3> QED
      BY <3>1, <3>3
  <2> QED
    BY <2>1, <2>2
<1>5. \A f, g \in Handlers : f # g => Apart(handler'[f], handler'[g])
  <2>1. \A t, u : Apart(t, u) => Apart(u, t)
    BY DEF Apart
  <2> QED
    BY <1>1, <2>1 DEF IInv
<1>6. \A f, g \in Handlers : f # g => Apart(handler[f], handler[g])'
  BY <1>5 DEF Apart, Inserts, Replays
<1> QED
  BY <1>1, <1>2, <1>3, <1>4, <1>6 DEF IInv

\* A statement that writes nothing but the handler's own state.
Steps(h, s) ==
  /\ handler' = [handler EXCEPT ![h] = s]
  /\ UNCHANGED <<clock, database, answers, calls>>

LEMMA StepInvariant ==
  ASSUME IInv, NEW h \in Handlers, NEW s, Steps(h, s), Sound(s),
         \A g \in Handlers \ {h} : Apart(handler[g], s)
  PROVE  IInv'
<1>1. Moves(h, s) /\ AnswersMatchCalls'
  BY DEF IInv, Steps, Moves, CountersInv, database, AnswersMatchCalls
<1>2. Stable(s)
  BY DEF IInv, CountersInv, Steps, database, Stable, Sound, IdInv
<1>3. Sound(s)'
  BY <1>2, SoundStays DEF IInv
<1> QED
  BY <1>1, <1>3, MoveInvariant

\* A handler that goes on with its call meets the others as it did before.
LEMMA ApartStays ==
  ASSUME IInv, NEW h \in Handlers, NEW s, s.call = handler[h].call,
         Inserts(s) => Inserts(handler[h]) /\ s.id = handler[h].id,
         s.pc \in Locked => handler[h].pc \in Locked
  PROVE  \A g \in Handlers \ {h} : Apart(handler[g], s)
BY DEF IInv, Apart

LEMMA IdleIsSound == CountersInv => Sound(Idle)
BY TimesAssumption
DEF CountersInv, Sound, IsState, IdInv, AccountInv, RowInv, TransferWrites, BindingWrites,
    AnswerInv, LookupInv, Idle, NoWrites, Pcs, Inserts, Locked

\* A handler may always give up.
LEMMA IdleInvariant ==
  ASSUME IInv, NEW h \in Handlers, Steps(h, Idle)
  PROVE  IInv'
<1>1. \A g \in Handlers \ {h} : Apart(handler[g], Idle)
  BY DEF Apart, Idle, Inserts, Locked
<1> QED
  BY <1>1, IdleIsSound, StepInvariant DEF IInv

LEMMA DisconnectInvariant ==
  ASSUME IInv, NEW h \in Handlers, Disconnect(h)
  PROVE  IInv'
BY IdleInvariant DEF Disconnect, Steps

LEMMA FailInvariant ==
  ASSUME IInv, NEW h \in Handlers, handler[h].pc # "idle",
         NEW error, error # "Ok", Fail(h, error),
         UNCHANGED <<clock, database, answers, calls>>
  PROVE  IInv'
<1>1. PICK me : me = handler[h] /\ Sound(me) /\ me.pc # "idle"
  BY DEF IInv
<1>2. PICK s : s = [me EXCEPT !.pc = "answer", !.writes = NoWrites, !.answer = Failure(error)]
  OBVIOUS
<1>3. /\ DOMAIN s = DOMAIN me
      /\ s.pc = "answer" /\ s.writes = NoWrites /\ s.answer.status = error
      /\ s.call = me.call /\ s.now = me.now
  BY <1>1, <1>2 DEF Sound, IsState, Failure, Answer
<1>4. Steps(h, s)
  BY <1>1, <1>2 DEF Fail, Steps
<1>5. Sound(s)
  BY <1>1, <1>3 DEF Sound, IsState, IdInv, AccountInv, RowInv, TransferWrites, BindingWrites,
     AnswerInv, LookupInv, NoWrites, Pcs, Inserts, Locked
<1>6. \A g \in Handlers \ {h} : Apart(handler[g], s)
  BY <1>3 DEF Apart, Inserts, Locked
<1> QED
  BY <1>4, <1>5, <1>6, StepInvariant

LEMMA RespondInvariant ==
  ASSUME IInv, NEW h \in Handlers, Respond(h)
  PROVE  IInv'
<1>1. Moves(h, Idle)
  BY DEF IInv, CountersInv, Respond, Moves
<1>2. Sound(Idle)'
  <2>1. Sound(Idle) /\ Stable(Idle)
    BY IdleIsSound DEF IInv, CountersInv, Respond, database, Stable, Idle, Inserts, Locked
  <2> QED
    BY <2>1, SoundStays DEF IInv
<1>3. \A g \in Handlers \ {h} : Apart(handler[g], Idle)
  BY DEF Apart, Idle, Inserts, Locked
<1>4. AnswersMatchCalls'
  <2>1. PICK me : me = handler[h] /\ Sound(me) /\ me.pc = "answer"
    BY DEF IInv, Respond
  <2>2. me.answer.status = "Ok" => Matches(me.call, me.answer.id)
    BY <2>1 DEF Sound, AnswerInv
  <2>3. answers' = answers \cup {[call |-> me.call, answer |-> me.answer]}
    BY <2>1 DEF Respond
  <2> QED
    BY <2>2, <2>3 DEF IInv, AnswersMatchCalls, Matches, Respond, database
<1> QED
  BY <1>1, <1>2, <1>3, <1>4, MoveInvariant
-----------------------------------------------------------------------------
(* The statements.                                                         *)

LEMMA EnsureAccountInvariant ==
  ASSUME IInv, NEW h \in Handlers, EnsureAccount(h)
  PROVE  IInv'
<1>1. PICK me : me = handler[h] /\ Sound(me) /\ me.pc = "account"
  BY DEF IInv, EnsureAccount
<1>2. PICK added : added = {me.call.subject} \ accounts
  OBVIOUS
<1>3. PICK s : s = [me EXCEPT !.pc = "lock", !.writes.accounts = added]
  OBVIOUS
<1>4. /\ DOMAIN s = DOMAIN me /\ DOMAIN s.writes = DOMAIN me.writes
      /\ s.pc = "lock" /\ s.writes.accounts = added
      /\ s.writes.transfers = me.writes.transfers /\ s.writes.bindings = me.writes.bindings
      /\ s.call = me.call /\ s.now = me.now /\ s.id = me.id
  BY <1>1, <1>3 DEF Sound, IsState
<1>5. Steps(h, s)
  BY <1>1, <1>2, <1>3 DEF EnsureAccount, Steps
<1>6. Sound(s)
  <2>1. IsState(s) /\ IdInv(s)
    BY <1>1, <1>4 DEF Sound, IsState, IdInv, Pcs, Inserts, Replays, IsKeyed
  <2>2. AccountInv(s)
    BY <1>1, <1>2, <1>4, CallTypes DEF Sound, IsState, AccountInv
  <2> QED
    BY <1>1, <1>4, <2>1, <2>2 DEF Sound, RowInv, TransferWrites, BindingWrites, AnswerInv,
       LookupInv, Locked
<1>7. \A g \in Handlers \ {h} : Apart(handler[g], s)
  <2>1. (Inserts(s) => Inserts(me)) /\ s.pc \notin Locked
    BY <1>1, <1>4 DEF Inserts, Replays, Locked
  <2> QED
    BY <1>1, <1>4, <2>1, ApartStays
<1> QED
  BY <1>5, <1>6, <1>7, StepInvariant

\* The lock that it waited for is held by nobody else.
LEMMA LockInvariant ==
  ASSUME IInv, NEW h \in Handlers, LockIdempotency(h)
  PROVE  IInv'
<1>1. PICK me : me = handler[h] /\ Sound(me) /\ me.pc = "lock"
  BY DEF IInv, LockIdempotency
<1>2. PICK s : s = [me EXCEPT !.pc = "lookup"]
  OBVIOUS
<1>3. /\ DOMAIN s = DOMAIN me
      /\ s.pc = "lookup" /\ s.writes = me.writes
      /\ s.call = me.call /\ s.now = me.now /\ s.id = me.id
  BY <1>1, <1>2 DEF Sound, IsState
<1>4. Steps(h, s)
  BY <1>1, <1>2 DEF LockIdempotency, Steps
<1>5. Inserts(s) => Inserts(me)
  BY <1>1, <1>3 DEF Inserts, Replays
<1>6. Sound(s)
  <2>1. IsState(s) /\ IdInv(s) /\ AccountInv(s)
    BY <1>1, <1>3, <1>5 DEF Sound, IsState, IdInv, AccountInv, Pcs, Locked
  <2> QED
    BY <1>1, <1>3, <2>1 DEF Sound, RowInv, TransferWrites, BindingWrites, AnswerInv, LookupInv
<1>7. ASSUME NEW g \in Handlers \ {h}
      PROVE  Apart(handler[g], s)
  <2>1. Inserts(handler[g]) /\ Inserts(s) => handler[g].id # s.id
    BY <1>1, <1>3, <1>5 DEF IInv, Apart
  <2>2. handler[g].pc \in Locked /\ IsKeyed(handler[g].call)
          => KeyOf(handler[g].call) # KeyOf(s.call)
    BY <1>1, <1>3 DEF LockIdempotency, HoldsLock
  <2> QED
    BY <2>1, <2>2 DEF Apart
<1> QED
  BY <1>4, <1>6, <1>7, StepInvariant
LEMMA LookupInvariant ==
  ASSUME IInv, NEW h \in Handlers, LookupIdempotency(h)
  PROVE  IInv'
<1>1. PICK me : me = handler[h] /\ Sound(me) /\ me.pc = "lookup"
  BY DEF IInv, LookupIdempotency
<1>2. PICK k : k = KeyOf(me.call)
  OBVIOUS
<1>3. IsKeyed(me.call) /\ me.call \in Calls
  BY <1>1 DEF Sound, IsState
<1>4. CASE Fail(h, "IdempotencyConflict")
  BY <1>1, <1>4, FailInvariant DEF LookupIdempotency
<1>5. CASE /\ IsLive(k, me.now) /\ SameRequest(bindings[k], me.call)
           /\ handler' = [handler EXCEPT ![h].pc = "replay", ![h].id = bindings[k].transfer]
  <2>1. PICK s : s = [me EXCEPT !.pc = "replay", !.id = bindings[k].transfer]
    OBVIOUS
  <2>2. /\ DOMAIN s = DOMAIN me
        /\ s.pc = "replay" /\ s.id = bindings[k].transfer
        /\ s.writes = me.writes /\ s.call = me.call /\ s.now = me.now
    BY <1>1, <2>1 DEF Sound, IsState
  <2>3. Steps(h, s)
    BY <1>1, <1>5, <2>1 DEF LookupIdempotency, Steps
  <2>4. Matches(s.call, s.id)
    <3>1. k \in DOMAIN bindings /\ bindings[k].call = me.call
      BY <1>5 DEF IsLive, SameRequest
    <3>2. k[1] = me.call.subject
      BY <1>2 DEF KeyOf
    <3> QED
      BY <1>3, <2>2, <3>1, <3>2 DEF IInv, RowsInv, BindingsNameTheirTransfer, Matches, IsKeyed
  <2>5. IsState(s) /\ IdInv(s) /\ AccountInv(s)
    BY <1>1, <2>2 DEF Sound, IsState, IdInv, AccountInv, Pcs, Locked, Inserts, Replays
  <2>6. AnswerInv(s) /\ LookupInv(s)
    BY <1>2, <1>5, <2>2, <2>4 DEF AnswerInv, LookupInv, Replays, SameRequest
  <2>7. Sound(s)
    BY <1>1, <2>2, <2>5, <2>6 DEF Sound, RowInv, TransferWrites, BindingWrites
  <2>8. \A g \in Handlers \ {h} : Apart(handler[g], s)
    <3>1. ~ Inserts(s) /\ me.pc \in Locked
      BY <1>1, <2>2 DEF Inserts, Replays, Locked
    <3> QED
      BY <1>1, <2>2, <3>1, ApartStays
  <2> QED
    BY <2>3, <2>7, <2>8, StepInvariant
<1>6. CASE /\ ~ IsLive(k, me.now)
           /\ handler' = [handler EXCEPT
                ![h].pc = IF me.call.op = "create" THEN "insert" ELSE "find",
                ![h].expired = k \in DOMAIN bindings]
  <2>1. PICK pc : pc = IF me.call.op = "create" THEN "insert" ELSE "find"
    OBVIOUS
  <2>2. PICK found : found = (k \in DOMAIN bindings)
    OBVIOUS
  <2>3. PICK s : s = [me EXCEPT !.pc = pc, !.expired = found]
    OBVIOUS
  <2>4. /\ DOMAIN s = DOMAIN me
        /\ s.pc = pc /\ s.expired = found /\ s.id = me.id
        /\ s.writes = me.writes /\ s.call = me.call /\ s.now = me.now
    BY <1>1, <2>3 DEF Sound, IsState
  <2>5. Steps(h, s)
    BY <1>1, <1>6, <2>1, <2>2, <2>3 DEF LookupIdempotency, Steps
  <2>6. IsState(s) /\ IdInv(s) /\ AccountInv(s)
    BY <1>1, <2>1, <2>4 DEF Sound, IsState, IdInv, AccountInv, Pcs, Locked, Inserts, Replays
  <2>7. AnswerInv(s) /\ LookupInv(s)
    BY <1>2, <1>6, <2>1, <2>2, <2>4 DEF AnswerInv, LookupInv, Replays
  <2>8. Sound(s)
    BY <1>1, <2>1, <2>4, <2>6, <2>7 DEF Sound, RowInv, TransferWrites, BindingWrites
  <2>9. \A g \in Handlers \ {h} : Apart(handler[g], s)
    <3>1. (Inserts(s) => Inserts(me)) /\ me.pc \in Locked
      BY <1>1, <2>1, <2>4 DEF Inserts, Replays, Locked
    <3> QED
      BY <1>1, <2>4, <3>1, ApartStays
  <2> QED
    BY <2>5, <2>8, <2>9, StepInvariant
<1> QED
  BY <1>1, <1>2, <1>4, <1>5, <1>6 DEF LookupIdempotency

\* The bound transfer is there: the replay never fails.
LEMMA ReplayInvariant ==
  ASSUME IInv, NEW h \in Handlers, FindReplayed(h)
  PROVE  IInv'
<1>1. PICK me : me = handler[h] /\ Sound(me) /\ me.pc = "replay"
  BY DEF IInv, FindReplayed
<1>2. CASE Fail(h, "Unavailable")
  BY <1>1, <1>2, FailInvariant DEF FindReplayed
<1>3. ASSUME NEW answer, answer.id = me.id,
             handler' = [handler EXCEPT ![h].pc = "commit", ![h].answer = answer]
      PROVE  IInv'
  <2>1. PICK s : s = [me EXCEPT !.pc = "commit", !.answer = answer]
    OBVIOUS
  <2>2. /\ DOMAIN s = DOMAIN me
        /\ s.pc = "commit" /\ s.answer.id = me.id
        /\ s.writes = me.writes /\ s.call = me.call /\ s.now = me.now
    BY <1>1, <1>3, <2>1 DEF Sound, IsState
  <2>3. Steps(h, s)
    BY <1>1, <1>3, <2>1 DEF FindReplayed, Steps
  <2>4. Replays(s) /\ Replays(me) /\ ~ Inserts(s)
    BY <1>1, <2>2 DEF Sound, BindingWrites, Replays, Inserts
  <2>5. IsState(s) /\ IdInv(s) /\ AccountInv(s)
    BY <1>1, <2>2, <2>4 DEF Sound, IsState, IdInv, AccountInv, Pcs, Locked
  <2>6. AnswerInv(s)
    <3>1. Matches(me.call, me.id) /\ IsKeyed(me.call)
      BY <1>1 DEF Sound, IsState, AnswerInv
    <3> QED
      BY <2>2, <2>4, <3>1 DEF AnswerInv, Matches
  <2>7. LookupInv(s)
    BY <1>1, <2>2, <2>4 DEF Sound, LookupInv, Locked
  <2>8. RowInv(s) /\ TransferWrites(s) /\ BindingWrites(s)
    <3>1. s.writes.transfers = NoRows /\ s.writes.bindings = NoRows
      BY <1>1, <2>2 DEF Sound, TransferWrites, BindingWrites
    <3> QED
      BY <2>2, <2>4, <3>1 DEF RowInv, TransferWrites, BindingWrites, NoRows
  <2>9. \A g \in Handlers \ {h} : Apart(handler[g], s)
    <3>1. me.pc \in Locked
      BY <1>1 DEF Locked
    <3> QED
      BY <1>1, <2>2, <2>4, <3>1, ApartStays
  <2> QED
    BY <2>3, <2>5, <2>6, <2>7, <2>8, <2>9, StepInvariant DEF Sound
<1> QED
  BY <1>1, <1>2, <1>3 DEF FindReplayed, Answer

LEMMA InsertInvariant ==
  ASSUME IInv, NEW h \in Handlers, InsertTransfer(h)
  PROVE  IInv'
<1>1. PICK me : me = handler[h] /\ Sound(me) /\ me.pc = "insert"
  BY DEF IInv, InsertTransfer
<1>2. PICK row : row = [call |-> me.call, state |-> "pending",
                        created |-> me.now, updated |-> me.now]
  OBVIOUS
<1>3. PICK written : written = [i \in {me.id} |-> row]
  OBVIOUS
<1>4. PICK answer : answer = Answer("Ok", me.id, Shown(row, me.now))
  OBVIOUS
<1>5. PICK s : s = [me EXCEPT !.pc = "bind", !.row = row,
                              !.writes.transfers = written, !.answer = answer]
  OBVIOUS
<1>6. /\ DOMAIN s = DOMAIN me /\ DOMAIN s.writes = DOMAIN me.writes
      /\ s.pc = "bind" /\ s.row = row /\ s.answer = answer
      /\ s.writes.transfers = written
      /\ s.writes.accounts = me.writes.accounts /\ s.writes.bindings = me.writes.bindings
      /\ s.call = me.call /\ s.now = me.now /\ s.id = me.id /\ s.expired = me.expired
  BY <1>1, <1>5 DEF Sound, IsState
<1>7. Steps(h, s)
  <2>1. handler' = [handler EXCEPT ![h].pc = "bind", ![h].row = row,
                                   ![h].writes.transfers = written, ![h].answer = answer]
    BY <1>1, <1>2, <1>3, <1>4, Zenon DEF InsertTransfer
  <2>2. UNCHANGED <<clock, database, answers, calls>>
    BY DEF InsertTransfer
  <2> QED
    BY <1>1, <1>5, <2>1, <2>2 DEF Steps
<1>8. me.call.op = "create" /\ me.call \in Calls /\ ~ Replays(s) /\ ~ Replays(me)
      /\ Inserts(me)
  BY <1>1, <1>6 DEF Sound, IsState, Replays, Inserts, Locked
<1>9. IsState(s) /\ IdInv(s) /\ AccountInv(s)
  BY <1>1, <1>6, <1>8 DEF Sound, IsState, IdInv, AccountInv, Pcs, Locked, IsKeyed
<1>10. RowInv(s) /\ TransferWrites(s)
  BY <1>2, <1>3, <1>6, <1>8 DEF RowInv, TransferWrites, TransferStates
<1>11. AnswerInv(s)
  BY <1>4, <1>6, <1>8 DEF AnswerInv, Answer
<1>12. BindingWrites(s) /\ LookupInv(s)
  BY <1>1, <1>6, <1>8 DEF Sound, BindingWrites, LookupInv, Locked
<1>13. \A g \in Handlers \ {h} : Apart(handler[g], s)
  <2>1. me.pc \in Locked
    BY <1>1 DEF Locked
  <2> QED
    BY <1>1, <1>6, <1>8, <2>1, ApartStays
<1> QED
  BY <1>7, <1>9, <1>10, <1>11, <1>12, <1>13, StepInvariant DEF Sound
LEMMA FindInvariant ==
  ASSUME IInv, NEW h \in Handlers, FindTransfer(h)
  PROVE  IInv'
<1>1. PICK me : me = handler[h] /\ Sound(me) /\ me.pc = "find"
  BY DEF IInv, FindTransfer
<1>2. PICK id : id = me.call.transfer
  OBVIOUS
<1>3. PICK target : target = Target(me.call, transfers[id], me.now)
  OBVIOUS
<1>4. UNCHANGED <<clock, database, answers, calls>>
  BY DEF FindTransfer
<1>5. CASE Fail(h, "NotFound")
  BY <1>1, <1>4, <1>5, FailInvariant
<1>6. CASE target \in PolicyErrors /\ Fail(h, target)
  <2>1. target # "Ok"
    BY <1>6 DEF PolicyErrors
  <2> QED
    BY <1>1, <1>4, <1>6, <2>1, FailInvariant
<1>7. ASSUME Owns(me.call.subject, id), target \in TransferStates,
             NEW pc, pc \in {"update", IF me.call.op = "acknowledge" THEN "bind" ELSE "commit"},
             NEW answer, answer.id = id,
             handler' = [handler EXCEPT ![h].pc = pc,
                           ![h].row = [transfers[id] EXCEPT !.state = target],
                           ![h].answer = answer]
      PROVE  IInv'
  <2>1. PICK row : row = [transfers[id] EXCEPT !.state = target]
    OBVIOUS
  <2>2. /\ row.call \in Calls /\ row.call.op = "create"
        /\ row.state \in TransferStates
    BY <1>7, <2>1 DEF IInv, RowsInv, TransfersInv, RowFields, Owns
  <2>3. PICK s : s = [me EXCEPT !.pc = pc, !.row = row, !.answer = answer]
    OBVIOUS
  <2>4. /\ DOMAIN s = DOMAIN me
        /\ s.pc = pc /\ s.row = row /\ s.answer = answer
        /\ s.writes = me.writes /\ s.call = me.call /\ s.now = me.now /\ s.id = me.id
        /\ s.expired = me.expired
    BY <1>1, <2>3 DEF Sound, IsState
  <2>5. Steps(h, s)
    BY <1>1, <1>4, <1>7, <2>1, <2>3 DEF Steps
  <2>6. /\ me.call \in Calls /\ me.call.op # "create"
        /\ IsKeyed(me.call) <=> me.call.op = "acknowledge"
    BY <1>1 DEF Sound, IsState, IsKeyed
  <2>7. Matches(me.call, id)
    BY <1>2, <1>7, <2>6 DEF Matches, Owns
  <2>8. IsState(s) /\ IdInv(s) /\ AccountInv(s)
    BY <1>1, <1>7, <2>4, <2>6 DEF Sound, IsState, IdInv, AccountInv, Pcs, Locked, Inserts
  <2>9. s.writes.transfers = NoRows /\ s.writes.bindings = NoRows
    BY <1>1, <2>4 DEF Sound, TransferWrites, BindingWrites
  <2>10. RowInv(s) /\ TransferWrites(s) /\ BindingWrites(s)
    BY <1>7, <2>2, <2>4, <2>6, <2>9 DEF RowInv, TransferWrites, BindingWrites, NoRows
  <2>11. AnswerInv(s)
    BY <1>2, <1>7, <2>4, <2>6, <2>7 DEF AnswerInv
  <2>12. LookupInv(s)
    BY <1>1, <1>7, <2>4, <2>6 DEF Sound, LookupInv, Locked, Replays
  <2>13. \A g \in Handlers \ {h} : Apart(handler[g], s)
    <3>1. ~ Inserts(s) /\ me.pc \in Locked
      BY <1>1, <2>4, <2>6 DEF Inserts, Locked
    <3> QED
      BY <1>1, <2>4, <3>1, ApartStays
  <2> QED
    BY <2>5, <2>8, <2>10, <2>11, <2>12, <2>13, StepInvariant DEF Sound
<1>8. PICK pc : pc = IF target = transfers[id].state
                     THEN IF me.call.op = "acknowledge" THEN "bind" ELSE "commit"
                     ELSE "update"
  OBVIOUS
<1>9. PICK answer : answer = Answer("Ok", id,
                               Shown([transfers[id] EXCEPT !.state = target], me.now))
  OBVIOUS
<1>10. \/ Fail(h, "NotFound")
       \/ target \in PolicyErrors /\ Fail(h, target)
       \/ /\ Owns(me.call.subject, id) /\ target \in TransferStates
          /\ handler' = [handler EXCEPT ![h].pc = pc,
                           ![h].row = [transfers[id] EXCEPT !.state = target],
                           ![h].answer = answer]
  BY <1>1, <1>2, <1>3, <1>8, <1>9, Zenon DEF FindTransfer
<1>11. answer.id = id
  BY <1>9 DEF Answer
<1> QED
  BY <1>5, <1>6, <1>7, <1>8, <1>10, <1>11

\* Whatever the row holds by now, its call and its creation are those read.
LEMMA UpdateInvariant ==
  ASSUME IInv, NEW h \in Handlers, UpdateTransfer(h)
  PROVE  IInv'
<1>1. PICK me : me = handler[h] /\ Sound(me) /\ me.pc = "update"
  BY DEF IInv, UpdateTransfer
<1>2. PICK id : id = me.call.transfer
  OBVIOUS
<1>3. PICK row : row = [transfers[id] EXCEPT !.state = me.row.state, !.updated = me.now]
  OBVIOUS
<1>4. PICK written : written = [i \in {id} |-> row]
  OBVIOUS
<1>5. PICK pc : pc = IF me.call.op = "acknowledge" THEN "bind" ELSE "commit"
  OBVIOUS
<1>6. PICK s : s = [me EXCEPT !.pc = pc, !.writes.transfers = written]
  OBVIOUS
<1>7. /\ DOMAIN s = DOMAIN me /\ DOMAIN s.writes = DOMAIN me.writes
      /\ s.pc = pc /\ s.writes.transfers = written
      /\ s.writes.accounts = me.writes.accounts /\ s.writes.bindings = me.writes.bindings
      /\ s.call = me.call /\ s.now = me.now /\ s.id = me.id /\ s.row = me.row
      /\ s.expired = me.expired /\ s.answer = me.answer
  BY <1>1, <1>6 DEF Sound, IsState
<1>8. Steps(h, s)
  <2>1. handler' = [handler EXCEPT ![h].pc = pc, ![h].writes.transfers = written]
    BY <1>1, <1>2, <1>3, <1>4, <1>5, Zenon DEF UpdateTransfer
  <2>2. UNCHANGED <<clock, database, answers, calls>>
    BY DEF UpdateTransfer
  <2> QED
    BY <1>1, <1>6, <2>1, <2>2 DEF Steps
<1>9. /\ me.call \in Calls /\ me.call.op # "create"
      /\ IsKeyed(me.call) <=> me.call.op = "acknowledge"
      /\ Matches(me.call, id) /\ me.answer.id = id
  BY <1>1, <1>2 DEF Sound, IsState, IsKeyed, AnswerInv
<1>10. IsState(s) /\ IdInv(s) /\ AccountInv(s)
  BY <1>1, <1>5, <1>7, <1>9 DEF Sound, IsState, IdInv, AccountInv, Pcs, Locked, Inserts
<1>11. RowInv(s)
  BY <1>1, <1>7 DEF Sound, RowInv
<1>12. TransferWrites(s)
  <2>1. /\ DOMAIN row = RowFields
        /\ row.call = transfers[id].call /\ row.created = transfers[id].created
        /\ row.state \in TransferStates /\ row.updated = me.now
    BY <1>1, <1>3, <1>9 DEF Sound, RowInv, IInv, RowsInv, TransfersInv, RowFields, Matches
  <2> QED
    BY <1>2, <1>4, <1>5, <1>7, <1>9, <2>1 DEF TransferWrites
<1>13. BindingWrites(s) /\ AnswerInv(s) /\ LookupInv(s)
  <2>1. s.writes.bindings = NoRows
    BY <1>1, <1>7 DEF Sound, BindingWrites
  <2> QED
    BY <1>1, <1>2, <1>5, <1>7, <1>9, <2>1
    DEF Sound, BindingWrites, AnswerInv, LookupInv, Locked, Replays
<1>14. \A g \in Handlers \ {h} : Apart(handler[g], s)
  <2>1. ~ Inserts(s) /\ me.pc \in Locked
    BY <1>1, <1>7, <1>9 DEF Inserts, Locked
  <2> QED
    BY <1>1, <1>7, <2>1, ApartStays
<1> QED
  BY <1>8, <1>10, <1>11, <1>12, <1>13, <1>14, StepInvariant DEF Sound

\* A binding is written with a time of expiry that lies ahead.
LEMMA BindInvariant ==
  ASSUME IInv, NEW h \in Handlers, InsertIdempotency(h)
  PROVE  IInv'
<1>1. PICK me : me = handler[h] /\ Sound(me) /\ me.pc = "bind"
  BY DEF IInv, InsertIdempotency
<1>2. PICK k : k = KeyOf(me.call)
  OBVIOUS
<1>3. PICK until : until = BindingExpiry(me.row, me.now)
  OBVIOUS
<1>4. CASE Fail(h, "Unavailable")
  BY <1>1, <1>4, FailInvariant DEF InsertIdempotency
<1>5. PICK b : b = [call |-> me.call,
                    transfer |-> IF me.call.op = "create" THEN me.id ELSE me.call.transfer,
                    created |-> me.now, expires |-> until]
  OBVIOUS
<1>6. PICK written : written = [x \in {k} |-> b]
  OBVIOUS
<1>7. CASE /\ until > me.now
           /\ handler' = [handler EXCEPT ![h].pc = "commit", ![h].writes.bindings = written]
  <2>1. PICK s : s = [me EXCEPT !.pc = "commit", !.writes.bindings = written]
    OBVIOUS
  <2>2. /\ DOMAIN s = DOMAIN me /\ DOMAIN s.writes = DOMAIN me.writes
        /\ s.pc = "commit" /\ s.writes.bindings = written
        /\ s.writes.accounts = me.writes.accounts
        /\ s.writes.transfers = me.writes.transfers
        /\ s.call = me.call /\ s.now = me.now /\ s.id = me.id
        /\ s.expired = me.expired /\ s.answer = me.answer
    BY <1>1, <2>1 DEF Sound, IsState
  <2>3. Steps(h, s)
    BY <1>1, <1>7, <2>1 DEF InsertIdempotency, Steps
  <2>4. written # NoRows
    <3>1. DOMAIN written = {k} /\ DOMAIN NoRows = {}
      BY <1>6 DEF NoRows
    <3> QED
      BY <3>1
  <2>5. ~ Replays(s) /\ ~ Replays(me) /\ IsKeyed(me.call) /\ me.call \in Calls
    BY <1>1, <2>2, <2>4 DEF Sound, IsState, Replays
  <2>6. IsState(s) /\ IdInv(s) /\ AccountInv(s)
    BY <1>1, <2>2, <2>5 DEF Sound, IsState, IdInv, AccountInv, Pcs, Locked, Inserts
  <2>7. RowInv(s) /\ TransferWrites(s) /\ AnswerInv(s)
    BY <1>1, <2>2, <2>5 DEF Sound, RowInv, TransferWrites, AnswerInv
  <2>8. LookupInv(s)
    BY <1>1, <2>2, <2>5 DEF Sound, LookupInv, Locked
  <2>9. BindingWrites(s)
    <3>1. /\ me.now \in Nat
          /\ me.row.call \in Calls /\ me.row.call.op = "create"
          /\ me.call.op = "create" => me.row.call = me.call
      BY <1>1 DEF Sound, IsState, RowInv
    <3>2. until \in Nat
      BY <1>3, <3>1, ExpiryOfCall
    <3>3. me.call.op = "create" => \A r : r.call = me.call => until = BindingExpiry(r, me.now)
      BY <1>3, <3>1, ExpiryOfCall
    <3> QED
      BY <1>2, <1>5, <1>6, <1>7, <2>2, <2>5, <3>2, <3>3 DEF BindingWrites
  <2>10. \A g \in Handlers \ {h} : Apart(handler[g], s)
    <3>1. (Inserts(s) => Inserts(me)) /\ me.pc \in Locked
      BY <1>1, <2>2, <2>5 DEF Inserts, Locked
    <3> QED
      BY <1>1, <2>2, <3>1, ApartStays
  <2> QED
    BY <2>3, <2>6, <2>7, <2>8, <2>9, <2>10, StepInvariant DEF Sound
<1> QED
  BY <1>1, <1>2, <1>3, <1>4, <1>5, <1>6, <1>7 DEF InsertIdempotency, IsInsertable
-----------------------------------------------------------------------------
(* The beginning of a call.                                                *)

LEMMA EnterInvariant ==
  ASSUME IInv, NEW h \in Handlers, NEW c \in Calls, NEW pc, NEW answer,
         Enter(h, c, pc, answer),
         \/ pc = "account" /\ c.op = "create" /\ InRetention(c.body, clock)
         \/ pc = "answer" /\ answer.status # "Ok"
         \/ pc = "lock" /\ c.op = "acknowledge"
         \/ pc = "find" /\ c.op \in {"cancel", "get"}
  PROVE  IInv'
<1>1. PICK s : s = [Idle EXCEPT !.call = c, !.id = calls + 1, !.now = clock,
                                !.pc = pc, !.answer = answer]
  OBVIOUS
<1>2. /\ DOMAIN s = DOMAIN Idle
      /\ s.pc = pc /\ s.call = c /\ s.id = calls + 1 /\ s.now = clock
      /\ s.answer = answer /\ s.writes = NoWrites
  BY <1>1 DEF Idle
<1>3. calls \in Nat /\ calls' = calls + 1 /\ calls' \in calls .. MaxCalls /\ clock \in Nat
  BY TimesAssumption DEF IInv, CountersInv, Enter
<1>4. Moves(h, s) /\ UNCHANGED answers
  BY <1>1, <1>3 DEF Enter, Moves
<1>5. IsState(s)' /\ AccountInv(s)' /\ RowInv(s)'
  BY <1>2, <1>3, <1>4 DEF Moves, IsState, AccountInv, RowInv, Pcs, Locked, IsKeyed, Idle, NoWrites
<1>6. IdInv(s)'
  <2>1. s.id \in 1 .. calls' /\ s.id \notin DOMAIN transfers'
    BY <1>2, <1>3, <1>4 DEF IInv, RowsInv, TransfersInv, Moves, database
  <2>2. Inserts(s)' => pc = "account"
    BY <1>2 DEF Inserts, Locked
  <2> QED
    BY <1>2, <2>1, <2>2 DEF IdInv, InRetention
<1>7. TransferWrites(s)' /\ BindingWrites(s)' /\ AnswerInv(s)' /\ LookupInv(s)'
  BY <1>2 DEF TransferWrites, BindingWrites, AnswerInv, LookupInv, NoWrites, IsKeyed, Locked
<1>8. ASSUME NEW g \in Handlers \ {h}
      PROVE  Apart(handler[g], s)
  <2>1. Inserts(handler[g]) => handler[g].id # s.id
    BY <1>2, <1>3 DEF IInv, Sound, IdInv
  <2>2. ~ (s.pc \in Locked /\ IsKeyed(s.call))
    BY <1>2 DEF IsKeyed, Locked
  <2> QED
    BY <2>1, <2>2 DEF Apart
<1>9. AnswersMatchCalls'
  BY <1>4 DEF IInv, AnswersMatchCalls, Moves, database
<1> QED
  BY <1>4, <1>5, <1>6, <1>7, <1>8, <1>9, MoveInvariant DEF Sound

LEMMA BeginInvariant ==
  ASSUME IInv, NEW h \in Handlers, NEW c \in Calls, Begin(h, c)
  PROVE  IInv'
<1>1. Failure("InvalidRetention").status # "Ok"
  BY DEF Failure, Answer
<1> QED
  BY <1>1, EnterInvariant DEF Begin, BeginCreate, BeginAcknowledge, BeginCancel, BeginGet
-----------------------------------------------------------------------------
(* The commit.                                                             *)

\* The writes of the transaction become visible, whatever its client is told.
Commits(h) ==
  LET me == handler[h]
  IN /\ me.pc = "commit"
     /\ accounts' = accounts \cup me.writes.accounts
     /\ transfers' = Merge(transfers, me.writes.transfers)
     /\ bindings' = Merge(bindings, me.writes.bindings)
     /\ UNCHANGED <<clock, answers, calls>>

\* What the transaction has written, and what the tables hold afterwards.
LEMMA CommitWrites ==
  ASSUME IInv, NEW h \in Handlers, Commits(h), NEW me, me = handler[h]
  PROVE  /\ Sound(me) /\ me.pc = "commit" /\ me.call \in Calls
         /\ accounts' = accounts \cup me.writes.accounts
         /\ transfers' = Merge(transfers, me.writes.transfers)
         /\ bindings' = Merge(bindings, me.writes.bindings)
         /\ clock' = clock /\ calls' = calls /\ answers' = answers
BY DEF IInv, Commits, Sound, IsState

\* Rows keep their call and creation; the only new one is that of a create,
\* under the handler's own id.
LEMMA CommitRows ==
  ASSUME IInv, NEW h \in Handlers, Commits(h), NEW me, me = handler[h]
  PROVE  /\ Inserts(me) => DOMAIN transfers' = DOMAIN transfers \cup {me.id}
         /\ ~ Inserts(me) => DOMAIN transfers' = DOMAIN transfers
         /\ \A i \in DOMAIN transfers :
              /\ DOMAIN transfers'[i] = RowFields
              /\ transfers'[i].call = transfers[i].call
              /\ transfers'[i].created = transfers[i].created
              /\ transfers'[i].state \in TransferStates
              /\ transfers'[i].updated \in 0 .. clock
         /\ Inserts(me) =>
              transfers'[me.id] = [call |-> me.call, state |-> "pending",
                                   created |-> me.now, updated |-> me.now]
<1>1. /\ Sound(me) /\ me.pc = "commit" /\ me.now \in 0 .. clock
      /\ transfers' = Merge(transfers, me.writes.transfers)
      /\ \A i \in DOMAIN transfers : /\ DOMAIN transfers[i] = RowFields
                                     /\ transfers[i].state \in TransferStates
                                     /\ transfers[i].updated \in 0 .. clock
  BY CommitWrites DEF Sound, IsState, IInv, RowsInv, TransfersInv
<1>2. PICK new : new = me.writes.transfers /\ transfers' = Merge(transfers, new)
  BY <1>1
<1>3. /\ DOMAIN transfers' = DOMAIN transfers \cup DOMAIN new
      /\ \A i \in DOMAIN new : transfers'[i] = new[i]
      /\ \A i \in DOMAIN transfers \ DOMAIN new : transfers'[i] = transfers[i]
  <2>1. PICK old : old = transfers
    OBVIOUS
  <2>2. PICK merged : merged = Merge(old, new)
    OBVIOUS
  <2>3. /\ DOMAIN merged = DOMAIN old \cup DOMAIN new
        /\ \A k \in DOMAIN new : merged[k] = new[k]
        /\ \A k \in DOMAIN old \ DOMAIN new : merged[k] = old[k]
    BY <2>2 DEF Merge
  <2> QED
    BY <1>2, <2>1, <2>2, <2>3
<1>4. CASE Inserts(me)
  <2>1. /\ new = [i \in {me.id} |-> [call |-> me.call, state |-> "pending",
                                     created |-> me.now, updated |-> me.now]]
        /\ me.id \notin DOMAIN transfers
    BY <1>1, <1>2, <1>4 DEF Sound, TransferWrites, IdInv, Inserts
  <2> QED
    BY <1>1, <1>3, <1>4, <2>1
<1>5. CASE me.call.op = "create" /\ ~ Inserts(me)
  <2>1. Replays(me)
    BY <1>1, <1>5 DEF Inserts, Locked
  <2>2. new = NoRows
    BY <1>1, <1>2, <1>5, <2>1 DEF Sound, TransferWrites
  <2>3. DOMAIN new = {}
    BY <2>2 DEF NoRows
  <2> QED
    BY <1>1, <1>3, <1>5, <2>3
<1>6. CASE me.call.op # "create"
  <2>1. \A i \in DOMAIN new :
          /\ i = me.call.transfer /\ DOMAIN new[i] = RowFields
          /\ new[i].call = transfers[i].call /\ new[i].created = transfers[i].created
          /\ new[i].state \in TransferStates /\ new[i].updated = me.now
    BY <1>1, <1>2, <1>6 DEF Sound, TransferWrites
  <2>2. me.call.transfer \in DOMAIN transfers
    BY <1>1, <1>6 DEF Sound, AnswerInv, Matches
  <2>3. ~ Inserts(me)
    BY <1>6 DEF Inserts
  <2>4. DOMAIN transfers' = DOMAIN transfers
    BY <1>3, <2>1, <2>2
  <2>5. ASSUME NEW i \in DOMAIN transfers
        PROVE  /\ DOMAIN transfers'[i] = RowFields
               /\ transfers'[i].call = transfers[i].call
               /\ transfers'[i].created = transfers[i].created
               /\ transfers'[i].state \in TransferStates
               /\ transfers'[i].updated \in 0 .. clock
    <3>1. CASE i \in DOMAIN new
      <4>1. transfers'[i] = new[i]
        BY <1>3, <3>1
      <4>2. /\ DOMAIN new[i] = RowFields
            /\ new[i].call = transfers[i].call /\ new[i].created = transfers[i].created
            /\ new[i].state \in TransferStates /\ new[i].updated = me.now
        BY <2>1, <3>1
      <4> QED
        BY <1>1, <4>1, <4>2
    <3>2. CASE i \notin DOMAIN new
      <4>1. transfers'[i] = transfers[i]
        BY <1>3, <3>2
      <4> QED
        BY <1>1, <4>1
    <3> QED
      BY <3>1, <3>2
  <2> QED
    BY <2>3, <2>4, <2>5
<1> QED
  BY <1>4, <1>5, <1>6

\* The only binding that changes is that of the locked key, once it is free.
LEMMA CommitBindings ==
  ASSUME IInv, NEW h \in Handlers, Commits(h), NEW me, me = handler[h]
  PROVE  \/ /\ DOMAIN bindings' = DOMAIN bindings
            /\ \A l \in DOMAIN bindings : bindings'[l] = bindings[l]
            /\ ~ Inserts(me)
         \/ \E k :
              /\ k = KeyOf(me.call) /\ IsKeyed(me.call)
              /\ DOMAIN bindings' = DOMAIN bindings \cup {k}
              /\ \A l \in DOMAIN bindings \ {k} : bindings'[l] = bindings[l]
              /\ ~ IsLive(k, me.now)
              /\ bindings'[k].call = me.call
              /\ bindings'[k].transfer =
                   IF me.call.op = "create" THEN me.id ELSE me.call.transfer
              /\ bindings'[k].created = me.now
              /\ bindings'[k].expires \in Nat /\ bindings'[k].expires > me.now
              /\ me.call.op = "create" =>
                   /\ Inserts(me)
                   /\ \A r : r.call = me.call => bindings'[k].expires = BindingExpiry(r, me.now)
<1>1. /\ Sound(me) /\ me.pc = "commit"
      /\ bindings' = Merge(bindings, me.writes.bindings)
  BY CommitWrites
<1>2. PICK new : new = me.writes.bindings /\ bindings' = Merge(bindings, new)
  BY <1>1
<1>3. /\ DOMAIN bindings' = DOMAIN bindings \cup DOMAIN new
      /\ \A k \in DOMAIN new : bindings'[k] = new[k]
      /\ \A k \in DOMAIN bindings \ DOMAIN new : bindings'[k] = bindings[k]
  <2>1. PICK old : old = bindings
    OBVIOUS
  <2>2. PICK merged : merged = Merge(old, new)
    OBVIOUS
  <2>3. /\ DOMAIN merged = DOMAIN old \cup DOMAIN new
        /\ \A k \in DOMAIN new : merged[k] = new[k]
        /\ \A k \in DOMAIN old \ DOMAIN new : merged[k] = old[k]
    BY <2>2 DEF Merge
  <2> QED
    BY <1>2, <2>1, <2>2, <2>3
<1>4. CASE new = NoRows
  <2>1. /\ DOMAIN bindings' = DOMAIN bindings
        /\ \A l \in DOMAIN bindings : bindings'[l] = bindings[l]
    BY <1>3, <1>4 DEF NoRows
  <2>2. Replays(me)
    BY <1>1, <1>2, <1>4 DEF Replays
  <2>3. ~ Inserts(me)
    BY <2>2 DEF Inserts
  <2> QED
    BY <2>1, <2>3
<1>5. CASE new # NoRows
  <2>1. PICK k : k = KeyOf(me.call)
    OBVIOUS
  <2>2. /\ IsKeyed(me.call) /\ DOMAIN new = {k}
        /\ new[k].call = me.call
        /\ new[k].transfer = IF me.call.op = "create" THEN me.id ELSE me.call.transfer
        /\ new[k].created = me.now
        /\ new[k].expires \in Nat /\ new[k].expires > me.now
        /\ me.call.op = "create" =>
             \A r : r.call = me.call => new[k].expires = BindingExpiry(r, me.now)
    BY <1>1, <1>2, <1>5, <2>1 DEF Sound, BindingWrites
  <2>3. ~ Replays(me) /\ me.pc \in Locked
    BY <1>1, <1>2, <1>5 DEF Replays, Locked
  <2>4. ~ IsLive(k, me.now)
    BY <1>1, <2>1, <2>2, <2>3 DEF Sound, LookupInv
  <2>5. me.call.op = "create" => Inserts(me)
    BY <2>3 DEF Inserts
  <2>6. bindings'[k] = new[k] /\ DOMAIN bindings' = DOMAIN bindings \cup {k}
        /\ \A l \in DOMAIN bindings \ {k} : bindings'[l] = bindings[l]
    BY <1>3, <2>2
  <2> QED
    BY <2>1, <2>2, <2>4, <2>5, <2>6
<1> QED
  BY <1>4, <1>5

\* What the inserted transfer is.
LEMMA CommitInsert ==
  ASSUME IInv, NEW h \in Handlers, Commits(h), NEW me, me = handler[h], Inserts(me)
  PROVE  /\ me.call \in Calls /\ me.call.op = "create" /\ IsKeyed(me.call)
         /\ me.id \in 1 .. calls /\ me.id \notin DOMAIN transfers
         /\ InRetention(me.call.body, me.now) /\ me.now \in 0 .. clock
         /\ me.call.subject \in accounts' /\ me.id \in DOMAIN transfers'
         /\ transfers'[me.id].call = me.call /\ transfers'[me.id].created = me.now
<1>1. /\ Sound(me) /\ me.pc = "commit" /\ me.call \in Calls
      /\ accounts' = accounts \cup me.writes.accounts
  BY CommitWrites
<1>2. me.call.op = "create" /\ IsKeyed(me.call) /\ me.now \in 0 .. clock
  BY <1>1 DEF Inserts, IsKeyed, Sound, IsState
<1>3. /\ me.id \in 1 .. calls /\ me.id \notin DOMAIN transfers
      /\ InRetention(me.call.body, me.now)
  BY <1>1 DEF Sound, IdInv
<1>4. me.call.subject \in accounts'
  BY <1>1, <1>2 DEF Sound, AccountInv, Locked
<1>5. me.id \in DOMAIN transfers'
  BY CommitRows
<1>6. transfers'[me.id].call = me.call /\ transfers'[me.id].created = me.now
  <2>1. transfers'[me.id] = [call |-> me.call, state |-> "pending",
                             created |-> me.now, updated |-> me.now]
    BY CommitRows
  <2> QED
    BY <2>1
<1> QED
  BY <1>1, <1>2, <1>3, <1>4, <1>5, <1>6

LEMMA CommitTransfers ==
  ASSUME IInv, NEW h \in Handlers, Commits(h)
  PROVE  TransfersInv'
<1>1. PICK me : me = handler[h]
  OBVIOUS
<1>2. /\ Sound(me) /\ me.pc = "commit" /\ clock' = clock /\ calls' = calls
      /\ accounts' = accounts \cup me.writes.accounts
  BY <1>1, CommitWrites
<1>3. accounts' \subseteq Subjects
  BY <1>2 DEF IInv, RowsInv, TransfersInv, Sound, AccountInv
<1>4. ASSUME NEW i \in DOMAIN transfers', i \in DOMAIN transfers
      PROVE  /\ i \in 1 .. calls'
             /\ DOMAIN transfers'[i] = RowFields
             /\ transfers'[i].call \in Calls /\ transfers'[i].call.op = "create"
             /\ transfers'[i].call.subject \in accounts'
             /\ transfers'[i].state \in TransferStates
             /\ transfers'[i].created \in 0 .. clock' /\ transfers'[i].updated \in 0 .. clock'
             /\ InRetention(transfers'[i].call.body, transfers'[i].created)
  <2>1. /\ DOMAIN transfers'[i] = RowFields
        /\ transfers'[i].call = transfers[i].call
        /\ transfers'[i].created = transfers[i].created
        /\ transfers'[i].state \in TransferStates
        /\ transfers'[i].updated \in 0 .. clock
    BY <1>1, <1>4, CommitRows
  <2> QED
    BY <1>2, <1>4, <2>1 DEF IInv, RowsInv, TransfersInv
<1>5. ASSUME NEW i \in DOMAIN transfers', i \notin DOMAIN transfers
      PROVE  /\ i \in 1 .. calls'
             /\ DOMAIN transfers'[i] = RowFields
             /\ transfers'[i].call \in Calls /\ transfers'[i].call.op = "create"
             /\ transfers'[i].call.subject \in accounts'
             /\ transfers'[i].state \in TransferStates
             /\ transfers'[i].created \in 0 .. clock' /\ transfers'[i].updated \in 0 .. clock'
             /\ InRetention(transfers'[i].call.body, transfers'[i].created)
  <2>1. /\ Inserts(me) /\ i = me.id
        /\ transfers'[i] = [call |-> me.call, state |-> "pending",
                            created |-> me.now, updated |-> me.now]
    BY <1>1, <1>5, CommitRows
  <2>2. /\ me.call \in Calls /\ me.call.op = "create" /\ i \in 1 .. calls
        /\ InRetention(me.call.body, me.now) /\ me.now \in 0 .. clock
        /\ me.call.subject \in accounts'
    BY <1>1, <2>1, CommitInsert
  <2> QED
    BY <1>2, <2>1, <2>2 DEF RowFields, TransferStates, TerminalStates
<1> QED
  BY <1>3, <1>4, <1>5 DEF TransfersInv, InRetention
LEMMA CommitBindingsSound ==
  ASSUME IInv, NEW h \in Handlers, Commits(h)
  PROVE  BindingsInv' /\ BindingsNameTheirTransfer'
<1>1. PICK me : me = handler[h]
  OBVIOUS
<1>2. Sound(me) /\ me.pc = "commit" /\ me.call \in Calls /\ me.now \in Nat
  BY <1>1, CommitWrites DEF Sound, IsState, IInv, CountersInv
<1>3. ASSUME NEW l \in DOMAIN bindings', l \in DOMAIN bindings, bindings'[l] = bindings[l]
      PROVE  /\ bindings'[l].call \in Calls /\ IsKeyed(bindings'[l].call)
             /\ KeyOf(bindings'[l].call) = l
             /\ bindings'[l].created \in Nat /\ bindings'[l].expires \in Nat
             /\ bindings'[l].created < bindings'[l].expires
             /\ bindings'[l].transfer \in DOMAIN transfers'
             /\ transfers'[bindings'[l].transfer].call.subject = l[1]
             /\ bindings'[l].call.op = "create" =>
                  transfers'[bindings'[l].transfer].call = bindings'[l].call
             /\ bindings'[l].call.op = "acknowledge" =>
                  bindings'[l].call.transfer = bindings'[l].transfer
  <2>1. PICK b : b = bindings[l] /\ bindings'[l] = b
    BY <1>3
  <2>2. /\ b.call \in Calls /\ IsKeyed(b.call) /\ KeyOf(b.call) = l
        /\ b.created \in Nat /\ b.expires \in Nat /\ b.created < b.expires
    BY <1>3, <2>1 DEF IInv, RowsInv, BindingsInv
  <2>3. /\ b.transfer \in DOMAIN transfers
        /\ transfers[b.transfer].call.subject = l[1]
        /\ b.call.op = "create" => transfers[b.transfer].call = b.call
        /\ b.call.op = "acknowledge" => b.call.transfer = b.transfer
    BY <1>3, <2>1 DEF IInv, RowsInv, BindingsNameTheirTransfer
  <2>4. b.transfer \in DOMAIN transfers'
        /\ transfers'[b.transfer].call = transfers[b.transfer].call
    BY <1>1, <2>3, CommitRows
  <2> QED
    BY <2>1, <2>2, <2>3, <2>4
<1>4. ASSUME NEW k, k = KeyOf(me.call), IsKeyed(me.call),
             bindings'[k].call = me.call,
             bindings'[k].transfer = IF me.call.op = "create" THEN me.id ELSE me.call.transfer,
             bindings'[k].created = me.now,
             bindings'[k].expires \in Nat, bindings'[k].expires > me.now,
             me.call.op = "create" => Inserts(me)
      PROVE  /\ bindings'[k].call \in Calls /\ IsKeyed(bindings'[k].call)
             /\ KeyOf(bindings'[k].call) = k
             /\ bindings'[k].created \in Nat /\ bindings'[k].expires \in Nat
             /\ bindings'[k].created < bindings'[k].expires
             /\ bindings'[k].transfer \in DOMAIN transfers'
             /\ transfers'[bindings'[k].transfer].call.subject = k[1]
             /\ bindings'[k].call.op = "create" =>
                  transfers'[bindings'[k].transfer].call = bindings'[k].call
             /\ bindings'[k].call.op = "acknowledge" =>
                  bindings'[k].call.transfer = bindings'[k].transfer
  <2>1. PICK b : b = bindings'[k]
    OBVIOUS
  <2>2. k[1] = me.call.subject
    BY <1>4 DEF KeyOf
  <2>3. CASE me.call.op = "create"
    <3>1. /\ me.id \in DOMAIN transfers' /\ transfers'[me.id].call = me.call
      BY <1>1, <1>4, <2>3, CommitInsert
    <3> QED
      BY <1>2, <1>4, <2>2, <2>3, <3>1
  <2>4. CASE me.call.op # "create"
    <3>1. /\ me.call.transfer \in DOMAIN transfers
          /\ transfers[me.call.transfer].call.subject = me.call.subject
      BY <1>2, <2>4 DEF Sound, AnswerInv, Matches
    <3>2. /\ me.call.transfer \in DOMAIN transfers'
          /\ transfers'[me.call.transfer].call = transfers[me.call.transfer].call
      BY <1>1, <3>1, CommitRows
    <3> QED
      BY <1>2, <1>4, <2>2, <2>4, <3>1, <3>2
  <2> QED
    BY <2>3, <2>4
<1>5. CASE /\ DOMAIN bindings' = DOMAIN bindings
           /\ \A l \in DOMAIN bindings : bindings'[l] = bindings[l]
  BY <1>3, <1>5 DEF BindingsInv, BindingsNameTheirTransfer
<1>6. CASE ~ (/\ DOMAIN bindings' = DOMAIN bindings
              /\ \A l \in DOMAIN bindings : bindings'[l] = bindings[l])
  <2>1. PICK k : /\ k = KeyOf(me.call) /\ IsKeyed(me.call)
                 /\ DOMAIN bindings' = DOMAIN bindings \cup {k}
                 /\ \A l \in DOMAIN bindings \ {k} : bindings'[l] = bindings[l]
                 /\ bindings'[k].call = me.call
                 /\ bindings'[k].transfer =
                      IF me.call.op = "create" THEN me.id ELSE me.call.transfer
                 /\ bindings'[k].created = me.now
                 /\ bindings'[k].expires \in Nat /\ bindings'[k].expires > me.now
                 /\ me.call.op = "create" => Inserts(me)
    BY <1>1, <1>6, CommitBindings
  <2> QED
    BY <1>3, <1>4, <2>1 DEF BindingsInv, BindingsNameTheirTransfer
<1> QED
  BY <1>5, <1>6
LEMMA CommitAdds ==
  ASSUME IInv, NEW h \in Handlers, Commits(h), NEW me, me = handler[h],
         NEW i \in DOMAIN transfers' \ DOMAIN transfers
  PROVE  Inserts(me) /\ i = me.id
<1>1. CASE Inserts(me)
  <2>1. DOMAIN transfers' = DOMAIN transfers \cup {me.id}
    BY <1>1, CommitRows
  <2> QED
    BY <1>1, <2>1
<1>2. CASE ~ Inserts(me)
  <2>1. DOMAIN transfers' = DOMAIN transfers
    BY <1>2, CommitRows
  <2> QED
    BY <2>1
<1> QED
  BY <1>1, <1>2

\* A transfer that stood before the commit keeps its key, and the time until
\* which it covers that key.
LEMMA CommitKeepsExpiry ==
  ASSUME IInv, NEW h \in Handlers, Commits(h), NEW i \in DOMAIN transfers
  PROVE  /\ i \in DOMAIN transfers'
         /\ transfers'[i].created = transfers[i].created
         /\ KeyOf(transfers'[i].call) = KeyOf(transfers[i].call)
         /\ BindingExpiry(transfers'[i], transfers'[i].created)
              = BindingExpiry(transfers[i], transfers[i].created)
         /\ BindingExpiry(transfers[i], transfers[i].created) \in Nat
         /\ transfers[i].created \in Nat
<1>1. PICK me : me = handler[h]
  OBVIOUS
<1>2. /\ i \in DOMAIN transfers'
      /\ transfers'[i].call = transfers[i].call
      /\ transfers'[i].created = transfers[i].created
  BY <1>1, CommitRows
<1>3. PICK r, t : r = transfers'[i] /\ t = transfers[i]
  OBVIOUS
<1>4. /\ r.call = t.call /\ r.call \in Calls /\ r.call.op = "create"
      /\ t.created \in Nat /\ r.created = t.created
  BY <1>2, <1>3 DEF IInv, CountersInv, RowsInv, TransfersInv
<1>5. /\ BindingExpiry(r, t.created) = BindingExpiry(t, t.created)
      /\ BindingExpiry(r, t.created) \in Nat
  BY <1>4, ExpiryOfCall
<1>6. BindingExpiry(r, r.created) = BindingExpiry(t, t.created)
      /\ BindingExpiry(t, t.created) \in Nat
  BY <1>4, <1>5
<1> QED
  BY <1>2, <1>3, <1>4, <1>6

\* Only a binding that has expired is replaced, by one that expires later.
LEMMA CommitCovered ==
  ASSUME IInv, NEW h \in Handlers, Commits(h)
  PROVE  CoveredInv'
<1>1. PICK me : me = handler[h]
  OBVIOUS
<1>2. Sound(me) /\ me.now \in Nat
  BY <1>1, CommitWrites DEF Sound, IsState, IInv, CountersInv
<1>3. \A l \in DOMAIN bindings :
        /\ l \in DOMAIN bindings'
        /\ bindings[l].expires \in Nat /\ bindings'[l].expires \in Nat
        /\ bindings[l].expires <= bindings'[l].expires
  <2> SUFFICES ASSUME NEW l \in DOMAIN bindings
               PROVE  /\ l \in DOMAIN bindings'
                      /\ bindings[l].expires \in Nat /\ bindings'[l].expires \in Nat
                      /\ bindings[l].expires <= bindings'[l].expires
    OBVIOUS
  <2>1. bindings[l].expires \in Nat
    BY DEF IInv, RowsInv, BindingsInv
  <2>2. CASE DOMAIN bindings' = DOMAIN bindings /\ bindings'[l] = bindings[l]
    BY <2>1, <2>2
  <2>3. CASE ~ (DOMAIN bindings' = DOMAIN bindings /\ bindings'[l] = bindings[l])
    <3>1. PICK k : /\ DOMAIN bindings' = DOMAIN bindings \cup {k}
                   /\ \A m \in DOMAIN bindings \ {k} : bindings'[m] = bindings[m]
                   /\ ~ IsLive(k, me.now)
                   /\ bindings'[k].expires \in Nat /\ bindings'[k].expires > me.now
      BY <1>1, <2>3, CommitBindings
    <3>2. CASE l = k
      BY <1>2, <2>1, <3>1, <3>2 DEF IsLive
    <3>3. CASE l # k
      BY <2>1, <3>1, <3>3
    <3> QED
      BY <3>2, <3>3
  <2> QED
    BY <2>2, <2>3
<1>4. ASSUME NEW i \in DOMAIN transfers', i \in DOMAIN transfers
      PROVE  /\ KeyOf(transfers'[i].call) \in DOMAIN bindings'
             /\ BindingExpiry(transfers'[i], transfers'[i].created)
                  <= bindings'[KeyOf(transfers'[i].call)].expires
  <2>1. PICK k : k = KeyOf(transfers[i].call)
    OBVIOUS
  <2>2. /\ k \in DOMAIN bindings
        /\ BindingExpiry(transfers[i], transfers[i].created) <= bindings[k].expires
    BY <1>4, <2>1 DEF IInv, RowsInv, CoveredInv
  <2>3. /\ KeyOf(transfers'[i].call) = k
        /\ BindingExpiry(transfers'[i], transfers'[i].created)
             = BindingExpiry(transfers[i], transfers[i].created)
        /\ BindingExpiry(transfers[i], transfers[i].created) \in Nat
    BY <1>4, <2>1, CommitKeepsExpiry
  <2> QED
    BY <1>3, <2>2, <2>3
<1>5. ASSUME NEW i \in DOMAIN transfers', i \notin DOMAIN transfers
      PROVE  /\ KeyOf(transfers'[i].call) \in DOMAIN bindings'
             /\ BindingExpiry(transfers'[i], transfers'[i].created)
                  <= bindings'[KeyOf(transfers'[i].call)].expires
  <2>1. Inserts(me) /\ i = me.id
    BY <1>1, <1>5, CommitAdds
  <2>2. /\ me.call \in Calls /\ me.call.op = "create"
        /\ transfers'[i].call = me.call /\ transfers'[i].created = me.now
    BY <1>1, <2>1, CommitInsert
  <2>3. PICK k : /\ k = KeyOf(me.call) /\ IsKeyed(me.call)
                 /\ DOMAIN bindings' = DOMAIN bindings \cup {k}
                 /\ \A l \in DOMAIN bindings \ {k} : bindings'[l] = bindings[l]
                 /\ ~ IsLive(k, me.now)
                 /\ bindings'[k].call = me.call
                 /\ bindings'[k].transfer =
                      IF me.call.op = "create" THEN me.id ELSE me.call.transfer
                 /\ bindings'[k].created = me.now
                 /\ bindings'[k].expires \in Nat /\ bindings'[k].expires > me.now
                 /\ me.call.op = "create" =>
                      /\ Inserts(me)
                      /\ \A r : r.call = me.call =>
                           bindings'[k].expires = BindingExpiry(r, me.now)
    BY <1>1, <2>1, CommitBindings
  <2>4. bindings'[k].expires = BindingExpiry(transfers'[i], me.now)
    BY <2>2, <2>3
  <2> QED
    BY <2>2, <2>3, <2>4
<1> QED
  BY <1>4, <1>5 DEF CoveredInv, BindingExpiry

\* A second transfer with the same key found the binding of the first expired.
LEMMA CommitOneEffect ==
  ASSUME IInv, NEW h \in Handlers, Commits(h)
  PROVE  OneEffectPerKey'
<1>1. PICK me : me = handler[h]
  OBVIOUS
<1>2. ASSUME NEW i \in DOMAIN transfers, NEW j \in DOMAIN transfers', j \notin DOMAIN transfers,
             KeyOf(transfers'[i].call) = KeyOf(transfers'[j].call)
      PROVE  transfers'[j].created >= BindingExpiry(transfers'[i], transfers'[i].created)
  <2>1. Inserts(me) /\ j = me.id
    BY <1>1, <1>2, CommitAdds
  <2>2. /\ me.call.op = "create" /\ me.now \in 0 .. clock /\ IsKeyed(me.call)
        /\ transfers'[j].call = me.call /\ transfers'[j].created = me.now
    BY <1>1, <2>1, CommitInsert
  <2>3. ~ IsLive(KeyOf(me.call), me.now)
    BY <1>1, <2>1, <2>2, CommitBindings
  <2>4. PICK k : k = KeyOf(me.call)
    OBVIOUS
  <2>5. /\ KeyOf(transfers[i].call) = k
        /\ BindingExpiry(transfers'[i], transfers'[i].created)
             = BindingExpiry(transfers[i], transfers[i].created)
        /\ BindingExpiry(transfers[i], transfers[i].created) \in Nat
    BY <1>2, <2>2, <2>4, CommitKeepsExpiry
  <2>6. /\ k \in DOMAIN bindings /\ bindings[k].expires \in Nat
        /\ BindingExpiry(transfers[i], transfers[i].created) <= bindings[k].expires
    BY <2>5 DEF IInv, RowsInv, CoveredInv, BindingsInv
  <2>7. bindings[k].expires <= me.now /\ me.now \in Nat
    BY <2>2, <2>3, <2>4, <2>6 DEF IsLive, IInv, CountersInv
  <2> QED
    BY <2>2, <2>5, <2>6, <2>7
<1>3. ASSUME NEW i \in DOMAIN transfers, NEW j \in DOMAIN transfers, i # j,
             KeyOf(transfers'[i].call) = KeyOf(transfers'[j].call)
      PROVE  \/ transfers'[i].created >= BindingExpiry(transfers'[j], transfers'[j].created)
             \/ transfers'[j].created >= BindingExpiry(transfers'[i], transfers'[i].created)
  <2>1. KeyOf(transfers[i].call) = KeyOf(transfers[j].call)
    BY <1>3, CommitKeepsExpiry
  <2>2. \/ transfers[i].created >= BindingExpiry(transfers[j], transfers[j].created)
        \/ transfers[j].created >= BindingExpiry(transfers[i], transfers[i].created)
    BY <1>3, <2>1 DEF IInv, RowsInv, OneEffectPerKey
  <2> QED
    BY <2>2, CommitKeepsExpiry
<1>4. ASSUME NEW i \in DOMAIN transfers', NEW j \in DOMAIN transfers', i # j
      PROVE  i \in DOMAIN transfers \/ j \in DOMAIN transfers
  BY <1>1, <1>4, CommitAdds
<1>5. \A i, j \in DOMAIN transfers' :
        i # j /\ KeyOf(transfers'[i].call) = KeyOf(transfers'[j].call)
        => \/ transfers'[i].created >= BindingExpiry(transfers'[j], transfers'[j].created)
           \/ transfers'[j].created >= BindingExpiry(transfers'[i], transfers'[i].created)
  BY <1>2, <1>3, <1>4
<1> QED
  BY <1>5 DEF OneEffectPerKey, BindingExpiry
LEMMA CommitKeepsCalls ==
  ASSUME IInv, NEW h \in Handlers, Commits(h), NEW i \in DOMAIN transfers
  PROVE  /\ i \in DOMAIN transfers'
         /\ transfers'[i].call = transfers[i].call
         /\ transfers'[i].created = transfers[i].created
<1>1. PICK me : me = handler[h]
  OBVIOUS
<1>2. /\ transfers'[i].call = transfers[i].call
      /\ transfers'[i].created = transfers[i].created
  BY <1>1, CommitRows
<1>3. CASE Inserts(me)
  BY <1>1, <1>2, <1>3, CommitRows
<1>4. CASE ~ Inserts(me)
  BY <1>1, <1>2, <1>4, CommitRows
<1> QED
  BY <1>3, <1>4

\* The others hold other keys and insert other ids than what is committed.
LEMMA CommitIsStable ==
  ASSUME IInv, NEW h \in Handlers, Commits(h), NEW g \in Handlers \ {h},
         NEW t, t = handler[g]
  PROVE  Stable(t)
<1>1. PICK me : me = handler[h]
  OBVIOUS
<1>2. /\ Sound(me) /\ me.pc = "commit"
      /\ accounts' = accounts \cup me.writes.accounts
      /\ clock' = clock /\ calls' = calls
  BY <1>1, CommitWrites
<1>3. Sound(t) /\ Apart(t, me)
  BY <1>1 DEF IInv
<1>4. \A i \in DOMAIN transfers : /\ transfers'[i].call = transfers[i].call
                                  /\ transfers'[i].created = transfers[i].created
  BY CommitKeepsCalls
<1>5. DOMAIN transfers \subseteq DOMAIN transfers'
  BY CommitKeepsCalls
<1>6. ASSUME Inserts(t)
      PROVE  t.id \notin DOMAIN transfers'
  <2>1. t.id \notin DOMAIN transfers
    BY <1>3, <1>6 DEF Sound, IdInv
  <2>2. Inserts(me) => t.id # me.id
    BY <1>3, <1>6 DEF Apart
  <2> QED
    BY <1>1, <2>1, <2>2, CommitAdds
<1>7. ASSUME t.pc \in Locked, IsKeyed(t.call), NEW l, l = KeyOf(t.call)
      PROVE  /\ l \in DOMAIN bindings' <=> l \in DOMAIN bindings
             /\ l \in DOMAIN bindings => bindings'[l] = bindings[l]
  <2>1. CASE /\ DOMAIN bindings' = DOMAIN bindings
             /\ \A m \in DOMAIN bindings : bindings'[m] = bindings[m]
    BY <2>1
  <2>2. CASE ~ (/\ DOMAIN bindings' = DOMAIN bindings
                /\ \A m \in DOMAIN bindings : bindings'[m] = bindings[m])
    <3>1. PICK k : /\ k = KeyOf(me.call) /\ IsKeyed(me.call)
                   /\ DOMAIN bindings' = DOMAIN bindings \cup {k}
                   /\ \A m \in DOMAIN bindings \ {k} : bindings'[m] = bindings[m]
      BY <1>1, <2>2, CommitBindings
    <3>2. l # k
      BY <1>2, <1>3, <1>7, <3>1 DEF Apart, Locked
    <3> QED
      BY <3>1, <3>2
  <2> QED
    BY <2>1, <2>2
<1> QED
  BY <1>2, <1>4, <1>5, <1>6, <1>7 DEF Stable, IInv, CountersInv

LEMMA CommitAnswers ==
  ASSUME IInv, NEW h \in Handlers, Commits(h)
  PROVE  /\ \A c, id : Matches(c, id) => Matches(c, id)'
         /\ \A me : me = handler[h] /\ me.answer.status = "Ok"
                      => Matches(me.call, me.answer.id)'
<1>1. PICK me : me = handler[h]
  OBVIOUS
<1>2. Sound(me) /\ me.pc = "commit"
  BY <1>1, CommitWrites
<1>3. ASSUME NEW c, NEW id, Matches(c, id)
      PROVE  Matches(c, id)'
  <2>1. id \in DOMAIN transfers' /\ transfers'[id].call = transfers[id].call
    BY <1>3, CommitKeepsCalls DEF Matches
  <2> QED
    BY <1>3, <2>1 DEF Matches
<1>4. CASE ~ Inserts(me)
  <2>1. Matches(me.call, me.answer.id)
    BY <1>2, <1>4 DEF Sound, AnswerInv, Inserts, Locked
  <2>2. Matches(me.call, me.answer.id)'
    BY <1>3, <2>1
  <2> QED
    BY <1>1, <1>3, <2>2
<1>5. CASE Inserts(me)
  <2>1. me.answer.id = me.id
    BY <1>2, <1>5 DEF Sound, AnswerInv, Inserts
  <2>2. /\ me.call.op = "create" /\ me.id \in DOMAIN transfers'
        /\ transfers'[me.id].call = me.call
    BY <1>1, <1>5, CommitInsert
  <2>3. Matches(me.call, me.answer.id)'
    BY <2>1, <2>2 DEF Matches
  <2> QED
    BY <1>1, <1>3, <2>3
<1> QED
  BY <1>4, <1>5

\* The handler goes on to an answer: the one it has, or a failure.
LEMMA CommitsInvariant ==
  ASSUME IInv, NEW h \in Handlers, Commits(h),
         NEW s, handler' = [handler EXCEPT ![h] = s],
         DOMAIN s = DOMAIN handler[h], s.pc = "answer", s.writes = NoWrites,
         s.call = handler[h].call, s.now = handler[h].now,
         s.answer.status = "Ok" => s.answer = handler[h].answer
  PROVE  IInv'
<1>1. PICK me : me = handler[h]
  OBVIOUS
<1>2. /\ Sound(me) /\ me.pc = "commit" /\ clock' = clock /\ calls' = calls
      /\ answers' = answers
  BY <1>1, CommitWrites
<1>4. /\ DOMAIN s = DOMAIN me /\ s.pc = "answer" /\ s.writes = NoWrites
      /\ s.call = me.call /\ s.now = me.now
      /\ s.answer.status = "Ok" => s.answer = me.answer
  BY <1>1
<1>5. /\ DOMAIN handler' = Handlers /\ handler'[h] = s
      /\ \A g \in Handlers \ {h} : handler'[g] = handler[g]
  BY DEF IInv
<1>6. CountersInv' /\ RowsInv'
  BY <1>2, CommitTransfers, CommitBindingsSound, CommitCovered, CommitOneEffect
  DEF IInv, CountersInv, RowsInv
<1>7. AnswersMatchCalls'
  BY <1>2, CommitAnswers DEF IInv, AnswersMatchCalls, Matches
<1>8. Sound(s)'
  <2>1. AnswerInv(s)'
    BY <1>1, <1>4, CommitAnswers DEF AnswerInv
  <2> QED
    BY <1>2, <1>4, <2>1 DEF Sound, IsState, IdInv, AccountInv, RowInv, TransferWrites,
       BindingWrites, LookupInv, NoWrites, Pcs, Inserts, Locked
<1>9. ASSUME NEW g \in Handlers
      PROVE  Sound(handler[g])'
  <2>1. PICK t : handler'[g] = t /\ Sound(t)'
    <3>1. CASE g = h
      BY <1>5, <1>8, <3>1
    <3>2. CASE g # h
      <4>1. PICK t : t = handler[g] /\ handler'[g] = t /\ Sound(t)
        BY <1>5, <3>2 DEF IInv
      <4>2. Sound(t)'
        BY <3>2, <4>1, CommitIsStable, SoundStays DEF IInv
      <4> QED
        BY <4>1, <4>2
    <3> QED
      BY <3>1, <3>2
  <2> QED
    BY <2>1, SoundThen
<1>10. \A f, g \in Handlers : f # g => Apart(handler'[f], handler'[g])
  <2>1. \A t : Apart(t, s) /\ Apart(s, t)
    BY <1>4 DEF Apart, Inserts, Locked
  <2> QED
    BY <1>5, <2>1 DEF IInv
<1>11. \A f, g \in Handlers : f # g => Apart(handler[f], handler[g])'
  BY <1>10 DEF Apart, Inserts, Replays
<1> QED
  BY <1>5, <1>6, <1>7, <1>9, <1>11 DEF IInv
LEMMA CommitInvariant ==
  ASSUME IInv, NEW h \in Handlers, Commit(h)
  PROVE  IInv'
<1>1. PICK me : me = handler[h] /\ Sound(me)
  BY DEF IInv
<1>2. PICK s : s = [me EXCEPT !.pc = "answer", !.writes = NoWrites]
  OBVIOUS
<1>3. /\ DOMAIN s = DOMAIN me /\ s.pc = "answer" /\ s.writes = NoWrites
      /\ s.call = me.call /\ s.now = me.now /\ s.answer = me.answer
  BY <1>1, <1>2 DEF Sound, IsState
<1>4. Commits(h) /\ handler' = [handler EXCEPT ![h] = s]
  BY <1>1, <1>2 DEF Commit, Commits
<1> QED
  BY <1>1, <1>3, <1>4, CommitsInvariant
-----------------------------------------------------------------------------
(* The invariant.                                                          *)

LEMMA TickInvariant ==
  ASSUME IInv, Tick
  PROVE  IInv'
<1>1. /\ clock \in Nat /\ clock' = clock + 1 /\ clock' \in 0 .. MaxTime
      /\ UNCHANGED <<accounts, transfers, bindings, handler, answers, calls>>
  BY TimesAssumption DEF IInv, CountersInv, Tick, database
<1>2. CountersInv'
  BY <1>1 DEF IInv, CountersInv
<1>3. TransfersInv' /\ BindingsInv' /\ CoveredInv'
  BY <1>1 DEF IInv, RowsInv, TransfersInv, BindingsInv, CoveredInv, BindingExpiry, InRetention
<1>4. BindingsNameTheirTransfer' /\ OneEffectPerKey' /\ AnswersMatchCalls'
  BY <1>1 DEF IInv, RowsInv, BindingsNameTheirTransfer, OneEffectPerKey, BindingExpiry,
     AnswersMatchCalls
<1>5. ASSUME NEW g \in Handlers
      PROVE  Sound(handler[g])'
  <2>1. PICK t : t = handler[g] /\ handler'[g] = t /\ Sound(t)
    BY <1>1 DEF IInv
  <2>2. Stable(t)
    BY <1>1, <2>1 DEF IInv, CountersInv, Stable, Sound, IdInv
  <2>3. Sound(t)'
    BY <2>1, <2>2, SoundStays DEF IInv
  <2> QED
    BY <2>1, <2>3, SoundThen
<1>6. \A f, g \in Handlers : f # g => Apart(handler[f], handler[g])'
  BY <1>1 DEF IInv, Apart, Inserts, Replays
<1> QED
  BY <1>1, <1>2, <1>3, <1>4, <1>5, <1>6 DEF IInv, RowsInv

LEMMA StutterInvariant ==
  ASSUME IInv, UNCHANGED vars
  PROVE  IInv'
<1>1. UNCHANGED <<clock, accounts, transfers, bindings, handler, answers, calls>>
  BY DEF vars
<1>2. CountersInv' /\ RowsInv' /\ AnswersMatchCalls'
  BY <1>1 DEF IInv, CountersInv, RowsInv, TransfersInv, BindingsInv, CoveredInv, BindingExpiry,
     InRetention, BindingsNameTheirTransfer, OneEffectPerKey, AnswersMatchCalls
<1>3. ASSUME NEW g \in Handlers
      PROVE  Sound(handler[g])'
  <2>1. PICK t : t = handler[g] /\ handler'[g] = t /\ Sound(t)
    BY <1>1 DEF IInv
  <2>2. Stable(t)
    BY <1>1, <2>1 DEF IInv, CountersInv, Stable, Sound, IdInv
  <2>3. Sound(t)'
    BY <2>1, <2>2, SoundStays DEF IInv
  <2> QED
    BY <2>1, <2>3, SoundThen
<1>4. \A f, g \in Handlers : f # g => Apart(handler[f], handler[g])'
  BY <1>1 DEF IInv, Apart, Inserts, Replays
<1> QED
  BY <1>1, <1>2, <1>3, <1>4 DEF IInv

LEMMA InitInvariant == Init => IInv
<1> SUFFICES ASSUME Init
             PROVE  IInv
  OBVIOUS
<1>1. DOMAIN transfers = {} /\ DOMAIN bindings = {} /\ DOMAIN handler = Handlers
  BY DEF Init, NoRows
<1>2. CountersInv
  BY TimesAssumption DEF Init, CountersInv
<1>3. RowsInv /\ AnswersMatchCalls
  BY <1>1 DEF Init, RowsInv, TransfersInv, BindingsInv, CoveredInv,
     BindingsNameTheirTransfer, OneEffectPerKey, AnswersMatchCalls
<1>4. ASSUME NEW g \in Handlers
      PROVE  Sound(handler[g]) /\ \A f \in Handlers : Apart(handler[f], handler[g])
  <2>1. handler[g] = Idle /\ \A f \in Handlers : handler[f] = Idle
    BY DEF Init
  <2>2. Sound(Idle) /\ Apart(Idle, Idle)
    BY <1>2, IdleIsSound DEF Apart, Idle, Inserts, Locked
  <2> QED
    BY <2>1, <2>2
<1> QED
  BY <1>1, <1>2, <1>3, <1>4 DEF IInv

LEMMA QueryInvariant ==
  ASSUME IInv, NEW h \in Handlers, Query(h)
  PROVE  IInv'
BY EnsureAccountInvariant, LockInvariant, LookupInvariant, ReplayInvariant,
   InsertInvariant, FindInvariant, UpdateInvariant, BindInvariant DEF Query

LEMMA NextInvariant ==
  ASSUME IInv, [Next]_vars
  PROVE  IInv'
<1>1. ASSUME NEW h \in Handlers, NEW c \in Calls, Begin(h, c)
      PROVE  IInv'
  BY <1>1, BeginInvariant
<1>2. ASSUME NEW h \in Handlers, Query(h)
      PROVE  IInv'
  BY <1>2, QueryInvariant
<1>3. ASSUME NEW h \in Handlers, Commit(h) \/ Respond(h) \/ Disconnect(h)
      PROVE  IInv'
  BY <1>3, CommitInvariant, RespondInvariant, DisconnectInvariant
<1> QED
  BY <1>1, <1>2, <1>3, TickInvariant, StutterInvariant DEF Next, Statement

\* Every handler, at every one of its statements, may rely on what IInv says
\* of it, whatever the other handlers, the clients and the clock do.
THEOREM InductiveInvariant == Spec => []IInv
<1>1. Init => IInv
  BY InitInvariant
<1>2. IInv /\ [Next]_vars => IInv'
  BY NextInvariant
<1> QED
  BY <1>1, <1>2, PTL DEF Spec

\* The rows satisfy the column constraints of schema.sql and no handler writes
\* outside a transaction, for every set of subjects, keys, bodies and handlers.
THEOREM TypeCorrect == Spec => []TypeOK
<1>1. IInv => TypeOK
  <2> SUFFICES ASSUME IInv
               PROVE  TypeOK
    OBVIOUS
  <2>1. DOMAIN transfers \subseteq Ids
    BY TimesAssumption DEF IInv, CountersInv, RowsInv, TransfersInv, Ids
  <2>2. ASSUME NEW h \in Handlers,
               handler[h].pc \in {"idle", "account", "lock", "lookup", "replay", "answer"}
        PROVE  handler[h].writes.transfers = NoRows /\ handler[h].writes.bindings = NoRows
    BY <2>2 DEF IInv, Sound, TransferWrites, BindingWrites
  <2> QED
    BY <2>1, <2>2 DEF IInv, CountersInv, RowsInv, TransfersInv, BindingsInv, TypeOK
<1> QED
  BY <1>1, InductiveInvariant, PTL

\* One effect per subject and key while its binding lives, with any number of
\* concurrent calls, retries and rollbacks (the advisory lock around
\* active_idempotency, InsertTransfer and insert_idempotency).
THEOREM OneEffectPerKeyHolds == Spec => []OneEffectPerKey
<1>1. IInv => OneEffectPerKey
  BY DEF IInv, RowsInv
<1> QED
  BY <1>1, InductiveInvariant, PTL

\* What active_idempotency read stays true until its transaction ends, although
\* no row is locked: only the holder of the advisory lock changes the binding.
THEOREM LookupStaysTrueHolds == Spec => []LookupStaysTrue
<1>1. IInv => LookupStaysTrue
  BY DEF IInv, Sound, LookupInv, Replays, LookupStaysTrue
<1> QED
  BY <1>1, InductiveInvariant, PTL

\* A binding names a committed transfer of its subject, the one that its call
\* created or acknowledged: find_owned_transfer always finds a replayed row.
THEOREM BindingsNameTheirTransferHolds == Spec => []BindingsNameTheirTransfer
<1>1. IInv => BindingsNameTheirTransfer
  BY DEF IInv, RowsInv
<1> QED
  BY <1>1, InductiveInvariant, PTL

\* A success answers the call that was made, with a committed transfer of the
\* caller, whether the handler acted or replayed an earlier answer.
THEOREM AnswersMatchCallsHolds == Spec => []AnswersMatchCalls
<1>1. IInv => AnswersMatchCalls
  BY DEF IInv
<1> QED
  BY <1>1, InductiveInvariant, PTL

-----------------------------------------------------------------------------
(* Calls that do not overlap.                                              *)

\* At most one request is in progress at a time.
Serial == \A g, h \in Handlers : g = h

\* A terminal state that a response showed is that of the row, or an expiry
\* that nothing has written down by t.
Told(answer, row, t) ==
  answer.status = "Ok" /\ answer.state \in TerminalStates =>
    \/ row.state = answer.state
    \/ answer.state = "expired" /\ row.state = "pending" /\ row.call.body.expires <= t

AllTold(t) == \A a \in answers : Told(a.answer, transfers[a.answer.id], t)

\* The call settles the row at t.
Settles(c, row, state, t) ==
  row.state = "pending" /\ state = Target(c, row, t) /\ state \in TerminalStates

\* Nothing has happened after the handler read its clock.
Latest(s) ==
  s.pc # "idle" =>
    /\ \A i \in DOMAIN transfers : transfers[i].updated <= s.now
    /\ AllTold(s.now)

\* What the handler decided is still right of the committed row.
Deciding(s) ==
  s.pc = "update" =>
    /\ Settles(s.call, transfers[s.call.transfer], s.row.state, s.now)
    /\ s.answer.state = s.row.state

Writing(s) ==
  s.pc \in {"bind", "commit"} =>
    /\ \A i \in DOMAIN s.writes.transfers \cap DOMAIN transfers :
         Settles(s.call, transfers[i], s.writes.transfers[i].state, s.now)
    /\ Told(s.answer, Merge(transfers, s.writes.transfers)[s.answer.id], s.now)
    /\ \A k \in DOMAIN s.writes.bindings : s.writes.bindings[k].expires <= s.now + KeyTtl

\* A replay writes nothing, and an acknowledgement that writes no row repeats
\* what the row holds.
Repeating(s) ==
  /\ IsKeyed(s.call) /\ Replays(s) => s.writes.transfers = NoRows
  /\ s.call.op = "acknowledge" /\ ~ Replays(s) /\ DOMAIN s.writes.transfers = {}
       => transfers[s.call.transfer].state = s.call.disposition

Answering(s) == s.pc = "answer" => Told(s.answer, transfers[s.answer.id], s.now)

SerialState(s) ==
  /\ Latest(s) /\ Deciding(s) /\ Writing(s) /\ Answering(s)
  /\ s.pc \in {"bind", "commit"} => Repeating(s)

SerialInv == IInv /\ AllTold(clock) /\ \A h \in Handlers : SerialState(handler[h])

\* What settles a pending row: a disposition in time, an expiry or a cancel.
LEMMA SettlesTo ==
  ASSUME NEW c \in Calls, NEW row, NEW state, NEW t, Settles(c, row, state, t)
  PROVE  /\ c.op = "acknowledge" =>
              state = c.disposition /\ ~ (t >= row.call.body.expires)
         /\ c.op = "cancel" =>
              state = IF t >= row.call.body.expires THEN "expired" ELSE "cancelled"
         /\ c.op \in {"acknowledge", "cancel"}
<1>1. CASE c.op = "acknowledge"
  <2>1. state = AcknowledgeState(t, row.call.body.expires, "pending", c.disposition)
    BY <1>1 DEF Settles, Target
  <2>2. c.disposition \in Dispositions
    BY <1>1, ReceiptsAssumption DEF Calls
  <2>3. c.disposition # "pending" /\ state # "TransferExpired"
    BY <2>2 DEF Dispositions, Settles, TerminalStates
  <2> QED
    BY <1>1, <2>1, <2>3 DEF AcknowledgeState
<1>2. CASE c.op = "cancel"
  BY <1>2 DEF Settles, Target, CancelState
<1>3. CASE c.op \notin {"acknowledge", "cancel"}
  <2>1. state = "pending"
    BY <1>3 DEF Settles, Target
  <2> QED
    BY <2>1 DEF Settles, TerminalStates, Dispositions
<1> QED
  BY <1>1, <1>2, <1>3

\* What was told of a row stays true of it when it is settled later.
LEMMA ToldAfterSettling ==
  ASSUME NEW c \in Calls, NEW t \in Nat, NEW row, row.call.body.expires \in Nat,
         NEW state, Settles(c, row, state, t),
         NEW answer, Told(answer, row, t), NEW next, next.state = state
  PROVE  Told(answer, next, t)
<1>1. ASSUME answer.status = "Ok", answer.state \in TerminalStates
      PROVE  answer.state = state
  <2>1. row.state = "pending" /\ "pending" \notin TerminalStates
    BY DEF Settles, TerminalStates, Dispositions
  <2>2. answer.state = "expired" /\ row.call.body.expires <= t
    BY <1>1, <2>1 DEF Told
  <2>3. t >= row.call.body.expires
    BY <2>2
  <2> QED
    BY <2>2, <2>3, SettlesTo
<1> QED
  BY <1>1 DEF Told

LEMMA ToldLater ==
  ASSUME NEW t \in Nat, NEW u \in Nat, t <= u, NEW answer, NEW row,
         answer.status = "Ok" => row.call.body.expires \in Nat, Told(answer, row, t)
  PROVE  Told(answer, row, u)
BY DEF Told

\* What a response shows of a row is told of it.
LEMMA ShownIsTold ==
  ASSUME NEW id, NEW row, NEW t
  PROVE  Told(Answer("Ok", id, Shown(row, t)), row, t)
BY DEF Told, Answer, Shown, ShownState, TerminalStates, Dispositions

\* Successes are about committed rows, which expire at some time.
LEMMA AnswersHaveRows ==
  ASSUME IInv, NEW a \in answers, a.answer.status = "Ok"
  PROVE  /\ a.answer.id \in DOMAIN transfers
         /\ transfers[a.answer.id].call.body.expires \in Nat
<1>1. PICK i : i = a.answer.id /\ i \in DOMAIN transfers
  BY DEF IInv, AnswersMatchCalls
<1>2. transfers[i].call \in Calls /\ transfers[i].call.op = "create"
  BY <1>1 DEF IInv, RowsInv, TransfersInv
<1> QED
  BY <1>1, <1>2, CallTypes

LEMMA AllToldLater ==
  ASSUME IInv, NEW t \in Nat, NEW u \in Nat, t <= u, AllTold(t)
  PROVE  AllTold(u)
<1> SUFFICES ASSUME NEW a \in answers
             PROVE  Told(a.answer, transfers[a.answer.id], u)
  BY DEF AllTold
<1>1. PICK answer, row : answer = a.answer /\ row = transfers[a.answer.id]
  OBVIOUS
<1>2. answer.status = "Ok" => row.call.body.expires \in Nat
  BY <1>1, AnswersHaveRows
<1>3. Told(answer, row, t)
  BY <1>1 DEF AllTold
<1> QED
  BY <1>1, <1>2, <1>3, ToldLater

\* The writes of a handler over the committed rows.
LEMMA Merged ==
  ASSUME NEW old, NEW new, NEW i
  PROVE  /\ i \in DOMAIN new => Merge(old, new)[i] = new[i]
         /\ i \in DOMAIN old \ DOMAIN new => Merge(old, new)[i] = old[i]
BY DEF Merge

\* The only handler has moved and the rows are as they were.
LEMMA SerialMoves ==
  ASSUME Serial, SerialInv, IInv', NEW h \in Handlers, NEW s,
         handler' = [handler EXCEPT ![h] = s], SerialState(s)', AllTold(clock)'
  PROVE  SerialInv'
<1>1. \A g \in Handlers : handler'[g] = s
  BY DEF Serial, SerialInv, IInv
<1>2. ASSUME NEW g \in Handlers
      PROVE  SerialState(handler[g])'
  <2>1. PICK t : handler'[g] = t /\ SerialState(t)'
    BY <1>1
  <2> QED
    BY <2>1 DEF SerialState, Latest, Deciding, Writing, Repeating, Replays, Answering, AllTold
<1> QED
  BY <1>2 DEF SerialInv

\* A statement keeps the clock that the handler read.
LEMMA SerialStep ==
  ASSUME Serial, SerialInv, IInv', NEW h \in Handlers, NEW s, Steps(h, s),
         handler[h].pc # "idle", s.now = handler[h].now,
         Deciding(s), Writing(s), Answering(s), s.pc \in {"bind", "commit"} => Repeating(s)
  PROVE  SerialInv'
<1>1. /\ handler' = [handler EXCEPT ![h] = s]
      /\ clock' = clock /\ transfers' = transfers /\ answers' = answers
  BY DEF Steps, database
<1>2. Latest(handler[h])
  BY DEF SerialInv, SerialState
<1>3. Latest(s)
  BY <1>2 DEF Latest
<1>4. SerialState(s)'
  BY <1>1, <1>3 DEF SerialState, Latest, Deciding, Writing, Repeating, Replays, Answering, AllTold
<1>5. AllTold(clock)'
  BY <1>1 DEF SerialInv, AllTold
<1> QED
  BY <1>1, <1>4, <1>5, SerialMoves

\* A handler that has failed or has decided nothing yet promises nothing.
LEMMA SerialPassing ==
  ASSUME Serial, SerialInv, IInv', NEW h \in Handlers, NEW s, Steps(h, s),
         handler[h].pc # "idle", s.now = handler[h].now,
         \/ s.pc \notin {"update", "bind", "commit", "answer"}
         \/ s.pc = "answer" /\ s.answer.status # "Ok"
  PROVE  SerialInv'
<1>1. Deciding(s) /\ Writing(s) /\ Answering(s) /\ s.pc \notin {"bind", "commit"}
  BY DEF Deciding, Writing, Answering, Told
<1> QED
  BY <1>1, SerialStep

LEMMA SerialFail ==
  ASSUME Serial, SerialInv, IInv', NEW h \in Handlers, handler[h].pc # "idle",
         NEW error, error # "Ok", Fail(h, error),
         UNCHANGED <<clock, database, answers, calls>>
  PROVE  SerialInv'
<1>1. PICK me : me = handler[h] /\ Sound(me)
  BY DEF SerialInv, IInv
<1>2. PICK s : s = [me EXCEPT !.pc = "answer", !.writes = NoWrites, !.answer = Failure(error)]
  OBVIOUS
<1>3. s.pc = "answer" /\ s.answer.status # "Ok" /\ s.now = me.now
  BY <1>1, <1>2 DEF Sound, IsState, Failure, Answer
<1>4. Steps(h, s)
  BY <1>1, <1>2 DEF Fail, Steps
<1> QED
  BY <1>1, <1>3, <1>4, SerialPassing
-----------------------------------------------------------------------------
(* Their statements.                                                       *)

LEMMA SerialEnter ==
  ASSUME Serial, SerialInv, IInv', NEW h \in Handlers, NEW c, NEW pc, NEW answer,
         Enter(h, c, pc, answer),
         pc \notin {"update", "bind", "commit"}, pc = "answer" => answer.status # "Ok"
  PROVE  SerialInv'
<1>1. PICK s : s = [Idle EXCEPT !.call = c, !.id = calls + 1, !.now = clock, !.pc = pc,
                                !.answer = answer]
  OBVIOUS
<1>2. s.now = clock /\ s.pc = pc /\ s.answer = answer
  BY <1>1 DEF Idle
<1>3. /\ handler' = [handler EXCEPT ![h] = s]
      /\ clock' = clock /\ transfers' = transfers /\ answers' = answers
  BY <1>1 DEF Enter, database
<1>4. \A i \in DOMAIN transfers : transfers[i].updated <= clock
  BY TimesAssumption DEF SerialInv, IInv, CountersInv, RowsInv, TransfersInv
<1>5. AllTold(clock)
  BY DEF SerialInv
<1>6. SerialState(s)'
  BY <1>2, <1>3, <1>4, <1>5
  DEF SerialState, Latest, Deciding, Writing, Repeating, Replays, Answering, AllTold,
      Told
<1>7. AllTold(clock)'
  BY <1>3, <1>5 DEF AllTold
<1> QED
  BY <1>3, <1>6, <1>7, SerialMoves

LEMMA SerialBegin ==
  ASSUME Serial, SerialInv, IInv', NEW h \in Handlers, NEW c \in Calls, Begin(h, c)
  PROVE  SerialInv'
<1>1. Failure("InvalidRetention").status # "Ok"
  BY DEF Failure, Answer
<1> QED
  BY <1>1, SerialEnter DEF Begin, BeginCreate, BeginAcknowledge, BeginCancel, BeginGet

LEMMA SerialEarly ==
  ASSUME Serial, SerialInv, IInv', NEW h \in Handlers,
         EnsureAccount(h) \/ LockIdempotency(h) \/ LookupIdempotency(h)
  PROVE  SerialInv'
<1>1. PICK me : me = handler[h] /\ Sound(me) /\ me.pc \in {"account", "lock", "lookup"}
  BY DEF SerialInv, IInv, EnsureAccount, LockIdempotency, LookupIdempotency
<1>2. UNCHANGED <<clock, database, answers, calls>>
  BY DEF EnsureAccount, LockIdempotency, LookupIdempotency
<1>3. CASE Fail(h, "IdempotencyConflict")
  BY <1>1, <1>2, <1>3, SerialFail
<1>4. ASSUME NEW s, Steps(h, s), s.now = me.now,
             s.pc \in {"lock", "lookup", "replay", "insert", "find"}
      PROVE  SerialInv'
  BY <1>1, <1>4, SerialPassing
<1>5. CASE EnsureAccount(h)
  <2>1. PICK s : s = [me EXCEPT !.pc = "lock",
                                !.writes.accounts = {me.call.subject} \ accounts]
    OBVIOUS
  <2>2. Steps(h, s) /\ s.pc = "lock" /\ s.now = me.now
    BY <1>1, <1>2, <1>5, <2>1 DEF EnsureAccount, Steps, Sound, IsState
  <2> QED
    BY <1>4, <2>2
<1>6. CASE LockIdempotency(h)
  <2>1. PICK s : s = [me EXCEPT !.pc = "lookup"]
    OBVIOUS
  <2>2. Steps(h, s) /\ s.pc = "lookup" /\ s.now = me.now
    BY <1>1, <1>2, <1>6, <2>1 DEF LockIdempotency, Steps, Sound, IsState
  <2> QED
    BY <1>4, <2>2
<1>7. CASE LookupIdempotency(h) /\ ~ Fail(h, "IdempotencyConflict")
  <2>1. PICK k : k = KeyOf(me.call)
    OBVIOUS
  <2>2. \/ handler' = [handler EXCEPT ![h] = [me EXCEPT !.pc = "replay",
                                                        !.id = bindings[k].transfer]]
        \/ \E next \in {"insert", "find"} :
             handler' = [handler EXCEPT ![h] = [me EXCEPT !.pc = next,
                                                          !.expired = k \in DOMAIN bindings]]
    BY <1>1, <1>7, <2>1 DEF LookupIdempotency
  <2>3. ASSUME NEW s, handler' = [handler EXCEPT ![h] = s], s.now = me.now,
               s.pc \in {"replay", "insert", "find"}
        PROVE  SerialInv'
    <3>1. Steps(h, s)
      BY <1>2, <2>3 DEF Steps
    <3> QED
      BY <1>4, <2>3, <3>1
  <2>4. CASE handler' = [handler EXCEPT ![h] = [me EXCEPT !.pc = "replay",
                                                         !.id = bindings[k].transfer]]
    <3>1. PICK s : s = [me EXCEPT !.pc = "replay", !.id = bindings[k].transfer]
      OBVIOUS
    <3>2. s.now = me.now /\ s.pc = "replay"
      BY <1>1, <3>1 DEF Sound, IsState
    <3> QED
      BY <2>3, <2>4, <3>1, <3>2
  <2>5. ASSUME NEW next \in {"insert", "find"},
               handler' = [handler EXCEPT ![h] = [me EXCEPT !.pc = next,
                                                            !.expired = k \in DOMAIN bindings]]
        PROVE  SerialInv'
    <3>1. PICK s : s = [me EXCEPT !.pc = next, !.expired = k \in DOMAIN bindings]
      OBVIOUS
    <3>2. s.now = me.now /\ s.pc = next
      BY <1>1, <3>1 DEF Sound, IsState
    <3> QED
      BY <2>3, <2>5, <3>1, <3>2
  <2> QED
    BY <2>2, <2>4, <2>5
<1> QED
  BY <1>3, <1>5, <1>6, <1>7

LEMMA SerialReplay ==
  ASSUME Serial, SerialInv, IInv', NEW h \in Handlers, FindReplayed(h)
  PROVE  SerialInv'
<1>1. PICK me : me = handler[h] /\ Sound(me) /\ me.pc = "replay"
  BY DEF SerialInv, IInv, FindReplayed
<1>2. UNCHANGED <<clock, database, answers, calls>>
  BY DEF FindReplayed
<1>3. CASE Fail(h, "Unavailable")
  BY <1>1, <1>2, <1>3, SerialFail
<1>4. PICK answer : answer = Answer("Ok", me.id, Shown(transfers[me.id], me.now))
  OBVIOUS
<1>5. CASE /\ Owns(me.call.subject, me.id)
           /\ handler' = [handler EXCEPT ![h].pc = "commit", ![h].answer = answer]
  <2>1. PICK s : s = [me EXCEPT !.pc = "commit", !.answer = answer]
    OBVIOUS
  <2>2. /\ s.pc = "commit" /\ s.answer = answer /\ s.now = me.now /\ s.call = me.call
        /\ s.writes = me.writes
    BY <1>1, <2>1 DEF Sound, IsState
  <2>3. Steps(h, s)
    BY <1>1, <1>2, <1>5, <2>1 DEF Steps
  <2>4. s.writes.transfers = NoRows /\ s.writes.bindings = NoRows
    BY <1>1, <2>2 DEF Sound, TransferWrites, BindingWrites
  <2>5. DOMAIN NoRows = {} /\ Merge(transfers, NoRows)[me.id] = transfers[me.id]
    <3>1. DOMAIN NoRows = {}
      BY DEF NoRows
    <3>2. me.id \in DOMAIN transfers \ DOMAIN NoRows
      BY <1>5, <3>1 DEF Owns
    <3> QED
      BY <3>1, <3>2, Merged
  <2>6. Told(answer, transfers[me.id], me.now) /\ answer.id = me.id
    BY <1>4, ShownIsTold DEF Answer
  <2>7. Writing(s)
    BY <2>2, <2>4, <2>5, <2>6 DEF Writing
  <2>8. Deciding(s) /\ Answering(s) /\ Repeating(s)
    BY <2>2, <2>4 DEF Deciding, Answering, Repeating, Replays
  <2> QED
    BY <1>1, <2>2, <2>3, <2>7, <2>8, SerialStep
<1>6. \/ Fail(h, "Unavailable")
      \/ /\ Owns(me.call.subject, me.id)
         /\ handler' = [handler EXCEPT ![h].pc = "commit", ![h].answer = answer]
  BY <1>1, <1>4, Zenon DEF FindReplayed
<1> QED
  BY <1>3, <1>5, <1>6

LEMMA SerialInsert ==
  ASSUME Serial, SerialInv, IInv', NEW h \in Handlers, InsertTransfer(h)
  PROVE  SerialInv'
<1>1. PICK me : me = handler[h] /\ Sound(me) /\ me.pc = "insert"
  BY DEF SerialInv, IInv, InsertTransfer
<1>2. PICK row : row = [call |-> me.call, state |-> "pending",
                        created |-> me.now, updated |-> me.now]
  OBVIOUS
<1>3. PICK answer : answer = Answer("Ok", me.id, Shown(row, me.now))
  OBVIOUS
<1>4. PICK written : written = [i \in {me.id} |-> row]
  OBVIOUS
<1>5. PICK s : s = [me EXCEPT !.pc = "bind", !.row = row, !.writes.transfers = written,
                              !.answer = answer]
  OBVIOUS
<1>6. /\ s.pc = "bind" /\ s.answer = answer /\ s.now = me.now /\ s.call = me.call
      /\ s.writes.transfers = written /\ s.writes.bindings = me.writes.bindings
  BY <1>1, <1>5 DEF Sound, IsState
<1>7. Steps(h, s)
  <2>1. handler' = [handler EXCEPT ![h].pc = "bind", ![h].row = row,
                      ![h].writes.transfers = written, ![h].answer = answer]
    BY <1>1, <1>2, <1>3, <1>4, Zenon DEF InsertTransfer
  <2>2. UNCHANGED <<clock, database, answers, calls>>
    BY DEF InsertTransfer
  <2> QED
    BY <1>1, <1>5, <2>1, <2>2 DEF Steps
<1>8. me.call.op = "create" /\ me.id \notin DOMAIN transfers
  BY <1>1 DEF Sound, IsState, IdInv, Inserts, Replays, Locked
<1>9. DOMAIN written = {me.id} /\ Merge(transfers, written)[me.id] = row
  <2>1. DOMAIN written = {me.id} /\ written[me.id] = row
    BY <1>4
  <2>2. Merge(transfers, written)[me.id] = written[me.id]
    BY <2>1, Merged
  <2> QED
    BY <2>1, <2>2
<1>10. s.writes.bindings = NoRows /\ DOMAIN NoRows = {}
  BY <1>1, <1>6 DEF Sound, BindingWrites, NoRows
<1>11. Told(answer, row, me.now) /\ answer.id = me.id
  BY <1>3, ShownIsTold DEF Answer
<1>12. Writing(s)
  BY <1>6, <1>8, <1>9, <1>10, <1>11 DEF Writing
<1>13. Deciding(s) /\ Answering(s) /\ Repeating(s)
  BY <1>6, <1>8 DEF Deciding, Answering, Repeating, Replays
<1> QED
  BY <1>1, <1>6, <1>7, <1>12, <1>13, SerialStep

\* The decision is taken on the row that is still committed.
LEMMA SerialFind ==
  ASSUME Serial, SerialInv, IInv', NEW h \in Handlers, FindTransfer(h)
  PROVE  SerialInv'
<1>1. PICK me : me = handler[h] /\ Sound(me) /\ me.pc = "find"
  BY DEF SerialInv, IInv, FindTransfer
<1>2. PICK id, row : id = me.call.transfer /\ row = transfers[id]
  OBVIOUS
<1>3. PICK target : target = Target(me.call, row, me.now)
  OBVIOUS
<1>4. UNCHANGED <<clock, database, answers, calls>>
  BY DEF FindTransfer
<1>5. CASE Fail(h, "NotFound")
  BY <1>1, <1>4, <1>5, SerialFail
<1>6. CASE target \in PolicyErrors /\ Fail(h, target)
  <2>1. target # "Ok"
    BY <1>6 DEF PolicyErrors
  <2> QED
    BY <1>1, <1>4, <1>6, <2>1, SerialFail
<1>7. PICK after : after = IF me.call.op = "acknowledge" THEN "bind" ELSE "commit"
  OBVIOUS
<1>8. PICK pc : pc = IF target = row.state THEN after ELSE "update"
  OBVIOUS
<1>9. PICK next : next = [row EXCEPT !.state = target]
  OBVIOUS
<1>10. PICK answer : answer = Answer("Ok", id, Shown(next, me.now))
  OBVIOUS
<1>11. CASE /\ Owns(me.call.subject, id) /\ target \in TransferStates
            /\ handler' = [handler EXCEPT ![h].pc = pc, ![h].row = next, ![h].answer = answer]
  <2>1. PICK s : s = [me EXCEPT !.pc = pc, !.row = next, !.answer = answer]
    OBVIOUS
  <2>2. /\ s.pc = pc /\ s.answer = answer /\ s.row = next /\ s.now = me.now
        /\ s.call = me.call /\ s.writes = me.writes
    BY <1>1, <2>1 DEF Sound, IsState
  <2>3. Steps(h, s)
    BY <1>1, <1>4, <1>11, <2>1 DEF Steps
  <2>4. /\ s.writes.transfers = NoRows /\ s.writes.bindings = NoRows
        /\ DOMAIN NoRows = {}
    BY <1>1, <2>2 DEF Sound, TransferWrites, BindingWrites, NoRows
  <2>5. /\ id \in DOMAIN transfers
        /\ DOMAIN row = RowFields /\ row.state \in TransferStates
    BY <1>2, <1>11 DEF Owns, SerialInv, IInv, RowsInv, TransfersInv
  <2>6. next.state = target /\ next.call = row.call
    BY <1>9, <2>5 DEF RowFields
  <2>7. /\ me.call \in Calls
        /\ me.call.op \in {"acknowledge", "cancel", "get"}
    BY <1>1, CallTypes DEF Sound, IsState
  <2>8. CASE target = row.state
    <3>1. pc = after
      BY <1>8, <2>8
    <3>2. answer.id = id /\ Told(answer, row, me.now)
      <4>1. answer.id = id /\ Told(answer, next, me.now)
        BY <1>10, ShownIsTold DEF Answer
      <4> QED
        BY <2>6, <2>8, <4>1 DEF Told
    <3>3. Merge(transfers, NoRows)[id] = row
      <4>1. id \in DOMAIN transfers \ DOMAIN NoRows
        BY <2>4, <2>5
      <4> QED
        BY <1>2, <4>1, Merged
    <3>4. Writing(s)
      BY <2>2, <2>4, <3>2, <3>3 DEF Writing
    <3>5. Repeating(s)
      <4>1. ASSUME me.call.op = "acknowledge"
            PROVE  row.state = me.call.disposition
        <5>1. target = AcknowledgeState(me.now, row.call.body.expires, row.state,
                                        me.call.disposition)
          BY <1>3, <4>1 DEF Target
        <5>2. target \notin {"InvalidTransition", "TransferExpired"}
          BY <1>11 DEF TransferStates, TerminalStates, Dispositions
        <5> QED
          BY <2>8, <5>1, <5>2 DEF AcknowledgeState
      <4> QED
        BY <1>2, <2>2, <2>4, <4>1 DEF Repeating, Replays
    <3>6. Deciding(s) /\ Answering(s)
      BY <1>7, <2>2, <3>1 DEF Deciding, Answering
    <3> QED
      BY <1>1, <2>2, <2>3, <3>4, <3>5, <3>6, SerialStep
  <2>9. CASE target # row.state
    <3>1. pc = "update"
      BY <1>8, <2>9
    <3>2. row.state = "pending" /\ target \in TerminalStates
      <4>1. CASE me.call.op = "acknowledge"
        <5>1. target = AcknowledgeState(me.now, row.call.body.expires, row.state,
                                        me.call.disposition)
          BY <1>3, <4>1 DEF Target
        <5>2. target \notin {"InvalidTransition", "TransferExpired"}
          BY <1>11 DEF TransferStates, TerminalStates, Dispositions
        <5>3. me.call.disposition \in Dispositions
          BY <2>7, <4>1, ReceiptsAssumption DEF Calls
        <5> QED
          BY <2>9, <5>1, <5>2, <5>3 DEF AcknowledgeState, TerminalStates
      <4>2. CASE me.call.op = "cancel"
        <5>1. target = CancelState(me.now, row.call.body.expires, row.state)
          BY <1>3, <4>2 DEF Target
        <5> QED
          BY <2>9, <5>1 DEF CancelState, TerminalStates
      <4>3. CASE me.call.op = "get"
        BY <1>3, <2>9, <4>3 DEF Target
      <4> QED
        BY <2>7, <4>1, <4>2, <4>3
    <3>3. answer.state = target
      <4>1. target # "pending"
        BY <2>9, <3>2
      <4> QED
        BY <1>10, <2>6, <4>1 DEF Answer, Shown, ShownState
    <3>4. Settles(me.call, row, target, me.now)
      BY <1>3, <3>2 DEF Settles
    <3>5. Deciding(s)
      BY <1>2, <2>2, <2>6, <3>3, <3>4 DEF Deciding
    <3>6. Writing(s) /\ Answering(s) /\ s.pc \notin {"bind", "commit"}
      BY <2>2, <3>1 DEF Writing, Answering
    <3> QED
      BY <1>1, <2>2, <2>3, <3>5, <3>6, SerialStep
  <2> QED
    BY <2>8, <2>9
<1>12. \/ Fail(h, "NotFound")
       \/ target \in PolicyErrors /\ Fail(h, target)
       \/ /\ Owns(me.call.subject, id) /\ target \in TransferStates
          /\ handler' = [handler EXCEPT ![h].pc = pc, ![h].row = next, ![h].answer = answer]
  BY <1>1, <1>2, <1>3, <1>7, <1>8, <1>9, <1>10, Zenon DEF FindTransfer
<1> QED
  BY <1>5, <1>6, <1>11, <1>12

\* The row is updated as it was when the handler decided.
LEMMA SerialUpdate ==
  ASSUME Serial, SerialInv, IInv', NEW h \in Handlers, UpdateTransfer(h)
  PROVE  SerialInv'
<1>1. PICK me : me = handler[h] /\ Sound(me) /\ me.pc = "update" /\ Deciding(me)
  BY DEF SerialInv, SerialState, IInv, UpdateTransfer
<1>2. PICK id : id = me.call.transfer
  OBVIOUS
<1>3. PICK row : row = [transfers[id] EXCEPT !.state = me.row.state, !.updated = me.now]
  OBVIOUS
<1>4. PICK written : written = [i \in {id} |-> row]
  OBVIOUS
<1>5. PICK pc : pc = IF me.call.op = "acknowledge" THEN "bind" ELSE "commit"
  OBVIOUS
<1>6. PICK s : s = [me EXCEPT !.pc = pc, !.writes.transfers = written]
  OBVIOUS
<1>7. /\ s.pc = pc /\ s.writes.transfers = written /\ s.writes.bindings = me.writes.bindings
      /\ s.call = me.call /\ s.now = me.now /\ s.answer = me.answer
  BY <1>1, <1>6 DEF Sound, IsState
<1>8. Steps(h, s)
  <2>1. handler' = [handler EXCEPT ![h].pc = pc, ![h].writes.transfers = written]
    BY <1>1, <1>2, <1>3, <1>4, <1>5, Zenon DEF UpdateTransfer
  <2>2. UNCHANGED <<clock, database, answers, calls>>
    BY DEF UpdateTransfer
  <2> QED
    BY <1>1, <1>6, <2>1, <2>2 DEF Steps
<1>9. id \in DOMAIN transfers /\ me.answer.id = id /\ me.call.op # "create"
  BY <1>1, <1>2 DEF Sound, IsState, AnswerInv, Matches
<1>10. row.state = me.row.state
  BY <1>3, <1>9 DEF SerialInv, IInv, RowsInv, TransfersInv, RowFields
<1>11. DOMAIN written = {id} /\ written[id] = row
  BY <1>4
<1>12. Merge(transfers, written)[id] = row
  BY <1>11, Merged
<1>13. Settles(me.call, transfers[id], row.state, me.now) /\ me.answer.state = row.state
  BY <1>1, <1>2, <1>10 DEF Deciding
<1>14. Told(me.answer, row, me.now)
  BY <1>13 DEF Told
<1>15. s.writes.bindings = NoRows /\ DOMAIN NoRows = {}
  BY <1>1, <1>7 DEF Sound, BindingWrites, NoRows
<1>16. Writing(s)
  BY <1>7, <1>9, <1>11, <1>12, <1>13, <1>14, <1>15 DEF Writing
<1>17. Repeating(s)
  <2>1. DOMAIN written # {}
    BY <1>11
  <2> QED
    BY <1>5, <1>7, <1>9, <2>1 DEF Repeating, Replays, IsKeyed
<1>18. Deciding(s) /\ Answering(s)
  BY <1>5, <1>7 DEF Deciding, Answering
<1> QED
  BY <1>1, <1>7, <1>8, <1>16, <1>17, <1>18, SerialStep

LEMMA SerialBind ==
  ASSUME Serial, SerialInv, IInv', NEW h \in Handlers, InsertIdempotency(h)
  PROVE  SerialInv'
<1>1. PICK me : /\ me = handler[h] /\ Sound(me) /\ me.pc = "bind"
                /\ Writing(me) /\ Repeating(me)
  BY DEF SerialInv, SerialState, IInv, InsertIdempotency
<1>2. PICK k, until : k = KeyOf(me.call) /\ until = BindingExpiry(me.row, me.now)
  OBVIOUS
<1>3. UNCHANGED <<clock, database, answers, calls>>
  BY DEF InsertIdempotency
<1>4. CASE Fail(h, "Unavailable")
  BY <1>1, <1>3, <1>4, SerialFail
<1>5. PICK b : b = [call |-> me.call,
                    transfer |-> IF me.call.op = "create" THEN me.id ELSE me.call.transfer,
                    created |-> me.now, expires |-> until]
  OBVIOUS
<1>6. PICK written : written = [x \in {k} |-> b]
  OBVIOUS
<1>7. CASE handler' = [handler EXCEPT ![h].pc = "commit", ![h].writes.bindings = written]
  <2>1. PICK s : s = [me EXCEPT !.pc = "commit", !.writes.bindings = written]
    OBVIOUS
  <2>2. /\ s.pc = "commit" /\ s.writes.bindings = written
        /\ s.writes.transfers = me.writes.transfers
        /\ s.call = me.call /\ s.now = me.now /\ s.answer = me.answer
    BY <1>1, <2>1 DEF Sound, IsState
  <2>3. Steps(h, s)
    BY <1>1, <1>3, <1>7, <2>1 DEF Steps
  <2>4. until <= me.now + KeyTtl
    <3>1. me.now \in Nat /\ KeyTtl \in Nat /\ me.row.call.body.expires \in Nat
      BY <1>1, TimesAssumption, CallTypes DEF SerialInv, IInv, CountersInv, Sound, IsState, RowInv
    <3> QED
      BY <1>2, <3>1 DEF BindingExpiry
  <2>5. \A x \in DOMAIN written : written[x].expires <= me.now + KeyTtl
    BY <1>5, <1>6, <2>4
  <2>6. Writing(s)
    BY <1>1, <2>2, <2>5 DEF Writing
  <2>7. written # NoRows
    <3>1. DOMAIN written = {k} /\ DOMAIN NoRows = {}
      BY <1>6 DEF NoRows
    <3> QED
      BY <3>1
  <2>8. Repeating(s)
    BY <1>1, <2>2, <2>7 DEF Repeating, Replays
  <2>9. Deciding(s) /\ Answering(s)
    BY <2>2 DEF Deciding, Answering
  <2> QED
    BY <1>1, <2>2, <2>3, <2>6, <2>8, <2>9, SerialStep
<1>8. \/ Fail(h, "Unavailable")
      \/ handler' = [handler EXCEPT ![h].pc = "commit", ![h].writes.bindings = written]
  BY <1>1, <1>2, <1>5, <1>6, Zenon DEF InsertIdempotency
<1> QED
  BY <1>4, <1>7, <1>8
-----------------------------------------------------------------------------
(* Their commits and answers.                                              *)

\* A row that a commit touches was settled by it: whatever was told of the row
\* stays true.
LEMMA CommitKeepsTold ==
  ASSUME SerialInv, NEW h \in Handlers, Commits(h), NEW t \in Nat,
         t = handler[h].now, NEW a \in answers
  PROVE  Told(a.answer, transfers'[a.answer.id], t)
<1>1. PICK me : /\ me = handler[h] /\ Sound(me) /\ me.pc = "commit"
                /\ Writing(me) /\ Latest(me)
  BY DEF SerialInv, SerialState, IInv, Commits
<1>2. PICK answer, i : answer = a.answer /\ i = answer.id
  OBVIOUS
<1>3. CASE answer.status # "Ok"
  BY <1>2, <1>3 DEF Told
<1>4. CASE answer.status = "Ok"
  <2>1. PICK row : row = transfers[i]
    OBVIOUS
  <2>2. i \in DOMAIN transfers /\ row.call.body.expires \in Nat
    BY <1>2, <1>4, <2>1, AnswersHaveRows DEF SerialInv
  <2>3. Told(answer, row, t)
    BY <1>1, <1>2, <2>1 DEF Latest, AllTold
  <2>4. PICK new : new = me.writes.transfers /\ transfers' = Merge(transfers, new)
    BY <1>1 DEF Commits
  <2>5. CASE i \in DOMAIN new
    <3>1. PICK next : next = new[i] /\ transfers'[i] = next
      BY <2>4, <2>5, Merged
    <3>2. Settles(me.call, row, next.state, t) /\ me.call \in Calls
      BY <1>1, <2>1, <2>2, <2>4, <2>5, <3>1 DEF Writing, Sound, IsState
    <3>3. Told(answer, next, t)
      BY <2>2, <2>3, <3>2, ToldAfterSettling
    <3> QED
      BY <1>2, <3>1, <3>3
  <2>6. CASE i \notin DOMAIN new
    <3>1. i \in DOMAIN transfers \ DOMAIN new
      BY <2>2, <2>6
    <3>2. transfers'[i] = row
      BY <2>1, <2>4, <3>1, Merged
    <3> QED
      BY <1>2, <2>3, <3>2
  <2> QED
    BY <2>5, <2>6
<1> QED
  BY <1>3, <1>4

LEMMA SerialCommit ==
  ASSUME Serial, SerialInv, IInv', NEW h \in Handlers, Commit(h)
  PROVE  SerialInv'
<1>1. PICK me : /\ me = handler[h] /\ Sound(me) /\ me.pc = "commit"
                /\ Writing(me) /\ Latest(me)
  BY DEF SerialInv, SerialState, IInv, Commit
<1>2. PICK s : s = [me EXCEPT !.pc = "answer", !.writes = NoWrites]
  OBVIOUS
<1>3. s.pc = "answer" /\ s.now = me.now /\ s.answer = me.answer
  BY <1>1, <1>2 DEF Sound, IsState
<1>4. /\ Commits(h) /\ handler' = [handler EXCEPT ![h] = s]
      /\ clock' = clock /\ answers' = answers
  BY <1>1, <1>2 DEF Commit, Commits
<1>5. PICK t \in Nat : t = me.now /\ t <= clock /\ clock \in Nat
  BY <1>1, TimesAssumption DEF SerialInv, IInv, CountersInv, Sound, IsState
<1>6. AllTold(t)'
  BY <1>1, <1>4, <1>5, CommitKeepsTold DEF AllTold
<1>7. AllTold(clock)'
  <2> SUFFICES ASSUME NEW a \in answers
               PROVE  Told(a.answer, transfers'[a.answer.id], clock)
    BY <1>4 DEF AllTold
  <2>1. PICK answer, row : answer = a.answer /\ row = transfers'[a.answer.id]
    OBVIOUS
  <2>2. Told(answer, row, t)
    BY <1>4, <1>6, <2>1 DEF AllTold
  <2>3. answer.status = "Ok" => row.call.body.expires \in Nat
    <3> SUFFICES ASSUME answer.status = "Ok"
                 PROVE  row.call.body.expires \in Nat
      OBVIOUS
    <3>1. a.answer.id \in DOMAIN transfers'
      BY <1>4, <2>1 DEF IInv, AnswersMatchCalls
    <3>2. row.call \in Calls /\ row.call.op = "create"
      BY <2>1, <3>1 DEF IInv, RowsInv, TransfersInv
    <3> QED
      BY <3>2, CallTypes
  <2> QED
    BY <1>5, <2>1, <2>2, <2>3, ToldLater
<1>8. \A i \in DOMAIN transfers' : transfers'[i].updated <= t
  <2> SUFFICES ASSUME NEW i \in DOMAIN transfers'
               PROVE  transfers'[i].updated <= t
    OBVIOUS
  <2>1. PICK new : new = me.writes.transfers /\ transfers' = Merge(transfers, new)
    BY <1>1, <1>4 DEF Commits
  <2>2. DOMAIN transfers' = DOMAIN transfers \cup DOMAIN new
    BY <2>1 DEF Merge
  <2>3. CASE i \in DOMAIN new
    <3>1. transfers'[i] = new[i]
      BY <2>1, <2>3, Merged
    <3>2. new[i].updated = me.now
      <4>1. CASE me.call.op = "create" /\ ~ Replays(me)
        BY <1>1, <2>1, <2>3, <4>1 DEF Sound, TransferWrites
      <4>2. CASE me.call.op = "create" /\ Replays(me)
        BY <1>1, <2>1, <2>3, <4>2 DEF Sound, TransferWrites, NoRows
      <4>3. CASE me.call.op # "create"
        BY <1>1, <2>1, <2>3, <4>3 DEF Sound, TransferWrites
      <4> QED
        BY <4>1, <4>2, <4>3
    <3> QED
      BY <1>5, <3>1, <3>2
  <2>4. CASE i \notin DOMAIN new
    <3>1. i \in DOMAIN transfers \ DOMAIN new
      BY <2>2, <2>4
    <3>2. transfers'[i] = transfers[i]
      BY <2>1, <3>1, Merged
    <3> QED
      BY <1>1, <1>5, <3>1, <3>2 DEF Latest
  <2> QED
    BY <2>3, <2>4
<1>9. Told(s.answer, transfers'[s.answer.id], t)
  BY <1>1, <1>3, <1>4, <1>5 DEF Writing, Commits
<1>10. SerialState(s)'
  BY <1>3, <1>5, <1>6, <1>8, <1>9
  DEF SerialState, Latest, Deciding, Writing, Repeating, Replays, Answering, AllTold
<1> QED
  BY <1>4, <1>7, <1>10, SerialMoves

LEMMA SerialRespond ==
  ASSUME Serial, SerialInv, IInv', NEW h \in Handlers, Respond(h)
  PROVE  SerialInv'
<1>1. PICK me : me = handler[h] /\ Sound(me) /\ me.pc = "answer" /\ Answering(me)
  BY DEF SerialInv, SerialState, IInv, Respond
<1>2. PICK told : told = [call |-> me.call, answer |-> me.answer]
  OBVIOUS
<1>3. /\ handler' = [handler EXCEPT ![h] = Idle]
      /\ clock' = clock /\ transfers' = transfers /\ answers' = answers \cup {told}
  BY <1>1, <1>2 DEF Respond, database
<1>4. PICK t \in Nat : t = me.now /\ t <= clock /\ clock \in Nat
  BY <1>1, TimesAssumption DEF SerialInv, IInv, CountersInv, Sound, IsState
<1>5. PICK answer, row : answer = me.answer /\ row = transfers[answer.id]
  OBVIOUS
<1>6. answer.status = "Ok" => row.call.body.expires \in Nat
  <2> SUFFICES ASSUME answer.status = "Ok"
               PROVE  row.call.body.expires \in Nat
    OBVIOUS
  <2>1. answer.id \in DOMAIN transfers
    BY <1>1, <1>5 DEF Sound, AnswerInv, Matches
  <2>2. row.call \in Calls /\ row.call.op = "create"
    BY <1>5, <2>1 DEF SerialInv, IInv, RowsInv, TransfersInv
  <2> QED
    BY <2>2, CallTypes
<1>7. Told(answer, row, clock)
  <2>1. Told(answer, row, t)
    BY <1>1, <1>4, <1>5 DEF Answering
  <2> QED
    BY <1>4, <1>6, <2>1, ToldLater
<1>8. AllTold(clock)'
  BY <1>2, <1>3, <1>5, <1>7 DEF SerialInv, AllTold
<1>9. SerialState(Idle)'
  BY DEF SerialState, Latest, Deciding, Writing, Answering, Idle
<1> QED
  BY <1>3, <1>8, <1>9, SerialMoves

LEMMA SerialDisconnect ==
  ASSUME Serial, SerialInv, IInv', NEW h \in Handlers, Disconnect(h)
  PROVE  SerialInv'
<1>1. /\ handler' = [handler EXCEPT ![h] = Idle]
      /\ clock' = clock /\ transfers' = transfers /\ answers' = answers
  BY DEF Disconnect, database
<1>2. AllTold(clock)'
  BY <1>1 DEF SerialInv, AllTold
<1>3. SerialState(Idle)'
  BY DEF SerialState, Latest, Deciding, Writing, Answering, Idle
<1> QED
  BY <1>1, <1>2, <1>3, SerialMoves

\* Time passes, or nothing happens.
LEMMA SerialTick ==
  ASSUME SerialInv, IInv', Tick \/ UNCHANGED vars
  PROVE  SerialInv'
<1>1. /\ handler' = handler /\ transfers' = transfers /\ answers' = answers
      /\ clock \in Nat /\ clock' \in Nat /\ clock <= clock'
  BY TimesAssumption DEF SerialInv, IInv, CountersInv, Tick, vars, database
<1>2. AllTold(clock')
  <2>1. PICK t \in Nat, u \in Nat : t = clock /\ u = clock' /\ t <= u
    BY <1>1
  <2>2. AllTold(u)
    BY <2>1, AllToldLater DEF SerialInv
  <2> QED
    BY <2>1, <2>2
<1>3. AllTold(clock)'
  BY <1>1, <1>2 DEF AllTold
<1>4. \A h \in Handlers : SerialState(handler[h])'
  BY <1>1 DEF SerialInv, SerialState, Latest, Deciding, Writing, Repeating, Replays,
     Answering, AllTold
<1> QED
  BY <1>3, <1>4 DEF SerialInv

LEMMA SerialInit == Init => SerialInv
<1> SUFFICES ASSUME Init
             PROVE  SerialInv
  OBVIOUS
<1>1. IInv
  BY InitInvariant
<1>2. AllTold(clock)
  BY DEF Init, AllTold
<1>3. \A h \in Handlers : SerialState(handler[h])
  BY DEF Init, SerialState, Latest, Deciding, Writing, Answering, Idle
<1> QED
  BY <1>1, <1>2, <1>3 DEF SerialInv

LEMMA SerialNext ==
  ASSUME Serial, SerialInv, [Next]_vars
  PROVE  SerialInv'
<1>1. IInv'
  BY NextInvariant DEF SerialInv
<1>2. ASSUME NEW h \in Handlers, NEW c \in Calls, Begin(h, c)
      PROVE  SerialInv'
  BY <1>1, <1>2, SerialBegin
<1>3. ASSUME NEW h \in Handlers, Query(h)
      PROVE  SerialInv'
  BY <1>1, <1>3, SerialEarly, SerialReplay, SerialInsert, SerialFind, SerialUpdate, SerialBind
  DEF Query
<1>4. ASSUME NEW h \in Handlers, Commit(h) \/ Respond(h) \/ Disconnect(h)
      PROVE  SerialInv'
  BY <1>1, <1>4, SerialCommit, SerialRespond, SerialDisconnect
<1> QED
  BY <1>1, <1>2, <1>3, <1>4, SerialTick DEF Next, Statement

\* While one request is in progress nobody changes what it has decided.
LEMMA SerialInvariant == Serial => (Spec => []SerialInv)
<1> SUFFICES ASSUME Serial
             PROVE  Spec => []SerialInv
  OBVIOUS
<1>1. Init => SerialInv
  BY SerialInit
<1>2. SerialInv /\ [Next]_vars => SerialInv'
  BY SerialNext
<1> QED
  BY <1>1, <1>2, PTL DEF Spec

\* Calls that do not overlap are never told two terminal states of a transfer,
\* with any number of calls, lost answers and rollbacks, although expiry is
\* shown by the clock and written by cancel only (transfer_response,
\* cancel_transfer in src/src/memebank_routes.rs).
THEOREM AnswersAgreeHolds == Serial => (Spec => []AnswersAgree)
<1> SUFFICES ASSUME Serial
             PROVE  Spec => []AnswersAgree
  OBVIOUS
<1>1. SerialInv => AnswersAgree
  <2> SUFFICES ASSUME SerialInv, NEW a \in answers, NEW b \in answers,
                      a.answer.status = "Ok", b.answer.status = "Ok",
                      a.answer.id = b.answer.id,
                      {a.answer.state, b.answer.state} \subseteq TerminalStates
               PROVE  a.answer.state = b.answer.state
    BY DEF AnswersAgree
  <2>1. PICK row : row = transfers[a.answer.id]
    OBVIOUS
  <2>2. Told(a.answer, row, clock) /\ Told(b.answer, row, clock)
    BY <2>1 DEF SerialInv, AllTold
  <2>3. "pending" \notin TerminalStates
    BY DEF TerminalStates, Dispositions
  <2> QED
    BY <2>2, <2>3 DEF Told
<1> QED
  BY <1>1, SerialInvariant, PTL
-----------------------------------------------------------------------------
(* Calls that do not overlap implement the prototype.                      *)

\* Records and IdempotencyRecords, of any rows.
RecordOf(row) ==
  [owner |-> row.call.subject, expires |-> row.call.body.expires,
   state |-> row.state, created |-> row.created, updated |-> row.updated]

RecordsOf(rows) == [i \in DOMAIN rows |-> RecordOf(rows[i])]

KeyRecordOf(b) == [call |-> b.call, transfer |-> b.transfer, expires |-> b.expires]

KeyRecordsOf(rows) == [k \in DOMAIN rows |-> KeyRecordOf(rows[k])]

LEMMA RecordsAreOfRows ==
  /\ Records = RecordsOf(transfers) /\ Records' = RecordsOf(transfers')
  /\ IdempotencyRecords = KeyRecordsOf(bindings)
  /\ IdempotencyRecords' = KeyRecordsOf(bindings')
BY DEF Records, RecordsOf, RecordOf, IdempotencyRecords, KeyRecordsOf, KeyRecordOf

\* A transaction without rows leaves the records, and one with a single row
\* puts its record.
LEMMA RecordsAfterNothing ==
  ASSUME NEW old, NEW new, DOMAIN new = {}
  PROVE  /\ RecordsOf(Merge(old, new)) = RecordsOf(old)
         /\ KeyRecordsOf(Merge(old, new)) = KeyRecordsOf(old)
BY DEF RecordsOf, KeyRecordsOf, Merge

LEMMA RecordsAfterRow ==
  ASSUME NEW old, NEW new, NEW i, DOMAIN new = {i}
  PROVE  /\ RecordsOf(Merge(old, new)) = Prototype!Put(RecordsOf(old), i, RecordOf(new[i]))
         /\ KeyRecordsOf(Merge(old, new))
              = Prototype!Put(KeyRecordsOf(old), i, KeyRecordOf(new[i]))
BY DEF RecordsOf, KeyRecordsOf, Merge, Prototype!Put

\* What the handler has when it commits.
LEMMA Committing ==
  ASSUME SerialInv, NEW h \in Handlers, Commit(h), NEW me, me = handler[h]
  PROVE  /\ Sound(me) /\ me.pc = "commit" /\ me.call \in Calls
         /\ Latest(me) /\ Writing(me) /\ Repeating(me)
         /\ me.now \in 0 .. MaxTime
         /\ transfers' = Merge(transfers, me.writes.transfers)
         /\ bindings' = Merge(bindings, me.writes.bindings)
BY TimesAssumption DEF SerialInv, SerialState, IInv, CountersInv, Sound, IsState, Commit

\* A call that was not replayed found its key free, and binds it.
LEMMA CommitBindsKey ==
  ASSUME SerialInv, NEW h \in Handlers, Commit(h), NEW me, me = handler[h],
         IsKeyed(me.call), ~ Replays(me),
         NEW id, id = IF me.call.op = "create" THEN me.id ELSE me.call.transfer
  PROVE  /\ Prototype!Inserts(me.call, me.now)
         /\ Prototype!Bind(me.call, id, me.now)
<1>1. /\ Sound(me) /\ me.pc = "commit" /\ Writing(me) /\ me.now \in 0 .. MaxTime
      /\ bindings' = Merge(bindings, me.writes.bindings)
  BY Committing
<1>2. PICK c, now, new : c = me.call /\ now = me.now /\ new = me.writes.bindings
  OBVIOUS
<1>3. PICK k : k = <<c.subject, c.key>>
  OBVIOUS
<1>4. k = KeyOf(c)
  BY <1>3 DEF KeyOf
<1>5. ~ IsLive(k, now)
  BY <1>1, <1>2, <1>4 DEF Sound, LookupInv, Locked
<1>6. Prototype!Inserts(c, now)
  <2>1. ASSUME k \in DOMAIN IdempotencyRecords
        PROVE  IdempotencyRecords[k].expires <= now
    <3>1. k \in DOMAIN bindings /\ IdempotencyRecords[k].expires = bindings[k].expires
      BY <2>1 DEF IdempotencyRecords
    <3>2. bindings[k].expires \in Nat /\ now \in Nat
      BY <1>1, <1>2, <3>1 DEF SerialInv, IInv, RowsInv, BindingsInv
    <3> QED
      BY <1>5, <3>1, <3>2 DEF IsLive
  <2> QED
    BY <1>3, <2>1 DEF Prototype!Inserts
<1>7. /\ DOMAIN new = {k} /\ new[k].call = c /\ new[k].transfer = id
      /\ new[k].expires \in Nat /\ new[k].expires > now
  <2>1. new # NoRows
    BY <1>1, <1>2 DEF Replays
  <2> QED
    BY <1>1, <1>2, <1>4, <2>1 DEF Sound, BindingWrites
<1>8. new[k].expires \in 0 .. MaxTime + KeyTtl
  <2>1. new[k].expires <= now + KeyTtl
    BY <1>1, <1>2, <1>7 DEF Writing
  <2> QED
    BY <1>1, <1>2, <1>7, <2>1, TimesAssumption
<1>9. IdempotencyRecords'
        = Prototype!Put(IdempotencyRecords, k,
                        [call |-> c, transfer |-> id, expires |-> new[k].expires])
  <2>1. PICK row : row = new[k]
    OBVIOUS
  <2>2. KeyRecordOf(row) = [call |-> c, transfer |-> id, expires |-> row.expires]
    BY <1>7, <2>1 DEF KeyRecordOf
  <2>3. IdempotencyRecords' = Prototype!Put(IdempotencyRecords, k, KeyRecordOf(new[k]))
    BY <1>1, <1>2, <1>7, RecordsAreOfRows, RecordsAfterRow
  <2> QED
    BY <2>1, <2>2, <2>3
<1>10. Prototype!Bind(c, id, now)
  BY <1>3, <1>7, <1>8, <1>9 DEF Prototype!Bind
<1> QED
  BY <1>2, <1>6, <1>10

LEMMA CommitCreates ==
  ASSUME SerialInv, NEW h \in Handlers, Commit(h), NEW me, me = handler[h],
         me.call.op = "create", ~ Replays(me)
  PROVE  Prototype!Create(me.call)
<1>1. /\ Sound(me) /\ me.pc = "commit" /\ me.now \in 0 .. MaxTime /\ me.call \in Calls
      /\ transfers' = Merge(transfers, me.writes.transfers)
  BY Committing
<1>2. PICK c, now, id, new :
        c = me.call /\ now = me.now /\ id = me.id /\ new = me.writes.transfers
  OBVIOUS
<1>3. Prototype!Inserts(c, now) /\ Prototype!Bind(c, id, now)
  BY <1>2, CommitBindsKey DEF IsKeyed
<1>4. id \in 1 .. calls /\ id \notin DOMAIN transfers /\ InRetention(c.body, now)
  BY <1>1, <1>2 DEF Sound, IdInv, Inserts, Locked
<1>5. id \in Ids \ DOMAIN Records
  BY <1>4, TimesAssumption DEF Records, Ids, SerialInv, IInv, CountersInv
<1>6. c.body.expires \in now + 1 .. now + MaxRetention
  <2>1. c.body.expires \in Nat /\ now \in Nat
    BY <1>1, <1>2, CallTypes
  <2> QED
    BY <1>4, <2>1, TimesAssumption DEF InRetention
<1>7. PICK row : row = [call |-> c, state |-> "pending", created |-> now, updated |-> now]
  OBVIOUS
<1>8. new = [i \in {id} |-> row]
  BY <1>1, <1>2, <1>7 DEF Sound, TransferWrites
<1>9. DOMAIN new = {id} /\ new[id] = row
  BY <1>8
<1>10. RecordOf(row) = [owner |-> c.subject, expires |-> c.body.expires,
                        state |-> "pending", created |-> now, updated |-> now]
  BY <1>7 DEF RecordOf
<1>11. Records' = Prototype!Put(Records, id, RecordOf(row))
  BY <1>1, <1>2, <1>9, RecordsAreOfRows, RecordsAfterRow
<1>12. now \in 0 .. MaxTime + KeyTtl
  BY <1>1, <1>2, TimesAssumption
<1>13. c.op = "create"
  BY <1>2
<1>14. Prototype!Create(c)
  BY <1>3, <1>5, <1>6, <1>10, <1>11, <1>12, <1>13 DEF Prototype!Create
<1> QED
  BY <1>2, <1>14

\* A row that the handler wrote is that of its call, settled at the handler's
\* time, and has not been changed since.
LEMMA CommitSettles ==
  ASSUME SerialInv, NEW h \in Handlers, Commit(h), NEW me, me = handler[h],
         me.call.op # "create", NEW i \in DOMAIN me.writes.transfers
  PROVE  /\ i = me.call.transfer /\ DOMAIN me.writes.transfers = {i}
         /\ Settles(me.call, transfers[i], me.writes.transfers[i].state, me.now)
         /\ me.writes.transfers[i].call = transfers[i].call
         /\ me.writes.transfers[i].created = transfers[i].created
         /\ me.writes.transfers[i].updated = me.now
<1>1. /\ Sound(me) /\ me.pc = "commit" /\ Writing(me)
  BY Committing
<1>2. \A j \in DOMAIN me.writes.transfers :
        /\ j = me.call.transfer
        /\ me.writes.transfers[j].call = transfers[j].call
        /\ me.writes.transfers[j].created = transfers[j].created
        /\ me.writes.transfers[j].updated = me.now
  BY <1>1 DEF Sound, TransferWrites
<1>3. i \in DOMAIN transfers
  BY <1>1, <1>2 DEF Sound, AnswerInv, Matches
<1> QED
  BY <1>1, <1>2, <1>3 DEF Writing

\* The record of the transfer that a call names, before the commit.
LEMMA NamedRecord ==
  ASSUME SerialInv, NEW h \in Handlers, Commit(h), NEW me, me = handler[h],
         me.call.op # "create", NEW row, row = transfers[me.call.transfer]
  PROVE  /\ Prototype!IsOwned(me.call)
         /\ Records[me.call.transfer] = RecordOf(row)
         /\ row.updated \in Nat /\ row.updated <= me.now
         /\ row.call.body.expires \in Nat
<1>1. Sound(me) /\ me.pc = "commit" /\ Latest(me)
  BY Committing
<1>2. me.call.transfer \in DOMAIN transfers /\ row.call.subject = me.call.subject
  BY <1>1 DEF Sound, AnswerInv, Matches
<1>3. row.updated \in Nat /\ row.call \in Calls /\ row.call.op = "create"
  BY <1>2 DEF SerialInv, IInv, CountersInv, RowsInv, TransfersInv
<1>4. row.updated <= me.now
  BY <1>1, <1>2 DEF Latest
<1>5. Records[me.call.transfer] = RecordOf(row) /\ me.call.transfer \in DOMAIN Records
  BY <1>2 DEF Records, RecordOf
<1>6. Prototype!IsOwned(me.call)
  BY <1>2, <1>5 DEF Prototype!IsOwned, RecordOf
<1> QED
  BY <1>3, <1>4, <1>5, <1>6, CallTypes

LEMMA CommitAcknowledges ==
  ASSUME SerialInv, NEW h \in Handlers, Commit(h), NEW me, me = handler[h],
         me.call.op = "acknowledge", ~ Replays(me)
  PROVE  Prototype!ApplyAcknowledgement(me.call)
<1>1. /\ me.pc = "commit" /\ Repeating(me) /\ me.now \in 0 .. MaxTime /\ me.call \in Calls
      /\ transfers' = Merge(transfers, me.writes.transfers)
  BY Committing
<1>2. PICK c, now, i, new, row :
        /\ c = me.call /\ now = me.now /\ i = me.call.transfer
        /\ new = me.writes.transfers /\ row = transfers[i]
  OBVIOUS
<1>3. PICK record : record = RecordOf(row)
  OBVIOUS
<1>4. /\ record.updated = row.updated /\ record.state = row.state
      /\ record.expires = row.call.body.expires
  BY <1>3 DEF RecordOf
<1>5. /\ Prototype!IsOwned(c) /\ Records[i] = record /\ record.updated <= now
      /\ record.expires \in Nat /\ c.op = "acknowledge"
  BY <1>2, <1>3, <1>4, NamedRecord
<1>6. Prototype!Inserts(c, now) /\ Prototype!Bind(c, i, now)
  BY <1>2, CommitBindsKey DEF IsKeyed
<1>7. now \in 0 .. MaxTime + KeyTtl /\ now \in Nat
  BY <1>1, <1>2, TimesAssumption
<1>8. c.disposition \in Dispositions /\ "pending" \notin Dispositions
  BY <1>1, <1>2, ReceiptsAssumption DEF Calls, Dispositions
<1>9. CASE DOMAIN new = {}
  <2>1. record.state = c.disposition
    BY <1>1, <1>2, <1>4, <1>9 DEF Repeating
  <2>2. Prototype!ExpireIfNeeded(record, now) = record
    BY <1>8, <2>1 DEF Prototype!ExpireIfNeeded
  <2>3. Records' = Records
    BY <1>1, <1>2, <1>9, RecordsAreOfRows, RecordsAfterNothing
  <2>4. Prototype!ApplyAcknowledgement(c)
    BY <1>2, <1>5, <1>6, <1>7, <2>1, <2>2, <2>3 DEF Prototype!ApplyAcknowledgement
  <2> QED
    BY <1>2, <2>4
<1>10. CASE DOMAIN new # {}
  <2>1. PICK next : next = new[i]
    OBVIOUS
  <2>2. /\ DOMAIN new = {i} /\ Settles(c, row, next.state, now)
        /\ next.call = row.call /\ next.created = row.created /\ next.updated = now
    BY <1>2, <1>10, <2>1, CommitSettles
  <2>3. /\ next.state = c.disposition /\ row.state = "pending"
        /\ ~ (now >= row.call.body.expires)
    BY <1>1, <1>2, <1>5, <2>2, SettlesTo DEF Settles
  <2>4. Prototype!ExpireIfNeeded(record, now) = record
    BY <1>4, <1>5, <1>7, <2>3 DEF Prototype!ExpireIfNeeded
  <2>5. RecordOf(next) = [record EXCEPT !.state = c.disposition, !.updated = now]
    <3>1. PICK state : state = c.disposition
      OBVIOUS
    <3>2. next.state = state
      BY <2>3, <3>1
    <3>3. PICK settled :
            settled = [owner |-> row.call.subject, expires |-> row.call.body.expires,
                       state |-> state, created |-> row.created, updated |-> now]
      OBVIOUS
    <3>4. RecordOf(next) = settled
      BY <2>2, <3>2, <3>3 DEF RecordOf
    <3>5. PICK r : r = [record EXCEPT !.state = state, !.updated = now]
      OBVIOUS
    <3>6. /\ DOMAIN r = {"owner", "expires", "state", "created", "updated"}
          /\ r.owner = row.call.subject /\ r.expires = row.call.body.expires
          /\ r.state = state /\ r.created = row.created /\ r.updated = now
      BY <1>3, <3>5 DEF RecordOf
    <3>7. r = settled
      BY <3>3, <3>5, <3>6
    <3> QED
      BY <3>1, <3>4, <3>5, <3>7
  <2>6. Records' = Prototype!Put(Records, i, RecordOf(next))
    <3>1. RecordsOf(Merge(transfers, new))
            = Prototype!Put(RecordsOf(transfers), i, RecordOf(new[i]))
      BY <2>2, RecordsAfterRow
    <3> QED
      BY <1>1, <1>2, <2>1, <3>1, RecordsAreOfRows, Zenon
  <2>7. record.state = "pending" /\ record.state # c.disposition
    BY <1>4, <1>8, <2>3
  <2>8. Prototype!ApplyAcknowledgement(c)
    BY <1>2, <1>5, <1>6, <1>7, <2>4, <2>5, <2>6, <2>7 DEF Prototype!ApplyAcknowledgement
  <2> QED
    BY <1>2, <2>8
<1> QED
  BY <1>9, <1>10

LEMMA CommitCancels ==
  ASSUME SerialInv, NEW h \in Handlers, Commit(h), NEW me, me = handler[h],
         me.call.op = "cancel", DOMAIN me.writes.transfers # {}
  PROVE  Prototype!ApplyCancel(me.call)
<1>1. /\ Sound(me) /\ me.now \in 0 .. MaxTime /\ me.call \in Calls
      /\ transfers' = Merge(transfers, me.writes.transfers)
      /\ bindings' = Merge(bindings, me.writes.bindings)
  BY Committing
<1>2. PICK c, now, i, new, row :
        /\ c = me.call /\ now = me.now /\ i = me.call.transfer
        /\ new = me.writes.transfers /\ row = transfers[i]
  OBVIOUS
<1>3. PICK record, next : record = RecordOf(row) /\ next = new[i]
  OBVIOUS
<1>4. /\ record.updated = row.updated /\ record.state = row.state
      /\ record.expires = row.call.body.expires
  BY <1>3 DEF RecordOf
<1>5. /\ Prototype!IsOwned(c) /\ Records[i] = record /\ record.updated <= now
      /\ record.expires \in Nat /\ c.op = "cancel"
  BY <1>2, <1>3, <1>4, NamedRecord
<1>6. now \in 0 .. MaxTime + KeyTtl /\ now \in Nat
  BY <1>1, <1>2, TimesAssumption
<1>7. IdempotencyRecords' = IdempotencyRecords
  <2>1. DOMAIN me.writes.bindings = {}
    BY <1>1 DEF Sound, BindingWrites, NoRows, IsKeyed
  <2> QED
    BY <1>1, <2>1, RecordsAreOfRows, RecordsAfterNothing
<1>8. /\ DOMAIN new = {i} /\ Settles(c, row, next.state, now)
      /\ next.call = row.call /\ next.created = row.created /\ next.updated = now
  BY <1>2, <1>3, CommitSettles
<1>9. /\ row.state = "pending"
      /\ next.state = IF now >= row.call.body.expires THEN "expired" ELSE "cancelled"
  BY <1>1, <1>2, <1>5, <1>8, SettlesTo DEF Settles
<1>10. Records' = Prototype!Put(Records, i, RecordOf(next))
  <2>1. RecordsOf(Merge(transfers, new))
          = Prototype!Put(RecordsOf(transfers), i, RecordOf(new[i]))
    BY <1>8, RecordsAfterRow
  <2> QED
    BY <1>1, <1>2, <1>3, <2>1, RecordsAreOfRows, Zenon
<1>11. PICK r : r = Prototype!ExpireIfNeeded(record, now)
  OBVIOUS
<1>12. RecordOf(next) = IF r.state = "pending"
                        THEN [r EXCEPT !.state = "cancelled", !.updated = now] ELSE r
  <2>1. CASE record.expires <= now
    <3>1. r = [record EXCEPT !.state = "expired", !.updated = now]
      BY <1>4, <1>9, <1>11, <2>1 DEF Prototype!ExpireIfNeeded
    <3>2. next.state = "expired"
      BY <1>4, <1>5, <1>6, <1>9, <2>1
    <3> QED
      BY <1>3, <1>8, <3>1, <3>2 DEF RecordOf
  <2>2. CASE ~ (record.expires <= now)
    <3>1. r = record
      BY <1>11, <2>2 DEF Prototype!ExpireIfNeeded
    <3>2. next.state = "cancelled"
      BY <1>4, <1>5, <1>6, <1>9, <2>2
    <3> QED
      BY <1>3, <1>4, <1>8, <1>9, <3>1, <3>2 DEF RecordOf
  <2> QED
    BY <2>1, <2>2
<1>13. Prototype!ApplyCancel(c)
  BY <1>2, <1>5, <1>6, <1>7, <1>10, <1>11, <1>12 DEF Prototype!ApplyCancel
<1> QED
  BY <1>2, <1>13

\* Every other commit writes nothing.
LEMMA CommitsNothing ==
  ASSUME SerialInv, NEW h \in Handlers, Commit(h), NEW me, me = handler[h],
         \/ IsKeyed(me.call) /\ Replays(me)
         \/ ~ IsKeyed(me.call) /\ DOMAIN me.writes.transfers = {}
  PROVE  UNCHANGED Prototype!vars
<1>1. /\ Sound(me) /\ me.pc = "commit" /\ Repeating(me)
      /\ transfers' = Merge(transfers, me.writes.transfers)
      /\ bindings' = Merge(bindings, me.writes.bindings)
  BY Committing
<1>2. DOMAIN me.writes.transfers = {}
  BY <1>1 DEF Repeating, NoRows
<1>3. DOMAIN me.writes.bindings = {}
  BY <1>1 DEF Sound, BindingWrites, Replays, NoRows
<1>4. Records' = Records /\ IdempotencyRecords' = IdempotencyRecords
  BY <1>1, <1>2, <1>3, RecordsAreOfRows, RecordsAfterNothing
<1> QED
  BY <1>4 DEF Prototype!vars

LEMMA CommitIsOperation ==
  ASSUME SerialInv, NEW h \in Handlers, Commit(h)
  PROVE  [Prototype!Next]_(Prototype!vars)
<1>1. PICK me : me = handler[h]
  OBVIOUS
<1>2. me.call \in Calls /\ me.call.op \in {"create", "acknowledge", "cancel", "get"}
  BY <1>1, Committing, CallTypes
<1>3. CASE IsKeyed(me.call) /\ ~ Replays(me)
  <2>1. Prototype!Create(me.call) \/ Prototype!ApplyAcknowledgement(me.call)
    BY <1>1, <1>3, CommitCreates, CommitAcknowledges DEF IsKeyed
  <2> QED
    BY <1>2, <2>1 DEF Prototype!Next
<1>4. CASE IsKeyed(me.call) /\ Replays(me)
  BY <1>1, <1>4, CommitsNothing
<1>5. CASE ~ IsKeyed(me.call) /\ DOMAIN me.writes.transfers = {}
  BY <1>1, <1>5, CommitsNothing
<1>6. CASE ~ IsKeyed(me.call) /\ DOMAIN me.writes.transfers # {}
  <2>1. PICK i : i \in DOMAIN me.writes.transfers
    BY <1>6
  <2>2. me.call.op # "create"
    BY <1>6 DEF IsKeyed
  <2>3. Settles(me.call, transfers[i], me.writes.transfers[i].state, me.now)
    BY <1>1, <2>1, <2>2, CommitSettles
  <2>4. me.call.op = "cancel"
    BY <1>2, <1>6, <2>3, SettlesTo DEF IsKeyed
  <2>5. Prototype!ApplyCancel(me.call)
    BY <1>1, <1>6, <2>4, CommitCancels
  <2> QED
    BY <1>2, <2>5 DEF Prototype!Next
<1> QED
  BY <1>3, <1>4, <1>5, <1>6

\* No other step changes a row.
LEMMA OthersKeepRows ==
  ASSUME [Next]_vars, \A h \in Handlers : ~ Commit(h)
  PROVE  transfers' = transfers /\ bindings' = bindings
<1>1. ASSUME NEW h \in Handlers, NEW c \in Calls, Begin(h, c)
      PROVE  transfers' = transfers /\ bindings' = bindings
  BY <1>1 DEF Begin, BeginCreate, BeginAcknowledge, BeginCancel, BeginGet, Enter, database
<1>2. ASSUME NEW h \in Handlers, Query(h)
      PROVE  transfers' = transfers /\ bindings' = bindings
  BY <1>2 DEF Query, EnsureAccount, LockIdempotency, LookupIdempotency, FindReplayed,
     InsertTransfer, FindTransfer, UpdateTransfer, InsertIdempotency, database
<1>3. ASSUME NEW h \in Handlers, Respond(h) \/ Disconnect(h)
      PROVE  transfers' = transfers /\ bindings' = bindings
  BY <1>3 DEF Respond, Disconnect, database
<1>4. ASSUME Tick \/ UNCHANGED vars
      PROVE  transfers' = transfers /\ bindings' = bindings
  BY <1>4 DEF Tick, vars, database
<1> QED
  BY <1>1, <1>2, <1>3, <1>4 DEF Next, Statement

LEMMA OthersKeepRecords ==
  ASSUME [Next]_vars, \A h \in Handlers : ~ Commit(h)
  PROVE  UNCHANGED Prototype!vars
BY OthersKeepRows, RecordsAreOfRows DEF Prototype!vars

\* Calls that do not overlap implement the prototype of
\* src/src/memebank_integration.rs for every set of calls: what a transaction
\* of src/src/memebank_routes.rs commits, after replays, expired keys, lost
\* answers and rollbacks, is one atomic operation of the prototype, at a time
\* not before the row's last change, or nothing.
THEOREM ImplementsPrototypeHolds == Serial => (Spec => ImplementsPrototype)
<1> SUFFICES ASSUME Serial
             PROVE  Spec => ImplementsPrototype
  OBVIOUS
<1>1. Init => Prototype!Init
  <2> SUFFICES ASSUME Init
               PROVE  Prototype!Init
    OBVIOUS
  <2>1. DOMAIN transfers = {} /\ DOMAIN bindings = {}
    BY DEF Init, NoRows
  <2> QED
    BY <2>1 DEF Prototype!Init, Records, IdempotencyRecords
<1>2. SerialInv /\ [Next]_vars => [Prototype!Next]_(Prototype!vars)
  BY CommitIsOperation, OthersKeepRecords
<1> QED
  BY <1>1, <1>2, SerialInvariant, PTL DEF Spec, ImplementsPrototype, Prototype!Spec

-----------------------------------------------------------------------------
(* What they settle stays.                                                 *)

\* "Terminal transfer states cannot be reopened"
\* (src/docs/memebank-production-activation.md:123): while at most one request
\* is in progress no terminal state is replaced, by any acknowledgement,
\* cancel, replay or rollback.  Only requests that overlap can replace one,
\* because they decide on a row that they have not locked.
THEOREM TerminalIsFinalHolds == Serial => (Spec => TerminalIsFinal)
<1> SUFFICES ASSUME Serial
             PROVE  Spec => TerminalIsFinal
  OBVIOUS
<1>1. ASSUME SerialInv, [Next]_vars, NEW i \in DOMAIN transfers,
             transfers[i].state # "pending"
      PROVE  transfers'[i].state = transfers[i].state
  <2>1. CASE \A h \in Handlers : ~ Commit(h)
    BY <1>1, <2>1, OthersKeepRows
  <2>2. ASSUME NEW h \in Handlers, Commit(h)
        PROVE  transfers'[i].state = transfers[i].state
    <3>1. PICK me : me = handler[h]
      OBVIOUS
    <3>2. /\ Sound(me) /\ me.pc = "commit" /\ Writing(me)
          /\ transfers' = Merge(transfers, me.writes.transfers)
      BY <1>1, <2>2, <3>1, Committing
    <3>3. i \notin DOMAIN me.writes.transfers
      BY <1>1, <3>2 DEF Writing, Settles
    <3>4. i \in DOMAIN transfers \ DOMAIN me.writes.transfers
      BY <1>1, <3>3
    <3>5. transfers'[i] = transfers[i]
      BY <3>2, <3>4, Merged
    <3> QED
      BY <3>5
  <2> QED
    BY <2>1, <2>2
<1>2. SerialInv /\ [Next]_vars =>
        [\A i \in DOMAIN transfers : transfers[i].state # "pending" =>
           transfers'[i].state = transfers[i].state]_vars
  BY <1>1
<1> QED
  BY <1>2, SerialInvariant, PTL DEF Spec, TerminalIsFinal

=============================================================================

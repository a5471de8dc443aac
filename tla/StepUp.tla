------------------------------- MODULE StepUp -------------------------------
(***************************************************************************)
(* Requests that a 3FA proof must step up: the Rust policy, then one       *)
(* transaction that calls consume_external_step_up and performs the        *)
(* protected action (src/src/app_vault.rs, src/schema/schema.sql), while   *)
(* other requests do the same, devices change their lifecycle and          *)
(* challenges are invalidated.  The calls in between are not in the        *)
(* repository; they follow the signatures of the two functions, the clock  *)
(* and the challenge being handed to the Rust one in whole seconds.        *)
(***************************************************************************)
EXTENDS StepUpPolicy, Sequences

CONSTANTS
  Devices, Requests, Challenges, Proofs, \* records, see StepUpPolicy
  Handlers,
  MaxTime  \* bounds the clock, in ticks

\* The rows of the two tables satisfy their keys and CHECK constraints.
ASSUME RowsAssumption ==
  /\ MaxTime \in Nat
  /\ \A c \in Challenges :
       /\ c.device \in Devices
       /\ c.created \in Nat /\ c.expires \in Nat
       /\ ValidWindow(c.created, c.expires)
  /\ \A c, d \in Challenges : c.id = d.id => c = d
  /\ \A p, q \in Proofs : p.id = q.id => p = q

\* Proofs come from outside and are anything.
ASSUME InputsAssumption ==
  /\ \A p \in Proofs :
       p.issued \in Nat /\ p.expires \in Nat /\ p.genuine \in BOOLEAN
  /\ \A r \in Requests : r.credential.device \in Devices

VARIABLES
  clock,
  device,    \* devices.lifecycle_state
  challenge, \* "open" or the terminal marker of each challenge
  proof,     \* whether a proof is stored as verified, when, and consumed
  handler,
  done       \* the protected actions that were committed, in order

vars == <<clock, device, challenge, proof, handler, done>>

None == <<>>
Idle == [pc |-> "idle", request |-> None, challenge |-> None, proof |-> None,
         at |-> 0, revoked |-> FALSE, seen |-> None]

Init ==
  /\ clock = 0
  /\ device = [d \in Devices |-> "active"]
  /\ challenge = [c \in Challenges |-> "open"]
  /\ proof = [p \in Proofs |-> [status |-> "unknown", verified |-> 0]]
  /\ handler = [h \in Handlers |-> Idle]
  /\ done = << >>

\* The rows that h has locked and changed, or is about to change.
Reserves(h, c, p) ==
  /\ handler[h].pc = "reserved"
  /\ handler[h].challenge = c \/ handler[h].proof = p
-----------------------------------------------------------------------------
\* A verified proof is stored; UNIQUE (challenge_id) admits one per challenge,
\* and the CHECK constraints and keys only proofs of that form.
StoreProof(p) ==
  /\ p.genuine
  /\ ValidWindow(p.issued, p.expires)
  /\ \E c \in Challenges : c.id = p.challenge /\ c.subject = p.subject
  /\ \A q \in Proofs : q.challenge = p.challenge => proof[q].status = "unknown"
  /\ proof' = [proof EXCEPT ![p] = [status |-> "verified", verified |-> clock]]
  /\ UNCHANGED <<clock, device, challenge, handler, done>>

\* validate_step_up_authorization on what was loaded for the request.
Validate(h, r, c, p) ==
  /\ handler[h].pc = "idle"
  /\ PolicyAccepts(clock, r, c, challenge[c], p, device[r.credential.device])
  /\ handler' = [handler EXCEPT ![h] =
       [Idle EXCEPT !.pc = "validated", !.request = r, !.challenge = c, !.proof = p]]
  /\ UNCHANGED <<clock, device, challenge, proof, done>>

\* BEGIN and the claims of the request: transaction_timestamp() is fixed.
BeginTransaction(h) ==
  /\ handler[h].pc = "validated"
  /\ handler' = [handler EXCEPT
       ![h].pc = "begun", ![h].at = clock,
       ![h].revoked = device[handler[h].request.credential.device] = "revoked"]
  /\ UNCHANGED <<clock, device, challenge, proof, done>>

\* The rows that consume_external_step_up's SELECT evaluates.
Matches(h, lifecycle) ==
  LET me == handler[h]
  IN DatabaseAccepts(me.at, me.request, me.challenge, challenge[me.challenge],
                     me.proof, proof[me.proof], lifecycle)

\* The SELECT finds its row in the snapshot of the statement, or returns false
\* and the transaction is given up.
SelectForUpdate(h) ==
  LET lifecycle == device[handler[h].challenge.device]
  IN /\ handler[h].pc = "begun"
     /\ \/ /\ Matches(h, lifecycle)
           /\ handler' = [handler EXCEPT ![h].pc = "selected", ![h].seen = lifecycle]
        \/ /\ ~ Matches(h, lifecycle)
           /\ handler' = [handler EXCEPT ![h] = Idle]
     /\ UNCHANGED <<clock, device, challenge, proof, done>>

\* Mutant: FOR UPDATE is forgotten; rows are reserved as they were selected.
ReserveUnlocked(h) ==
  /\ handler[h].pc = "selected"
  /\ handler' = [handler EXCEPT ![h].pc = "reserved"]
  /\ UNCHANGED <<clock, device, challenge, proof, done>>

\* FOR UPDATE OF challenge, proof waits for their rows and evaluates the
\* condition again on what they hold then; the device row is not read again.
Reserve(h) ==
  LET me == handler[h]
  IN /\ me.pc = "selected"
     /\ \A g \in Handlers : ~ Reserves(g, me.challenge, me.proof)
     /\ \/ /\ Matches(h, me.seen)
           /\ handler' = [handler EXCEPT ![h].pc = "reserved"]
        \/ /\ ~ Matches(h, me.seen)
           /\ handler' = [handler EXCEPT ![h] = Idle]
     /\ UNCHANGED <<clock, device, challenge, proof, done>>

\* Mutant: the second UPDATE is forgotten, the proof stays unconsumed.
CommitChallengeOnly(h) ==
  LET me == handler[h]
  IN /\ me.pc = "reserved"
     /\ challenge' = [challenge EXCEPT ![me.challenge] = "consumed"]
     /\ handler' = [handler EXCEPT ![h] = Idle]
     /\ UNCHANGED <<clock, device, proof, done>>

\* Both terminal markers and the protected action, in one transaction.
Commit(h) ==
  LET me == handler[h]
  IN /\ me.pc = "reserved"
     /\ challenge' = [challenge EXCEPT ![me.challenge] = "consumed"]
     /\ proof' = [proof EXCEPT ![me.proof].status = "consumed"]
     /\ done' = Append(done, [request |-> me.request, challenge |-> me.challenge,
                               proof |-> me.proof, at |-> me.at, revoked |-> me.revoked])
     /\ handler' = [handler EXCEPT ![h] = Idle]
     /\ UNCHANGED <<clock, device>>

\* The protected action fails, the client goes away or the process dies.
Rollback(h) ==
  /\ handler[h].pc # "idle"
  /\ handler' = [handler EXCEPT ![h] = Idle]
  /\ UNCHANGED <<clock, device, challenge, proof, done>>

\* The challenge is withdrawn, unless its row is reserved or consumed.
Invalidate(c) ==
  /\ challenge[c] = "open"
  /\ \A g \in Handlers : handler[g].pc = "reserved" => handler[g].challenge # c
  /\ challenge' = [challenge EXCEPT ![c] = "invalidated"]
  /\ UNCHANGED <<clock, device, proof, handler, done>>

\* The lifecycle of a device changes as can_transition_to allows; nothing that
\* consume_external_step_up holds prevents it.
ChangeDevice(d, to) ==
  /\ to # device[d]
  /\ CanTransitionTo(device[d], to)
  /\ device' = [device EXCEPT ![d] = to]
  /\ UNCHANGED <<clock, challenge, proof, handler, done>>

Tick ==
  /\ clock < MaxTime
  /\ clock' = clock + 1
  /\ UNCHANGED <<device, challenge, proof, handler, done>>

Next ==
  \/ \E p \in Proofs : StoreProof(p)
  \/ \E h \in Handlers :
       \/ \E r \in Requests, c \in Challenges, p \in Proofs : Validate(h, r, c, p)
       \/ BeginTransaction(h)
       \/ SelectForUpdate(h)
       \/ Reserve(h)
       \/ Commit(h)
       \/ Rollback(h)
  \/ \E c \in Challenges : Invalidate(c)
  \/ \E d \in Devices : \E to \in Lifecycles : ChangeDevice(d, to)
  \/ Tick

Spec == Init /\ [][Next]_vars
-----------------------------------------------------------------------------
(* Properties.                                                             *)

\* Rows and handlers hold values of their columns and types; a challenge is
\* consumed exactly when a proof of it is (the consumption_consistent CHECK).
TypeOK ==
  /\ clock \in 0 .. MaxTime
  /\ device \in [Devices -> Lifecycles]
  /\ challenge \in [Challenges -> ChallengeStatuses]
  /\ proof \in [Proofs -> [status : ProofStatuses, verified : 0 .. clock]]
  /\ \A c \in Challenges :
       challenge[c] = "consumed"
         <=> \E p \in Proofs : p.challenge = c.id /\ proof[p].status = "consumed"

\* A challenge and its proof authorise one action at most, and consumption and
\* action are one: every consumed challenge has its committed action, and an
\* invalidated one has none, whoever else held the same proof at the time.
OneActionPerChallenge ==
  /\ \A i, j \in 1 .. Len(done) : i # j =>
       done[i].challenge # done[j].challenge /\ done[i].proof # done[j].proof
  /\ \A c \in Challenges :
       challenge[c] = "consumed" <=> \E i \in 1 .. Len(done) : done[i].challenge = c

\* What was committed is the request that the challenge was issued for, with a
\* genuine proof of that challenge.  By the clock of the database, however much
\* later than the policy that was, neither had expired, neither was from later
\* than the allowed skew, the proof was issued before its challenge by no more
\* than that skew, and it did not outlive it.
ActionsWereAuthorised ==
  \A i \in 1 .. Len(done) :
    LET a == done[i]
    IN /\ a.request.credential.device = a.challenge.device
       /\ a.request.credential.subject = a.challenge.subject
       /\ a.request.rest = a.challenge.rest /\ a.request.action = a.proof.action
       /\ a.proof.genuine /\ a.proof.challenge = a.challenge.id
       /\ a.at < a.proof.expires /\ a.proof.expires <= a.challenge.expires
       /\ a.challenge.created <= a.at + Ticks(MaxSkew)
       /\ a.proof.issued <= a.at + Ticks(MaxSkew)
       /\ a.challenge.created <= a.proof.issued + Ticks(MaxSkew)

\* A device that was revoked before a transaction began performs nothing in
\* it, even when the policy had accepted the request while it was active.
RevokedDevicesStartNothing == \A i \in 1 .. Len(done) : ~ done[i].revoked

\* t comes before u within one second, which the Rust policy cannot tell.
SplitsSecond(t, u) == t < u /\ Second(t) = Second(u)

\* Of a stored proof at one time and state, the policy and the database differ
\* only inside a second: where one of them accepts and the other does not, a
\* limit and the time compared with it, which the Rust policy takes for equal,
\* lie in one second.  Neither copy of the rules is more permissive otherwise.
PoliciesAgreeToTheSecond ==
  \A r \in Requests, c \in Challenges, p \in Proofs :
    proof[p].status = "verified" =>
      LET inRust == PolicyAccepts(clock, r, c, challenge[c], p, device[r.credential.device])
          inSQL == DatabaseAccepts(clock, r, c, challenge[c], p, proof[p], device[c.device])
      IN /\ inSQL /\ ~ inRust =>
              \/ SplitsSecond(clock, p.expires)
              \/ SplitsSecond(p.issued, p.expires) \/ SplitsSecond(c.created, c.expires)
         /\ inRust /\ ~ inSQL =>
              \/ SplitsSecond(clock + Ticks(MaxSkew), c.created)
              \/ SplitsSecond(clock + Ticks(MaxSkew), p.issued)
              \/ SplitsSecond(p.issued + Ticks(MaxSkew), c.created)
              \/ SplitsSecond(c.expires, p.expires)
=============================================================================

---------------------------- MODULE StepUpProofs ----------------------------
(***************************************************************************)
(* Proofs about StepUp for every set of devices, requests, challenges,     *)
(* proofs and handlers.  IInv is the inductive invariant: stored proofs    *)
(* are genuine and one per challenge, reserved rows are open and belong to *)
(* one handler, and the committed actions are exactly the consumed rows.   *)
(***************************************************************************)
EXTENDS StepUp, TLAPS

Pcs == {"idle", "validated", "begun", "selected", "reserved"}

HandlerStates ==
  [pc : Pcs, request : Requests \cup {None}, challenge : Challenges \cup {None},
   proof : Proofs \cup {None}, at : Nat, revoked : BOOLEAN,
   seen : Lifecycles \cup {None}]

Actions ==
  [request : Requests, challenge : Challenges, proof : Proofs,
   at : Nat, revoked : BOOLEAN]

Types ==
  /\ clock \in 0 .. MaxTime
  /\ device \in [Devices -> Lifecycles]
  /\ challenge \in [Challenges -> ChallengeStatuses]
  /\ proof \in [Proofs -> [status : ProofStatuses, verified : 0 .. clock]]
  /\ handler \in [Handlers -> HandlerStates]
  /\ done \in Seq(Actions)

\* A handler that works has loaded the rows of its request.
Loaded(s) ==
  s.pc # "idle" =>
    s.request \in Requests /\ s.challenge \in Challenges /\ s.proof \in Proofs

\* The part of the policy that no other actor can change.
Authorised(a) ==
  /\ IsOwnRequest(a.request)
  /\ IsIssuedFor(a.challenge, a.request)
  /\ a.proof.challenge = a.challenge.id
  /\ a.proof.action = a.challenge.action
  /\ a.at < a.proof.expires
  /\ a.proof.expires <= a.challenge.expires
  /\ a.challenge.created <= a.at + Ticks(MaxSkew)
  /\ a.proof.issued <= a.at + Ticks(MaxSkew)
  /\ a.challenge.created <= a.proof.issued + Ticks(MaxSkew)

\* A revoked device stays revoked, so its transaction selects nothing.
Decided(s) ==
  /\ s.pc \in {"selected", "reserved"} => Authorised(s) /\ ~ s.revoked
  /\ s.pc = "begun" /\ s.revoked => device[s.request.credential.device] = "revoked"

StoredProofs ==
  /\ \A p \in Proofs : proof[p].status # "unknown" =>
       p.genuine /\ ValidWindow(p.issued, p.expires)
  /\ \A p, q \in Proofs :
       /\ proof[p].status # "unknown" /\ proof[q].status # "unknown"
       /\ p.challenge = q.challenge
       => p = q

ReservedRows ==
  /\ \A h \in Handlers : handler[h].pc = "reserved" =>
       /\ challenge[handler[h].challenge] = "open"
       /\ proof[handler[h].proof].status = "verified"
  /\ \A g, h \in Handlers :
       g # h /\ handler[g].pc = "reserved" /\ handler[h].pc = "reserved" =>
         /\ handler[g].challenge # handler[h].challenge
         /\ handler[g].proof # handler[h].proof

DoneActions ==
  \A i \in 1 .. Len(done) :
    Authorised(done[i]) /\ done[i].proof.genuine /\ ~ done[i].revoked

ConsumedRows ==
  /\ \A i, j \in 1 .. Len(done) : i # j =>
       done[i].challenge # done[j].challenge /\ done[i].proof # done[j].proof
  /\ \A c \in Challenges :
       challenge[c] = "consumed" <=> \E i \in 1 .. Len(done) : done[i].challenge = c
  /\ \A p \in Proofs :
       proof[p].status = "consumed" <=> \E i \in 1 .. Len(done) : done[i].proof = p

IInv ==
  /\ Types
  /\ \A h \in Handlers : Loaded(handler[h]) /\ Decided(handler[h])
  /\ StoredProofs
  /\ ReservedRows
  /\ DoneActions
  /\ ConsumedRows
-----------------------------------------------------------------------------
(* The invariant holds at first.                                           *)

LEMMA InitInvariant == Init => IInv
<1> SUFFICES ASSUME Init PROVE IInv
  OBVIOUS
<1> USE DEF Init
<1>1. Types
  BY RowsAssumption DEF Types, Lifecycles, ChallengeStatuses, ProofStatuses,
     HandlerStates, Pcs, Idle
<1>2. \A h \in Handlers : Loaded(handler[h]) /\ Decided(handler[h])
  BY DEF Loaded, Decided, Idle
<1>3. StoredProofs
  BY DEF StoredProofs
<1>4. ReservedRows
  BY DEF ReservedRows, Idle
<1>5. DoneActions
  BY DEF DoneActions
<1>6. ConsumedRows
  BY DEF ConsumedRows
<1> QED
  BY <1>1, <1>2, <1>3, <1>4, <1>5, <1>6 DEF IInv
-----------------------------------------------------------------------------
(* Every step preserves it.  First the steps of one handler that change    *)
(* nothing but its own state, in one lemma.                                *)

\* A handler moves to a state s of its own; the tables stay as they are.
Moves(h, s) ==
  /\ handler' = [handler EXCEPT ![h] = s]
  /\ UNCHANGED <<clock, device, challenge, proof, done>>

\* Rows that another handler has reserved are not those that s reserves.
Exclusive(h, s) ==
  s.pc = "reserved" =>
    /\ challenge[s.challenge] = "open"
    /\ proof[s.proof].status = "verified"
    /\ \A g \in Handlers : handler[g].pc = "reserved" =>
         handler[g].challenge # s.challenge /\ handler[g].proof # s.proof

LEMMA MoveInvariant ==
  ASSUME IInv, NEW h \in Handlers, NEW s \in HandlerStates,
         Moves(h, s), Loaded(s), Decided(s), Exclusive(h, s)
  PROVE  IInv'
<1> USE DEF IInv, Moves
<1>1. Types'
  BY DEF Types
<1>2. /\ handler'[h] = s
      /\ \A g \in Handlers \ {h} : handler'[g] = handler[g]
  BY DEF Types
<1>3. \A g \in Handlers : Loaded(handler'[g])
  BY <1>2 DEF Loaded
<1>4. \A g \in Handlers : Decided(handler[g])'
  <2> SUFFICES ASSUME NEW g \in Handlers PROVE Decided(handler[g])'
    OBVIOUS
  <2>1. CASE g = h
    BY <1>2, <2>1 DEF Decided
  <2>2. CASE g # h
    BY <1>2, <2>2 DEF Decided
  <2> QED
    BY <2>1, <2>2
<1>5. StoredProofs'
  BY DEF StoredProofs
<1>6. ReservedRows'
  BY <1>2 DEF ReservedRows, Exclusive
<1>7. DoneActions' /\ ConsumedRows'
  BY DEF DoneActions, ConsumedRows
<1> QED
  BY <1>1, <1>3, <1>4, <1>5, <1>6, <1>7

\* A handler may always give up.
LEMMA IdleIsFree ==
  ASSUME NEW h \in Handlers
  PROVE  Idle \in HandlerStates /\ Loaded(Idle) /\ Decided(Idle) /\ Exclusive(h, Idle)
BY DEF HandlerStates, Pcs, Idle, Loaded, Decided, Exclusive

\* What the SELECT accepts is authorised, by an active device.
LEMMA MatchesIsAuthorised ==
  ASSUME IInv, NEW h \in Handlers, NEW lifecycle, Matches(h, lifecycle)
  PROVE  /\ Authorised(handler[h])
         /\ challenge[handler[h].challenge] = "open"
         /\ proof[handler[h].proof].status = "verified"
         /\ lifecycle = "active"
BY DEF Matches, DatabaseAccepts, JoinsDevice, Authorised

LEMMA RollbackInvariant ==
  ASSUME IInv, NEW h \in Handlers, Rollback(h)
  PROVE  IInv'
BY IdleIsFree, MoveInvariant DEF Rollback, Moves

LEMMA ValidateInvariant ==
  ASSUME IInv, NEW h \in Handlers,
         NEW r \in Requests, NEW c \in Challenges, NEW p \in Proofs,
         Validate(h, r, c, p)
  PROVE  IInv'
<1>1. PICK s : s = [Idle EXCEPT !.pc = "validated", !.request = r,
                                !.challenge = c, !.proof = p]
  OBVIOUS
<1>2. Moves(h, s)
  BY <1>1 DEF Validate, Moves
<1>3. s \in HandlerStates /\ s.pc = "validated" /\ Loaded(s)
  BY <1>1 DEF Idle, HandlerStates, Pcs, Loaded
<1>4. Decided(s) /\ Exclusive(h, s)
  BY <1>3 DEF Decided, Exclusive
<1> QED
  BY <1>2, <1>3, <1>4, MoveInvariant

LEMMA BeginInvariant ==
  ASSUME IInv, NEW h \in Handlers, BeginTransaction(h)
  PROVE  IInv'
<1>1. handler[h] \in HandlerStates /\ Loaded(handler[h]) /\ clock \in Nat
  BY DEF IInv, Types
<1>2. PICK s : s = [handler[h] EXCEPT
         !.pc = "begun", !.at = clock,
         !.revoked = device[handler[h].request.credential.device] = "revoked"]
  OBVIOUS
<1>3. Moves(h, s)
  BY <1>1, <1>2 DEF BeginTransaction, Moves, IInv, Types
<1>4. /\ s \in HandlerStates /\ s.pc = "begun"
      /\ s.request = handler[h].request
      /\ s.challenge = handler[h].challenge /\ s.proof = handler[h].proof
      /\ s.revoked = (device[handler[h].request.credential.device] = "revoked")
  BY <1>1, <1>2 DEF HandlerStates, Pcs
<1>5. Loaded(s)
  BY <1>1, <1>4 DEF Loaded, BeginTransaction
<1>6. Decided(s) /\ Exclusive(h, s)
  BY <1>4 DEF Decided, Exclusive
<1> QED
  BY <1>3, <1>4, <1>5, <1>6, MoveInvariant

LEMMA SelectInvariant ==
  ASSUME IInv, NEW h \in Handlers, SelectForUpdate(h)
  PROVE  IInv'
<1>0. PICK lifecycle : lifecycle = device[handler[h].challenge.device]
  OBVIOUS
<1>1. CASE ~ Matches(h, lifecycle)
  <2>1. Moves(h, Idle)
    BY <1>0, <1>1 DEF SelectForUpdate, Moves
  <2> QED
    BY <2>1, IdleIsFree, MoveInvariant
<1>2. CASE Matches(h, lifecycle)
  <2>1. /\ handler[h] \in HandlerStates /\ handler[h].pc = "begun"
        /\ Loaded(handler[h]) /\ Decided(handler[h])
    BY DEF IInv, Types, SelectForUpdate
  <2>2. lifecycle = "active" /\ Authorised(handler[h])
    BY <1>2, MatchesIsAuthorised
  <2>3. PICK s : s = [handler[h] EXCEPT !.pc = "selected", !.seen = lifecycle]
    OBVIOUS
  <2>4. Moves(h, s)
    BY <1>0, <1>2, <2>1, <2>3 DEF SelectForUpdate, Moves, IInv, Types
  <2>5. /\ s \in HandlerStates /\ s.pc = "selected"
        /\ s.request = handler[h].request /\ s.at = handler[h].at
        /\ s.challenge = handler[h].challenge /\ s.proof = handler[h].proof
        /\ s.revoked = handler[h].revoked
    BY <2>1, <2>2, <2>3 DEF HandlerStates, Pcs, Lifecycles
  <2>6. ~ s.revoked
    <3>1. handler[h].request.credential.device = handler[h].challenge.device
      BY <2>2 DEF Authorised, IsOwnRequest, IsIssuedFor
    <3>2. s.revoked \in BOOLEAN
      BY <2>5 DEF HandlerStates
    <3> QED
      BY <1>0, <2>1, <2>2, <2>5, <3>1, <3>2 DEF Decided
  <2>7. Loaded(s) /\ Decided(s) /\ Exclusive(h, s)
    BY <2>1, <2>2, <2>5, <2>6 DEF Loaded, Decided, Exclusive, Authorised
  <2> QED
    BY <2>4, <2>5, <2>7, MoveInvariant
<1> QED
  BY <1>1, <1>2

LEMMA ReserveInvariant ==
  ASSUME IInv, NEW h \in Handlers, Reserve(h)
  PROVE  IInv'
<1>1. CASE ~ Matches(h, handler[h].seen)
  <2>1. Moves(h, Idle)
    BY <1>1 DEF Reserve, Moves
  <2> QED
    BY <2>1, IdleIsFree, MoveInvariant
<1>2. CASE Matches(h, handler[h].seen)
  <2>1. /\ handler[h] \in HandlerStates /\ handler[h].pc = "selected"
        /\ Loaded(handler[h]) /\ Decided(handler[h])
    BY DEF IInv, Types, Reserve
  <2>2. PICK s : s = [handler[h] EXCEPT !.pc = "reserved"]
    OBVIOUS
  <2>3. Moves(h, s)
    BY <1>2, <2>1, <2>2 DEF Reserve, Moves, IInv, Types
  <2>4. /\ s \in HandlerStates /\ s.pc = "reserved"
        /\ s.request = handler[h].request /\ s.at = handler[h].at
        /\ s.challenge = handler[h].challenge /\ s.proof = handler[h].proof
        /\ s.revoked = handler[h].revoked
    BY <2>1, <2>2 DEF HandlerStates, Pcs
  <2>5. Exclusive(h, s)
    BY <1>2, <2>1, <2>4, MatchesIsAuthorised DEF Exclusive, Reserve, Reserves
  <2>6. Loaded(s) /\ Decided(s)
    BY <2>1, <2>4 DEF Loaded, Decided, Authorised
  <2> QED
    BY <2>3, <2>4, <2>5, <2>6, MoveInvariant
<1> QED
  BY <1>1, <1>2
-----------------------------------------------------------------------------
(* The steps that change a table.                                          *)

LEMMA StoreProofInvariant ==
  ASSUME IInv, NEW p \in Proofs, StoreProof(p)
  PROVE  IInv'
<1> USE DEF IInv, StoreProof
<1>1. Types'
  BY DEF Types, ProofStatuses
<1>2. /\ proof'[p].status = "verified" /\ proof[p].status = "unknown"
      /\ \A q \in Proofs \ {p} : proof'[q] = proof[q]
  BY DEF Types
<1>3. \A h \in Handlers : (Loaded(handler[h]) /\ Decided(handler[h]))'
  BY DEF Loaded, Decided
<1>4. StoredProofs'
  BY <1>2 DEF StoredProofs
<1>5. \A h \in Handlers : handler[h].pc = "reserved" => handler[h].proof # p
  BY <1>2 DEF ReservedRows
<1>6. ReservedRows'
  <2>1. \A h \in Handlers : handler[h].pc = "reserved" => handler[h].proof \in Proofs
    BY DEF Loaded
  <2> QED
    BY <1>2, <1>5, <2>1 DEF ReservedRows
<1>7. DoneActions'
  BY DEF DoneActions
<1>8. ConsumedRows'
  BY <1>2 DEF ConsumedRows
<1> QED
  BY <1>1, <1>3, <1>4, <1>6, <1>7, <1>8

LEMMA InvalidateInvariant ==
  ASSUME IInv, NEW c \in Challenges, Invalidate(c)
  PROVE  IInv'
<1> USE DEF IInv, Invalidate
<1>1. Types'
  BY DEF Types, ChallengeStatuses
<1>2. /\ challenge'[c] = "invalidated"
      /\ \A d \in Challenges \ {c} : challenge'[d] = challenge[d]
  BY DEF Types
<1>3. \A h \in Handlers : (Loaded(handler[h]) /\ Decided(handler[h]))'
  BY DEF Loaded, Decided
<1>4. StoredProofs'
  BY DEF StoredProofs
<1>5. ReservedRows'
  <2>1. \A h \in Handlers :
          handler[h].pc = "reserved" => handler[h].challenge \in Challenges \ {c}
    BY DEF Loaded
  <2> QED
    BY <1>2, <2>1 DEF ReservedRows
<1>6. DoneActions'
  BY DEF DoneActions
<1>7. ConsumedRows'
  BY <1>2 DEF ConsumedRows
<1> QED
  BY <1>1, <1>3, <1>4, <1>5, <1>6, <1>7

LEMMA ChangeDeviceInvariant ==
  ASSUME IInv, NEW d \in Devices, NEW to \in Lifecycles, ChangeDevice(d, to)
  PROVE  IInv'
<1> USE DEF IInv, ChangeDevice
<1>1. Types'
  BY DEF Types
<1>2. \A e \in Devices : device[e] = "revoked" => device'[e] = "revoked"
  BY DEF CanTransitionTo, Types
<1>3. \A h \in Handlers : Loaded(handler[h])'
  BY DEF Loaded
<1>4. \A h \in Handlers : Decided(handler[h])'
  <2> SUFFICES ASSUME NEW h \in Handlers PROVE Decided(handler[h])'
    OBVIOUS
  <2>1. handler[h].pc = "begun" => handler[h].request.credential.device \in Devices
    BY InputsAssumption DEF Loaded
  <2> QED
    BY <1>2, <2>1 DEF Decided
<1>5. StoredProofs' /\ ReservedRows'
  BY DEF StoredProofs, ReservedRows
<1>6. DoneActions' /\ ConsumedRows'
  BY DEF DoneActions, ConsumedRows
<1> QED
  BY <1>1, <1>3, <1>4, <1>5, <1>6

LEMMA TickInvariant ==
  ASSUME IInv, Tick
  PROVE  IInv'
<1> USE DEF IInv, Tick
<1>1. Types'
  BY RowsAssumption DEF Types
<1>2. \A h \in Handlers : (Loaded(handler[h]) /\ Decided(handler[h]))'
  BY DEF Loaded, Decided
<1>3. StoredProofs' /\ ReservedRows'
  BY DEF StoredProofs, ReservedRows
<1>4. DoneActions' /\ ConsumedRows'
  BY DEF DoneActions, ConsumedRows
<1> QED
  BY <1>1, <1>2, <1>3, <1>4

\* Appending an action adds one index and keeps the others.
LEMMA AppendAction ==
  ASSUME NEW s \in Seq(Actions), NEW a \in Actions
  PROVE  \E n \in Nat :
           /\ n = Len(s)
           /\ Append(s, a) \in Seq(Actions)
           /\ Len(Append(s, a)) = n + 1
           /\ Append(s, a)[n + 1] = a
           /\ \A i \in 1 .. n : Append(s, a)[i] = s[i]
<1>1. Len(s) \in Nat
  OBVIOUS
<1> QED
  BY <1>1

\* The consumed rows become those of one more committed action.
LEMMA CommitInvariant ==
  ASSUME IInv, NEW h \in Handlers, Commit(h)
  PROVE  IInv'
<1> USE DEF IInv, Commit
<1>1. PICK c \in Challenges, p \in Proofs :
        c = handler[h].challenge /\ p = handler[h].proof
  BY DEF Loaded
<1>2. PICK a : a = [request |-> handler[h].request, challenge |-> c, proof |-> p,
                    at |-> handler[h].at, revoked |-> handler[h].revoked]
  OBVIOUS
<1>3. /\ a \in Actions /\ a.challenge = c /\ a.proof = p
      /\ Authorised(a) /\ ~ a.revoked
  BY <1>1, <1>2 DEF Types, HandlerStates, Loaded, Decided, Authorised, Actions
<1>4. /\ challenge[c] = "open" /\ challenge' = [challenge EXCEPT ![c] = "consumed"]
      /\ proof[p].status = "verified"
      /\ proof' = [proof EXCEPT ![p].status = "consumed"]
      /\ done' = Append(done, a)
  BY <1>1, <1>2 DEF ReservedRows
<1>5. PICK n \in Nat :
        /\ n = Len(done)
        /\ done' \in Seq(Actions) /\ Len(done') = n + 1 /\ done'[n + 1] = a
        /\ \A i \in 1 .. n : done'[i] = done[i]
  <2>1. done \in Seq(Actions)
    BY DEF Types
  <2> QED
    BY <1>3, <1>4, <2>1, AppendAction
<1>6. /\ done' \in Seq(Actions) /\ Len(done') = n + 1 /\ done'[n + 1] = a
      /\ \A i \in 1 .. n : done'[i] = done[i]
  BY <1>5
<1>7. /\ handler'[h] = Idle
      /\ \A g \in Handlers \ {h} : handler'[g] = handler[g]
  BY DEF Types
<1>8. /\ challenge'[c] = "consumed"
      /\ \A d \in Challenges \ {c} : challenge'[d] = challenge[d]
      /\ proof'[p].status = "consumed"
      /\ \A q \in Proofs \ {p} : proof'[q] = proof[q]
  BY <1>4 DEF Types
<1>9. Types'
  <2>1. handler' \in [Handlers -> HandlerStates]
    BY IdleIsFree DEF Types
  <2>2. challenge' \in [Challenges -> ChallengeStatuses]
    BY <1>4 DEF Types, ChallengeStatuses
  <2>3. proof' \in [Proofs -> [status : ProofStatuses, verified : 0 .. clock]]
    BY <1>4 DEF Types, ProofStatuses
  <2> QED
    BY <1>6, <2>1, <2>2, <2>3 DEF Types
<1>10. \A g \in Handlers : (Loaded(handler[g]) /\ Decided(handler[g]))'
  BY <1>7, IdleIsFree DEF Loaded, Decided, Idle
<1>11. StoredProofs'
  BY <1>4, <1>8 DEF StoredProofs
<1>12. ReservedRows'
  <2>1. \A g \in Handlers \ {h} : handler[g].pc = "reserved" =>
          handler[g].challenge \in Challenges \ {c} /\ handler[g].proof \in Proofs \ {p}
    BY <1>1 DEF ReservedRows, Loaded
  <2> QED
    BY <1>7, <1>8, <2>1 DEF ReservedRows, Idle
<1>13. DoneActions'
  <2>1. a.proof.genuine
    BY <1>3, <1>4 DEF StoredProofs
  <2> QED
    BY <1>3, <1>5, <1>6, <2>1 DEF DoneActions
<1>14. ConsumedRows'
  <2>1. \A i \in 1 .. n : done[i].challenge # c /\ done[i].proof # p
    BY <1>4, <1>5 DEF ConsumedRows
  <2>2. \A i, j \in 1 .. n + 1 : i # j =>
          done'[i].challenge # done'[j].challenge /\ done'[i].proof # done'[j].proof
    BY <1>3, <1>5, <1>6, <2>1 DEF ConsumedRows
  <2>3. \A d \in Challenges :
          challenge'[d] = "consumed" <=> \E i \in 1 .. n + 1 : done'[i].challenge = d
    <3>1. \A d \in Challenges :
            challenge[d] = "consumed" <=> \E i \in 1 .. n : done[i].challenge = d
      BY <1>5 DEF ConsumedRows
    <3>2. \A d \in Challenges :
            challenge'[d] = "consumed" <=> d = c \/ challenge[d] = "consumed"
      BY <1>8
    <3>3. \A d : (\E i \in 1 .. n + 1 : done'[i].challenge = d)
                   <=> d = c \/ \E i \in 1 .. n : done[i].challenge = d
      BY <1>3, <1>6
    <3> QED
      BY <3>1, <3>2, <3>3
  <2>4. \A q \in Proofs :
          proof'[q].status = "consumed" <=> \E i \in 1 .. n + 1 : done'[i].proof = q
    <3>1. \A q \in Proofs :
            proof[q].status = "consumed" <=> \E i \in 1 .. n : done[i].proof = q
      BY <1>5 DEF ConsumedRows
    <3>2. \A q \in Proofs :
            proof'[q].status = "consumed" <=> q = p \/ proof[q].status = "consumed"
      BY <1>8
    <3>3. \A q : (\E i \in 1 .. n + 1 : done'[i].proof = q)
                   <=> q = p \/ \E i \in 1 .. n : done[i].proof = q
      BY <1>3, <1>6
    <3> QED
      BY <3>1, <3>2, <3>3
  <2> QED
    BY <1>6, <2>2, <2>3, <2>4 DEF ConsumedRows
<1> QED
  BY <1>9, <1>10, <1>11, <1>12, <1>13, <1>14

LEMMA NextInvariant == IInv /\ [Next]_vars => IInv'
<1> SUFFICES ASSUME IInv, [Next]_vars PROVE IInv'
  OBVIOUS
<1>1. ASSUME NEW p \in Proofs, StoreProof(p) PROVE IInv'
  BY <1>1, StoreProofInvariant
<1>2. ASSUME NEW h \in Handlers, NEW r \in Requests, NEW c \in Challenges,
             NEW p \in Proofs, Validate(h, r, c, p)
      PROVE  IInv'
  BY <1>2, ValidateInvariant
<1>3. ASSUME NEW h \in Handlers, BeginTransaction(h) PROVE IInv'
  BY <1>3, BeginInvariant
<1>4. ASSUME NEW h \in Handlers, SelectForUpdate(h) PROVE IInv'
  BY <1>4, SelectInvariant
<1>5. ASSUME NEW h \in Handlers, Reserve(h) PROVE IInv'
  BY <1>5, ReserveInvariant
<1>6. ASSUME NEW h \in Handlers, Commit(h) PROVE IInv'
  BY <1>6, CommitInvariant
<1>7. ASSUME NEW h \in Handlers, Rollback(h) PROVE IInv'
  BY <1>7, RollbackInvariant
<1>8. ASSUME NEW c \in Challenges, Invalidate(c) PROVE IInv'
  BY <1>8, InvalidateInvariant
<1>9. ASSUME NEW d \in Devices, NEW to \in Lifecycles, ChangeDevice(d, to) PROVE IInv'
  BY <1>9, ChangeDeviceInvariant
<1>10. CASE Tick
  BY <1>10, TickInvariant
<1>11. CASE UNCHANGED vars
  BY <1>11 DEF vars, IInv, Types, Loaded, Decided, StoredProofs, ReservedRows,
     DoneActions, ConsumedRows
<1> QED
  BY <1>1, <1>2, <1>3, <1>4, <1>5, <1>6, <1>7, <1>8, <1>9, <1>10, <1>11 DEF Next

\* IInv holds in every reachable state.
THEOREM Invariant == Spec => []IInv
BY InitInvariant, NextInvariant, PTL DEF Spec
-----------------------------------------------------------------------------
(* What the invariant implies.                                             *)

\* Rows and handlers are well typed, and a challenge is consumed exactly when
\* a proof of it is: the two UPDATEs of consume_external_step_up are one.
THEOREM TypeCorrect == Spec => []TypeOK
<1>1. IInv => TypeOK
  <2> SUFFICES ASSUME IInv, NEW c \in Challenges
               PROVE  challenge[c] = "consumed"
                        <=> \E p \in Proofs : p.challenge = c.id /\ proof[p].status = "consumed"
    BY DEF TypeOK, IInv, Types
  <2>1. \A i \in 1 .. Len(done) :
          /\ done[i].proof \in Proofs /\ done[i].challenge \in Challenges
          /\ done[i].proof.challenge = done[i].challenge.id
    <3>1. \A i \in 1 .. Len(done) : done[i] \in Actions
      BY DEF IInv, Types
    <3> QED
      BY <3>1 DEF IInv, Actions, DoneActions, Authorised
  <2>2. ASSUME challenge[c] = "consumed"
        PROVE  \E p \in Proofs : p.challenge = c.id /\ proof[p].status = "consumed"
    BY <2>1, <2>2 DEF IInv, ConsumedRows
  <2>3. ASSUME NEW p \in Proofs, p.challenge = c.id, proof[p].status = "consumed"
        PROVE  challenge[c] = "consumed"
    <3>1. PICK i \in 1 .. Len(done) : done[i].proof = p
      BY <2>3 DEF IInv, ConsumedRows
    <3>2. done[i].challenge = c
      BY <2>1, <2>3, <3>1, RowsAssumption
    <3> QED
      BY <3>1, <3>2 DEF IInv, ConsumedRows
  <2> QED
    BY <2>2, <2>3
<1> QED
  BY <1>1, Invariant, PTL

\* A challenge and a proof authorise one committed action at most, however
\* many transactions hold them at the same time.
THEOREM OneActionPerChallengeHolds == Spec => []OneActionPerChallenge
<1>1. IInv => OneActionPerChallenge
  BY DEF IInv, ConsumedRows, OneActionPerChallenge
<1> QED
  BY <1>1, Invariant, PTL

\* Every committed action is the request its challenge was issued for, with a
\* genuine proof; by the clock of the database both are unexpired and neither
\* is later than the skew allows, nor the proof earlier than its challenge by
\* more than the skew.
THEOREM ActionsWereAuthorisedHolds == Spec => []ActionsWereAuthorised
<1>1. \A a : Authorised(a) =>
        /\ a.request.credential.device = a.challenge.device
        /\ a.request.credential.subject = a.challenge.subject
        /\ a.request.rest = a.challenge.rest /\ a.request.action = a.proof.action
        /\ a.proof.challenge = a.challenge.id
        /\ a.at < a.proof.expires /\ a.proof.expires <= a.challenge.expires
        /\ a.challenge.created <= a.at + Ticks(MaxSkew)
        /\ a.proof.issued <= a.at + Ticks(MaxSkew)
        /\ a.challenge.created <= a.proof.issued + Ticks(MaxSkew)
  BY DEF Authorised, IsOwnRequest, IsIssuedFor
<1>2. IInv => ActionsWereAuthorised
  BY <1>1 DEF IInv, DoneActions, ActionsWereAuthorised
<1> QED
  BY <1>2, Invariant, PTL

\* No transaction that begins after its device was revoked performs anything.
THEOREM RevokedDevicesStartNothingHolds == Spec => []RevokedDevicesStartNothing
<1>1. IInv => RevokedDevicesStartNothing
  BY DEF IInv, DoneActions, RevokedDevicesStartNothing
<1> QED
  BY <1>1, Invariant, PTL

-----------------------------------------------------------------------------
(* The two copies of the policy.                                           *)

\* Whole seconds keep the order of ticks.
LEMMA SecondsKeepOrder ==
  ASSUME NEW s \in Nat, NEW t \in Nat, s <= t
  PROVE  Second(s) \in Nat /\ Second(t) \in Nat /\ Second(s) <= Second(t)
<1>1. PICK d \in Nat : d = TicksPerSecond /\ d > 0
  BY PolicyAssumption
<1>2. PICK a, b : a = s \div d /\ b = t \div d
  OBVIOUS
<1>3. /\ a \in Nat /\ b \in Nat
      /\ d * a <= s /\ s < d * a + d
      /\ d * b <= t /\ t < d * b + d
  BY <1>1, <1>2
<1>4. ASSUME b < a
      PROVE  FALSE
  <2>1. PICK c \in Nat : a = b + 1 + c
    <3>1. a - b - 1 \in Nat /\ a = b + 1 + (a - b - 1)
      BY <1>3, <1>4
    <3> QED
      BY <3>1
  <2>2. d * a = d * b + d + d * c
    BY <1>1, <1>3, <2>1
  <2>3. d * c \in Nat /\ d * b \in Nat /\ d * a \in Nat
    BY <1>1, <1>3, <2>1
  <2> QED
    BY <1>1, <1>3, <2>2, <2>3
<1> QED
  BY <1>1, <1>2, <1>3, <1>4 DEF Second

\* Whole seconds added as ticks are added to the second.
LEMMA SecondsShift ==
  ASSUME NEW t \in Nat, NEW k \in Nat
  PROVE  t + Ticks(k) \in Nat /\ Second(t + Ticks(k)) = Second(t) + k
<1>1. PICK d \in Nat : d = TicksPerSecond /\ d > 0
  BY PolicyAssumption
<1>2. PICK kd \in Nat : kd = k * d
  BY <1>1
<1>3. PICK a, b : a = t \div d /\ b = (t + kd) \div d
  OBVIOUS
<1>4. /\ a \in Nat /\ b \in Nat
      /\ d * a <= t /\ t < d * a + d
      /\ d * b <= t + kd /\ t + kd < d * b + d
  BY <1>1, <1>2, <1>3
<1>5. PICK c \in Nat : c = a + k
  BY <1>4
<1>6. d * c = d * a + kd /\ d * a \in Nat /\ d * b \in Nat /\ d * c \in Nat
  BY <1>1, <1>2, <1>4, <1>5
<1>7. ~ b < c
  <2> SUFFICES ASSUME b < c PROVE FALSE
    OBVIOUS
  <2>1. PICK e \in Nat : c = b + 1 + e
    <3>1. c - b - 1 \in Nat /\ c = b + 1 + (c - b - 1)
      BY <1>4, <1>5
    <3> QED
      BY <3>1
  <2>2. d * c = d * b + d + d * e /\ d * e \in Nat
    BY <1>1, <1>4, <2>1
  <2> QED
    BY <1>1, <1>2, <1>4, <1>6, <2>2
<1>8. ~ c < b
  <2> SUFFICES ASSUME c < b PROVE FALSE
    OBVIOUS
  <2>1. PICK e \in Nat : b = c + 1 + e
    <3>1. b - c - 1 \in Nat /\ b = c + 1 + (b - c - 1)
      BY <1>4, <1>5
    <3> QED
      BY <3>1
  <2>2. d * b = d * c + d + d * e /\ d * e \in Nat
    BY <1>1, <1>4, <1>5, <2>1
  <2> QED
    BY <1>1, <1>2, <1>4, <1>6, <2>2
<1>9. b = c
  BY <1>4, <1>5, <1>7, <1>8
<1> QED
  BY <1>1, <1>2, <1>3, <1>5, <1>9 DEF Second, Ticks

\* A window that the table admits is no longer in whole seconds.
LEMMA WindowInSeconds ==
  ASSUME NEW from \in Nat, NEW until \in Nat, ValidWindow(from, until)
  PROVE  SplitsSecond(from, until) \/ IsShortLived(Second(from), Second(until))
<1>1. /\ from + Ticks(MaxLifetime) \in Nat
      /\ Second(from + Ticks(MaxLifetime)) = Second(from) + MaxLifetime
  BY PolicyAssumption, SecondsShift
<1>2. Second(until) <= Second(from) + MaxLifetime
  BY <1>1, SecondsKeepOrder DEF ValidWindow
<1>3. from < until /\ from <= until
  BY DEF ValidWindow
<1>4. /\ Second(from) \in Nat /\ Second(until) \in Nat
      /\ Second(from) <= Second(until)
  BY <1>3, SecondsKeepOrder
<1> QED
  BY <1>2, <1>3, <1>4 DEF SplitsSecond, IsShortLived

\* What a comparison of seconds says of the ticks, and the other way round.
LEMMA ComparedInSeconds ==
  ASSUME NEW s \in Nat, NEW t \in Nat
  PROVE  /\ s <= t => Second(s) <= Second(t)
         /\ Second(s) <= Second(t) => s <= t \/ SplitsSecond(t, s)
         /\ Second(s) < Second(t) => s < t
         /\ s < t => Second(s) < Second(t) \/ SplitsSecond(s, t)
<1>1. /\ s <= t => Second(s) <= Second(t)
      /\ t <= s => Second(t) <= Second(s)
      /\ Second(s) \in Nat /\ Second(t) \in Nat
  BY SecondsKeepOrder
<1> QED
  BY <1>1 DEF SplitsSecond

\* Of a stored proof the Rust policy and the SQL of the schema differ only
\* where a time and its limit lie in one second.
THEOREM PoliciesAgreeToTheSecondHolds == Spec => []PoliciesAgreeToTheSecond
<1>1. IInv => PoliciesAgreeToTheSecond
  <2> SUFFICES ASSUME IInv, NEW r \in Requests, NEW c \in Challenges, NEW p \in Proofs,
                      proof[p].status = "verified"
               PROVE  LET inRust == PolicyAccepts(clock, r, c, challenge[c], p,
                                                  device[r.credential.device])
                          inSQL == DatabaseAccepts(clock, r, c, challenge[c], p, proof[p],
                                                   device[c.device])
                      IN /\ inSQL /\ ~ inRust =>
                              \/ SplitsSecond(clock, p.expires)
                              \/ SplitsSecond(p.issued, p.expires)
                              \/ SplitsSecond(c.created, c.expires)
                         /\ inRust /\ ~ inSQL =>
                              \/ SplitsSecond(clock + Ticks(MaxSkew), c.created)
                              \/ SplitsSecond(clock + Ticks(MaxSkew), p.issued)
                              \/ SplitsSecond(p.issued + Ticks(MaxSkew), c.created)
                              \/ SplitsSecond(c.expires, p.expires)
    BY DEF PoliciesAgreeToTheSecond
  <2>1. p.genuine /\ ValidWindow(p.issued, p.expires)
    BY DEF IInv, StoredProofs
  <2>2. ValidWindow(c.created, c.expires)
    BY RowsAssumption
  <2>3. proof[p].verified <= clock /\ clock \in Nat
    BY RowsAssumption DEF IInv, Types
  <2>4. IsOwnRequest(r) /\ IsIssuedFor(c, r) =>
          r.credential.device = c.device /\ c.subject = r.subject
    BY DEF IsOwnRequest, IsIssuedFor
  <2>5. /\ c.created \in Nat /\ c.expires \in Nat
        /\ p.issued \in Nat /\ p.expires \in Nat
    BY RowsAssumption, InputsAssumption
  <2>6. PICK late \in Nat, allowed \in Nat :
          /\ late = clock + Ticks(MaxSkew) /\ Second(late) = Second(clock) + MaxSkew
          /\ allowed = p.issued + Ticks(MaxSkew) /\ Second(allowed) = Second(p.issued) + MaxSkew
    <3>1. \A t \in Nat : /\ t + Ticks(MaxSkew) \in Nat
                         /\ Second(t + Ticks(MaxSkew)) = Second(t) + MaxSkew
      BY PolicyAssumption, SecondsShift
    <3> QED
      BY <2>3, <2>5, <3>1
  <2>7. /\ SplitsSecond(p.issued, p.expires)
             \/ IsShortLived(Second(p.issued), Second(p.expires))
        /\ SplitsSecond(c.created, c.expires)
             \/ IsShortLived(Second(c.created), Second(c.expires))
    BY <2>1, <2>2, <2>5, WindowInSeconds
  <2>8. /\ c.created <= late => Second(c.created) <= Second(late)
        /\ Second(c.created) <= Second(late) => c.created <= late \/ SplitsSecond(late, c.created)
        /\ p.issued <= late => Second(p.issued) <= Second(late)
        /\ Second(p.issued) <= Second(late) => p.issued <= late \/ SplitsSecond(late, p.issued)
    BY <2>5, <2>6, ComparedInSeconds
  <2>9. /\ c.created <= allowed => Second(c.created) <= Second(allowed)
        /\ Second(c.created) <= Second(allowed) =>
             c.created <= allowed \/ SplitsSecond(allowed, c.created)
        /\ p.expires <= c.expires => Second(p.expires) <= Second(c.expires)
        /\ Second(p.expires) <= Second(c.expires) =>
             p.expires <= c.expires \/ SplitsSecond(c.expires, p.expires)
    BY <2>5, <2>6, ComparedInSeconds
  <2>10. /\ Second(clock) < Second(p.expires) => clock < p.expires
         /\ clock < p.expires => Second(clock) < Second(p.expires) \/ SplitsSecond(clock, p.expires)
         /\ Second(clock) < Second(c.expires) => clock < c.expires
    BY <2>3, <2>5, ComparedInSeconds
  <2>11. /\ Second(clock) \in Nat /\ Second(p.issued) \in Nat /\ Second(p.expires) \in Nat
         /\ Second(c.created) \in Nat /\ Second(c.expires) \in Nat
    BY <2>3, <2>5, SecondsKeepOrder
  <2> DEFINE inRust == PolicyAccepts(clock, r, c, challenge[c], p, device[r.credential.device])
             inSQL == DatabaseAccepts(clock, r, c, challenge[c], p, proof[p], device[c.device])
  <2>12. ASSUME inSQL, ~ SplitsSecond(clock, p.expires),
                ~ SplitsSecond(p.issued, p.expires), ~ SplitsSecond(c.created, c.expires)
         PROVE  inRust
    <3>1. /\ Second(c.created) <= Second(clock) + MaxSkew
          /\ Second(p.issued) <= Second(clock) + MaxSkew
          /\ Second(p.issued) + MaxSkew >= Second(c.created)
          /\ Second(p.expires) <= Second(c.expires)
          /\ Second(p.expires) > Second(clock)
      BY <2>6, <2>8, <2>9, <2>10, <2>12 DEF DatabaseAccepts
    <3>2. Second(c.expires) > Second(clock)
      BY <2>11, <3>1
    <3>3. IsValidChallenge(clock, c, challenge[c]) /\ IsTimelyProof(clock, c, p)
      BY <2>7, <2>12, <3>1, <3>2 DEF DatabaseAccepts, IsValidChallenge, IsTimelyProof
    <3> QED
      BY <2>1, <2>4, <2>12, <3>3 DEF DatabaseAccepts, JoinsDevice, PolicyAccepts
  <2>13. ASSUME inRust, ~ SplitsSecond(late, c.created), ~ SplitsSecond(late, p.issued),
                ~ SplitsSecond(allowed, c.created), ~ SplitsSecond(c.expires, p.expires)
         PROVE  inSQL
    <3>1. /\ c.created <= late /\ p.issued <= late
          /\ allowed >= c.created /\ p.expires <= c.expires
          /\ c.expires > clock /\ p.expires > clock
      BY <2>6, <2>8, <2>9, <2>10, <2>13 DEF PolicyAccepts, IsValidChallenge, IsTimelyProof
    <3>2. challenge[c] = "open"
      BY <2>13 DEF PolicyAccepts, IsValidChallenge
    <3> QED
      BY <2>3, <2>4, <2>6, <2>13, <3>1, <3>2 DEF PolicyAccepts, DatabaseAccepts, JoinsDevice
  <2> QED
    BY <2>6, <2>12, <2>13
<1> QED
  BY <1>1, Invariant, PTL
=============================================================================

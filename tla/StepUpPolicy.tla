---------------------------- MODULE StepUpPolicy ----------------------------
(***************************************************************************)
(* When a step-up proof authorises a protected request, said twice by the  *)
(* code: in Rust before the transaction (src/src/app_vault.rs) and in SQL  *)
(* inside it (consume_external_step_up in src/schema/schema.sql).  Both    *)
(* are pure here; StepUp runs them one after the other.                    *)
(*                                                                         *)
(* Times are ticks, fractions of a second: the database compares all       *)
(* digits of its TIMESTAMPTZ, the Rust policy only whole seconds.  rest    *)
(* stands for the method, the normalized route, the target and the body    *)
(* digest, which both sides compare alike.                                 *)
(***************************************************************************)
EXTENDS DeviceLifecycle, Naturals

CONSTANTS MaxLifetime, \* DEFAULT_MAX_STEP_UP_LIFETIME_SECONDS, INTERVAL '5 minutes'
          MaxSkew,     \* DEFAULT_MAX_FUTURE_SKEW_SECONDS, INTERVAL '5 minutes'
          TicksPerSecond

ASSUME PolicyAssumption ==
  MaxLifetime \in Nat \ {0} /\ MaxSkew \in Nat /\ TicksPerSecond \in Nat \ {0}

ChallengeStatuses == {"open", "consumed", "invalidated"}
ProofStatuses == {"unknown", "verified", "consumed"}

\* What timestamp() leaves of a time, and an interval of whole seconds in SQL.
Second(t) == t \div TicksPerSecond
Ticks(seconds) == seconds * TicksPerSecond

\* The CHECK of both tables, with all digits: positive and at most five minutes.
ValidWindow(from, until) == until > from /\ until <= from + Ticks(MaxLifetime)

\* The lifetime that the Rust policy computes, in seconds.
IsShortLived(from, until) == until > from /\ until <= from + MaxLifetime

\* The request is made by the device whose credential it carries.
IsOwnRequest(request) ==
  request.credential = [subject |-> request.subject, device |-> request.device]

\* Mutant: the method, route, target and body are not compared.
IsIssuedForAction(challenge, request) ==
  /\ challenge.subject = request.subject
  /\ challenge.device = request.device
  /\ challenge.action = request.action

\* The challenge was issued for exactly this request.
IsIssuedFor(challenge, request) ==
  /\ challenge.subject = request.subject
  /\ challenge.device = request.device
  /\ challenge.action = request.action
  /\ challenge.rest = request.rest

\* Mutant: a proof may outlive its challenge by the clock skew.
IsTimelyProofSkewed(now, challenge, proof) ==
  LET issued == Second(proof.issued)
      expires == Second(proof.expires)
  IN /\ IsShortLived(issued, expires)
     /\ issued <= Second(now) + MaxSkew
     /\ expires > Second(now)
     /\ issued + MaxSkew >= Second(challenge.created)
     /\ expires <= Second(challenge.expires) + MaxSkew

\* The last comparisons of validate_step_up_authorization.  Its caller gives it
\* the clock and the challenge in whole seconds; the proof it truncates itself.
IsTimelyProof(now, challenge, proof) ==
  LET issued == Second(proof.issued)
      expires == Second(proof.expires)
  IN /\ IsShortLived(issued, expires)
     /\ issued <= Second(now) + MaxSkew
     /\ expires > Second(now)
     /\ issued + MaxSkew >= Second(challenge.created)
     /\ expires <= Second(challenge.expires)

\* validate_challenge.
IsValidChallenge(now, challenge, status) ==
  LET created == Second(challenge.created)
      expires == Second(challenge.expires)
  IN /\ status = "open"
     /\ IsShortLived(created, expires)
     /\ created <= Second(now) + MaxSkew
     /\ expires > Second(now)

\* validate_step_up_authorization, its verifier included: a genuine proof has
\* the configured issuer and audience and a signature that verifies.
PolicyAccepts(now, request, challenge, status, proof, lifecycle) ==
  /\ lifecycle = "active"
  /\ IsValidChallenge(now, challenge, status)
  /\ IsOwnRequest(request)
  /\ IsIssuedFor(challenge, request)
  /\ proof.genuine
  /\ proof.subject = challenge.subject
  /\ proof.challenge = challenge.id
  /\ proof.action = challenge.action
  /\ IsTimelyProof(now, challenge, proof)

\* Mutant: the join does not look at the lifecycle.
JoinsAnyDevice(lifecycle) == TRUE

\* The join with cliptown.devices.
JoinsDevice(lifecycle) == lifecycle = "active"

\* Mutant: the challenge may have been created at any time.
DatabaseAcceptsUncreated(now, request, challenge, status, proof, row, lifecycle) ==
  /\ IsOwnRequest(request)
  /\ IsIssuedFor(challenge, request)
  /\ status = "open"
  /\ challenge.expires > now
  /\ JoinsDevice(lifecycle)
  /\ proof.challenge = challenge.id
  /\ proof.subject = request.subject
  /\ proof.action = challenge.action
  /\ proof.issued <= now + Ticks(MaxSkew)
  /\ proof.expires <= challenge.expires
  /\ proof.expires > now
  /\ row.status = "verified"
  /\ row.verified <= now

\* The WHERE clause of consume_external_step_up, over rows of the three tables;
\* row holds the columns of the proof that change, status and verified_at.
DatabaseAccepts(now, request, challenge, status, proof, row, lifecycle) ==
  /\ IsOwnRequest(request)
  /\ IsIssuedFor(challenge, request)
  /\ status = "open"
  /\ challenge.created <= now + Ticks(MaxSkew)
  /\ challenge.expires > now
  /\ JoinsDevice(lifecycle)
  /\ proof.challenge = challenge.id
  /\ proof.subject = request.subject
  /\ proof.action = challenge.action
  /\ proof.issued + Ticks(MaxSkew) >= challenge.created
  /\ proof.issued <= now + Ticks(MaxSkew)
  /\ proof.expires <= challenge.expires
  /\ proof.expires > now
  /\ row.status = "verified"
  /\ row.verified <= now
=============================================================================

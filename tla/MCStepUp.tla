------------------------------ MODULE MCStepUp ------------------------------
(* Two devices of one subject and a challenge of each, created later than  *)
(* the clock begins.  Proofs are issued before their challenge, as early   *)
(* as the skew allows or earlier by a fraction of a second; they outlive   *)
(* it by such a fraction or by more, expire in the middle of a second,     *)
(* name another action or were forged.  Requests have another body or      *)
(* carry the credential of another device.                                 *)
EXTENDS StepUp, TLC

TwoDevices == {"d1", "d2"}

Challenge(id, of, created, expires) ==
  [id |-> id, subject |-> "u1", device |-> of, action |-> "export",
   rest |-> "r1", created |-> created, expires |-> expires]

\* In half seconds.
TwoChallenges == { Challenge(1, "d1", 1, 4), Challenge(2, "d2", 3, 4) }

Proof(id, of, action, issued, expires, genuine) ==
  [id |-> id, challenge |-> of, subject |-> "u1", action |-> action,
   issued |-> issued, expires |-> expires, genuine |-> genuine]

SomeProofs ==
  { Proof(1, 1, "export", 0, 2, TRUE), Proof(2, 1, "revoke", 1, 4, TRUE),
    Proof(3, 1, "export", 2, 4, FALSE), Proof(4, 2, "export", 1, 3, TRUE),
    Proof(5, 2, "export", 0, 5, TRUE), Proof(6, 2, "export", 3, 6, TRUE) }

Request(from, rest, credential) ==
  [subject |-> "u1", device |-> from, action |-> "export", rest |-> rest,
   credential |-> [subject |-> "u1", device |-> credential]]

SomeRequests ==
  { Request("d1", "r1", "d1"), Request("d1", "r2", "d1"),
    Request("d2", "r1", "d2"), Request("d1", "r1", "d2") }

HandlerSymmetry == Permutations(Handlers)
=============================================================================

--------------------------- MODULE TransferPolicy ---------------------------
(***************************************************************************)
(* The transfer state machine of src/src/memebank_transfer.rs as pure      *)
(* functions, and what a response shows of a row (transfer_response in     *)
(* src/src/memebank_routes.rs).  Times are whole Unix seconds, the         *)
(* precision at which the policy compares them.                            *)
(***************************************************************************)
EXTENDS Naturals

Dispositions == {"acknowledged", "ignored", "rejected"}
TerminalStates == Dispositions \cup {"expired", "cancelled"}
TransferStates == {"pending"} \cup TerminalStates
PolicyErrors == {"InvalidRetention", "InvalidTransition", "TransferExpired",
                 "IdempotencyConflict", "NotFound"}

\* Mutant: the current state is not looked at.
AcknowledgeStateBlindly(now, expires, current, disposition) ==
  IF now >= expires THEN "TransferExpired" ELSE disposition

\* acknowledge_state: a state, or the name of the error.  A disposition equal
\* to the current state is accepted before anything else is looked at.
AcknowledgeState(now, expires, current, disposition) ==
  IF current = disposition THEN disposition
  ELSE IF current # "pending" THEN "InvalidTransition"
  ELSE IF now >= expires THEN "TransferExpired"
  ELSE disposition

\* Mutant: an overdue transfer is cancelled like any other.
CancelStateAnytime(now, expires, current) ==
  IF current = "pending" THEN "cancelled" ELSE current

CancelState(now, expires, current) ==
  IF current # "pending" THEN current
  ELSE IF now >= expires THEN "expired"
  ELSE "cancelled"

\* A pending row is shown as expired from its expiry on, whether or not any
\* handler ever wrote that down.
ShownState(now, expires, stored) ==
  IF stored = "pending" /\ expires <= now THEN "expired" ELSE stored
=============================================================================

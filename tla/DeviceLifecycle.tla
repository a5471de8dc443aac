-------------------------- MODULE DeviceLifecycle --------------------------
(***************************************************************************)
(* The lifecycle of a device, src/src/account_security.rs.                 *)
(***************************************************************************)

Lifecycles == {"pending", "active", "suspended", "revoked"}

\* DeviceLifecycleState::can_transition_to; a device may also stay as it is.
CanTransitionTo(from, to) ==
  \/ from = to
  \/ from = "pending"
  \/ from = "active" /\ to \in {"suspended", "revoked"}
  \/ from = "suspended" /\ to \in {"active", "revoked"}
=============================================================================

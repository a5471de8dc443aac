--------------------------- MODULE DelegatedPolicy ---------------------------
(***************************************************************************)
(* Which delegated tokens may do what: the adapter of                      *)
(* src/src/memebank_auth.rs, the policy of src/src/memebank_transfer.rs it *)
(* calls, and the older policy of src/src/memebank_integration.rs, which   *)
(* no module of the program includes.                                      *)
(*                                                                         *)
(* An introspection answer is a record; an optional time is a set of at    *)
(* most one time, scopes and methods are sets (a repeated scope is another *)
(* scope), and an absent, empty or overlong string is a value outside      *)
(* Names.  Times are Unix seconds, far from the ends of i64.               *)
(***************************************************************************)
EXTENDS Integers, FiniteSets

CONSTANTS
  Names,       \* strings that required accepts: 1 to 256 bytes
  Portable,    \* portable identifiers of 1 to 128 bytes
  Uuids,       \* canonical UUIDs
  Contexts,    \* values of acr that are not blank
  Issuer, Audience, Client, \* the expected iss, aud and azp
  Loa2,        \* urn:oresoftware:loa:2
  Methods,     \* portable identifiers of 1 to 64 bytes
  ClockSkew,       \* max_clock_skew_seconds
  MaxAuthAge,      \* max_auth_age_seconds
  TokenLifetime,   \* MAX_TOKEN_LIFETIME_SECONDS
  PrototypeLifetime \* MAX_DELEGATED_TOKEN_LIFETIME_SECONDS

ASSUME NamesAssumption ==
  /\ Uuids \subseteq Portable
  /\ Portable \subseteq Names
  /\ {Issuer, Audience, Client} \subseteq Names
  /\ Loa2 \in Contexts

ASSUME PolicyAssumption ==
  /\ ClockSkew \in Nat
  /\ MaxAuthAge \in Nat \ {0}
  /\ TokenLifetime \in Nat
  /\ PrototypeLifetime \in 1 .. TokenLifetime

ApiOperations == {"list", "get", "create", "acknowledge", "cancel"}
Scopes == {"read", "write", "delete"}

RequiredScope(op) ==
  CASE op \in {"list", "get"} -> "read"
    [] op \in {"create", "acknowledge"} -> "write"
    [] OTHER -> "delete"

RequiresRecentLoa2(op) == op \notin {"list", "get"}

\* An Option<u64>.
IsOptionalTime(s) == s = {} \/ \E t \in s : t \in Nat /\ s = {t}

\* The fields of an answer, and the types of those that authorisation computes
\* with.
IsIntrospection(i) ==
  /\ DOMAIN i = {"active", "iss", "aud", "azp", "sub", "sid", "jti", "parent_jti",
                 "iat", "nbf", "exp", "auth_time", "scope", "aal", "acr", "amr"}
  /\ i.active \in BOOLEAN
  /\ IsOptionalTime(i.iat) /\ IsOptionalTime(i.nbf)
  /\ IsOptionalTime(i.exp) /\ IsOptionalTime(i.auth_time)
  /\ i.aal \in Nat
-----------------------------------------------------------------------------
(* The adapter and the policy that the routes use.                         *)

\* Mutant: whether the answer is active is not looked at.
HasLineageInactive(i) == {i.jti, i.parent_jti} \subseteq Names /\ i.parent_jti # i.jti

HasDelegationLineage(i) == i.active /\ {i.jti, i.parent_jti} \subseteq Names /\ i.parent_jti # i.jti

\* introspection_to_authorization: it refuses an answer with a field missing.
IsComplete(i) ==
  /\ HasDelegationLineage(i)
  /\ {i.iss, i.aud, i.azp, i.sub, i.sid, i.jti, i.parent_jti} \subseteq Names
  /\ i.nbf # {} /\ i.exp # {}

IsIssuedToClient(i) ==
  /\ i.iss = Issuer /\ i.aud = Audience /\ i.azp = Client
  /\ {i.sub, i.sid, i.jti, i.parent_jti} \subseteq Portable

IsCurrent(i, now) ==
  \A nbf \in i.nbf, exp \in i.exp :
    nbf <= now + ClockSkew /\ now < exp /\ exp - nbf \in 1 .. TokenLifetime

IsRecentLoa2(i, now) ==
  /\ i.aal >= 2 /\ i.acr \in Contexts /\ i.amr # {}
  /\ \E t \in i.auth_time : t <= now + ClockSkew /\ now - t <= MaxAuthAge

\* authorize after the introspection: "Granted", or the failure.
Authorization(i, op, now) ==
  IF ~ (IsComplete(i) /\ IsIssuedToClient(i) /\ IsCurrent(i, now)) THEN "Unauthorized"
  ELSE IF i.scope # {RequiredScope(op)} THEN "Forbidden"
  ELSE IF RequiresRecentLoa2(op) /\ ~ IsRecentLoa2(i, now) THEN "Forbidden"
  ELSE "Granted"
-----------------------------------------------------------------------------
(* The prototype's policy.  It counts from the iat and does not know of an *)
(* nbf, from which alone the policy of the routes counts.                  *)

PrototypeIsIssuedToClient(i) ==
  /\ i.iss = Issuer /\ i.aud = Audience /\ i.azp = Client
  /\ i.sub \in Uuids
  /\ {i.sid, i.jti, i.parent_jti} \subseteq Portable /\ i.parent_jti # i.jti
  /\ i.active

PrototypeIsCurrent(i, now) ==
  \E iat \in i.iat, exp \in i.exp :
    iat <= now + ClockSkew /\ now < exp /\ exp - iat \in 1 .. PrototypeLifetime

PrototypeIsRecentLoa2(i, now) ==
  /\ i.aal >= 2 /\ i.acr = Loa2
  /\ \E t \in i.auth_time : t <= now + ClockSkew /\ now - t <= MaxAuthAge

\* authorize_operation: the methods matter for every operation.
PrototypeAuthorizes(i, op, now) ==
  /\ PrototypeIsIssuedToClient(i)
  /\ PrototypeIsCurrent(i, now)
  /\ i.scope = {RequiredScope(op)}
  /\ i.amr # {} /\ Cardinality(i.amr) <= 16 /\ i.amr \subseteq Methods
  /\ RequiresRecentLoa2(op) => PrototypeIsRecentLoa2(i, now)
=============================================================================

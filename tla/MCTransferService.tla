-------------------------- MODULE MCTransferService --------------------------
(* One session with a write token and a delete token that expires sooner,  *)
(* a transfer that an earlier run created, and calls that meet on a key or *)
(* on that transfer.                                                       *)
EXTENDS TransferService, TLC

OneBody == {[content |-> 1, expires |-> 3]}

Token(sid, scope, exp, auth) ==
  [active |-> TRUE, iss |-> "iss", aud |-> "aud", azp |-> "azp", sub |-> "s1",
   sid |-> sid, jti |-> "j2", parent_jti |-> "j1", iat |-> {0}, nbf |-> {0}, exp |-> {exp},
   auth_time |-> auth, scope |-> {scope}, aal |-> 2, acr |-> "loa2", amr |-> {"otp"}]

Create(k) == [op |-> "create", subject |-> "s1", key |-> k, body |-> CHOOSE b \in Bodies : TRUE]
Acknowledge(k) == [op |-> "acknowledge", subject |-> "s1", key |-> k, transfer |-> 1,
                   disposition |-> "acknowledged"]
Cancel == [op |-> "cancel", subject |-> "s1", transfer |-> 1]

SomeTokens ==
  [write |-> Token("a", "write", 2, {0}), delete |-> Token("a", "delete", 1, {0})]
With(c, t) == [call |-> c, token |-> t]
EarlierCreate == Create("k1")
SomeRequests ==
  {With(Create("k2"), "write"), With(Acknowledge("k2"), "write"),
   With(Cancel, "delete")}
SomeNames == {"iss", "aud", "azp", "s1", "a", "j1", "j2"}
=============================================================================

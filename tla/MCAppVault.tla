----------------------------- MODULE MCAppVault -----------------------------
(* Two devices that push to two records: equal clocks, a retried batch, an *)
(* identifier that both use, and one mutation each that the policy or only *)
(* the table refuses.                                                      *)
EXTENDS AppVault, TLC

TwoDevices == {1, 2}

Mutation(id, source, record, at) ==
  [id |-> id, app |-> "3fa", namespace |-> "vault", record |-> record, source |-> source,
   clock |-> at, updated |-> 0, valid |-> TRUE, signed |-> TRUE]

Push(of, mutations) == [path |-> "3fa", device |-> of, mutations |-> mutations]

M1 == Mutation(1, 1, "a", 1)
M2 == Mutation(2, 1, "b", 1)
M3 == Mutation(3, 2, "a", 1)
M4 == Mutation(4, 1, "a", 1)

\* In the second half of the last second that the policy allows.
Future == [M2 EXCEPT !.updated = 3]

SomeRequests ==
  { Push(1, <<M1, M2>>), Push(1, <<M4>>), Push(2, <<M3>>),
    Push(2, <<Mutation(2, 2, "b", 2), M3>>),
    Push(1, <<Future, M4>>), Push(2, <<M1>>),
    Push(1, <<[M2 EXCEPT !.signed = FALSE]>>), Push(1, <<M1, M4>>) }

HandlerSymmetry == Permutations(Handlers)
=============================================================================

------------------------- MODULE MCMemebankTransfers -------------------------
(* One or two request bodies that expire within the bound of the clock.    *)
EXTENDS MemebankTransfers, TLC

Body(content, expires) == [content |-> content, expires |-> expires]

OneBody == {Body(1, 3)}
TwoBodies == {Body(1, 3), Body(2, 4)}

HandlerSymmetry == Permutations(Handlers)
KeySymmetry == Permutations(Keys)
HandlerKeySymmetry == Permutations(Handlers) \cup Permutations(Keys)
SubjectSymmetry == Permutations(Subjects)
=============================================================================

----------------------------- MODULE MCPrepared -----------------------------
(* Two tasks; one batch, of a scalar and of a set with an array in it, its *)
(* first set alone, and the empty batch.                                   *)
EXTENDS Prepared, TLC

S == <<Scalar("a")>>
T == <<Scalar("b"), Array(<<Scalar("a")>>)>>
MCBatches == {<< >>, <<S, T>>}
MCPageSizes == {None, 0}
MCSymmetry == Permutations(Tasks)
=============================================================================

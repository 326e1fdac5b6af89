-------------------------- MODULE MCFileStateStore --------------------------
EXTENDS FileStateStore, TLC

CONSTANTS c1, c2, c3

\* What each call of the store may be.
CallKinds == c1 :> {"update", "retain"} @@ c2 :> {"put", "retain"}
             @@ c3 :> {"import", "append", "retain"}

StoreSymmetry == Permutations(StoreProcs)
=============================================================================

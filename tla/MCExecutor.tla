----------------------------- MODULE MCExecutor -----------------------------
EXTENDS Executor, TLC

CONSTANTS m1, m2, j1, j2

OneModelCap  == (m1 :> 2)
OneModelSolo == (m1 :> 1)
PairOnFirst  == (m1 :> 2) @@ (m2 :> 1)
TwoModelCap  == (m1 :> 1) @@ (m2 :> 1)
TwoModelSolo == (m1 :> 1) @@ (m2 :> 1)

AllPairs == Jobs \X Jobs
NoPairs  == {}

NoDeadline    == {Null}
MaybeDeadline == {Null, 1}

Interchangeable == Permutations(Jobs) \cup Permutations(Tasks) \cup Permutations(Owners)
=============================================================================

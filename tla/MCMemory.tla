------------------------------ MODULE MCMemory ------------------------------
EXTENDS MemoryQueue, TLC

NoneOrOne == {Null, 1}

Interchangeable == Permutations(Jobs) \cup Permutations(Models) \cup Permutations(Owners)
=============================================================================

-------------------------------- MODULE MCLog --------------------------------
EXTENDS Log, TLC
Symm == Permutations(Procs) \cup Permutations(Blocks)
=============================================================================

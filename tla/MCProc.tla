------------------------------- MODULE MCProc --------------------------------
EXTENDS Proc, TLC
Symm == Permutations(CPUs)
=============================================================================

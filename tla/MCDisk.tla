------------------------------- MODULE MCDisk --------------------------------
\* BufferCache and VirtioDisk for TLC.
EXTENDS BufferCache, TLC
Symmetry == Permutations(Procs) \cup Permutations(Blocks)
=============================================================================

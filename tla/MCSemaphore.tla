---- MODULE MCSemaphore ----
EXTENDS Semaphore, TLC
Symm == Permutations(Procs)
====

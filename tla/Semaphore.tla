------------------------------ MODULE Semaphore ------------------------------
(***************************************************************************)
(* The kernel semaphores of lab 2 (kernel/semaphore.c) at the level of     *)
(* critical sections: each one, from acquire to release, is one step.      *)
(* sem_open, sem_close and sem_up are one step each, get_sem is one step   *)
(* per index it tries, sem_down is one step up to sleep() and one more     *)
(* each time it is woken.  SemaphoreLocks refines this module down to the  *)
(* spin locks and to the sleep() and wakeup() of proc.c.                   *)
(*                                                                         *)
(* A process p is                                                          *)
(*   "user"     in user space, ret[p] holding its last system call's value *)
(*   "kernel"   in a system call, before its first critical section        *)
(*   "get_sem"  in get_sem's loop, about to try index arg[p]               *)
(*   "asleep"   SLEEPING in sem_down on semaphore arg[p]                   *)
(*   "woken"    woken in sem_down, about to test the count again           *)
(*   "exited"   gone through exit()                                        *)
(***************************************************************************)
EXTENDS Integers

CONSTANTS
  Procs,     \* processes
  N,         \* size of semaphores[] (N in semaphore.c, 256 there)
  Values,    \* values passed to sem_open and get_sem
  MaxDebt    \* bound of the model: no count goes below -MaxDebt

ASSUME NAssumption == N \in Nat \ {0}
ASSUME ValuesAssumption == Values \subseteq Int
ASSUME MaxDebtAssumption == MaxDebt \in Nat \ {0, 1}

Sems == 0 .. N - 1
Closed == -1

VARIABLES
  count, bound,  \* the fields of struct semaphore
  pc, arg, val,  \* where each process is; the arguments of a call in progress
  ret,           \* what its last system call returned
  killed,        \* p->killed
  stale          \* history: waiters whose semaphore was closed meanwhile

vars == <<count, bound, pc, arg, val, ret, killed, stale>>

PCs == {"user", "kernel", "get_sem", "asleep", "woken", "exited"}
Sleepers(s) == {p \in Procs : pc[p] = "asleep" /\ arg[p] = s}
Waiters(s) == {p \in Procs : pc[p] \in {"asleep", "woken"} /\ arg[p] = s}

\* semaphores_init closes every semaphore.
Init ==
  /\ count = [s \in Sems |-> Closed]
  /\ bound = [s \in Sems |-> -1]
  /\ pc = [p \in Procs |-> "user"]
  /\ arg = [p \in Procs |-> 0]
  /\ val = [p \in Procs |-> 0]
  /\ ret = [p \in Procs |-> 0]
  /\ killed = [p \in Procs |-> FALSE]
  /\ stale = {}
-----------------------------------------------------------------------------
(***************************************************************************)
(* usertrap() tests p->killed before a system call and after it: a killed  *)
(* process exits there, but finishes a call that it is already in.  The    *)
(* register of the return value (ret) carries an argument on the way in.   *)
(***************************************************************************)
Enter(p) ==
  /\ pc[p] = "user" /\ ~killed[p]
  /\ pc' = [pc EXCEPT ![p] = "kernel"]
  /\ ret' = [ret EXCEPT ![p] = 0]
  /\ UNCHANGED <<count, bound, arg, val, killed, stale>>

Exit(p) ==
  /\ pc[p] = "user" /\ killed[p]
  /\ pc' = [pc EXCEPT ![p] = "exited"]
  /\ UNCHANGED <<count, bound, arg, val, ret, killed, stale>>

\* p's system call ends with the value r, and leaves no arguments behind.
Return(p, r) ==
  /\ pc' = [pc EXCEPT ![p] = "user"]
  /\ ret' = [ret EXCEPT ![p] = r]
  /\ arg' = [arg EXCEPT ![p] = 0]
  /\ val' = [val EXCEPT ![p] = 0]
  /\ UNCHANGED killed

Fail(p, r) == Return(p, r) /\ UNCHANGED <<count, bound, stale>>

\* Mutant of Openable: sem_open does not look whether the semaphore is in use.
Openable_Any(s) == s \in Sems

Openable(s) == s \in Sems /\ count[s] = Closed
Usable(s) == s \in Sems /\ count[s] # Closed

\* The critical section of sem_open when it succeeds.
SetSem(s, v) ==
  /\ count' = [count EXCEPT ![s] = v]
  /\ bound' = [bound EXCEPT ![s] = v]
  /\ UNCHANGED stale

sem_open(p, s, v) ==
  /\ pc[p] = "kernel"
  /\ \/ Openable(s) /\ SetSem(s, v) /\ Return(p, 1)
     \/ ~Openable(s) /\ Fail(p, 0)

get_sem(p, v) ==
  /\ pc[p] = "kernel"
  /\ pc' = [pc EXCEPT ![p] = "get_sem"]
  /\ val' = [val EXCEPT ![p] = v]
  /\ UNCHANGED <<count, bound, arg, ret, killed, stale>>

get_sem_more(p) == arg[p] < N

get_sem_loop(p) ==
  /\ pc[p] = "get_sem"
  /\ \/ Openable(arg[p]) /\ SetSem(arg[p], val[p]) /\ Return(p, arg[p])
     \/ /\ ~Openable(arg[p]) /\ get_sem_more(p)
        /\ arg' = [arg EXCEPT ![p] = @ + 1]
        /\ UNCHANGED <<count, bound, pc, val, ret, killed, stale>>
     \/ arg[p] = N /\ Fail(p, -1)

\* sem_close leaves bound alone and wakes nobody.
sem_close(p, s) ==
  /\ pc[p] = "kernel"
  /\ \/ /\ Usable(s)
        /\ count' = [count EXCEPT ![s] = Closed]
        /\ stale' = stale \cup Waiters(s)
        /\ Return(p, 1)
        /\ UNCHANGED bound
     \/ ~Usable(s) /\ Fail(p, 0)

\* Mutant of CanUp: the test against bound is missing.
CanUp_NoBound(s) == Usable(s)

CanUp(s) == Usable(s) /\ count[s] # bound[s]

\* Mutant of Woken: sem_up forgets wakeup.
Woken_None(s) == {}

\* wakeup(up_sem) makes every sleeper of s runnable, not only one.
Woken(s) == Sleepers(s)

sem_up(p, s) ==
  /\ pc[p] = "kernel"
  /\ \/ /\ CanUp(s)
        /\ count' = [count EXCEPT ![s] = @ + 1]
        /\ pc' = [q \in Procs |-> IF q \in Woken(s) THEN "woken"
                                  ELSE IF q = p THEN "user" ELSE pc[q]]
        /\ ret' = [ret EXCEPT ![p] = 1]
        /\ UNCHANGED <<bound, arg, val, killed, stale>>
     \/ ~CanUp(s) /\ Fail(p, 0)

\* The loop of sem_down: sleep while the count is 0, else take one.
TakeOrSleep(p, s) ==
  \/ /\ count[s] = 0
     /\ pc' = [pc EXCEPT ![p] = "asleep"]
     /\ arg' = [arg EXCEPT ![p] = s]
     /\ UNCHANGED <<count, bound, val, ret, killed, stale>>
  \/ /\ count[s] # 0 /\ count[s] > -MaxDebt
     /\ count' = [count EXCEPT ![s] = @ - 1]
     /\ stale' = stale \ {p}
     /\ Return(p, 1)
     /\ UNCHANGED bound

sem_down(p, s) ==
  /\ pc[p] = "kernel"
  /\ \/ Usable(s) /\ TakeOrSleep(p, s)
     \/ ~Usable(s) /\ Fail(p, 0)

\* After sleep() the code tests only count == 0, never count == -1.
sem_down_woken(p) == pc[p] = "woken" /\ TakeOrSleep(p, arg[p])

\* kill() sets the flag and makes a sleeper runnable; sem_down ignores it.
kill(q) ==
  /\ pc[q] # "exited" /\ ~killed[q]
  /\ killed' = [killed EXCEPT ![q] = TRUE]
  /\ pc' = [pc EXCEPT ![q] = IF @ = "asleep" THEN "woken" ELSE @]
  /\ UNCHANGED <<count, bound, arg, val, ret, stale>>
-----------------------------------------------------------------------------
\* Any process may pass any index, valid or not.
AnyIndex == -1 .. N

Call(p) ==
  \/ \E s \in AnyIndex, v \in Values : sem_open(p, s, v)
  \/ \E s \in AnyIndex : sem_close(p, s) \/ sem_up(p, s) \/ sem_down(p, s)
  \/ \E v \in Values : get_sem(p, v)

Kernel(p) == get_sem_loop(p) \/ sem_down_woken(p)

Next ==
  \E p \in Procs : Enter(p) \/ Call(p) \/ Kernel(p) \/ kill(p) \/ Exit(p)

Spec == Init /\ [][Next]_vars
-----------------------------------------------------------------------------
SemType ==
  /\ count \in [Sems -> Int] /\ bound \in [Sems -> Int]
  /\ stale \subseteq Procs

ProcType ==
  /\ pc \in [Procs -> PCs]
  /\ arg \in [Procs -> 0 .. N] /\ val \in [Procs -> Int]
  /\ ret \in [Procs -> Int]
  /\ killed \in [Procs -> BOOLEAN]
  /\ \A p \in Procs : pc[p] \in {"asleep", "woken"} => arg[p] \in Sems

\* Types, and: whoever waits in sem_down, or is woken there, waits on an index
\* inside semaphores[].
TypeOK == SemType /\ ProcType

\* sem_up never raises a count past the value the semaphore was opened with,
\* whatever closes, reopens and late wake-ups come in between.  (For opening
\* values that are not negative.)
CountBound == \A s \in Sems : count[s] <= bound[s]

\* No lost wake-up: whoever waits in sem_down on a semaphore that nobody closed
\* under it finds it open, its slot not recycled for another user of get_sem or
\* sem_open, and sleeps only while the count is 0.
NoLostWakeup ==
  \A p \in Procs : pc[p] \in {"asleep", "woken"} /\ p \notin stale =>
    /\ count[arg[p]] >= 0
    /\ pc[p] = "asleep" => count[arg[p]] = 0

=============================================================================

--------------------------- MODULE SemaphoreProofs ---------------------------
(***************************************************************************)
(* Proofs about Semaphore, for any number of processes and semaphores:     *)
(* its types, the bound on counts, and that no wake-up is lost; and about  *)
(* pingpong on these semaphores, for any amount, any number of instances   *)
(* and any table.  What is about Semaphore uses nothing of PingPong.       *)
(***************************************************************************)
EXTENDS PingPong, TLAPS

USE NAssumption, ValuesAssumption, MaxDebtAssumption DEF Sems, Closed, PCs

\* Leaving a system call keeps the types of a process's state.
LEMMA ReturnType ==
  ASSUME ProcType, NEW p \in Procs, NEW r \in Int, Return(p, r)
  PROVE  ProcType'
<1>1. pc' \in [Procs -> PCs] /\ ret' \in [Procs -> Int]
  BY DEF ProcType, Return
<1>2. arg' \in [Procs -> 0 .. N] /\ val' \in [Procs -> Int]
  BY DEF ProcType, Return
<1>3. killed' \in [Procs -> BOOLEAN]
  BY DEF ProcType, Return
<1>4. ASSUME NEW q \in Procs, pc'[q] \in {"asleep", "woken"}
      PROVE  arg'[q] \in Sems
  BY <1>4 DEF ProcType, Return
<1> QED
  BY <1>1, <1>2, <1>3, <1>4 DEF ProcType

\* A call that fails changes nothing but the caller's state.
LEMMA FailType ==
  ASSUME TypeOK, NEW p \in Procs, NEW r \in Int, Fail(p, r)
  PROVE  TypeOK'
<1>1. ProcType'
  BY ReturnType DEF TypeOK, Fail
<1>2. SemType'
  BY DEF TypeOK, Fail, SemType
<1> QED
  BY <1>1, <1>2 DEF TypeOK

\* The body of sem_down keeps the types, on any semaphore of the table.
LEMMA TakeOrSleepType ==
  ASSUME TypeOK, NEW p \in Procs, NEW s \in Sems, TakeOrSleep(p, s)
  PROVE  TypeOK'
<1>1. CASE count[s] = 0 /\ pc' = [pc EXCEPT ![p] = "asleep"]
           /\ arg' = [arg EXCEPT ![p] = s]
           /\ UNCHANGED <<count, bound, val, ret, killed, stale>>
  BY <1>1 DEF TypeOK, SemType, ProcType
<1>2. CASE count' = [count EXCEPT ![s] = @ - 1] /\ stale' = stale \ {p}
           /\ Return(p, 1) /\ UNCHANGED bound
  <2>1. ProcType'
    BY <1>2, ReturnType DEF TypeOK
  <2>2. SemType'
    BY <1>2 DEF TypeOK, SemType
  <2> QED
    BY <2>1, <2>2 DEF TypeOK
<1> QED
  BY <1>1, <1>2 DEF TakeOrSleep

\* The type invariant is inductive: in particular no path through get_sem,
\* sem_down or a late wake-up leaves a process waiting on an index outside
\* semaphores[].
THEOREM TypeCorrect == Spec => []TypeOK
<1>1. Init => TypeOK
  BY DEF Init, TypeOK, SemType, ProcType
<1>2. TypeOK /\ [Next]_vars => TypeOK'
  <2> SUFFICES ASSUME TypeOK, [Next]_vars PROVE TypeOK'
    OBVIOUS
  <2>1. ASSUME NEW p \in Procs, NEW s \in AnyIndex, NEW v \in Values,
               sem_open(p, s, v)
        PROVE  TypeOK'
    <3>1. CASE Openable(s) /\ SetSem(s, v) /\ Return(p, 1)
      <4>1. SemType'
        BY <3>1 DEF Openable, SetSem, TypeOK, SemType
      <4>2. ProcType'
        BY <3>1, ReturnType DEF TypeOK
      <4> QED
        BY <4>1, <4>2 DEF TypeOK
    <3> QED
      BY <2>1, <3>1, FailType DEF sem_open
  <2>2. ASSUME NEW p \in Procs, NEW s \in AnyIndex, sem_close(p, s)
        PROVE  TypeOK'
    <3>1. CASE /\ Usable(s) /\ count' = [count EXCEPT ![s] = Closed]
               /\ stale' = stale \cup Waiters(s) /\ Return(p, 1)
               /\ UNCHANGED bound
      <4>1. SemType'
        BY <3>1 DEF Usable, TypeOK, SemType, Waiters
      <4>2. ProcType'
        BY <3>1, ReturnType DEF TypeOK
      <4> QED
        BY <4>1, <4>2 DEF TypeOK
    <3> QED
      BY <2>2, <3>1, FailType DEF sem_close
  <2>3. ASSUME NEW p \in Procs, NEW s \in AnyIndex, sem_up(p, s)
        PROVE  TypeOK'
    <3>1. CASE CanUp(s) /\ ~Fail(p, 0)
      <4>1. SemType'
        BY <2>3, <3>1 DEF sem_up, CanUp, Usable, TypeOK, SemType
      <4>2. ProcType'
        BY <2>3, <3>1 DEF sem_up, TypeOK, ProcType, Woken, Sleepers
      <4> QED
        BY <4>1, <4>2 DEF TypeOK
    <3> QED
      BY <2>3, <3>1, FailType DEF sem_up
  <2>4. ASSUME NEW p \in Procs, NEW s \in AnyIndex, sem_down(p, s)
        PROVE  TypeOK'
    BY <2>4, TakeOrSleepType, FailType DEF sem_down, Usable
  <2>5. ASSUME NEW p \in Procs, NEW v \in Values, get_sem(p, v)
        PROVE  TypeOK'
    BY <2>5 DEF get_sem, TypeOK, SemType, ProcType
  <2>6. ASSUME NEW p \in Procs, get_sem_loop(p)
        PROVE  TypeOK'
    <3>1. arg[p] \in 0 .. N /\ val[p] \in Int /\ arg[p] \in Int
      BY DEF TypeOK, ProcType
    <3>2. CASE Openable(arg[p]) /\ SetSem(arg[p], val[p]) /\ Return(p, arg[p])
      <4>1. SemType'
        BY <3>1, <3>2 DEF Openable, SetSem, TypeOK, SemType
      <4>2. ProcType'
        BY <3>1, <3>2, ReturnType DEF TypeOK
      <4> QED
        BY <4>1, <4>2 DEF TypeOK
    <3>3. CASE /\ get_sem_more(p) /\ arg' = [arg EXCEPT ![p] = @ + 1]
               /\ UNCHANGED <<count, bound, pc, val, ret, killed, stale>>
      <4>1. pc[p] = "get_sem" /\ arg[p] + 1 \in 0 .. N
        BY <2>6, <3>1, <3>3, NAssumption DEF get_sem_loop, get_sem_more
      <4>2. SemType'
        BY <3>3 DEF TypeOK, SemType
      <4>3. ProcType'
        BY <3>3, <4>1 DEF TypeOK, ProcType
      <4> QED
        BY <4>2, <4>3 DEF TypeOK
    <3> QED
      BY <2>6, <3>2, <3>3, FailType DEF get_sem_loop
  <2>7. ASSUME NEW p \in Procs, sem_down_woken(p)
        PROVE  TypeOK'
    BY <2>7, TakeOrSleepType DEF sem_down_woken, TypeOK, ProcType
  <2>8. ASSUME NEW p \in Procs, Enter(p) \/ kill(p) \/ Exit(p)
        PROVE  TypeOK'
    <3>1. CASE Enter(p)
      BY <3>1 DEF Enter, TypeOK, SemType, ProcType, PCs
    <3>2. CASE kill(p)
      BY <3>2 DEF kill, TypeOK, SemType, ProcType, PCs
    <3>3. CASE Exit(p)
      BY <3>3 DEF Exit, TypeOK, SemType, ProcType, PCs
    <3> QED
      BY <2>8, <3>1, <3>2, <3>3
  <2>9. CASE UNCHANGED vars
    BY <2>9 DEF vars, TypeOK, SemType, ProcType
  <2> QED
    BY <2>1, <2>2, <2>3, <2>4, <2>5, <2>6, <2>7, <2>8, <2>9
    DEF Next, Call, Kernel
<1> QED
  BY <1>1, <1>2, PTL DEF Spec
-----------------------------------------------------------------------------
\* CountBound needs to know that a closed semaphore, whose count is -1, is
\* below its bound too.
BoundInv == CountBound /\ \A s \in Sems : bound[s] >= -1

\* No sequence of sem_up, sem_close, reopening and late wake-ups raises a count
\* past the value given to sem_open, as long as that value is not negative.
THEOREM CountBounded ==
  ASSUME Values \subseteq Nat
  PROVE  Spec => []CountBound
<1> DEFINE ValOK == \A p \in Procs : val[p] >= 0
           IInv == BoundInv /\ ValOK
<1>1. Init => IInv
  BY DEF Init, BoundInv, CountBound
<1>2. TypeOK /\ IInv /\ [Next]_vars => IInv'
  <2> SUFFICES ASSUME TypeOK, IInv, [Next]_vars PROVE IInv'
    OBVIOUS
  <2> USE DEF BoundInv, CountBound
  <2>1. ASSUME NEW p \in Procs, NEW r \in Int, Return(p, r)
        PROVE  ValOK'
    BY <2>1 DEF Return, TypeOK, ProcType
  <2>2. ASSUME NEW p \in Procs, NEW r \in Int, Fail(p, r)
        PROVE  IInv'
    BY <2>1, <2>2 DEF Fail
  <2>3. ASSUME NEW p \in Procs, NEW s \in Sems, TakeOrSleep(p, s)
        PROVE  IInv'
    <3>1. CASE UNCHANGED <<count, bound, val>>
      BY <3>1
    <3>2. CASE /\ count' = [count EXCEPT ![s] = @ - 1] /\ Return(p, 1)
               /\ UNCHANGED bound
      <4>1. \A t \in Sems : count[t] \in Int /\ bound[t] \in Int
        BY DEF TypeOK, SemType
      <4>2. \A t \in Sems : count'[t] <= count[t]
        BY <3>2, <4>1 DEF TypeOK, SemType
      <4>3. \A t \in Sems : count'[t] \in Int
        BY <3>2, <4>1 DEF TypeOK, SemType
      <4> QED
        BY <3>2, <2>1, <4>1, <4>2, <4>3
    <3> QED
      BY <2>3, <3>1, <3>2 DEF TakeOrSleep
  <2>4. ASSUME NEW s \in Sems, NEW v \in Nat, SetSem(s, v), ValOK'
        PROVE  IInv'
    BY <2>4 DEF SetSem, TypeOK, SemType
  <2>5. ASSUME NEW p \in Procs, NEW s \in AnyIndex, NEW v \in Values,
               sem_open(p, s, v)
        PROVE  IInv'
    BY <2>5, <2>1, <2>2, <2>4 DEF sem_open, Openable
  <2>6. ASSUME NEW p \in Procs, NEW s \in AnyIndex, sem_close(p, s)
        PROVE  IInv'
    <3>1. CASE /\ Usable(s) /\ count' = [count EXCEPT ![s] = Closed]
               /\ Return(p, 1) /\ UNCHANGED bound
      BY <3>1, <2>1 DEF Usable, TypeOK, SemType
    <3> QED
      BY <2>6, <3>1, <2>2 DEF sem_close
  <2>7. ASSUME NEW p \in Procs, NEW s \in AnyIndex, sem_up(p, s)
        PROVE  IInv'
    <3>1. CASE /\ CanUp(s) /\ count' = [count EXCEPT ![s] = @ + 1]
               /\ UNCHANGED <<bound, val>>
      BY <3>1 DEF CanUp, Usable, TypeOK, SemType
    <3> QED
      BY <2>7, <3>1, <2>2 DEF sem_up
  <2>8. ASSUME NEW p \in Procs, NEW s \in AnyIndex, sem_down(p, s)
        PROVE  IInv'
    BY <2>8, <2>2, <2>3 DEF sem_down, Usable
  <2>9. ASSUME NEW p \in Procs, NEW v \in Values, get_sem(p, v)
        PROVE  IInv'
    BY <2>9 DEF get_sem, TypeOK, ProcType
  <2>10. ASSUME NEW p \in Procs, get_sem_loop(p)
         PROVE  IInv'
    <3>1. arg[p] \in Int /\ val[p] \in Nat
      BY DEF TypeOK, ProcType
    <3>2. CASE Openable(arg[p]) /\ SetSem(arg[p], val[p]) /\ Return(p, arg[p])
      BY <3>1, <3>2, <2>1, <2>4 DEF Openable
    <3>3. CASE UNCHANGED <<count, bound, val>>
      BY <3>3
    <3> QED
      BY <2>10, <3>2, <3>3, <2>2 DEF get_sem_loop
  <2>11. ASSUME NEW p \in Procs, sem_down_woken(p)
         PROVE  IInv'
    BY <2>11, <2>3 DEF sem_down_woken, TypeOK, ProcType
  <2>12. ASSUME NEW p \in Procs, Enter(p) \/ kill(p) \/ Exit(p)
         PROVE  IInv'
    BY <2>12 DEF Enter, kill, Exit
  <2>13. CASE UNCHANGED vars
    BY <2>13 DEF vars
  <2> QED
    BY <2>5, <2>6, <2>7, <2>8, <2>9, <2>10, <2>11, <2>12, <2>13
    DEF Next, Call, Kernel
<1>3. IInv => CountBound
  BY DEF BoundInv
<1> QED
  BY <1>1, <1>2, <1>3, TypeCorrect, PTL DEF Spec
-----------------------------------------------------------------------------
\* NoLostWakeup is inductive, with the types: a waiter whose semaphore was not
\* closed under it keeps the count from being negative, so sem_open does not
\* recycle the slot under a sleeper.
Waits(p) == pc[p] \in {"asleep", "woken"} /\ p \notin stale

\* The steps that preserve NoLostWakeup because every waiter stays where it is.
LEMMA Undisturbed ==
  ASSUME TypeOK, NoLostWakeup, NEW p \in Procs,
         pc' = [pc EXCEPT ![p] = "user"] \/ pc' = [pc EXCEPT ![p] = "get_sem"],
         \A q \in Procs \ {p} : arg'[q] = arg[q],
         \A q \in Procs \ {p} : Waits(q) =>
             \/ count'[arg[q]] = count[arg[q]]
             \/ q \in stale'
             \/ pc[q] = "woken" /\ count'[arg[q]] >= 0,
         stale \ {p} \subseteq stale'
  PROVE  NoLostWakeup'
<1> SUFFICES ASSUME NEW q \in Procs, Waits(q)'
             PROVE  /\ count'[arg'[q]] >= 0
                    /\ pc'[q] = "asleep" => count'[arg'[q]] = 0
  BY DEF NoLostWakeup, Waits
<1>1. q # p
  BY DEF Waits, TypeOK, ProcType
<1>2. pc'[q] = pc[q] /\ arg'[q] = arg[q] /\ Waits(q)
  BY <1>1 DEF Waits, TypeOK, ProcType
<1> QED
  BY <1>1, <1>2 DEF NoLostWakeup, Waits

\* A failing call, or one that returns having only changed the history, is one.
LEMMA FailUndisturbed ==
  ASSUME TypeOK, NoLostWakeup, NEW p \in Procs, NEW r \in Int, Fail(p, r)
  PROVE  NoLostWakeup'
<1>1. \A q \in Procs \ {p} : arg'[q] = arg[q]
  BY DEF Fail, Return, TypeOK, ProcType
<1> QED
  BY <1>1, Undisturbed DEF Fail, Return

\* Opening a closed semaphore disturbs no waiter: there is none that is not
\* in stale.
LEMMA OpenUndisturbed ==
  ASSUME TypeOK, NoLostWakeup, NEW p \in Procs, NEW s \in Sems, NEW v \in Int,
         NEW r \in Int, Openable(s), SetSem(s, v), Return(p, r)
  PROVE  NoLostWakeup'
<1>1. \A q \in Procs \ {p} : arg'[q] = arg[q]
  BY DEF Return, TypeOK, ProcType
<1>2. ASSUME NEW q \in Procs \ {p}, Waits(q)
      PROVE  count'[arg[q]] = count[arg[q]]
  <2>1. arg[q] \in Sems /\ count[arg[q]] >= 0
    BY <1>2 DEF NoLostWakeup, Waits, TypeOK, ProcType
  <2>2. arg[q] # s
    BY <2>1 DEF Openable
  <2> QED
    BY <2>1, <2>2 DEF SetSem, TypeOK, SemType
<1> QED
  BY <1>1, <1>2, Undisturbed DEF Return, SetSem

\* The loop of sem_down: a process that takes leaves the others a count that is
\* not negative, because it took from a count that was not 0.
LEMMA TakeOrSleepWaiters ==
  ASSUME TypeOK, NoLostWakeup, NEW p \in Procs, NEW s \in Sems, TakeOrSleep(p, s)
  PROVE  NoLostWakeup'
<1>1. CASE /\ count[s] = 0 /\ pc' = [pc EXCEPT ![p] = "asleep"]
           /\ arg' = [arg EXCEPT ![p] = s]
           /\ UNCHANGED <<count, stale>>
  <2> SUFFICES ASSUME NEW q \in Procs, Waits(q)'
               PROVE  /\ count'[arg'[q]] >= 0
                      /\ pc'[q] = "asleep" => count'[arg'[q]] = 0
    BY DEF NoLostWakeup, Waits
  <2>1. CASE q = p
    BY <1>1, <2>1 DEF TypeOK, ProcType
  <2>2. CASE q # p
    BY <1>1, <2>2 DEF TypeOK, ProcType, NoLostWakeup, Waits
  <2> QED
    BY <2>1, <2>2
<1>2. CASE /\ count[s] # 0 /\ count' = [count EXCEPT ![s] = @ - 1]
           /\ stale' = stale \ {p} /\ Return(p, 1)
  <2>1. \A q \in Procs \ {p} : arg'[q] = arg[q]
    BY <1>2 DEF Return, TypeOK, ProcType
  <2>2. ASSUME NEW q \in Procs \ {p}, Waits(q)
        PROVE  \/ count'[arg[q]] = count[arg[q]]
               \/ pc[q] = "woken" /\ count'[arg[q]] >= 0
    <3>1. /\ arg[q] \in Sems /\ count[arg[q]] \in Int /\ count[arg[q]] >= 0
          /\ pc[q] = "asleep" => count[arg[q]] = 0
      BY <2>2 DEF NoLostWakeup, Waits, TypeOK, SemType, ProcType
    <3>2. CASE arg[q] = s
      BY <1>2, <2>2, <3>1, <3>2 DEF Waits, TypeOK, SemType
    <3>3. CASE arg[q] # s
      BY <1>2, <3>1, <3>3 DEF TypeOK, SemType
    <3> QED
      BY <3>2, <3>3
  <2> QED
    BY <1>2, <2>1, <2>2, Undisturbed DEF Return
<1> QED
  BY <1>1, <1>2 DEF TakeOrSleep

\* Whoever waits on a semaphore that was not closed under him finds it open, and
\* positive only when he has been woken.

\* Whoever waits in sem_down waits on an open semaphore, and sleeps on a count of 0,
\* unless the semaphore was closed under it: sem_up and kill lose no wake-up, however
\* many sleepers, takers and reopenings there are, and no slot that somebody waits on
\* is handed out again.
THEOREM WakeupsNotLost == Spec => []NoLostWakeup
<1>1. Init => NoLostWakeup
  BY DEF Init, NoLostWakeup, Waits
<1>2. TypeOK /\ NoLostWakeup /\ [Next]_vars => NoLostWakeup'
  <2> SUFFICES ASSUME TypeOK, NoLostWakeup, [Next]_vars PROVE NoLostWakeup'
    OBVIOUS
  <2>1. ASSUME NEW p \in Procs, NEW s \in AnyIndex, NEW v \in Values,
               sem_open(p, s, v)
        PROVE  NoLostWakeup'
    BY <2>1, OpenUndisturbed, FailUndisturbed DEF sem_open, Openable
  <2>2. ASSUME NEW p \in Procs, NEW s \in AnyIndex, sem_close(p, s)
        PROVE  NoLostWakeup'
    <3>1. CASE /\ Usable(s) /\ count' = [count EXCEPT ![s] = Closed]
               /\ stale' = stale \cup Waiters(s) /\ Return(p, 1)
      <4>1. \A q \in Procs \ {p} : arg'[q] = arg[q]
        BY <3>1 DEF Return, TypeOK, ProcType
      <4>2. ASSUME NEW q \in Procs, Waits(q)
            PROVE  count'[arg[q]] = count[arg[q]] \/ q \in stale'
        BY <3>1, <4>2 DEF Usable, Waiters, Waits, TypeOK, SemType, ProcType
      <4> QED
        BY <3>1, <4>1, <4>2, Undisturbed DEF Return
    <3> QED
      BY <2>2, <3>1, FailUndisturbed DEF sem_close
  <2>3. ASSUME NEW p \in Procs, NEW s \in AnyIndex, sem_up(p, s)
        PROVE  NoLostWakeup'
    <3>1. CASE /\ CanUp(s) /\ count' = [count EXCEPT ![s] = @ + 1]
               /\ pc' = [q \in Procs |-> IF q \in Woken(s) THEN "woken"
                                         ELSE IF q = p THEN "user" ELSE pc[q]]
               /\ UNCHANGED <<arg, stale>>
      <4> SUFFICES ASSUME NEW q \in Procs, Waits(q)'
                   PROVE  /\ count'[arg'[q]] >= 0
                          /\ pc'[q] = "asleep" => count'[arg'[q]] = 0
        BY DEF NoLostWakeup, Waits
      <4>1. Waits(q)
        BY <3>1 DEF Waits, Woken, Sleepers
      <4>2. /\ arg[q] \in Sems /\ count[arg[q]] \in Int /\ count[arg[q]] >= 0
            /\ pc[q] = "asleep" => count[arg[q]] = 0
        BY <4>1 DEF NoLostWakeup, Waits, TypeOK, SemType, ProcType
      <4>3. CASE arg[q] = s
        BY <3>1, <4>2, <4>3 DEF Woken, Sleepers, TypeOK, SemType
      <4>4. CASE arg[q] # s
        BY <3>1, <4>2, <4>4 DEF Woken, Sleepers, TypeOK, SemType
      <4> QED
        BY <4>3, <4>4
    <3> QED
      BY <2>3, <3>1, FailUndisturbed DEF sem_up
  <2>4. ASSUME NEW p \in Procs, NEW s \in AnyIndex, sem_down(p, s)
        PROVE  NoLostWakeup'
    BY <2>4, TakeOrSleepWaiters, FailUndisturbed DEF sem_down, Usable
  <2>5. ASSUME NEW p \in Procs, NEW v \in Values, get_sem(p, v)
        PROVE  NoLostWakeup'
    BY <2>5, Undisturbed DEF get_sem
  <2>6. ASSUME NEW p \in Procs, get_sem_loop(p)
        PROVE  NoLostWakeup'
    <3>1. arg[p] \in Int /\ val[p] \in Int
      BY DEF TypeOK, ProcType
    <3>2. CASE /\ arg' = [arg EXCEPT ![p] = @ + 1]
               /\ UNCHANGED <<count, pc, stale>>
      BY <2>6, <3>2 DEF get_sem_loop, NoLostWakeup, Waits, TypeOK, ProcType
    <3> QED
      BY <2>6, <3>1, <3>2, OpenUndisturbed, FailUndisturbed
      DEF get_sem_loop, Openable
  <2>7. ASSUME NEW p \in Procs, sem_down_woken(p)
        PROVE  NoLostWakeup'
    BY <2>7, TakeOrSleepWaiters DEF sem_down_woken, TypeOK, ProcType
  <2>8. ASSUME NEW p \in Procs, Enter(p) \/ kill(p) \/ Exit(p)
        PROVE  NoLostWakeup'
    BY <2>8 DEF Enter, kill, Exit, NoLostWakeup, Waits, TypeOK, ProcType
  <2>9. CASE UNCHANGED vars
    BY <2>9 DEF vars, NoLostWakeup, Waits
  <2> QED
    BY <2>1, <2>2, <2>3, <2>4, <2>5, <2>6, <2>7, <2>8, <2>9
    DEF Next, Call, Kernel
<1> QED
  BY <1>1, <1>2, TypeCorrect, PTL DEF Spec
------------------------------------------------------------------------------
(***************************************************************************)
(* PingPong.                                                               *)
(***************************************************************************)
HIDE ValuesAssumption
USE NAssumption, MaxDebtAssumption, AmountAssumption DEF Sems, Closed, PCs

Labels == {"unborn", "open", "fork", "loop", "print", "up",
           "close1", "close2", "exit", "done"}
ClosedOne == {"close2", "exit", "done"}

KernelType ==
  /\ count \in [Sems -> Int] /\ bound \in [Sems -> Int]
  /\ pc \in [Procs -> PCs] /\ DOMAIN arg = Procs /\ DOMAIN ret = Procs
  /\ \A p \in Procs : pc[p] \in {"asleep", "woken"} => arg[p] \in Sems

ProgramType ==
  /\ upc \in [Procs -> Labels] /\ i \in [Procs -> Nat]
  /\ index \in [Instances -> 0 .. N] /\ sems \in [Instances -> Seq(Sems)]
  /\ pings \in [Instances -> Nat] /\ pongs \in [Instances -> Nat]

TypeInv == KernelType /\ ProgramType

(***************************************************************************)
(* Until somebody closes a semaphore, the count of every semaphore that an *)
(* instance has opened is not negative, so sem_open finds it in use.       *)
(***************************************************************************)
OwnInv ==
  (\A p \in Procs : upc[p] \notin ClosedOne) =>
    /\ \A a \in Instances : \A j \in DOMAIN sems[a] : count[sems[a][j]] >= 0
    /\ \A a, b \in Instances : a # b =>
         \A j \in DOMAIN sems[a], k \in DOMAIN sems[b] : sems[a][j] # sems[b][k]

(***************************************************************************)
(* An instance that runs alone.  StartInv: its two semaphores are 1 until  *)
(* it forks.  WhereInv: where its processes can be.  TurnInv: from then on *)
(* and until the child closes them there is one token, in one of the two   *)
(* semaphores or with the process that may print, and it says who printed  *)
(* last.  EndInv: the child closes them only after its last line.          *)
(***************************************************************************)
Holds(p) == upc[p] = "up" \/ (upc[p] = "print" /\ pc[p] \in {"user", "kernel"})

SemsInv(a) ==
  /\ Len(sems[a]) <= 2
  /\ \A j \in DOMAIN sems[a] : sems[a][j] < index[a]
  /\ Len(sems[a]) = 2 => sems[a][1] # sems[a][2]

WaitsFor(p) == IF p[2] = "child" THEN sem1(p) ELSE sem2(p)

WhereInv(a) ==
  /\ upc[child(a)] \notin {"open", "fork"}
  /\ upc[parent(a)] \notin {"unborn", "open"} =>
       Len(sems[a]) = 2 \/ (upc[parent(a)] = "done" /\ upc[child(a)] = "unborn")
  /\ \A p \in {parent(a), child(a)} :
       /\ upc[p] = "unborn" => pc[p] = "user"
       /\ pc[p] \in {"asleep", "woken"} => /\ upc[p] = "print"
                                           /\ arg[p] = WaitsFor(p)

LineInv(a) ==
  /\ \A p \in {parent(a), child(a)} :
       /\ i[p] <= Amount
       /\ upc[p] \in {"unborn", "open", "fork"} => i[p] = 0
       /\ upc[p] \in {"print", "up"} => i[p] < Amount
  /\ upc[child(a)] \in {"close1"} \cup ClosedOne => i[child(a)] = Amount
  /\ pings[a] = i[child(a)] + (IF upc[child(a)] = "up" THEN 1 ELSE 0)
  /\ pongs[a] = i[parent(a)] + (IF upc[parent(a)] = "up" THEN 1 ELSE 0)

StartInv(a) ==
  /\ upc[parent(a)] = "unborn" => sems[a] = <<>>
  /\ upc[parent(a)] \in {"unborn", "open"} =>
       \A j \in DOMAIN sems[a] : count[sems[a][j]] = 1 /\ bound[sems[a][j]] = 1

Turn(a, s1, s2) ==
  LET c == child(a)
      p == parent(a)
  IN /\ bound[s1] = 1 /\ bound[s2] = 1
     /\ \/ /\ count[s1] = 1 /\ count[s2] = 0 /\ ~Holds(p) /\ ~Holds(c)
           /\ pings[a] = pongs[a]
        \/ /\ count[s1] = 0 /\ count[s2] = 0 /\ ~Holds(p) /\ Holds(c)
           /\ pings[a] = pongs[a] + (IF upc[c] = "up" THEN 1 ELSE 0)
        \/ /\ count[s1] = 0 /\ count[s2] = 1 /\ ~Holds(p) /\ ~Holds(c)
           /\ pings[a] = pongs[a] + 1
        \/ /\ count[s1] = 0 /\ count[s2] = 0 /\ Holds(p) /\ ~Holds(c)
           /\ pings[a] = pongs[a] + (IF upc[p] = "up" THEN 0 ELSE 1)

TurnInv(a) ==
  upc[parent(a)] \notin {"unborn", "open", "done"}
    /\ upc[child(a)] \notin ClosedOne => Turn(a, sems[a][1], sems[a][2])

EndInv(a) ==
  /\ upc[child(a)] \in ClosedOne => pongs[a] >= Amount - 1
  /\ upc[parent(a)] \in {"close1", "close2", "exit"} => upc[child(a)] = "done"
  /\ upc[parent(a)] = "done" =>
       \/ upc[child(a)] = "done"
       \/ upc[child(a)] = "unborn" /\ i[parent(a)] = 0

InstInv(a) ==
  SemsInv(a) /\ WhereInv(a) /\ LineInv(a) /\ StartInv(a) /\ TurnInv(a) /\ EndInv(a)

AloneInv == Alone => \A a \in Instances : InstInv(a)
-----------------------------------------------------------------------------
\* The processes of an instance.
LEMMA Names ==
  /\ \A a \in Instances :
       /\ parent(a) \in Procs /\ child(a) \in Procs /\ parent(a) # child(a)
       /\ parent(a)[1] = a /\ parent(a)[2] = "parent"
       /\ child(a)[1] = a /\ child(a)[2] = "child"
  /\ \A p \in Procs : /\ p[1] \in Instances
                      /\ p = parent(p[1]) \/ p = child(p[1])
  BY ProcsAssumption DEF parent, child

\* What a step in the kernel does to the processes that do not take it: a
\* sleeper may be woken.
Others(p) ==
  \A q \in Procs \ {p} : /\ arg'[q] = arg[q]
                         /\ pc'[q] = pc[q] \/ (pc[q] = "asleep" /\ pc'[q] = "woken")

\* The effect of the kernel's half of each call.
LEMMA EnterEffect ==
  ASSUME KernelType, NEW p \in Procs, Enter(p) \/ OtherCall(p)
  PROVE  /\ KernelType' /\ Others(p) /\ UNCHANGED <<count, bound>>
         /\ pc[p] \in {"user", "kernel"} /\ pc'[p] \in {"user", "kernel"}
         /\ arg'[p] = arg[p]
  BY DEF Enter, OtherCall, KernelType, Others

\* exit() leaves the semaphores alone.
LEMMA QuitEffect ==
  ASSUME KernelType, NEW p \in Procs, Quit(p)
  PROVE  /\ KernelType' /\ Others(p) /\ UNCHANGED <<count, bound>>
         /\ pc[p] = "kernel" /\ pc'[p] = "exited" /\ arg'[p] = arg[p]
  BY DEF Quit, KernelType, Others

\* The end of a call, whatever it returns.
LEMMA ReturnEffect ==
  ASSUME KernelType, NEW p \in Procs, NEW r, Return(p, r)
  PROVE  /\ pc' \in [Procs -> PCs] /\ DOMAIN arg' = Procs /\ DOMAIN ret' = Procs
         /\ \A q \in Procs : pc'[q] \in {"asleep", "woken"} => arg'[q] \in Sems
         /\ Others(p) /\ pc'[p] = "user" /\ ret'[p] = r
<1>1. /\ pc' = [pc EXCEPT ![p] = "user"] /\ ret' = [ret EXCEPT ![p] = r]
      /\ arg' = [arg EXCEPT ![p] = 0]
  BY DEF Return
<1> QED
  BY <1>1 DEF KernelType, Others

\* sem_open gives the semaphore the count 1, or fails and changes nothing.
LEMMA OpenEffect ==
  ASSUME KernelType, NEW p \in Procs, NEW s, sem_open(p, s, 1)
  PROVE  /\ KernelType' /\ Others(p) /\ pc[p] = "kernel" /\ pc'[p] = "user"
         /\ \/ /\ s \in Sems /\ count[s] = Closed /\ ret'[p] = 1
               /\ count' = [count EXCEPT ![s] = 1]
               /\ bound' = [bound EXCEPT ![s] = 1]
            \/ ret'[p] # 1 /\ UNCHANGED <<count, bound>>
<1>1. CASE Openable(s) /\ SetSem(s, 1) /\ Return(p, 1)
  BY <1>1, ReturnEffect DEF sem_open, Openable, SetSem, KernelType
<1>2. CASE Fail(p, 0)
  BY <1>2, ReturnEffect DEF sem_open, Fail, KernelType
<1> QED
  BY <1>1, <1>2 DEF sem_open

\* sem_close returns, whether there was something to close or not.
LEMMA CloseEffect ==
  ASSUME KernelType, NEW p \in Procs, NEW s, sem_close(p, s)
  PROVE  /\ KernelType' /\ Others(p) /\ pc[p] = "kernel" /\ pc'[p] = "user"
<1>1. CASE /\ Usable(s) /\ count' = [count EXCEPT ![s] = Closed]
           /\ Return(p, 1) /\ UNCHANGED bound
  <2>1. count' \in [Sems -> Int]
    BY <1>1 DEF KernelType, Usable
  <2> QED
    BY <1>1, <2>1, ReturnEffect DEF sem_close, KernelType
<1>2. CASE Fail(p, 0)
  BY <1>2, ReturnEffect DEF sem_close, Fail, KernelType
<1> QED
  BY <1>1, <1>2 DEF sem_close

\* sem_up adds one, or is at the bound or on a closed semaphore.
LEMMA UpEffect ==
  ASSUME KernelType, NEW p \in Procs, NEW s, sem_up(p, s)
  PROVE  /\ KernelType' /\ Others(p) /\ pc[p] = "kernel" /\ pc'[p] = "user"
         /\ UNCHANGED bound
         /\ \/ CanUp(s) /\ count' = [count EXCEPT ![s] = @ + 1]
            \/ ~CanUp(s) /\ UNCHANGED count
<1>1. CASE /\ CanUp(s) /\ count' = [count EXCEPT ![s] = @ + 1]
           /\ pc' = [q \in Procs |-> IF q \in Woken(s) THEN "woken"
                                     ELSE IF q = p THEN "user" ELSE pc[q]]
           /\ ret' = [ret EXCEPT ![p] = 1]
           /\ UNCHANGED <<bound, arg>>
  <2>1. s \in Sems /\ count[s] \in Int /\ pc[p] = "kernel"
    BY <1>1 DEF sem_up, CanUp, Usable, KernelType
  <2>2. KernelType'
    BY <1>1, <2>1 DEF KernelType, Woken, Sleepers
  <2>3. Others(p) /\ pc'[p] = "user"
    BY <1>1, <2>1 DEF Others, Woken, Sleepers
  <2> QED
    BY <1>1, <2>1, <2>2, <2>3
<1>2. CASE ~CanUp(s) /\ Fail(p, 0)
  BY <1>2, ReturnEffect DEF sem_up, Fail, KernelType
<1> QED
  BY <1>1, <1>2 DEF sem_up

\* The loop of sem_down sleeps at the count 0 and takes one otherwise.
LEMMA TakeEffect ==
  ASSUME KernelType, NEW p \in Procs, NEW s \in Sems, TakeOrSleep(p, s)
  PROVE  /\ KernelType' /\ Others(p) /\ UNCHANGED bound
         /\ \/ /\ count[s] = 0 /\ UNCHANGED count
               /\ pc'[p] = "asleep" /\ arg'[p] = s
            \/ /\ count[s] # 0 /\ count' = [count EXCEPT ![s] = @ - 1]
               /\ pc'[p] = "user"
<1>1. CASE /\ count[s] = 0 /\ pc' = [pc EXCEPT ![p] = "asleep"]
           /\ arg' = [arg EXCEPT ![p] = s]
           /\ UNCHANGED <<count, bound, ret>>
  BY <1>1 DEF KernelType, Others
<1>2. CASE /\ count[s] # 0 /\ count' = [count EXCEPT ![s] = @ - 1]
           /\ Return(p, 1) /\ UNCHANGED bound
  <2>1. count' \in [Sems -> Int]
    BY <1>2 DEF KernelType
  <2> QED
    BY <1>2, <2>1, ReturnEffect DEF KernelType
<1> QED
  BY <1>1, <1>2 DEF TakeOrSleep

\* sem_down: as its loop, or a failure on a closed semaphore.
LEMMA DownEffect ==
  ASSUME KernelType, NEW p \in Procs, NEW s, sem_down(p, s)
  PROVE  /\ KernelType' /\ Others(p) /\ UNCHANGED bound /\ pc[p] = "kernel"
         /\ \/ /\ s \in Sems /\ count[s] = 0 /\ UNCHANGED count
               /\ pc'[p] = "asleep" /\ arg'[p] = s
            \/ /\ Usable(s) /\ count[s] # 0 /\ count' = [count EXCEPT ![s] = @ - 1]
               /\ pc'[p] = "user"
            \/ ~Usable(s) /\ UNCHANGED count /\ pc'[p] = "user"
<1>1. CASE Usable(s) /\ TakeOrSleep(p, s)
  BY <1>1, TakeEffect DEF sem_down, Usable
<1>2. CASE ~Usable(s) /\ Fail(p, 0)
  BY <1>2, ReturnEffect DEF sem_down, Fail, KernelType
<1> QED
  BY <1>1, <1>2 DEF sem_down
-----------------------------------------------------------------------------
\* The opening loop: the index that was tried is now behind it, and a semaphore
\* that sem_open gave is in the list with the count 1.
LEMMA OpenLoopEffect ==
  ASSUME TypeInv, NEW a \in Instances, OpenLoop(a)
  PROVE  /\ TypeInv' /\ Others(parent(a)) /\ UNCHANGED <<upc, i, pings, pongs>>
         /\ upc[parent(a)] = "open" /\ pc[parent(a)] = "kernel"
         /\ pc'[parent(a)] = "user"
         /\ index[a] \in Sems /\ Len(sems[a]) # 2
         /\ index' = [index EXCEPT ![a] = index[a] + 1]
         /\ \/ /\ count[index[a]] = Closed
               /\ count' = [count EXCEPT ![index[a]] = 1]
               /\ bound' = [bound EXCEPT ![index[a]] = 1]
               /\ sems' = [sems EXCEPT ![a] = Append(sems[a], index[a])]
            \/ UNCHANGED <<count, bound, sems>>
<1>1. PICK p \in Procs : p = parent(a)
  BY Names
<1>2. /\ upc[p] = "open" /\ Len(sems[a]) # 2 /\ index[a] < N
      /\ sem_open(p, index[a], 1)
      /\ sems' = [sems EXCEPT ![a] =
                    IF ret'[p] = 1 THEN Append(@, index[a]) ELSE @]
      /\ index' = [index EXCEPT ![a] = @ + 1]
      /\ UNCHANGED <<upc, i, pings, pongs>>
  BY <1>1 DEF OpenLoop
<1>3. index[a] \in Sems /\ index[a] \in Nat /\ sems[a] \in Seq(Sems)
  BY <1>2 DEF TypeInv, ProgramType
<1>4. /\ KernelType' /\ Others(p) /\ pc[p] = "kernel" /\ pc'[p] = "user"
      /\ \/ /\ count[index[a]] = Closed /\ ret'[p] = 1
            /\ count' = [count EXCEPT ![index[a]] = 1]
            /\ bound' = [bound EXCEPT ![index[a]] = 1]
         \/ ret'[p] # 1 /\ UNCHANGED <<count, bound>>
  BY <1>2, OpenEffect DEF TypeInv
<1>5. index' = [index EXCEPT ![a] = index[a] + 1]
      /\ index' \in [Instances -> 0 .. N]
  BY <1>2, <1>3 DEF TypeInv, ProgramType
<1>6. CASE ret'[p] = 1
  <2>1. sems' = [sems EXCEPT ![a] = Append(sems[a], index[a])]
    BY <1>2, <1>6 DEF TypeInv, ProgramType
  <2>2. Append(sems[a], index[a]) \in Seq(Sems)
    BY <1>3
  <2>3. sems' \in [Instances -> Seq(Sems)]
    BY <2>1, <2>2 DEF TypeInv, ProgramType
  <2> QED
    BY <1>1, <1>2, <1>3, <1>4, <1>5, <1>6, <2>1, <2>3 DEF TypeInv, ProgramType
<1>7. CASE ret'[p] # 1
  <2>1. sems' = sems
    BY <1>2, <1>7 DEF TypeInv, ProgramType
  <2> QED
    BY <1>1, <1>2, <1>3, <1>4, <1>5, <1>7, <2>1 DEF TypeInv, ProgramType
<1> QED
  BY <1>6, <1>7

\* Every other step of the program is at a label and goes to a label; the
\* semaphores are opened already.
LEMMA StepType ==
  ASSUME TypeInv, NEW p \in Procs,
         \/ \E a \in Instances : p = parent(a) /\ (OpenFailed(a) \/ FirstDown(a) \/ Fork(a))
         \/ Trap(p) \/ LoopDown(p) \/ LoopPrint(p) \/ LoopUp(p)
         \/ Wait(p) \/ Close(p) \/ ExitZero(p) \/ Woke(p)
  PROVE  TypeInv' /\ Others(p) /\ UNCHANGED <<index, sems>>
<1>0. KernelType /\ ProgramType
  BY DEF TypeInv
<1>g. ASSUME NEW l \in Labels, goto(p, l)
      PROVE  upc' \in [Procs -> Labels]
  BY <1>0, <1>g DEF goto, ProgramType
<1>1. ASSUME NEW a \in Instances, p = parent(a),
             OpenFailed(a) \/ FirstDown(a) \/ Fork(a)
      PROVE  TypeInv' /\ Others(p) /\ UNCHANGED <<index, sems>>
  <2>1. UNCHANGED <<i, index, sems, pings, pongs>>
    BY <1>1 DEF OpenFailed, FirstDown, Fork
  <2>2. upc' \in [Procs -> Labels]
    <3>1. upc' = [upc EXCEPT ![p] = "loop", ![child(a)] = "loop"]
          \/ (\E l \in Labels : goto(p, l))
      BY <1>1 DEF OpenFailed, FirstDown, Fork, Labels
    <3>2. child(a) \in Procs
      BY Names
    <3> QED
      BY <1>0, <1>g, <3>1, <3>2 DEF ProgramType, Labels
  <2>3. KernelType' /\ Others(p)
    BY <1>0, <1>1, QuitEffect, DownEffect, EnterEffect
    DEF OpenFailed, FirstDown, Fork
  <2> QED
    BY <1>0, <2>1, <2>2, <2>3 DEF TypeInv, ProgramType
<1>2. CASE Trap(p)
  BY <1>0, <1>2, EnterEffect DEF Trap, uvars, TypeInv, ProgramType
<1>3. CASE Woke(p)
  <2>1. arg[p] \in Sems
    BY <1>0, <1>3 DEF Woke, sem_down_woken, KernelType
  <2> QED
    BY <1>0, <1>3, <2>1, TakeEffect
    DEF Woke, sem_down_woken, uvars, TypeInv, ProgramType
<1>4. CASE LoopDown(p)
  BY <1>0, <1>4, <1>g, DownEffect
  DEF LoopDown, TakeTurn, TypeInv, ProgramType, Labels
<1>5. CASE LoopPrint(p)
  <2>1. p[1] \in Instances /\ pings[p[1]] \in Nat /\ pongs[p[1]] \in Nat
    BY <1>0, Names DEF ProgramType
  <2>2. pings' \in [Instances -> Nat] /\ pongs' \in [Instances -> Nat]
    <3>1. \/ pings' = [pings EXCEPT ![p[1]] = @ + 1] /\ pongs' = pongs
          \/ pongs' = [pongs EXCEPT ![p[1]] = @ + 1] /\ pings' = pings
      BY <1>5 DEF LoopPrint
    <3>2. [pings EXCEPT ![p[1]] = @ + 1] \in [Instances -> Nat]
      BY <1>0, <2>1 DEF ProgramType
    <3>3. [pongs EXCEPT ![p[1]] = @ + 1] \in [Instances -> Nat]
      BY <1>0, <2>1 DEF ProgramType
    <3>4. pings \in [Instances -> Nat] /\ pongs \in [Instances -> Nat]
      BY <1>0 DEF ProgramType
    <3> QED
      BY <3>1, <3>2, <3>3, <3>4
  <2> QED
    BY <1>0, <1>5, <1>g, <2>2, EnterEffect
    DEF LoopPrint, TypeInv, ProgramType, Labels
<1>6. CASE LoopUp(p)
  <2>1. i' \in [Procs -> Nat]
    BY <1>0, <1>6 DEF LoopUp, ProgramType
  <2> QED
    BY <1>0, <1>6, <1>g, <2>1, UpEffect
    DEF LoopUp, TypeInv, ProgramType, Labels
<1>7. CASE Wait(p)
  BY <1>0, <1>7, <1>g, EnterEffect DEF Wait, TypeInv, ProgramType, Labels
<1>8. CASE Close(p)
  BY <1>0, <1>8, <1>g, CloseEffect DEF Close, TypeInv, ProgramType, Labels
<1>9. CASE ExitZero(p)
  BY <1>0, <1>9, <1>g, QuitEffect DEF ExitZero, TypeInv, ProgramType, Labels
<1> QED
  BY <1>1, <1>2, <1>3, <1>4, <1>5, <1>6, <1>7, <1>8, <1>9

\* The same for a whole step.
LEMMA NextType ==
  ASSUME TypeInv, [PPNext]_allvars
  PROVE  TypeInv'
<1>1. CASE UNCHANGED allvars
  BY <1>1 DEF allvars, vars, uvars, TypeInv, KernelType, ProgramType
<1>2. ASSUME NEW p \in Procs, Program(p) \/ Woke(p)
      PROVE  TypeInv'
  BY <1>2, OpenLoopEffect, StepType DEF Program
<1> QED
  BY <1>1, <1>2 DEF PPNext

\* The types hold throughout.
LEMMA TypeAlways == PPSpec => []TypeInv
<1>1. PPInit => TypeInv
  <2> SUFFICES ASSUME PPInit PROVE TypeInv
    OBVIOUS
  <2>1. KernelType
    BY DEF PPInit, Init, KernelType
  <2>2. upc \in [Procs -> Labels]
    BY DEF PPInit, Labels
  <2>3. \A a \in Instances : <<>> \in Seq(Sems)
    OBVIOUS
  <2> QED
    BY <2>1, <2>2, <2>3 DEF PPInit, TypeInv, ProgramType
<1> QED
  BY <1>1, NextType, PTL DEF PPSpec
-----------------------------------------------------------------------------
\* The control flow of pingpong(): from label l to label m.
Edge(l, m) ==
  \/ l = "open" /\ m \in {"done", "fork"}
  \/ l = "fork" /\ m = "loop"
  \/ l = "loop" /\ m \in {"print", "close1"}
  \/ l = "print" /\ m = "up"
  \/ l = "up" /\ m = "loop"
  \/ l = "close1" /\ m = "close2"
  \/ l = "close2" /\ m = "exit"
  \/ l = "exit" /\ m = "done"

\* Every step of a program moves one label along Edge, or forks, or stays.
LEMMA Flow ==
  ASSUME TypeInv, NEW p \in Procs, Program(p) \/ Woke(p)
  PROVE  \/ UNCHANGED upc
         \/ \E m \in Labels : Edge(upc[p], m) /\ upc' = [upc EXCEPT ![p] = m]
         \/ \E a \in Instances :
              /\ p = parent(a) /\ upc[p] = "fork"
              /\ upc' = [upc EXCEPT ![p] = "loop", ![child(a)] = "loop"]
<1> USE DEF Labels
<1>1. CASE Trap(p) \/ Woke(p)
  BY <1>1 DEF Trap, Woke, uvars
<1>2. ASSUME NEW a \in Instances, p = parent(a),
             OpenLoop(a) \/ OpenFailed(a) \/ FirstDown(a) \/ Fork(a)
      PROVE  \/ UNCHANGED upc
             \/ \E m \in Labels : Edge(upc[p], m) /\ upc' = [upc EXCEPT ![p] = m]
             \/ /\ upc[p] = "fork"
                /\ upc' = [upc EXCEPT ![p] = "loop", ![child(a)] = "loop"]
  <2>1. CASE OpenLoop(a)
    BY <2>1 DEF OpenLoop
  <2>2. CASE OpenFailed(a) \/ FirstDown(a) \/ Fork(a)
    BY <1>2, <2>2 DEF OpenFailed, FirstDown, Fork, goto, Edge
  <2> QED
    BY <1>2, <2>1, <2>2
<1>3. CASE LoopDown(p) \/ LoopPrint(p) \/ LoopUp(p)
  BY <1>3 DEF LoopDown, LoopPrint, LoopUp, goto, Edge
<1>4. CASE Wait(p) \/ Close(p) \/ ExitZero(p)
  BY <1>4 DEF Wait, Close, ExitZero, goto, Edge
<1> QED
  BY <1>1, <1>2, <1>3, <1>4 DEF Program

\* A child is not born before the fork, and then never again.
BirthInv ==
  \A a \in Instances :
    upc[parent(a)] \in {"unborn", "open", "fork"} => upc[child(a)] = "unborn"

\* fork() is the only step that gives birth to a child.
LEMMA BirthStep ==
  ASSUME TypeInv, BirthInv, NEW p \in Procs, Program(p) \/ Woke(p)
  PROVE  BirthInv'
<1>0. upc \in [Procs -> Labels]
  BY DEF TypeInv, ProgramType
<1> SUFFICES ASSUME NEW a \in Instances,
                    upc'[parent(a)] \in {"unborn", "open", "fork"}
             PROVE  upc'[child(a)] = "unborn"
  BY DEF BirthInv
<1>1. parent(a) \in Procs /\ child(a) \in Procs /\ parent(a) # child(a)
  BY Names
<1>2. CASE UNCHANGED upc
  BY <1>2 DEF BirthInv
<1>3. ASSUME NEW m \in Labels, Edge(upc[p], m), upc' = [upc EXCEPT ![p] = m]
      PROVE  upc'[child(a)] = "unborn"
  <2>1. upc'[p] = m /\ upc[p] # "unborn" /\ m \notin {"unborn", "open"}
        /\ (m = "fork" => upc[p] = "open")
    BY <1>0, <1>3 DEF Edge
  <2>2. \A q \in Procs : q # p => upc'[q] = upc[q]
    BY <1>0, <1>3
  <2> QED
    BY <1>1, <2>1, <2>2 DEF BirthInv
<1>4. ASSUME NEW b \in Instances, p = parent(b),
             upc' = [upc EXCEPT ![p] = "loop", ![child(b)] = "loop"]
      PROVE  upc'[child(a)] = "unborn"
  <2>1. child(b) \in Procs /\ parent(b) # child(b)
        /\ (a # b => parent(a) # parent(b) /\ parent(a) # child(b)
                     /\ child(a) # child(b) /\ child(a) # parent(b))
    BY Names
  <2>2. upc'[p] = "loop"
    BY <1>0, <1>4, <2>1
  <2>3. a # b
    BY <1>4, <2>2
  <2>4. upc'[parent(a)] = upc[parent(a)] /\ upc'[child(a)] = upc[child(a)]
    BY <1>0, <1>1, <1>4, <2>1, <2>3
  <2> QED
    BY <2>4 DEF BirthInv
<1> QED
  BY <1>2, <1>3, <1>4, Flow

\* No child is born before its parent has forked.
LEMMA BirthAlways == PPSpec => []BirthInv
<1>1. PPInit => BirthInv
  BY Names DEF PPInit, BirthInv
<1>2. TypeInv /\ BirthInv /\ [PPNext]_allvars => BirthInv'
  BY BirthStep DEF PPNext, allvars, uvars, BirthInv
<1> QED
  BY <1>1, <1>2, TypeAlways, PTL DEF PPSpec
-----------------------------------------------------------------------------
\* Nobody has closed a semaphore, or failed to open his two.
NoneClosed == \A p \in Procs : upc[p] \notin ClosedOne

\* Whoever has closed a semaphore stays one who has.
LEMMA ClosedForGood ==
  ASSUME TypeInv, BirthInv, NEW p \in Procs, Program(p) \/ Woke(p), NoneClosed'
  PROVE  NoneClosed
<1>0. upc \in [Procs -> Labels]
  BY DEF TypeInv, ProgramType
<1> SUFFICES ASSUME NEW q \in Procs, upc[q] \in ClosedOne PROVE FALSE
  BY DEF NoneClosed
<1>1. CASE UNCHANGED upc
  BY <1>1 DEF NoneClosed
<1>2. ASSUME NEW m \in Labels, Edge(upc[p], m), upc' = [upc EXCEPT ![p] = m]
      PROVE  FALSE
  BY <1>0, <1>2 DEF NoneClosed, Edge, ClosedOne
<1>3. ASSUME NEW a \in Instances, p = parent(a), upc[p] = "fork",
             upc' = [upc EXCEPT ![p] = "loop", ![child(a)] = "loop"]
      PROVE  FALSE
  <2>1. upc[child(a)] = "unborn" /\ child(a) \in Procs
    BY <1>3, Names DEF BirthInv
  <2> QED
    BY <1>0, <1>3, <2>1 DEF NoneClosed, ClosedOne
<1> QED
  BY <1>1, <1>2, <1>3, Flow

\* A step other than OpenLoop and Close leaves a count that is not negative so.
LEMMA CountsKept ==
  ASSUME TypeInv, NEW p \in Procs, Program(p) \/ Woke(p), ~Close(p),
         \A a \in Instances : ~(p = parent(a) /\ OpenLoop(a)),
         NEW s \in Sems, count[s] >= 0
  PROVE  count'[s] >= 0
<1>0. KernelType /\ count \in [Sems -> Int]
  BY DEF TypeInv, KernelType
<1>d. ASSUME NEW t \in Sems, count[t] # 0 \/ s # t,
             count' = [count EXCEPT ![t] = @ - 1]
      PROVE  count'[s] >= 0
  BY <1>0, <1>d
<1>1. ASSUME NEW t, sem_down(p, t) PROVE count'[s] >= 0
  <2>1. \/ UNCHANGED count
        \/ t \in Sems /\ count[t] # 0 /\ count' = [count EXCEPT ![t] = @ - 1]
    BY <1>0, <1>1, DownEffect DEF Usable
  <2> QED
    BY <1>d, <2>1
<1>2. ASSUME NEW t, sem_up(p, t) PROVE count'[s] >= 0
  <2>1. \/ UNCHANGED count
        \/ t \in Sems /\ count' = [count EXCEPT ![t] = @ + 1]
    BY <1>0, <1>2, UpEffect DEF CanUp, Usable
  <2> QED
    BY <1>0, <2>1
<1>3. CASE Woke(p)
  <2>1. arg[p] \in Sems /\ TakeOrSleep(p, arg[p])
    BY <1>0, <1>3 DEF Woke, sem_down_woken, KernelType
  <2>2. \/ UNCHANGED count
        \/ count[arg[p]] # 0 /\ count' = [count EXCEPT ![arg[p]] = @ - 1]
    BY <1>0, <2>1, TakeEffect
  <2> QED
    BY <1>d, <2>1, <2>2
<1>4. CASE UNCHANGED count
  BY <1>4
<1>5. \/ (\E t : sem_down(p, t)) \/ (\E t : sem_up(p, t)) \/ Woke(p)
      \/ UNCHANGED count
  <2>1. CASE Trap(p) \/ LoopPrint(p) \/ Wait(p) \/ ExitZero(p)
    BY <2>1 DEF Trap, Enter, LoopPrint, Wait, ExitZero, OtherCall, Quit
  <2>2. CASE LoopDown(p) \/ LoopUp(p)
    BY <2>2 DEF LoopDown, LoopUp, TakeTurn
  <2>3. ASSUME NEW a \in Instances, p = parent(a),
               OpenFailed(a) \/ FirstDown(a) \/ Fork(a)
        PROVE  (\E t : sem_down(p, t)) \/ UNCHANGED count
    BY <2>3 DEF OpenFailed, FirstDown, Fork, OtherCall, Quit
  <2> QED
    BY <2>1, <2>2, <2>3 DEF Program
<1> QED
  BY <1>1, <1>2, <1>3, <1>4, <1>5

\* The opening loop of one instance gets no semaphore of another.
LEMMA OpenOwn ==
  ASSUME TypeInv, OwnInv, NoneClosed, NEW b \in Instances, OpenLoop(b)
  PROVE  OwnInv'
<1>t. \A a \in Instances : \A j \in DOMAIN sems[a] : sems[a][j] \in Sems
  BY DEF TypeInv, ProgramType
<1>0. /\ \A a \in Instances : \A j \in DOMAIN sems[a] :
           sems[a][j] \in Sems /\ count[sems[a][j]] >= 0
      /\ \A a, c \in Instances : a # c =>
           \A j \in DOMAIN sems[a], k \in DOMAIN sems[c] : sems[a][j] # sems[c][k]
  BY <1>t DEF OwnInv, NoneClosed
<1>1. CASE UNCHANGED <<count, sems>>
  BY <1>0, <1>1 DEF OwnInv
<1>2. ASSUME count[index[b]] = Closed, index[b] \in Sems,
             count' = [count EXCEPT ![index[b]] = 1],
             sems' = [sems EXCEPT ![b] = Append(sems[b], index[b])]
      PROVE  OwnInv'
  <2>1. PICK x \in Sems : x = index[b]
    BY <1>2
  <2>2. \A a \in Instances : \A j \in DOMAIN sems'[a] :
          \/ j \in DOMAIN sems[a] /\ sems'[a][j] = sems[a][j]
          \/ a = b /\ sems'[a][j] = x
    <3> SUFFICES ASSUME NEW a \in Instances, NEW j \in DOMAIN sems'[a]
                 PROVE  \/ j \in DOMAIN sems[a] /\ sems'[a][j] = sems[a][j]
                        \/ a = b /\ sems'[a][j] = x
      OBVIOUS
    <3>1. sems[a] \in Seq(Sems) /\ DOMAIN sems = Instances
      BY DEF TypeInv, ProgramType
    <3>2. CASE a = b
      <4>1. sems'[a] = Append(sems[a], x)
        BY <1>2, <2>1, <3>1, <3>2
      <4>2. j \in 1 .. Len(sems[a]) + 1
        BY <3>1, <4>1
      <4>3. CASE j = Len(sems[a]) + 1
        BY <3>1, <3>2, <4>1, <4>3
      <4>4. CASE j \in 1 .. Len(sems[a])
        BY <3>1, <4>1, <4>4
      <4> QED
        BY <3>1, <4>2, <4>3, <4>4
    <3>3. CASE a # b
      BY <1>2, <3>1, <3>3
    <3> QED
      BY <3>2, <3>3
  <2>3. \A a \in Instances : \A j \in DOMAIN sems[a] : sems[a][j] # x
    BY <1>0, <1>2, <2>1
  <2>4. \A s \in Sems : count'[s] = IF s = x THEN 1 ELSE count[s]
    BY <1>2, <2>1 DEF TypeInv, KernelType
  <2>5. \A a \in Instances : \A j \in DOMAIN sems'[a] : count'[sems'[a][j]] >= 0
    BY <1>0, <2>2, <2>3, <2>4
  <2>6. \A a, c \in Instances : a # c =>
          \A j \in DOMAIN sems'[a], k \in DOMAIN sems'[c] : sems'[a][j] # sems'[c][k]
    BY <1>0, <2>2, <2>3
  <2> QED
    BY <2>5, <2>6 DEF OwnInv
<1> QED
  BY <1>1, <1>2, OpenLoopEffect

\* pingpong.c: however the opening loops of concurrent instances interleave, no
\* two instances get the same semaphore, until one of them begins to close.
THEOREM OpenedApart == PPSpec => []SharedOnlyAfterClose
<1>1. PPInit => OwnInv
  BY DEF PPInit, OwnInv
<1>2. TypeInv /\ BirthInv /\ OwnInv /\ [PPNext]_allvars => OwnInv'
  <2> SUFFICES ASSUME TypeInv, BirthInv, OwnInv, [PPNext]_allvars PROVE OwnInv'
    OBVIOUS
  <2>1. CASE UNCHANGED allvars
    BY <2>1 DEF allvars, vars, uvars, OwnInv
  <2>2. ASSUME NEW p \in Procs, Program(p) \/ Woke(p) PROVE OwnInv'
    <3> SUFFICES ASSUME NoneClosed' PROVE OwnInv'
      BY DEF OwnInv, NoneClosed
    <3>1. NoneClosed
      BY <2>2, ClosedForGood
    <3>2. CASE \E a \in Instances : p = parent(a) /\ OpenLoop(a)
      BY <3>1, <3>2, OpenOwn
    <3>3. CASE \A a \in Instances : ~(p = parent(a) /\ OpenLoop(a))
      <4>1. ~Close(p)
        <5>1. SUFFICES ASSUME Close(p) PROVE FALSE
          OBVIOUS
        <5>2. upc'[p] \in {"close2", "exit"}
          BY <5>1 DEF Close, goto, TypeInv, ProgramType
        <5> QED
          BY <5>2 DEF NoneClosed, ClosedOne
      <4>2. UNCHANGED sems
        BY <2>2, <3>3, StepType DEF Program
      <4>3. \A s \in Sems : count[s] >= 0 => count'[s] >= 0
        BY <2>2, <3>3, <4>1, CountsKept
      <4>4. \A a \in Instances : \A j \in DOMAIN sems[a] :
              sems[a][j] \in Sems /\ count[sems[a][j]] >= 0
        BY <3>1 DEF OwnInv, NoneClosed, TypeInv, ProgramType
      <4> QED
        BY <3>1, <4>2, <4>3, <4>4 DEF OwnInv, NoneClosed
    <3> QED
      BY <3>2, <3>3
  <2> QED
    BY <2>1, <2>2 DEF PPNext
<1>3. OwnInv => SharedOnlyAfterClose
  BY DEF OwnInv, ClosedOne, SharedOnlyAfterClose
<1> QED
  BY <1>1, <1>2, <1>3, TypeAlways, BirthAlways, PTL DEF PPSpec
-----------------------------------------------------------------------------
\* What the parts of the invariant are about.
LEMMA View ==
  ASSUME TypeInv, NEW a \in Instances
  PROVE  /\ i[parent(a)] \in Nat /\ i[child(a)] \in Nat
         /\ pings[a] \in Nat /\ pongs[a] \in Nat
         /\ sems[a] \in Seq(Sems) /\ Len(sems[a]) \in Nat
         /\ DOMAIN sems[a] = 1 .. Len(sems[a])
         /\ index[a] \in 0 .. N
         /\ upc[parent(a)] \in Labels /\ upc[child(a)] \in Labels
  BY Names DEF TypeInv, ProgramType

\* p goes to label m, nobody else moves.
At(p, m) == upc'[p] = m /\ \A q \in Procs \ {p} : upc'[q] = upc[q]

\* goto moves p alone.
LEMMA GotoAt ==
  ASSUME TypeInv, NEW p \in Procs, NEW m, goto(p, m)
  PROVE  At(p, m)
  BY DEF TypeInv, ProgramType, goto, At

\* The lines printed are the rounds, and nobody makes too many.
LEMMA LineStep ==
  ASSUME TypeInv, NEW a \in Instances, LineInv(a),
         NEW p \in {parent(a), child(a)}, NEW m \in Labels, At(p, m),
         Edge(upc[p], m), upc[p] \in {"open", "fork"} => p = parent(a),
         m = "print" => i[p] < Amount, m = "close1" => i[p] >= Amount,
         \A q \in {parent(a), child(a)} :
            i'[q] = i[q] + (IF q = p /\ upc[p] = "up" THEN 1 ELSE 0),
         pings'[a] = pings[a] + (IF p = child(a) /\ upc[p] = "print" THEN 1 ELSE 0),
         pongs'[a] = pongs[a] + (IF p = parent(a) /\ upc[p] = "print" THEN 1 ELSE 0)
  PROVE  LineInv(a)'
<1>1. /\ parent(a) \in Procs /\ child(a) \in Procs /\ parent(a) # child(a)
      /\ i[parent(a)] \in Nat /\ i[child(a)] \in Nat
      /\ pings[a] \in Nat /\ pongs[a] \in Nat
  BY Names, View
<1>2. CASE p = parent(a)
  <2>1. /\ upc'[parent(a)] = m /\ upc'[child(a)] = upc[child(a)]
        /\ i'[child(a)] = i[child(a)] /\ pings'[a] = pings[a]
        /\ i'[parent(a)] = i[parent(a)] + (IF upc[parent(a)] = "up" THEN 1 ELSE 0)
        /\ pongs'[a] = pongs[a] + (IF upc[parent(a)] = "print" THEN 1 ELSE 0)
    BY <1>1, <1>2 DEF At
  <2> QED
    BY <1>1, <1>2, <2>1 DEF LineInv, Edge
<1>3. CASE p = child(a)
  <2>1. /\ upc'[child(a)] = m /\ upc'[parent(a)] = upc[parent(a)]
        /\ i'[parent(a)] = i[parent(a)] /\ pongs'[a] = pongs[a]
        /\ i'[child(a)] = i[child(a)] + (IF upc[child(a)] = "up" THEN 1 ELSE 0)
        /\ pings'[a] = pings[a] + (IF upc[child(a)] = "print" THEN 1 ELSE 0)
    BY <1>1, <1>3 DEF At
  <2> QED
    BY <1>1, <1>3, <2>1 DEF LineInv, Edge, ClosedOne
<1> QED
  BY <1>2, <1>3

\* A step that neither prints nor counts a round keeps the lines too.
LEMMA LineQuiet ==
  ASSUME TypeInv, NEW a \in Instances, LineInv(a),
         NEW p \in {parent(a), child(a)}, NEW m \in Labels, At(p, m),
         Edge(upc[p], m), upc[p] \in {"open", "fork"} => p = parent(a),
         m = "print" => i[p] < Amount, m = "close1" => i[p] >= Amount,
         upc[p] \notin {"print", "up"}, UNCHANGED <<i, pings, pongs>>
  PROVE  LineInv(a)'
<1>1. /\ \A q \in {parent(a), child(a)} :
           i'[q] = i[q] + (IF q = p /\ upc[p] = "up" THEN 1 ELSE 0)
      /\ pings'[a] = pings[a] + (IF p = child(a) /\ upc[p] = "print" THEN 1 ELSE 0)
      /\ pongs'[a] = pongs[a] + (IF p = parent(a) /\ upc[p] = "print" THEN 1 ELSE 0)
  BY View
<1> QED
  BY <1>1, LineStep

\* Where the two processes are: p has gone to m, or stayed, and is not in the
\* kernel unless it went to sleep for its turn.
LEMMA WhereStep ==
  ASSUME TypeInv, NEW a \in Instances, WhereInv(a),
         NEW p \in {parent(a), child(a)}, Others(p), UNCHANGED sems,
         \A q \in {parent(a), child(a)} : q # p => upc'[q] = upc[q],
         upc'[p] \notin {"unborn", "open"},
         upc'[p] \in {"fork"} => p = parent(a),
         p = parent(a) => \/ Len(sems[a]) = 2
                          \/ upc'[p] = "done" /\ upc[child(a)] = "unborn",
         p = child(a) => upc[parent(a)] \notin {"unborn", "open"} /\ Len(sems[a]) = 2,
         \/ pc'[p] \in {"user", "kernel", "exited"}
         \/ upc'[p] = "print" /\ arg'[p] = WaitsFor(p)
  PROVE  WhereInv(a)'
<1>1. /\ parent(a) \in Procs /\ child(a) \in Procs /\ parent(a) # child(a)
  BY Names
<1>2. \A q \in {parent(a), child(a)} : WaitsFor(q)' = WaitsFor(q)
  BY DEF WaitsFor, sem1, sem2
<1>3. upc'[child(a)] \notin {"open", "fork"}
  BY <1>1 DEF WhereInv
<1>4. upc'[parent(a)] \notin {"unborn", "open"} =>
        Len(sems[a]) = 2 \/ (upc'[parent(a)] = "done" /\ upc'[child(a)] = "unborn")
  BY <1>1 DEF WhereInv
<1>5. ASSUME NEW q \in {parent(a), child(a)}
      PROVE  /\ upc'[q] = "unborn" => pc'[q] = "user"
             /\ pc'[q] \in {"asleep", "woken"} => /\ upc'[q] = "print"
                                                  /\ arg'[q] = WaitsFor(q)
  <2>1. CASE q = p
    BY <2>1
  <2>2. CASE q # p
    BY <1>1, <2>2 DEF WhereInv, Others
  <2> QED
    BY <2>1, <2>2
<1> QED
  BY <1>2, <1>3, <1>4, <1>5 DEF WhereInv

\* A process that does not take the step keeps the token, or keeps lacking it.
LEMMA HoldsKept ==
  ASSUME NEW p \in Procs, Others(p), NEW q \in Procs \ {p}, upc'[q] = upc[q]
  PROVE  (Holds(q)' <=> Holds(q))
  BY DEF Others, Holds

\* p takes its turn, or sleeps because it is not its turn.
LEMMA TakeTurn1 ==
  ASSUME TypeInv, NEW a \in Instances, NEW s1 \in Sems, NEW s2 \in Sems, s1 # s2,
         Turn(a, s1, s2), NEW p \in {parent(a), child(a)}, ~Holds(p), Others(p),
         \A q \in {parent(a), child(a)} : q # p => upc'[q] = upc[q],
         UNCHANGED <<bound, pings, pongs>>,
         NEW w \in Sems, w = IF p = child(a) THEN s1 ELSE s2,
         \/ count[w] = 0 /\ UNCHANGED count /\ ~Holds(p)'
         \/ /\ count[w] # 0 /\ count' = [count EXCEPT ![w] = @ - 1]
            /\ upc'[p] = "print" /\ pc'[p] = "user"
  PROVE  Turn(a, s1, s2)'
<1>1. /\ parent(a) \in Procs /\ child(a) \in Procs /\ parent(a) # child(a)
      /\ pings[a] \in Nat /\ pongs[a] \in Nat
  BY Names, View
<1>2. \A q \in {parent(a), child(a)} : q # p => (Holds(q)' <=> Holds(q))
  BY <1>1, HoldsKept
<1>3. CASE count[w] = 0 /\ UNCHANGED count /\ ~Holds(p)'
  <2>1. \A q \in {parent(a), child(a)} :
          /\ (Holds(q)' <=> Holds(q))
          /\ Holds(q) => upc'[q] = upc[q]
    BY <1>2, <1>3
  <2> QED
    BY <1>1, <1>3, <2>1 DEF Turn
<1>4. CASE /\ count[w] # 0 /\ count' = [count EXCEPT ![w] = @ - 1]
           /\ upc'[p] = "print" /\ pc'[p] = "user"
  <2>1. Holds(p)' /\ upc'[p] # "up"
    BY <1>4 DEF Holds
  <2>2. \A s \in Sems : count[s] \in Int
                        /\ count'[s] = IF s = w THEN count[s] - 1 ELSE count[s]
    BY <1>4 DEF TypeInv, KernelType
  <2>3. CASE p = child(a)
    BY <1>1, <1>2, <1>4, <2>1, <2>2, <2>3 DEF Turn
  <2>4. CASE p = parent(a)
    BY <1>1, <1>2, <1>4, <2>1, <2>2, <2>4 DEF Turn
  <2> QED
    BY <2>3, <2>4
<1> QED
  BY <1>3, <1>4

\* The facts about the two semaphores of an instance that has forked.
LEMMA Forked ==
  ASSUME TypeInv, BirthInv, NEW a \in Instances, InstInv(a),
         NEW p \in {parent(a), child(a)},
         upc[p] \notin {"unborn", "open", "done"}
  PROVE  /\ Len(sems[a]) = 2 /\ sems[a][1] \in Sems /\ sems[a][2] \in Sems
         /\ sems[a][1] # sems[a][2]
         /\ upc[parent(a)] \notin {"unborn", "open"}
         /\ p = child(a) => upc[parent(a)] \notin {"fork", "done"}
         /\ upc[child(a)] \notin ClosedOne =>
              Turn(a, sems[a][1], sems[a][2]) /\ upc[parent(a)] # "done"
<1>1. upc[parent(a)] \notin {"unborn", "open"}
  BY DEF BirthInv
<1>2. p = child(a) => upc[parent(a)] \notin {"fork", "done"}
  BY DEF BirthInv, InstInv, EndInv
<1>3. upc[parent(a)] = "done" => upc[child(a)] = "done"
  BY <1>2 DEF InstInv, EndInv
<1>4. Len(sems[a]) = 2
  BY <1>1, <1>2, <1>3 DEF InstInv, WhereInv
<1>5. sems[a][1] \in Sems /\ sems[a][2] \in Sems
  BY <1>4, View
<1>6. upc[child(a)] \notin ClosedOne =>
        Turn(a, sems[a][1], sems[a][2]) /\ upc[parent(a)] # "done"
  BY <1>1, <1>3 DEF InstInv, TurnInv, ClosedOne
<1> QED
  BY <1>1, <1>2, <1>4, <1>5, <1>6 DEF InstInv, SemsInv

\* The parts that a step after the fork cannot disturb.
LEMMA ForkedStep ==
  ASSUME TypeInv, BirthInv, NEW a \in Instances, InstInv(a),
         NEW p \in {parent(a), child(a)},
         upc[p] \notin {"unborn", "open", "done"},
         upc'[parent(a)] \notin {"unborn", "open"},
         UNCHANGED <<sems, index>>
  PROVE  SemsInv(a)' /\ StartInv(a)'
  BY DEF InstInv, SemsInv, StartInv

\* sem_down at the top of the loop.
LEMMA LoopDownAlone ==
  ASSUME TypeInv, BirthInv, NEW a \in Instances, InstInv(a),
         NEW p \in {parent(a), child(a)}, LoopDown(p)
  PROVE  InstInv(a)'
<1>1. /\ parent(a) \in Procs /\ child(a) \in Procs /\ parent(a) # child(a)
      /\ p \in Procs /\ p[1] = a /\ (p[2] = "child" <=> p = child(a))
  BY Names
<1>2. PICK w : w = IF p = child(a) THEN sems[a][1] ELSE sems[a][2]
  OBVIOUS
<1>3. /\ upc[p] = "loop" /\ i[p] < Amount /\ sem_down(p, w)
      /\ At(p, "print") /\ UNCHANGED <<i, index, sems, pings, pongs>>
  BY <1>1, <1>2, GotoAt DEF LoopDown, TakeTurn, Rounds, sem1, sem2
<1>4. /\ Len(sems[a]) = 2 /\ sems[a][1] \in Sems /\ sems[a][2] \in Sems
      /\ sems[a][1] # sems[a][2] /\ w \in Sems
      /\ upc[parent(a)] \notin {"unborn", "open"}
      /\ p = child(a) => upc[parent(a)] \notin {"fork", "done"}
      /\ upc[child(a)] \notin ClosedOne => Turn(a, sems[a][1], sems[a][2])
  BY <1>2, <1>3, Forked
<1>5. /\ Others(p) /\ UNCHANGED bound
      /\ \/ count[w] = 0 /\ UNCHANGED count /\ pc'[p] = "asleep" /\ arg'[p] = w
         \/ /\ count[w] # 0 /\ count' = [count EXCEPT ![w] = @ - 1]
            /\ pc'[p] = "user"
         \/ ~Usable(w) /\ UNCHANGED count /\ pc'[p] = "user"
  BY <1>1, <1>3, DownEffect DEF TypeInv
<1>6. upc'[p] = "print" /\ \A q \in {parent(a), child(a)} : q # p => upc'[q] = upc[q]
  BY <1>1, <1>3 DEF At
<1>7. SemsInv(a)' /\ StartInv(a)'
  BY <1>1, <1>3, <1>4, <1>6, ForkedStep
<1>8. WhereInv(a)'
  <2>1. w = WaitsFor(p)
    BY <1>1, <1>2 DEF WaitsFor, sem1, sem2
  <2> QED
    BY <1>1, <1>3, <1>4, <1>5, <1>6, <2>1, WhereStep DEF InstInv
<1>9. LineInv(a)'
  BY <1>3, LineQuiet DEF InstInv, Edge, Labels
<1>10. TurnInv(a)'
  <2> SUFFICES ASSUME upc'[child(a)] \notin ClosedOne
               PROVE  Turn(a, sems[a][1], sems[a][2])'
    BY <1>3 DEF TurnInv
  <2>1. upc[child(a)] \notin ClosedOne
    BY <1>3, <1>6 DEF ClosedOne
  <2>2. PICK s1 \in Sems, s2 \in Sems :
          s1 = sems[a][1] /\ s2 = sems[a][2] /\ s1 # s2 /\ Turn(a, s1, s2)
          /\ w = IF p = child(a) THEN s1 ELSE s2
    BY <1>2, <1>4, <2>1
  <2>3. Usable(w)
    BY <1>4, <2>2 DEF Turn, Usable
  <2>4. ~Holds(p)
    BY <1>3 DEF Holds
  <2>5. \/ count[w] = 0 /\ UNCHANGED count /\ ~Holds(p)'
        \/ /\ count[w] # 0 /\ count' = [count EXCEPT ![w] = @ - 1]
           /\ upc'[p] = "print" /\ pc'[p] = "user"
    BY <1>5, <1>6, <2>3 DEF Holds
  <2>6. Turn(a, s1, s2)'
    BY <1>3, <1>4, <1>5, <1>6, <2>2, <2>4, <2>5, TakeTurn1
  <2> QED
    BY <1>3, <2>2, <2>6
<1>11. EndInv(a)'
  BY <1>1, <1>3, <1>6 DEF InstInv, EndInv, ClosedOne
<1> QED
  BY <1>7, <1>8, <1>9, <1>10, <1>11 DEF InstInv

\* sem_down after a wake-up.
LEMMA WokeAlone ==
  ASSUME TypeInv, BirthInv, NEW a \in Instances, InstInv(a),
         NEW p \in {parent(a), child(a)}, Woke(p)
  PROVE  InstInv(a)'
<1>1. /\ parent(a) \in Procs /\ child(a) \in Procs /\ parent(a) # child(a)
      /\ p \in Procs /\ p[1] = a /\ (p[2] = "child" <=> p = child(a))
  BY Names
<1>2. PICK w : w = arg[p]
  OBVIOUS
<1>3. /\ pc[p] = "woken" /\ upc[p] = "print" /\ TakeOrSleep(p, w) /\ w \in Sems
      /\ UNCHANGED <<upc, i, index, sems, pings, pongs>>
      /\ w = IF p = child(a) THEN sems[a][1] ELSE sems[a][2]
  BY <1>1, <1>2
  DEF Woke, sem_down_woken, uvars, InstInv, WhereInv, WaitsFor, sem1, sem2,
      TypeInv, KernelType
<1>4. /\ Len(sems[a]) = 2 /\ sems[a][1] \in Sems /\ sems[a][2] \in Sems
      /\ sems[a][1] # sems[a][2]
      /\ upc[parent(a)] \notin {"unborn", "open"}
      /\ upc[child(a)] \notin ClosedOne => Turn(a, sems[a][1], sems[a][2])
  BY <1>3, Forked
<1>5. /\ Others(p) /\ UNCHANGED bound
      /\ \/ count[w] = 0 /\ UNCHANGED count /\ pc'[p] = "asleep" /\ arg'[p] = w
         \/ /\ count[w] # 0 /\ count' = [count EXCEPT ![w] = @ - 1]
            /\ pc'[p] = "user"
  BY <1>1, <1>3, TakeEffect DEF TypeInv
<1>7. SemsInv(a)' /\ StartInv(a)'
  BY <1>1, <1>3, <1>4, ForkedStep
<1>8. WhereInv(a)'
  <2>1. w = WaitsFor(p)
    BY <1>1, <1>3 DEF WaitsFor, sem1, sem2
  <2> QED
    BY <1>1, <1>3, <1>4, <1>5, <2>1, WhereStep DEF InstInv
<1>9. LineInv(a)' /\ EndInv(a)'
  BY <1>3 DEF InstInv, LineInv, EndInv
<1>10. TurnInv(a)'
  <2> SUFFICES ASSUME upc[child(a)] \notin ClosedOne
               PROVE  Turn(a, sems[a][1], sems[a][2])'
    BY <1>3 DEF TurnInv
  <2>2. PICK s1 \in Sems, s2 \in Sems :
          s1 = sems[a][1] /\ s2 = sems[a][2] /\ s1 # s2 /\ Turn(a, s1, s2)
          /\ w = IF p = child(a) THEN s1 ELSE s2
    BY <1>3, <1>4
  <2>4. ~Holds(p)
    BY <1>3 DEF Holds
  <2>5. \/ count[w] = 0 /\ UNCHANGED count /\ ~Holds(p)'
        \/ /\ count[w] # 0 /\ count' = [count EXCEPT ![w] = @ - 1]
           /\ upc'[p] = "print" /\ pc'[p] = "user"
    BY <1>3, <1>5 DEF Holds
  <2>6. Turn(a, s1, s2)'
    BY <1>3, <1>5, <2>2, <2>4, <2>5, TakeTurn1
  <2> QED
    BY <1>3, <2>2, <2>6
<1> QED
  BY <1>7, <1>8, <1>9, <1>10 DEF InstInv

\* The line is printed by the one that holds the token.
LEMMA LoopPrintAlone ==
  ASSUME TypeInv, BirthInv, NEW a \in Instances, InstInv(a),
         NEW p \in {parent(a), child(a)}, LoopPrint(p)
  PROVE  InstInv(a)'
<1>1. /\ parent(a) \in Procs /\ child(a) \in Procs /\ parent(a) # child(a)
      /\ p \in Procs /\ p[1] = a /\ (p[2] = "child" <=> p = child(a))
  BY Names
<1>2. /\ upc[p] = "print" /\ OtherCall(p) /\ At(p, "up")
      /\ UNCHANGED <<i, index, sems>>
      /\ pings' = IF p = child(a) THEN [pings EXCEPT ![a] = @ + 1] ELSE pings
      /\ pongs' = IF p = parent(a) THEN [pongs EXCEPT ![a] = @ + 1] ELSE pongs
  BY <1>1, GotoAt DEF LoopPrint
<1>3. /\ i[parent(a)] \in Nat /\ i[child(a)] \in Nat
      /\ pings[a] \in Nat /\ pongs[a] \in Nat
      /\ pings'[a] = pings[a] + (IF p = child(a) THEN 1 ELSE 0)
      /\ pongs'[a] = pongs[a] + (IF p = parent(a) THEN 1 ELSE 0)
  BY <1>1, <1>2, View DEF TypeInv, ProgramType
<1>4. /\ Len(sems[a]) = 2 /\ sems[a][1] \in Sems /\ sems[a][2] \in Sems
      /\ upc[parent(a)] \notin {"unborn", "open"}
      /\ upc[child(a)] \notin ClosedOne => Turn(a, sems[a][1], sems[a][2])
  BY <1>2, Forked
<1>5. /\ Others(p) /\ UNCHANGED <<count, bound>> /\ pc[p] \in {"user", "kernel"}
      /\ pc'[p] \in {"user", "kernel"}
  BY <1>1, <1>2, EnterEffect DEF TypeInv
<1>6. upc'[p] = "up" /\ \A q \in {parent(a), child(a)} : q # p => upc'[q] = upc[q]
  BY <1>1, <1>2 DEF At
<1>7. SemsInv(a)' /\ StartInv(a)'
  BY <1>1, <1>2, <1>4, <1>6, ForkedStep
<1>8. WhereInv(a)'
  BY <1>1, <1>2, <1>4, <1>5, <1>6, WhereStep DEF InstInv
<1>9. LineInv(a)'
  <2>1. \A q \in {parent(a), child(a)} :
          i'[q] = i[q] + (IF q = p /\ upc[p] = "up" THEN 1 ELSE 0)
    BY <1>2, <1>3
  <2>2. Edge(upc[p], "up") /\ "up" \in Labels
    BY <1>2 DEF Edge, Labels
  <2> QED
    BY <1>2, <1>3, <2>1, <2>2, LineStep DEF InstInv
<1>10. TurnInv(a)'
  <2> SUFFICES ASSUME upc[child(a)] \notin ClosedOne
               PROVE  Turn(a, sems[a][1], sems[a][2])'
    BY <1>2, <1>6 DEF TurnInv, ClosedOne
  <2>1. Holds(p) /\ Holds(p)'
    BY <1>2, <1>5, <1>6 DEF Holds
  <2>2. \A q \in {parent(a), child(a)} : q # p => (Holds(q)' <=> Holds(q))
    BY <1>1, <1>5, <1>6, HoldsKept
  <2> QED
    BY <1>1, <1>2, <1>3, <1>4, <1>5, <1>6, <2>1, <2>2 DEF Turn
<1>11. EndInv(a)'
  BY <1>1, <1>2, <1>3, <1>6 DEF InstInv, EndInv, ClosedOne
<1> QED
  BY <1>7, <1>8, <1>9, <1>10, <1>11 DEF InstInv

\* sem_up passes the token on.
LEMMA LoopUpAlone ==
  ASSUME TypeInv, BirthInv, NEW a \in Instances, InstInv(a),
         NEW p \in {parent(a), child(a)}, LoopUp(p)
  PROVE  InstInv(a)'
<1>1. /\ parent(a) \in Procs /\ child(a) \in Procs /\ parent(a) # child(a)
      /\ p \in Procs /\ p[1] = a /\ (p[2] = "child" <=> p = child(a))
  BY Names
<1>2. PICK w : w = IF p = child(a) THEN sems[a][2] ELSE sems[a][1]
  OBVIOUS
<1>3. /\ upc[p] = "up" /\ sem_up(p, w) /\ At(p, "loop")
      /\ i' = [i EXCEPT ![p] = @ + 1]
      /\ UNCHANGED <<index, sems, pings, pongs>>
  BY <1>1, <1>2, GotoAt DEF LoopUp, sem1, sem2
<1>4. /\ Len(sems[a]) = 2 /\ sems[a][1] \in Sems /\ sems[a][2] \in Sems
      /\ sems[a][1] # sems[a][2] /\ w \in Sems
      /\ upc[parent(a)] \notin {"unborn", "open"}
      /\ upc[child(a)] \notin ClosedOne => Turn(a, sems[a][1], sems[a][2])
  BY <1>2, <1>3, Forked
<1>5. /\ Others(p) /\ UNCHANGED bound /\ pc'[p] = "user"
      /\ \/ CanUp(w) /\ count' = [count EXCEPT ![w] = @ + 1]
         \/ ~CanUp(w) /\ UNCHANGED count
  BY <1>1, <1>3, UpEffect DEF TypeInv
<1>6. upc'[p] = "loop" /\ \A q \in {parent(a), child(a)} : q # p => upc'[q] = upc[q]
  BY <1>1, <1>3 DEF At
<1>7. SemsInv(a)' /\ StartInv(a)'
  BY <1>1, <1>3, <1>4, <1>6, ForkedStep
<1>8. WhereInv(a)'
  BY <1>1, <1>3, <1>4, <1>5, <1>6, WhereStep DEF InstInv
<1>9. LineInv(a)'
  <2>1. \A q \in {parent(a), child(a)} :
          i'[q] = i[q] + (IF q = p /\ upc[p] = "up" THEN 1 ELSE 0)
    BY <1>1, <1>3, View DEF TypeInv, ProgramType
  <2>2. Edge(upc[p], "loop") /\ "loop" \in Labels
    BY <1>3 DEF Edge, Labels
  <2>3. pings[a] = pings[a] + 0 /\ pongs[a] = pongs[a] + 0
    BY View
  <2> QED
    BY <1>3, <2>1, <2>2, <2>3, LineStep DEF InstInv
<1>10. TurnInv(a)'
  <2> SUFFICES ASSUME upc[child(a)] \notin ClosedOne
               PROVE  Turn(a, sems[a][1], sems[a][2])'
    BY <1>3, <1>6 DEF TurnInv, ClosedOne
  <2>1. Holds(p) /\ ~Holds(p)'
    BY <1>3, <1>6 DEF Holds
  <2>2. \A q \in {parent(a), child(a)} : q # p => (Holds(q)' <=> Holds(q))
    BY <1>1, <1>5, <1>6, HoldsKept
  <2>3. PICK s1 \in Sems, s2 \in Sems :
          s1 = sems[a][1] /\ s2 = sems[a][2] /\ s1 # s2 /\ Turn(a, s1, s2)
          /\ w = IF p = child(a) THEN s2 ELSE s1
    BY <1>2, <1>4
  <2>4. CanUp(w)
    BY <2>1, <2>3 DEF Turn, CanUp, Usable
  <2>5. \A s \in Sems : count'[s] = IF s = w THEN count[s] + 1 ELSE count[s]
    BY <1>4, <1>5, <2>4 DEF TypeInv, KernelType
  <2>6. pings[a] \in Nat /\ pongs[a] \in Nat
    BY View
  <2>7. Turn(a, s1, s2)'
    BY <1>1, <1>3, <1>5, <1>6, <2>1, <2>2, <2>3, <2>5, <2>6 DEF Turn
  <2> QED
    BY <1>3, <2>3, <2>7
<1>11. EndInv(a)'
  BY <1>1, <1>3, <1>6 DEF InstInv, EndInv, ClosedOne
<1> QED
  BY <1>7, <1>8, <1>9, <1>10, <1>11 DEF InstInv

\* A system call begins.
LEMMA TrapAlone ==
  ASSUME TypeInv, NEW a \in Instances, InstInv(a),
         NEW p \in {parent(a), child(a)}, Trap(p)
  PROVE  InstInv(a)'
<1>1. /\ parent(a) \in Procs /\ child(a) \in Procs /\ parent(a) # child(a)
      /\ p \in Procs
  BY Names
<1>2. /\ upc[p] # "unborn" /\ Enter(p)
      /\ UNCHANGED <<upc, i, index, sems, pings, pongs>>
  BY DEF Trap, uvars
<1>3. /\ Others(p) /\ UNCHANGED <<count, bound>> /\ pc[p] \in {"user", "kernel"}
      /\ pc'[p] \in {"user", "kernel"}
  BY <1>1, <1>2, EnterEffect DEF TypeInv
<1>4. \A q \in {parent(a), child(a)} : Holds(q)' <=> Holds(q)
  <2>1. Holds(p)' <=> Holds(p)
    BY <1>2, <1>3 DEF Holds
  <2> QED
    BY <1>1, <1>2, <1>3, <2>1, HoldsKept
<1>5. WhereInv(a)'
  <2>1. \A q \in {parent(a), child(a)} :
          /\ upc[q] = "unborn" => pc'[q] = "user"
          /\ pc'[q] \in {"asleep", "woken"} => /\ upc[q] = "print"
                                               /\ arg'[q] = WaitsFor(q)
    BY <1>1, <1>2, <1>3 DEF InstInv, WhereInv, Others
  <2>2. \A q \in {parent(a), child(a)} : WaitsFor(q)' = WaitsFor(q)
    BY <1>2 DEF WaitsFor, sem1, sem2
  <2> QED
    BY <1>2, <2>1, <2>2 DEF InstInv, WhereInv
<1>6. TurnInv(a)'
  BY <1>2, <1>3, <1>4 DEF InstInv, TurnInv, Turn
<1> QED
  BY <1>2, <1>3, <1>5, <1>6
  DEF InstInv, SemsInv, LineInv, StartInv, EndInv

\* The steps that no longer touch the token: a process leaves the loop, closes,
\* exits.  The child closes only after its last line, which the parent has
\* answered up to one; the parent closes only after the child is gone.
LEMMA EndAlone ==
  ASSUME TypeInv, BirthInv, NEW a \in Instances, InstInv(a),
         NEW p \in {parent(a), child(a)}, Wait(p) \/ Close(p) \/ ExitZero(p)
  PROVE  InstInv(a)'
<1>1. /\ parent(a) \in Procs /\ child(a) \in Procs /\ parent(a) # child(a)
      /\ p \in Procs /\ p[1] = a
      /\ p[2] = "child" <=> p = child(a)
      /\ p[2] = "parent" <=> p = parent(a)
  BY Names
<1>2. PICK m \in Labels :
        /\ At(p, m) /\ Edge(upc[p], m)
        /\ upc[p] \in {"loop", "close1", "close2", "exit"}
        /\ m \in {"close1"} \cup ClosedOne
        /\ m = "close1" => Wait(p)
        /\ upc[p] = "loop" => m = "close1"
  BY <1>1, GotoAt DEF Wait, Close, ExitZero, Edge, Labels, ClosedOne
<1>3. /\ UNCHANGED <<i, index, sems, pings, pongs>>
  BY DEF Wait, Close, ExitZero
<1>4. /\ Len(sems[a]) = 2 /\ sems[a][1] \in Sems /\ sems[a][2] \in Sems
      /\ upc[parent(a)] \notin {"unborn", "open"}
      /\ p = child(a) => upc[parent(a)] \notin {"fork", "done"}
      /\ upc[child(a)] \notin ClosedOne => Turn(a, sems[a][1], sems[a][2])
  BY <1>2, Forked
<1>5. Others(p) /\ pc'[p] \in {"user", "kernel", "exited"}
  BY <1>1, EnterEffect, CloseEffect, QuitEffect
  DEF Wait, Close, ExitZero, TypeInv
<1>6. upc'[p] = m /\ \A q \in {parent(a), child(a)} : q # p => upc'[q] = upc[q]
  BY <1>1, <1>2 DEF At
<1>7. SemsInv(a)' /\ StartInv(a)'
  BY <1>1, <1>2, <1>3, <1>4, <1>6, ForkedStep DEF ClosedOne
<1>8. WhereInv(a)'
  BY <1>1, <1>2, <1>3, <1>4, <1>5, <1>6, WhereStep DEF InstInv, ClosedOne
<1>9. LineInv(a)'
  <2>1. m = "close1" => i[p] >= Amount
    BY <1>1, <1>2, View DEF Wait, Rounds
  <2> QED
    BY <1>2, <1>3, <2>1, LineQuiet DEF InstInv, ClosedOne
<1>l. /\ pings[a] \in Nat /\ pongs[a] \in Nat /\ i[parent(a)] \in Nat
      /\ i[child(a)] \in Nat
      /\ pings[a] = i[child(a)] + (IF upc[child(a)] = "up" THEN 1 ELSE 0)
      /\ pongs[a] = i[parent(a)] + (IF upc[parent(a)] = "up" THEN 1 ELSE 0)
  BY View DEF InstInv, LineInv
\* The parent leaves the loop only when the child is gone: without a child it
\* would not have got there.
<1>w. p = parent(a) /\ m = "close1" => upc[child(a)] = "done"
  <2> SUFFICES ASSUME p = parent(a), m = "close1", upc[child(a)] = "unborn"
               PROVE  FALSE
    BY <1>1, <1>2 DEF Wait, WaitReturns
  <2>1. i[parent(a)] >= Amount /\ i[child(a)] = 0
    BY <1>1, <1>2, View DEF Wait, Rounds, InstInv, LineInv
  <2>2. Turn(a, sems[a][1], sems[a][2])
    BY <1>4 DEF ClosedOne
  <2>3. pongs[a] <= pings[a]
    BY <1>l, <2>2 DEF Turn
  <2> QED
    BY <1>l, <2>1, <2>3
<1>10. EndInv(a)'
  <2>1. CASE p = parent(a)
    BY <1>1, <1>2, <1>3, <1>6, <1>w, <2>1 DEF InstInv, EndInv, ClosedOne, Edge
  <2>2. CASE p = child(a)
    <3>1. upc'[child(a)] \in ClosedOne => pongs[a] >= Amount - 1
      <4>1. CASE upc[child(a)] \in ClosedOne
        BY <4>1 DEF InstInv, EndInv
      <4>2. CASE upc[child(a)] = "close1"
        <5>1. i[child(a)] = Amount /\ Turn(a, sems[a][1], sems[a][2])
          BY <1>4, <4>2 DEF InstInv, LineInv, ClosedOne
        <5>2. pongs[a] >= pings[a] - 1
          BY <1>l, <5>1 DEF Turn
        <5> QED
          BY <1>l, <4>2, <5>1, <5>2
      <4>3. CASE upc[child(a)] = "loop"
        BY <1>2, <1>6, <2>2, <4>3 DEF ClosedOne
      <4> QED
        BY <1>2, <2>2, <4>1, <4>2, <4>3 DEF ClosedOne
    <3>2. upc[child(a)] # "done"
      BY <1>2, <2>2
    <3>3. upc'[parent(a)] = upc[parent(a)]
      BY <1>1, <1>6, <2>2
    <3>4. upc[child(a)] # "unborn"
      BY <1>2, <2>2
    <3> QED
      BY <1>3, <3>1, <3>2, <3>3, <3>4 DEF InstInv, EndInv
  <2> QED
    BY <2>1, <2>2
<1>11. TurnInv(a)'
  <2>1. CASE p = parent(a)
    <3>1. upc[child(a)] = "done"
      BY <1>2, <1>w, <2>1 DEF InstInv, EndInv
    <3> QED
      BY <1>1, <1>6, <2>1, <3>1 DEF TurnInv, ClosedOne
  <2>2. CASE p = child(a)
    <3> SUFFICES ASSUME upc'[child(a)] \notin ClosedOne
                 PROVE  Turn(a, sems[a][1], sems[a][2])'
      BY <1>3 DEF TurnInv
    <3>1. m = "close1" /\ upc[child(a)] = "loop" /\ Wait(p)
      BY <1>2, <1>6, <2>2 DEF Edge
    <3>2. UNCHANGED <<count, bound>>
      BY <3>1 DEF Wait, OtherCall
    <3>3. ~Holds(child(a)) /\ ~Holds(child(a))' /\ (Holds(parent(a))' <=> Holds(parent(a)))
          /\ upc'[parent(a)] = upc[parent(a)]
      BY <1>1, <1>5, <1>6, <2>2, <3>1, HoldsKept DEF Holds
    <3>4. Turn(a, sems[a][1], sems[a][2])
      BY <1>4, <3>1 DEF ClosedOne
    <3> QED
      BY <1>3, <3>2, <3>3, <3>4 DEF Turn
  <2> QED
    BY <2>1, <2>2
<1> QED
  BY <1>7, <1>8, <1>9, <1>10, <1>11 DEF InstInv

\* The opening loop adds a semaphore with count 1 above those it has.
LEMMA OpenLoopAlone ==
  ASSUME TypeInv, BirthInv, NEW a \in Instances, InstInv(a), OpenLoop(a)
  PROVE  InstInv(a)'
<1>1. /\ parent(a) \in Procs /\ child(a) \in Procs /\ parent(a) # child(a)
  BY Names
<1>2. PICK x \in Sems : x = index[a]
  BY OpenLoopEffect
<1>3. /\ Others(parent(a)) /\ UNCHANGED <<upc, i, pings, pongs>>
      /\ upc[parent(a)] = "open" /\ pc'[parent(a)] = "user"
      /\ Len(sems[a]) # 2 /\ index'[a] = x + 1
      /\ \/ /\ count[x] = Closed
            /\ count' = [count EXCEPT ![x] = 1]
            /\ bound' = [bound EXCEPT ![x] = 1]
            /\ sems'[a] = Append(sems[a], x)
         \/ UNCHANGED <<count, bound, sems>>
  <2>1. /\ Others(parent(a)) /\ UNCHANGED <<upc, i, pings, pongs>>
        /\ upc[parent(a)] = "open" /\ pc'[parent(a)] = "user"
        /\ Len(sems[a]) # 2 /\ index' = [index EXCEPT ![a] = x + 1]
        /\ \/ /\ count[x] = Closed
              /\ count' = [count EXCEPT ![x] = 1]
              /\ bound' = [bound EXCEPT ![x] = 1]
              /\ sems' = [sems EXCEPT ![a] = Append(sems[a], x)]
           \/ UNCHANGED <<count, bound, sems>>
    BY <1>2, OpenLoopEffect
  <2>2. DOMAIN index = Instances /\ DOMAIN sems = Instances
    BY DEF TypeInv, ProgramType
  <2> QED
    BY <2>1, <2>2
<1>4. /\ sems[a] \in Seq(Sems) /\ Len(sems[a]) \in 0 .. 1
      /\ DOMAIN sems[a] = 1 .. Len(sems[a])
      /\ \A j \in DOMAIN sems[a] :
           /\ sems[a][j] \in Sems /\ sems[a][j] < x
           /\ count[sems[a][j]] = 1 /\ bound[sems[a][j]] = 1
  <2>1. sems[a] \in Seq(Sems) /\ Len(sems[a]) \in 0 .. 1
        /\ DOMAIN sems[a] = 1 .. Len(sems[a])
    <3>1. sems[a] \in Seq(Sems) /\ Len(sems[a]) \in Nat
          /\ DOMAIN sems[a] = 1 .. Len(sems[a])
      BY View
    <3>2. Len(sems[a]) <= 2 /\ Len(sems[a]) # 2
      BY <1>3 DEF InstInv, SemsInv
    <3>3. \A n \in Nat : n <= 2 /\ n # 2 => n \in 0 .. 1
      OBVIOUS
    <3> HIDE DEF Sems
    <3> QED
      BY <3>1, <3>2, <3>3
  <2>2. \A j \in DOMAIN sems[a] : sems[a][j] \in Sems
    BY <2>1
  <2> QED
    BY <1>2, <1>3, <2>1, <2>2 DEF InstInv, SemsInv, StartInv
<1>5. upc[child(a)] = "unborn"
  BY <1>3 DEF BirthInv
<1>6. WhereInv(a)'
  <2>1. pc'[child(a)] = "user"
    BY <1>1, <1>3, <1>5 DEF InstInv, WhereInv, Others
  <2> QED
    BY <1>3, <1>5, <2>1 DEF WhereInv
<1>7. LineInv(a)' /\ EndInv(a)' /\ TurnInv(a)'
  BY <1>3 DEF InstInv, LineInv, EndInv, TurnInv
<1>8. CASE UNCHANGED <<count, bound, sems>>
  <2>1. SemsInv(a)'
    <3>1. \A j \in DOMAIN sems[a] : sems[a][j] < x + 1
      BY <1>4
    <3> QED
      BY <1>3, <1>8, <3>1 DEF InstInv, SemsInv
  <2>2. StartInv(a)'
    BY <1>3, <1>8 DEF InstInv, StartInv
  <2> QED
    BY <1>6, <1>7, <2>1, <2>2 DEF InstInv
<1>9. CASE /\ count' = [count EXCEPT ![x] = 1]
           /\ bound' = [bound EXCEPT ![x] = 1]
           /\ sems'[a] = Append(sems[a], x)
  <2>0. PICK n \in {0, 1} : n = Len(sems[a])
    BY <1>4
  <2>1. Len(sems'[a]) = n + 1 /\ DOMAIN sems'[a] = 1 .. n + 1
    BY <1>4, <1>9, <2>0
  <2>2. n = 1 => sems'[a][1] = sems[a][1] /\ 1 \in DOMAIN sems[a]
    BY <1>4, <1>9, <2>0
  <2>3. sems'[a][n + 1] = x
    BY <1>4, <1>9, <2>0
  <2>4. \A s \in Sems : /\ count'[s] = IF s = x THEN 1 ELSE count[s]
                        /\ bound'[s] = IF s = x THEN 1 ELSE bound[s]
    BY <1>9 DEF TypeInv, KernelType
  <2>5. \A j \in DOMAIN sems'[a] : j = n + 1 \/ (n = 1 /\ j = 1)
    BY <2>1
  <2>6. SemsInv(a)'
    <3>1. \A j \in DOMAIN sems'[a] : sems'[a][j] < x + 1
      <4>1. n = 1 => sems'[a][1] \in Sems /\ sems'[a][1] < x
        BY <1>4, <2>2
      <4>2. x \in Int /\ x < x + 1
        OBVIOUS
      <4>3. \A j \in DOMAIN sems'[a] : sems'[a][j] \in Sems /\ sems'[a][j] <= x
        BY <2>3, <2>5, <4>1
      <4> QED
        BY <4>3
    <3>2. Len(sems'[a]) = 2 => sems'[a][1] # sems'[a][2]
      <4>1. CASE n = 0
        BY <2>1, <4>1
      <4>2. CASE n = 1
        <5>1. sems'[a][2] = x /\ sems'[a][1] = sems[a][1]
          BY <2>2, <2>3, <4>2
        <5>2. sems[a][1] \in Sems /\ sems[a][1] < x
          BY <1>4, <2>2, <4>2
        <5> QED
          BY <5>1, <5>2
      <4> QED
        BY <4>1, <4>2
    <3>3. Len(sems'[a]) <= 2
      BY <2>1
    <3> QED
      BY <1>3, <3>1, <3>2, <3>3 DEF SemsInv
  <2>7. StartInv(a)'
    <3>1. \A j \in DOMAIN sems'[a] :
            count'[sems'[a][j]] = 1 /\ bound'[sems'[a][j]] = 1
      <4>1. n = 1 => /\ sems'[a][1] \in Sems
                     /\ count[sems'[a][1]] = 1 /\ bound[sems'[a][1]] = 1
        BY <1>4, <2>2
      <4> QED
        BY <2>3, <2>4, <2>5, <4>1
    <3> QED
      BY <1>3, <3>1 DEF StartInv
  <2> QED
    BY <1>6, <1>7, <2>6, <2>7 DEF InstInv
<1> QED
  BY <1>3, <1>8, <1>9

\* The first sem_down of the parent finds its semaphore open and at 1, and takes
\* the second of the two tokens.
LEMMA StartAlone ==
  ASSUME TypeInv, BirthInv, NEW a \in Instances, InstInv(a),
         OpenFailed(a) \/ FirstDown(a)
  PROVE  InstInv(a)'
<1>1. PICK p \in Procs, c \in Procs : p = parent(a) /\ c = child(a) /\ p # c
        /\ p[1] = a
  BY Names
<1>2. /\ upc[p] = "open" /\ UNCHANGED <<i, index, sems, pings, pongs>>
  BY <1>1 DEF OpenFailed, FirstDown
<1>3. upc[c] = "unborn" /\ i[p] = 0 /\ i[c] = 0 /\ pings[a] = 0 /\ pongs[a] = 0
  BY <1>1, <1>2, View DEF BirthInv, InstInv, LineInv
<1>4. SemsInv(a)'
  BY <1>2 DEF InstInv, SemsInv
<1>5. CASE OpenFailed(a)
  <2>1. Quit(p) /\ At(p, "done")
    BY <1>1, <1>5, GotoAt DEF OpenFailed
  <2>2. /\ Others(p) /\ UNCHANGED <<count, bound>> /\ pc'[p] = "exited"
    BY <2>1, QuitEffect DEF TypeInv
  <2>3. upc'[p] = "done" /\ upc'[c] = "unborn"
    BY <1>1, <1>3, <2>1 DEF At
  <2>4. WhereInv(a)'
    BY <1>1, <1>2, <1>3, <2>2, <2>3, WhereStep DEF InstInv
  <2>5. LineInv(a)'
    BY <1>1, <1>2, <2>1, LineQuiet DEF InstInv, Edge, Labels
  <2> QED
    BY <1>1, <1>2, <1>3, <1>4, <2>3, <2>4, <2>5
    DEF InstInv, StartInv, TurnInv, EndInv, ClosedOne
<1>6. CASE FirstDown(a)
  <2>1. Len(sems[a]) = 2 /\ sem_down(p, sems[a][2]) /\ At(p, "fork")
    BY <1>1, <1>6, GotoAt DEF FirstDown, sem2
  <2>2. PICK s1 \in Sems, s2 \in Sems :
          /\ s1 = sems[a][1] /\ s2 = sems[a][2] /\ s1 # s2
          /\ count[s1] = 1 /\ count[s2] = 1 /\ bound[s1] = 1 /\ bound[s2] = 1
    <3>1. sems[a][1] \in Sems /\ sems[a][2] \in Sems
          /\ 1 \in DOMAIN sems[a] /\ 2 \in DOMAIN sems[a]
      BY <2>1, View
    <3> QED
      BY <1>1, <1>2, <2>1, <3>1 DEF InstInv, SemsInv, StartInv
  <2>3. /\ Others(p) /\ UNCHANGED bound /\ pc'[p] = "user"
        /\ count' = [count EXCEPT ![s2] = @ - 1]
    BY <2>1, <2>2, DownEffect DEF TypeInv, Usable
  <2>4. upc'[p] = "fork" /\ upc'[c] = "unborn"
    BY <1>1, <1>3, <2>1 DEF At
  <2>5. WhereInv(a)'
    BY <1>1, <1>2, <2>1, <2>3, <2>4, <1>3, WhereStep DEF InstInv
  <2>6. LineInv(a)'
    BY <1>1, <1>2, <2>1, LineQuiet DEF InstInv, Edge, Labels
  <2>7. Turn(a, s1, s2)'
    <3>1. count'[s1] = 1 /\ count'[s2] = 0
      BY <2>2, <2>3 DEF TypeInv, KernelType
    <3>2. ~Holds(p)' /\ ~Holds(c)'
      BY <2>4 DEF Holds
    <3> QED
      BY <1>1, <1>2, <1>3, <2>2, <2>3, <3>1, <3>2 DEF Turn
  <2>8. TurnInv(a)'
    BY <1>2, <2>2, <2>7 DEF TurnInv
  <2> QED
    BY <1>1, <1>2, <1>3, <1>4, <2>4, <2>5, <2>6, <2>8
    DEF InstInv, StartInv, EndInv, ClosedOne
<1> QED
  BY <1>5, <1>6

\* fork(), which may fail.
LEMMA ForkAlone ==
  ASSUME TypeInv, BirthInv, NEW a \in Instances, InstInv(a), Fork(a)
  PROVE  InstInv(a)'
<1>1. PICK p \in Procs, c \in Procs : p = parent(a) /\ c = child(a) /\ p # c
  BY Names
<1>2. /\ upc[p] = "fork" /\ OtherCall(p)
      /\ UNCHANGED <<i, index, sems, pings, pongs>>
      /\ upc'[p] = "loop" /\ upc'[c] \in {"loop", upc[c]}
  BY <1>1 DEF Fork, goto, TypeInv, ProgramType
<1>3. /\ upc[c] = "unborn" /\ i[p] = 0 /\ i[c] = 0
      /\ pings[a] = 0 /\ pongs[a] = 0 /\ pc[c] = "user"
  <2>1. upc[c] = "unborn"
    BY <1>1, <1>2 DEF BirthInv
  <2>2. pc[c] = "user"
    BY <1>1, <2>1 DEF InstInv, WhereInv
  <2> QED
    BY <1>1, <1>2, <2>1, <2>2 DEF InstInv, LineInv
<1>4. /\ Len(sems[a]) = 2 /\ Turn(a, sems[a][1], sems[a][2])
  BY <1>1, <1>2, <1>3, Forked DEF ClosedOne
<1>5. /\ Others(p) /\ UNCHANGED <<count, bound>> /\ pc'[p] \in {"user", "kernel"}
  BY <1>2, EnterEffect DEF TypeInv
<1>6. pc'[c] = "user"
  BY <1>1, <1>3, <1>5 DEF Others
<1>7. WhereInv(a)'
  BY <1>1, <1>2, <1>3, <1>4, <1>5, <1>6 DEF WhereInv
<1>8. LineInv(a)'
  BY <1>1, <1>2, <1>3 DEF LineInv, ClosedOne
<1>9. TurnInv(a)'
  <2>1. ~Holds(p) /\ ~Holds(c) /\ ~Holds(p)' /\ ~Holds(c)'
    BY <1>2, <1>3 DEF Holds
  <2>2. Turn(a, sems[a][1], sems[a][2])'
    BY <1>1, <1>2, <1>3, <1>4, <1>5, <2>1 DEF Turn
  <2> QED
    BY <1>2, <2>2 DEF TurnInv
<1>10. SemsInv(a)' /\ StartInv(a)' /\ EndInv(a)'
  BY <1>1, <1>2, <1>3 DEF InstInv, SemsInv, StartInv, EndInv, ClosedOne
<1> QED
  BY <1>7, <1>8, <1>9, <1>10 DEF InstInv
-----------------------------------------------------------------------------
\* One of its two processes takes a step.
LEMMA InstStep ==
  ASSUME TypeInv, BirthInv, NEW a \in Instances, InstInv(a),
         NEW p \in {parent(a), child(a)}, Program(p) \/ Woke(p)
  PROVE  InstInv(a)'
<1>1. \A b \in Instances : p = parent(b) => b = a
  BY Names
<1> QED
  BY <1>1, TrapAlone, OpenLoopAlone, StartAlone, ForkAlone, LoopDownAlone,
     LoopPrintAlone, LoopUpAlone, EndAlone, WokeAlone DEF Program

\* The step of an instance does not touch one that was not started.
LEMMA Unstarted ==
  ASSUME TypeInv, BirthInv, NEW b \in Instances, InstInv(b),
         upc[parent(b)] = "unborn", upc'[parent(b)] = "unborn",
         NEW p \in Procs, p \notin {parent(b), child(b)}, Program(p) \/ Woke(p)
  PROVE  InstInv(b)'
<1>1. parent(b) \in Procs /\ child(b) \in Procs /\ p[1] \in Instances /\ p[1] # b
  BY Names
<1>2. Others(p)
  BY OpenLoopEffect, StepType DEF Program
<1>3. upc[child(b)] = "unborn" /\ upc'[child(b)] = "unborn"
  BY BirthStep DEF BirthInv
<1>4. pc'[parent(b)] = "user" /\ pc'[child(b)] = "user"
  BY <1>1, <1>2, <1>3 DEF InstInv, WhereInv, Others
<1>5. /\ sems'[b] = sems[b] /\ index'[b] = index[b]
      /\ pings'[b] = pings[b] /\ pongs'[b] = pongs[b]
      /\ i'[parent(b)] = i[parent(b)] /\ i'[child(b)] = i[child(b)]
  <2>1. \A a \in Instances : p = parent(a) => a # b
    BY <1>1, Names
  <2>2. ASSUME NEW a \in Instances, p = parent(a), OpenLoop(a) PROVE <1>5!:
    BY <1>1, <2>1, <2>2, OpenLoopEffect DEF TypeInv, ProgramType
  <2>3. CASE LoopPrint(p) \/ LoopUp(p)
    BY <1>1, <2>3 DEF LoopPrint, LoopUp, TypeInv, ProgramType
  <2>4. CASE UNCHANGED <<sems, index, pings, pongs, i>>
    BY <2>4
  <2> QED
    BY <2>2, <2>3, <2>4
    DEF Program, Woke, Trap, uvars, OpenFailed, FirstDown, Fork, LoopDown, Wait,
        Close, ExitZero
<1>6. sems[b] = <<>>
  BY DEF InstInv, StartInv
<1>7. SemsInv(b)' /\ StartInv(b)'
  BY <1>5, <1>6 DEF InstInv, SemsInv, StartInv
<1>8. WhereInv(b)' /\ TurnInv(b)' /\ EndInv(b)'
  BY <1>3, <1>4 DEF WhereInv, TurnInv, EndInv, ClosedOne
<1>9. LineInv(b)'
  BY <1>3, <1>5 DEF InstInv, LineInv
<1> QED
  BY <1>7, <1>8, <1>9 DEF InstInv

\* The invariant of a pingpong on its own holds throughout.
LEMMA AloneAlways == PPSpec => []AloneInv
<1>1. PPInit => AloneInv
  <2> SUFFICES ASSUME PPInit, NEW a \in Instances PROVE InstInv(a)
    BY DEF AloneInv
  <2>1. /\ sems[a] = <<>> /\ index[a] = 0 /\ pings[a] = 0 /\ pongs[a] = 0
        /\ upc[parent(a)] \in {"unborn", "open"} /\ upc[child(a)] = "unborn"
        /\ i[parent(a)] = 0 /\ i[child(a)] = 0
        /\ pc[parent(a)] = "user" /\ pc[child(a)] = "user"
    BY Names DEF PPInit, Init
  <2> QED
    BY <2>1 DEF InstInv, SemsInv, WhereInv, LineInv, StartInv, TurnInv, EndInv,
                ClosedOne
<1>2. TypeInv /\ BirthInv /\ AloneInv /\ [PPNext]_allvars => AloneInv'
  <2> SUFFICES ASSUME TypeInv, BirthInv, AloneInv, [PPNext]_allvars PROVE AloneInv'
    OBVIOUS
  <2>1. CASE UNCHANGED allvars
    BY <2>1 DEF allvars, vars, uvars, AloneInv, Alone, InstInv, SemsInv, WhereInv,
                LineInv, StartInv, TurnInv, Turn, EndInv, Holds, WaitsFor, sem1, sem2
  <2>2. ASSUME NEW p \in Procs, Program(p) \/ Woke(p), Alone', NEW b \in Instances
        PROVE  InstInv(b)'
    <3>1. PICK a \in Instances : p \in {parent(a), child(a)}
      BY Names
    <3>2. \A d \in Instances : upc'[parent(d)] = "unborn" => upc[parent(d)] = "unborn"
      <4> SUFFICES ASSUME NEW d \in Instances, upc'[parent(d)] = "unborn"
                   PROVE  upc[parent(d)] = "unborn"
        OBVIOUS
      <4>1. parent(d) \in Procs /\ upc \in [Procs -> Labels]
        BY Names DEF TypeInv, ProgramType
      <4>2. ASSUME NEW m \in Labels, Edge(upc[p], m), upc' = [upc EXCEPT ![p] = m]
            PROVE  upc[parent(d)] = "unborn"
        BY <4>1, <4>2 DEF Edge
      <4>3. ASSUME NEW e \in Instances,
                   upc' = [upc EXCEPT ![p] = "loop", ![child(e)] = "loop"]
            PROVE  upc[parent(d)] = "unborn"
        BY <4>1, <4>3
      <4> QED
        BY <2>2, <4>2, <4>3, Flow
    <3>3. Alone /\ InstInv(a) /\ InstInv(b)
      BY <2>2, <3>2 DEF Alone, AloneInv
    <3>4. CASE a = b
      BY <2>2, <3>1, <3>3, <3>4, InstStep
    <3>5. CASE a # b
      <4>1. upc'[parent(a)] # "unborn"
        <5>1. upc[p] # "unborn"
          <6>1. CASE Woke(p)
            BY <3>1, <3>3, <6>1 DEF Woke, sem_down_woken, InstInv, WhereInv
          <6>2. CASE Program(p)
            BY <6>2 DEF Program, Trap, OpenLoop, OpenFailed, FirstDown, Fork,
               LoopDown,
                        LoopPrint, LoopUp, Wait, Close, ExitZero
          <6> QED
            BY <2>2, <6>1, <6>2
        <5>2. upc[parent(a)] # "unborn"
          BY <3>1, <5>1 DEF BirthInv
        <5> QED
          BY <3>2, <5>2
      <4>2. upc'[parent(b)] = "unborn"
        BY <2>2, <3>5, <4>1 DEF Alone
      <4>3. p \notin {parent(b), child(b)}
        BY <3>1, <3>5, Names
      <4> QED
        BY <2>2, <3>2, <3>3, <4>2, <4>3, Unstarted
    <3> QED
      BY <3>4, <3>5
  <2> QED
    BY <2>1, <2>2 DEF PPNext, AloneInv
<1> QED
  BY <1>1, <1>2, TypeAlways, BirthAlways, PTL DEF PPSpec

\* pingpong.c, any number of rounds: Ping and Pong alternate, also at the end,
\* when the child closes the semaphores the parent still waits on, and when the
\* fork fails.
THEOREM TurnsAlternate == PPSpec => []Alternation
<1>1. TypeInv /\ BirthInv /\ AloneInv => Alternation
  <2> SUFFICES ASSUME TypeInv, BirthInv, Alone, NEW a \in Instances, InstInv(a)
               PROVE  pongs[a] <= pings[a] /\ pings[a] <= pongs[a] + 1
    BY DEF AloneInv, Alternation
  <2>1. /\ pings[a] \in Nat /\ pongs[a] \in Nat /\ i[parent(a)] \in Nat
        /\ i[child(a)] \in Nat
    BY View
  <2>2. CASE upc[child(a)] \in ClosedOne
    BY <2>1, <2>2 DEF InstInv, LineInv, EndInv, ClosedOne
  <2>3. CASE upc[child(a)] \notin ClosedOne
              /\ upc[parent(a)] \notin {"unborn", "open", "done"}
    <3>1. Turn(a, sems[a][1], sems[a][2])
      BY <2>3 DEF InstInv, TurnInv
    <3> QED
      BY <2>1, <3>1 DEF Turn
  <2>4. CASE upc[child(a)] \notin ClosedOne
              /\ upc[parent(a)] \in {"unborn", "open", "done"}
    <3>1. upc[child(a)] = "unborn" /\ i[parent(a)] = 0
      BY <2>4 DEF InstInv, EndInv, LineInv, ClosedOne, BirthInv
    <3> QED
      BY <2>1, <2>4, <3>1 DEF InstInv, LineInv
  <2> QED
    BY <2>2, <2>3, <2>4
<1> QED
  BY <1>1, AloneAlways, TypeAlways, BirthAlways, PTL
=============================================================================

----------------------------- MODULE LocksProofs -----------------------------
(***************************************************************************)
(* Proof that the spin locks of semaphore.c and the sleep() and wakeup()   *)
(* of proc.c implement the one-step critical sections of Semaphore, for    *)
(* any number of processes and semaphores.                                 *)
(***************************************************************************)
EXTENDS SemaphoreLocks, TLAPS

USE NPROCAssumption, NAssumption DEF Procs, Sems, Free, Closed

(***************************************************************************)
(* The inductive invariant.  Held: which locks a process holds.  InCall:   *)
(* what its system call is about.  Asleep: a process that is going to      *)
(* sleep found the count 0 and nobody has changed it since; when its own   *)
(* lock is released it is SLEEPING on its semaphore.                       *)
(***************************************************************************)
DomInv ==
  /\ DOMAIN count = Sems /\ DOMAIN bound = Sems /\ DOMAIN semlock = Sems
  /\ DOMAIN state = Procs /\ DOMAIN chan = Procs /\ DOMAIN plock = Procs
  /\ DOMAIN killed = Procs /\ DOMAIN pc = Procs /\ DOMAIN call = Procs
  /\ DOMAIN arg = Procs /\ DOMAIN val = Procs /\ DOMAIN ret = Procs
  /\ ret = [p \in Procs |-> ret[p]]
  /\ at \in [Procs -> 1 .. NPROC + 1]

HasSemLock == {"body", "wakeup", "sleep", "unlock"}
HasProcLock == {"unlock", "swtch", "scheduler", "resume"}
Slept == {"unlock", "swtch", "scheduler", "off", "resume"}
Outside == {"user", "kernel", "exited"}

Held(p) ==
  /\ pc[p] \in HasSemLock => semlock[arg[p]] = p
  /\ pc[p] \in HasProcLock => plock[p] = p

InCall(p) ==
  /\ pc[p] \in Outside \cup Slept \cup {"acquire", "body", "wakeup", "sleep", "next"}
  /\ pc[p] \notin Outside \cup {"next"} => arg[p] \in Sems
  /\ pc[p] = "next" => call[p] = "get_sem" /\ arg[p] \in 0 .. N
  /\ pc[p] = "wakeup" => ret[p] = 1
  /\ pc[p] = "sleep" => call[p] \in {"sem_down", "again"}
  /\ pc[p] \in Slept => call[p] = "again"
  /\ pc[p] \notin Outside /\ call[p] = "sem_open" => val[p] \in Values

Asleep(p) ==
  /\ pc[p] = "sleep" => count[arg[p]] = 0
  /\ pc[p] = "scheduler" => state[p] = "SLEEPING" /\ chan[p] = arg[p]
  /\ pc[p] = "off" => chan[p] = arg[p]

LocksInv == DomInv /\ \A p \in Procs : Held(p) /\ InCall(p) /\ Asleep(p)
-----------------------------------------------------------------------------
\* The thread of q does nothing.
Idle(q) ==
  /\ pc'[q] = pc[q] /\ call'[q] = call[q] /\ arg'[q] = arg[q]
  /\ val'[q] = val[q] /\ ret'[q] = ret[q] /\ at'[q] = at[q]

\* The step of one thread under its locks leaves the others what they rely on.
LEMMA OthersKept ==
  ASSUME LocksInv, NEW p \in Procs, \A q \in Procs \ {p} : Idle(q),
         \/ UNCHANGED semlock
         \/ semlock[arg[p]] = Free /\ semlock' = [semlock EXCEPT ![arg[p]] = p]
         \/ pc[p] \in HasSemLock /\ semlock' = [semlock EXCEPT ![arg[p]] = Free],
         \A q \in Procs \ {p} : plock'[q] = plock[q] /\ chan'[q] = chan[q],
         \A q \in Procs \ {p} : state'[q] = state[q] \/ plock[q] = Free,
         \/ UNCHANGED count
         \/ pc[p] = "body" /\ \E x : count' = [count EXCEPT ![arg[p]] = x],
         DomInv', Held(p)', InCall(p)', Asleep(p)'
  PROVE  LocksInv'
<1> SUFFICES ASSUME NEW q \in Procs, q # p
             PROVE  Held(q)' /\ InCall(q)' /\ Asleep(q)'
  BY DEF LocksInv
<1>1. Idle(q) /\ plock'[q] = plock[q] /\ chan'[q] = chan[q]
      /\ Held(q) /\ InCall(q) /\ Asleep(q) /\ Held(p) /\ InCall(p)
  BY DEF LocksInv
<1>2. InCall(q)'
  BY <1>1 DEF Idle, InCall
<1>3. ASSUME pc[q] \in HasSemLock
      PROVE  semlock'[arg[q]] = q /\ (pc[p] \in HasSemLock => arg[p] # arg[q])
  <2>1. semlock[arg[q]] = q /\ arg[q] \in Sems /\ DOMAIN semlock = Sems
    BY <1>1, <1>3 DEF Held, InCall, HasSemLock, Outside, LocksInv, DomInv
  <2>2. pc[p] \in HasSemLock => semlock[arg[p]] = p
    BY <1>1 DEF Held
  <2> QED
    BY <2>1, <2>2
<1>4. Held(q)'
  BY <1>1, <1>3 DEF Idle, Held
<1>5. ASSUME pc[q] = "sleep" PROVE count'[arg[q]] = 0
  <2>1. count[arg[q]] = 0 /\ arg[q] \in Sems /\ DOMAIN count = Sems
    BY <1>1, <1>5 DEF Asleep, InCall, Outside, LocksInv, DomInv
  <2>2. pc[p] = "body" => arg[p] # arg[q]
    BY <1>3, <1>5 DEF HasSemLock
  <2> QED
    BY <2>1, <2>2
<1>6. Asleep(q)'
  <2>1. pc[q] = "scheduler" => state'[q] = state[q]
    BY <1>1 DEF Held, HasProcLock
  <2> QED
    BY <1>1, <1>5, <2>1 DEF Idle, Asleep
<1> QED
  BY <1>2, <1>4, <1>6
-----------------------------------------------------------------------------
(***************************************************************************)
(* The three variables of Semaphore that the mapping computes.             *)
(***************************************************************************)
apc == [p \in Procs |-> AbsPC(p)]
aarg == [p \in Procs |-> AbsArg(p)]
aval == [p \in Procs |-> AbsVal(p)]

\* What Semaphore sees of q stays as it is.
Same(q) == AbsPC(q)' = AbsPC(q) /\ AbsArg(q)' = AbsArg(q) /\ AbsVal(q)' = AbsVal(q)

\* If every process looks the same, so do the three mapped variables ...
LEMMA AllSame ==
  ASSUME \A q \in Procs : Same(q)
  PROVE  UNCHANGED <<apc, aarg, aval>>
  BY DEF Same, apc, aarg, aval

\* ... and if only p looks different, they change at p.
LEMMA OneChanges ==
  ASSUME NEW p \in Procs, \A q \in Procs \ {p} : Same(q)
  PROVE  /\ apc' = [apc EXCEPT ![p] = AbsPC(p)']
         /\ aarg' = [aarg EXCEPT ![p] = AbsArg(p)']
         /\ aval' = [aval EXCEPT ![p] = AbsVal(p)']
  BY DEF Same, apc, aarg, aval

\* A step of p that neither begins nor ends a wakeup() is not seen in the others.
LEMMA LocalSame ==
  ASSUME NEW p \in Procs, \A q \in Procs \ {p} : Idle(q) /\ state'[q] = state[q],
         pc[p] # "wakeup", pc'[p] # "wakeup"
  PROVE  \A q \in Procs \ {p} : Same(q)
<1> SUFFICES ASSUME NEW q \in Procs \ {p} PROVE Same(q)
  OBVIOUS
<1>1. \A r \in Procs : (pc'[r] = "wakeup" <=> pc[r] = "wakeup")
        /\ (pc[r] = "wakeup" => arg'[r] = arg[r] /\ at'[r] = at[r])
  BY DEF Idle
<1>2. Doomed(q)' <=> Doomed(q)
  BY <1>1 DEF Doomed, Idle
<1>3. Sleeping(q)' <=> Sleeping(q)
  BY DEF Sleeping, Idle
<1>4. AbsPC(q)' = AbsPC(q)
  BY <1>2, <1>3 DEF AbsPC, Idle
<1> QED
  BY <1>4 DEF Same, AbsArg, AbsVal, Idle
-----------------------------------------------------------------------------
\* A step that Semaphore does not see.
LEMMA Stutter ==
  ASSUME \A q \in Procs : Same(q), UNCHANGED <<count, bound, ret, killed, stale>>
  PROVE  UNCHANGED Abs!vars
<1>1. UNCHANGED <<apc, aarg, aval>>
  BY AllSame
<1> QED
  BY <1>1 DEF Abs!vars, apc, aarg, aval

\* What Semaphore sees of a process in user space.
LEMMA InUser ==
  ASSUME NEW p \in Procs, pc'[p] = "user"
  PROVE  AbsPC(p)' = "user" /\ AbsArg(p)' = 0 /\ AbsVal(p)' = 0
  BY DEF AbsPC, AbsArg, AbsVal

\* A system call returns, here and in Semaphore.
LEMMA ReturnStep ==
  ASSUME DomInv, NEW p \in Procs, NEW r, Return(p, r), pc[p] # "wakeup",
         UNCHANGED <<state, killed, at>>
  PROVE  /\ \A q \in Procs \ {p} : Idle(q)
         /\ pc'[p] = "user" /\ ret'[p] = r
         /\ DOMAIN pc' = Procs /\ DOMAIN call' = Procs /\ DOMAIN arg' = Procs
         /\ DOMAIN val' = Procs /\ DOMAIN ret' = Procs
         /\ ret' = [q \in Procs |-> ret'[q]]
         /\ Abs!Return(p, r)
<1>1. /\ pc' = [pc EXCEPT ![p] = "user"] /\ ret' = [ret EXCEPT ![p] = r]
      /\ call' = [call EXCEPT ![p] = "none"] /\ arg' = [arg EXCEPT ![p] = 0]
      /\ val' = [val EXCEPT ![p] = 0]
  BY DEF Return, goto
<1>2. \A q \in Procs \ {p} : Idle(q)
  BY <1>1 DEF DomInv, Idle
<1>3. pc'[p] = "user" /\ ret'[p] = r
  BY <1>1 DEF DomInv
<1>4. \A q \in Procs \ {p} : Same(q)
  BY <1>2, <1>3, LocalSame
<1>5. /\ apc' = [apc EXCEPT ![p] = "user"] /\ aarg' = [aarg EXCEPT ![p] = 0]
      /\ aval' = [aval EXCEPT ![p] = 0]
  BY <1>3, <1>4, InUser, OneChanges
<1>6. Abs!Return(p, r)
  BY <1>1, <1>5 DEF Abs!Return, apc, aarg, aval
<1> QED
  BY <1>1, <1>2, <1>3, <1>6 DEF DomInv

\* The end of a critical section.
LEMMA LeaveStep ==
  ASSUME LocksInv, NEW p \in Procs, NEW r, pc[p] = "body", Leave(p, r),
         UNCHANGED count \/ \E x : count' = [count EXCEPT ![arg[p]] = x],
         UNCHANGED bound \/ \E x : bound' = [bound EXCEPT ![arg[p]] = x]
  PROVE  LocksInv' /\ Abs!Return(p, r)
<1>1. /\ semlock' = [semlock EXCEPT ![arg[p]] = Free] /\ Return(p, r)
      /\ UNCHANGED <<state, chan, plock, killed, at>>
  BY DEF Leave, release
<1>2. DomInv
  BY DEF LocksInv
<1>3. /\ \A q \in Procs \ {p} : Idle(q)
      /\ pc'[p] = "user"
      /\ DOMAIN pc' = Procs /\ DOMAIN call' = Procs /\ DOMAIN arg' = Procs
      /\ DOMAIN val' = Procs /\ DOMAIN ret' = Procs
      /\ ret' = [q \in Procs |-> ret'[q]]
      /\ Abs!Return(p, r)
  BY <1>1, <1>2, ReturnStep
<1>4. DomInv'
  BY <1>1, <1>2, <1>3 DEF DomInv
<1>5. Held(p)' /\ InCall(p)' /\ Asleep(p)'
  BY <1>3 DEF Held, InCall, Asleep, HasSemLock, HasProcLock, Slept, Outside
<1>6. pc[p] \in HasSemLock
  BY DEF HasSemLock
<1> QED
  BY <1>1, <1>3, <1>4, <1>5, <1>6, OthersKept

\* In a critical section the index is inside semaphores[], and Semaphore sees a
\* process in the kernel, in get_sem's loop or woken.
LEMMA InBody ==
  ASSUME LocksInv, NEW p \in Procs, pc[p] = "body"
  PROVE  /\ arg[p] \in Sems
         /\ AbsPC(p) = CASE call[p] = "again" -> "woken"
                         [] call[p] = "get_sem" -> "get_sem"
                         [] call[p] \notin {"again", "get_sem"} -> "kernel"
         /\ apc[p] = AbsPC(p) /\ aarg[p] = AbsArg(p) /\ aval[p] = AbsVal(p)
  BY DEF LocksInv, InCall, Outside, AbsPC, Sleeping, apc, aarg, aval

\* The critical section of sem_open is sem_open of Semaphore.
LEMMA OpenStep ==
  ASSUME LocksInv, NEW p \in Procs, sem_open(p)
  PROVE  LocksInv' /\ Abs!Next
<1>1. /\ pc[p] = "body" /\ call[p] = "sem_open" /\ UNCHANGED stale
      /\ arg[p] \in Sems /\ val[p] \in Values /\ apc[p] = "kernel"
  <2>1. pc[p] = "body" /\ call[p] = "sem_open" /\ UNCHANGED stale
    BY DEF sem_open
  <2> QED
    BY <2>1, InBody DEF LocksInv, InCall, Outside
<1>2. PICK s \in Sems, v \in Values : s = arg[p] /\ v = val[p]
  BY <1>1
<1>3. CASE /\ count[s] = Closed /\ count' = [count EXCEPT ![s] = v]
           /\ bound' = [bound EXCEPT ![s] = v] /\ Leave(p, 1)
  <2>1. LocksInv' /\ Abs!Return(p, 1)
    BY <1>1, <1>2, <1>3, LeaveStep
  <2>2. Abs!sem_open(p, s, v)
    BY <1>1, <1>3, <2>1 DEF Abs!sem_open, Abs!Openable, Abs!SetSem, Abs!Sems,
       Abs!Closed, apc
  <2> QED
    BY <2>1, <2>2 DEF Abs!Next, Abs!Call, Abs!AnyIndex
<1>4. CASE count[s] # Closed /\ Leave(p, 0) /\ UNCHANGED <<count, bound>>
  <2>1. LocksInv' /\ Abs!Return(p, 0)
    BY <1>1, <1>4, LeaveStep
  <2>2. Abs!sem_open(p, s, v)
    BY <1>1, <1>4, <2>1 DEF Abs!sem_open, Abs!Openable, Abs!Fail, Abs!Sems,
       Abs!Closed, apc
  <2> QED
    BY <2>1, <2>2 DEF Abs!Next, Abs!Call, Abs!AnyIndex
<1> QED
  BY <1>2, <1>3, <1>4 DEF sem_open

\* The critical section of sem_close is sem_close of Semaphore.
LEMMA CloseStep ==
  ASSUME LocksInv, NEW p \in Procs, sem_close(p)
  PROVE  LocksInv' /\ Abs!Next
<1>1. /\ pc[p] = "body" /\ UNCHANGED bound
      /\ arg[p] \in Sems /\ apc[p] = "kernel"
  <2>1. pc[p] = "body" /\ call[p] = "sem_close" /\ UNCHANGED bound
    BY DEF sem_close
  <2> QED
    BY <2>1, InBody
<1>2. PICK s \in Sems : s = arg[p]
  BY <1>1
<1>3. CASE /\ count[s] # Closed /\ count' = [count EXCEPT ![s] = Closed]
           /\ stale' = stale \cup AbsWaiters(s) /\ Leave(p, 1)
  <2>1. LocksInv' /\ Abs!Return(p, 1)
    BY <1>1, <1>2, <1>3, LeaveStep
  <2>2. AbsWaiters(s) = Abs!Waiters(s)
    BY DEF AbsWaiters, Abs!Waiters, AbsArg
  <2>3. Abs!sem_close(p, s)
    BY <1>1, <1>3, <2>1, <2>2
    DEF Abs!sem_close, Abs!Usable, Abs!Sems, Abs!Closed, apc
  <2> QED
    BY <2>1, <2>3 DEF Abs!Next, Abs!Call, Abs!AnyIndex
<1>4. CASE count[s] = Closed /\ Leave(p, 0) /\ UNCHANGED <<count, stale>>
  <2>1. LocksInv' /\ Abs!Return(p, 0)
    BY <1>1, <1>4, LeaveStep
  <2>2. Abs!sem_close(p, s)
    BY <1>1, <1>4, <2>1
    DEF Abs!sem_close, Abs!Usable, Abs!Fail, Abs!Sems, Abs!Closed, apc
  <2> QED
    BY <2>1, <2>2 DEF Abs!Next, Abs!Call, Abs!AnyIndex
<1> QED
  BY <1>2, <1>3, <1>4 DEF sem_close

\* One round of get_sem's loop is one of Semaphore.
LEMMA GetSemStep ==
  ASSUME LocksInv, NEW p \in Procs, get_sem(p)
  PROVE  LocksInv' /\ Abs!Next
<1>1. /\ pc[p] = "body" /\ call[p] = "get_sem" /\ UNCHANGED stale
      /\ arg[p] \in Sems
      /\ apc[p] = "get_sem" /\ aarg[p] = arg[p] /\ aval[p] = val[p]
  <2>1. pc[p] = "body" /\ call[p] = "get_sem" /\ UNCHANGED stale
    BY DEF get_sem
  <2> QED
    BY <2>1, InBody DEF AbsArg, AbsVal
<1>2. PICK s \in Sems : s = arg[p]
  BY <1>1
<1>3. CASE /\ count[s] = Closed /\ count' = [count EXCEPT ![s] = val[p]]
           /\ bound' = [bound EXCEPT ![s] = val[p]] /\ Leave(p, s)
  <2>1. LocksInv' /\ Abs!Return(p, s)
    BY <1>1, <1>2, <1>3, LeaveStep
  <2>2. Abs!get_sem_loop(p)
    BY <1>1, <1>2, <1>3, <2>1
    DEF Abs!get_sem_loop, Abs!Openable, Abs!SetSem, Abs!Sems, Abs!Closed, apc,
        aarg, aval
  <2> QED
    BY <2>1, <2>2 DEF Abs!Next, Abs!Kernel
<1>4. CASE /\ count[s] # Closed /\ semlock' = [semlock EXCEPT ![s] = Free]
           /\ arg' = [arg EXCEPT ![p] = @ + 1]
           /\ pc' = [pc EXCEPT ![p] = "next"]
           /\ UNCHANGED <<count, bound, state, chan, plock, killed, call, val, at, ret>>
  <2>1. \A q \in Procs \ {p} : Idle(q)
    BY <1>4 DEF LocksInv, DomInv, Idle
  <2>2. pc'[p] = "next" /\ call'[p] = "get_sem" /\ arg'[p] = s + 1 /\ val'[p] = val[p]
    BY <1>1, <1>2, <1>4 DEF LocksInv, DomInv
  <2>3. DomInv'
    BY <1>4 DEF LocksInv, DomInv
  <2>4. Held(p)' /\ InCall(p)' /\ Asleep(p)'
    BY <2>2 DEF Held, InCall, Asleep, HasSemLock, HasProcLock, Slept, Outside
  <2>5. LocksInv'
    BY <1>1, <1>2, <1>4, <2>1, <2>3, <2>4, OthersKept DEF HasSemLock
  <2>6. AbsPC(p)' = "get_sem" /\ AbsArg(p)' = s + 1 /\ AbsVal(p)' = val[p]
    BY <2>2 DEF AbsPC, AbsArg, AbsVal, Sleeping
  <2>7. \A q \in Procs \ {p} : Same(q)
    BY <1>1, <1>4, <2>1, <2>2, LocalSame
  <2>8. /\ apc' = [apc EXCEPT ![p] = "get_sem"]
        /\ aarg' = [aarg EXCEPT ![p] = s + 1] /\ aval' = [aval EXCEPT ![p] = val[p]]
    BY <2>6, <2>7, OneChanges
  <2>9. /\ apc' = apc /\ aarg' = [aarg EXCEPT ![p] = @ + 1] /\ aval' = aval
    BY <1>1, <1>2, <2>8 DEF apc, aarg, aval
  <2>10. aarg[p] < N
    BY <1>1
  <2>11. Abs!get_sem_loop(p)
    BY <1>1, <1>2, <1>4, <2>9, <2>10
    DEF Abs!get_sem_loop, Abs!Openable, Abs!get_sem_more, Abs!Sems, Abs!Closed,
        apc, aarg, aval
  <2> QED
    BY <2>5, <2>11 DEF Abs!Next, Abs!Kernel
<1> QED
  BY <1>1, <1>2, <1>3, <1>4 DEF get_sem, release, goto

\* A process that is neither at the start nor at the end of a critical section.
LEMMA QuietStep ==
  ASSUME LocksInv, NEW p \in Procs, NEW l, pc' = [pc EXCEPT ![p] = l],
         l # "wakeup", pc[p] # "wakeup",
         \A q \in Procs \ {p} : state'[q] = state[q],
         UNCHANGED <<arg, val, at, count, bound, ret, killed, stale>>,
         \A q \in Procs \ {p} : call'[q] = call[q],
         AbsPC(p)' = AbsPC(p)
  PROVE  UNCHANGED Abs!vars /\ \A q \in Procs \ {p} : Idle(q)
<1>1. pc'[p] = l /\ \A q \in Procs \ {p} : Idle(q)
  BY DEF LocksInv, DomInv, Idle
<1>2. \A q \in Procs \ {p} : Same(q)
  BY <1>1, LocalSame
<1>3. Same(p)
  BY DEF Same, AbsArg, AbsVal
<1> QED
  BY <1>1, <1>2, <1>3, Stutter

\* Between two rounds get_sem either goes on, unseen, or gives up at the end.
LEMMA GetSemNextStep ==
  ASSUME LocksInv, NEW p \in Procs, get_sem_next(p)
  PROVE  LocksInv' /\ (Abs!Next \/ UNCHANGED Abs!vars)
<1>1. /\ pc[p] = "next" /\ call[p] = "get_sem" /\ arg[p] \in 0 .. N
      /\ UNCHANGED <<count, bound, semlock, state, chan, plock, killed, at, stale>>
  BY DEF get_sem_next, LocksInv, InCall
<1>2. AbsPC(p) = "get_sem" /\ apc[p] = "get_sem" /\ aarg[p] = arg[p]
  BY <1>1 DEF AbsPC, Sleeping, AbsArg, apc, aarg
<1>3. CASE /\ arg[p] \in Sems /\ pc' = [pc EXCEPT ![p] = "acquire"]
           /\ UNCHANGED <<call, arg, val, ret>>
  <2>1. pc'[p] = "acquire"
    BY <1>3 DEF LocksInv, DomInv
  <2>2. AbsPC(p)' = AbsPC(p)
    BY <1>1, <1>2, <1>3, <2>1 DEF AbsPC, Sleeping
  <2>3. UNCHANGED Abs!vars /\ \A q \in Procs \ {p} : Idle(q)
    <3>1. pc[p] # "wakeup" /\ \A q \in Procs \ {p} : state'[q] = state[q] /\ call'[q] = call[q]
      BY <1>1, <1>3
    <3> QED
      BY <1>1, <1>3, <2>2, <3>1, QuietStep
  <2>4. DomInv'
    BY <1>1, <1>3 DEF LocksInv, DomInv
  <2>5. Held(p)' /\ InCall(p)' /\ Asleep(p)'
    BY <1>1, <1>3, <2>1 DEF Held, InCall, Asleep, HasSemLock, HasProcLock, Slept,
       Outside
  <2> QED
    BY <1>1, <2>3, <2>4, <2>5, OthersKept
<1>4. CASE arg[p] \notin Sems /\ Return(p, -1)
  <2>1. DomInv
    BY DEF LocksInv
  <2>2. /\ \A q \in Procs \ {p} : Idle(q)
        /\ pc'[p] = "user"
        /\ DOMAIN pc' = Procs /\ DOMAIN call' = Procs /\ DOMAIN arg' = Procs
        /\ DOMAIN val' = Procs /\ DOMAIN ret' = Procs
        /\ ret' = [q \in Procs |-> ret'[q]]
        /\ Abs!Return(p, -1)
    BY <1>1, <1>4, <2>1, ReturnStep
  <2>3. DomInv'
    BY <1>1, <2>1, <2>2 DEF DomInv
  <2>4. Held(p)' /\ InCall(p)' /\ Asleep(p)'
    BY <2>2 DEF Held, InCall, Asleep, HasSemLock, HasProcLock, Slept, Outside
  <2>5. LocksInv'
    BY <1>1, <2>2, <2>3, <2>4, OthersKept
  <2>6. aarg[p] = N
    BY <1>1, <1>2, <1>4
  <2>7. Abs!get_sem_loop(p)
    BY <1>1, <1>2, <2>2, <2>6 DEF Abs!get_sem_loop, Abs!Fail, apc, aarg
  <2> QED
    BY <2>5, <2>7 DEF Abs!Next, Abs!Kernel
<1> QED
  BY <1>3, <1>4 DEF get_sem_next, goto

\* Whoever holds the lock of a semaphore outside wakeup() keeps wakeup() from it.
LEMMA NotDoomed ==
  ASSUME LocksInv, NEW p \in Procs, pc[p] \in {"body", "sleep", "unlock"},
         NEW q \in Procs, arg[q] = arg[p]
  PROVE  ~Doomed(q)
<1> SUFFICES ASSUME NEW r \in Procs, pc[r] = "wakeup", arg[r] = arg[p] PROVE FALSE
  BY DEF Doomed
<1>1. semlock[arg[r]] = r /\ semlock[arg[p]] = p
  BY DEF LocksInv, Held, HasSemLock
<1> QED
  BY <1>1

\* sem_up wakes, in one step for Semaphore, every sleeper its loop will visit.
LEMMA UpStep ==
  ASSUME LocksInv, NEW p \in Procs, sem_up(p)
  PROVE  LocksInv' /\ Abs!Next
<1>1. /\ pc[p] = "body" /\ UNCHANGED <<bound, stale>> /\ arg[p] \in Sems
      /\ AbsPC(p) = "kernel" /\ apc[p] = "kernel"
  <2>1. pc[p] = "body" /\ call[p] = "sem_up" /\ UNCHANGED <<bound, stale>>
    BY DEF sem_up
  <2> QED
    BY <2>1, InBody
<1>2. PICK s \in Sems : s = arg[p]
  BY <1>1
<1>3. CASE count[s] \in {Closed, bound[s]} /\ Leave(p, 0) /\ UNCHANGED count
  <2>1. LocksInv' /\ Abs!Return(p, 0)
    BY <1>1, <1>3, LeaveStep
  <2>2. Abs!sem_up(p, s)
    BY <1>1, <1>3, <2>1
    DEF Abs!sem_up, Abs!CanUp, Abs!Usable, Abs!Fail, Abs!Sems, Abs!Closed, apc
  <2> QED
    BY <2>1, <2>2 DEF Abs!Next, Abs!Call, Abs!AnyIndex
<1>4. CASE /\ count[s] \notin {Closed, bound[s]}
           /\ count' = [count EXCEPT ![s] = @ + 1]
           /\ pc' = [pc EXCEPT ![p] = "wakeup"] /\ at' = [at EXCEPT ![p] = 1]
           /\ ret' = [ret EXCEPT ![p] = 1]
           /\ UNCHANGED <<semlock, state, chan, plock, killed, call, arg, val>>
  <2>1. \A q \in Procs \ {p} : Idle(q)
    BY <1>4 DEF LocksInv, DomInv, Idle
  <2>2. pc'[p] = "wakeup" /\ at'[p] = 1 /\ ret'[p] = 1 /\ arg'[p] = s
    BY <1>2, <1>4 DEF LocksInv, DomInv
  <2>3. DomInv'
    <3>1. 1 \in 1 .. NPROC + 1
      OBVIOUS
    <3>2. at' \in [Procs -> 1 .. NPROC + 1]
      BY <1>4, <3>1 DEF LocksInv, DomInv
    <3>3. DOMAIN count' = Sems /\ DOMAIN pc' = Procs /\ DOMAIN ret' = Procs
      BY <1>4 DEF LocksInv, DomInv
    <3> QED
      BY <1>1, <1>4, <3>2, <3>3 DEF LocksInv, DomInv
  <2>4. Held(p)' /\ InCall(p)' /\ Asleep(p)'
    <3>1. semlock[s] = p
      BY <1>1, <1>2 DEF LocksInv, Held, HasSemLock
    <3>2. call[p] = "sem_up"
      BY DEF sem_up
    <3> QED
      BY <1>2, <1>4, <2>2, <3>1, <3>2
      DEF Held, InCall, Asleep, HasSemLock, HasProcLock, Slept, Outside
  <2>5. LocksInv'
    BY <1>1, <1>2, <1>4, <2>1, <2>3, <2>4, OthersKept
  <2>6. ASSUME NEW q \in Procs \ {p}
        PROVE  /\ AbsPC(q)' = IF AbsPC(q) = "asleep" /\ AbsArg(q) = s
                                THEN "woken" ELSE AbsPC(q)
               /\ AbsArg(q)' = AbsArg(q) /\ AbsVal(q)' = AbsVal(q)
    <3>0. Idle(q) /\ state'[q] = state[q]
      BY <1>4, <2>1
    <3>1. Sleeping(q)' <=> Sleeping(q)
      BY <3>0 DEF Sleeping, Idle
    <3>2. CASE Sleeping(q) /\ arg[q] = s
      <4>1. ~Doomed(q)
        BY <1>1, <1>2, <3>2, NotDoomed
      <4>2. Doomed(q)'
        BY <2>2, <3>0, <3>2 DEF Doomed, Idle
      <4>3. call[q] = "again" /\ pc[q] \in Slept
        BY <3>2 DEF LocksInv, InCall, Sleeping, Slept
      <4>4. AbsPC(q) = "asleep" /\ AbsPC(q)' = "woken"
        BY <3>0, <3>1, <3>2, <4>1, <4>2, <4>3 DEF AbsPC, Idle, Slept
      <4> QED
        BY <3>0, <3>2, <4>4 DEF AbsArg, AbsVal, Idle
    <3>3. CASE ~(Sleeping(q) /\ arg[q] = s)
      <4>1. Sleeping(q) => (Doomed(q)' <=> Doomed(q))
        <5> HAVE Sleeping(q)
        <5>1. \A r \in Procs : (pc'[r] = "wakeup" /\ arg'[r] = arg[q] /\ at'[r] <= q)
                <=> (pc[r] = "wakeup" /\ arg[r] = arg[q] /\ at[r] <= q)
          BY <1>1, <2>1, <2>2, <3>3 DEF Idle
        <5> QED
          BY <3>0, <5>1 DEF Doomed, Idle
      <4>2. AbsPC(q)' = AbsPC(q)
        BY <3>0, <3>1, <4>1 DEF AbsPC, Idle
      <4>3. ~(AbsPC(q) = "asleep" /\ AbsArg(q) = s)
        <5>1. AbsPC(q) = "asleep" => Sleeping(q) /\ AbsArg(q) = arg[q]
          BY DEF AbsPC, AbsArg
        <5> QED
          BY <3>3, <5>1
      <4> QED
        BY <3>0, <4>2, <4>3 DEF AbsArg, AbsVal, Idle
    <3> QED
      BY <3>2, <3>3
  <2>7. AbsPC(p)' = "user" /\ AbsArg(p)' = AbsArg(p) /\ AbsVal(p)' = AbsVal(p)
    BY <1>1, <2>2 DEF AbsPC, AbsArg, AbsVal
  <2>8. aarg' = aarg /\ aval' = aval
    BY <2>6, <2>7 DEF aarg, aval
  <2>9. apc' = [q \in Procs |-> IF apc[q] = "asleep" /\ aarg[q] = s THEN "woken"
                                ELSE IF q = p THEN "user" ELSE apc[q]]
    BY <1>1, <2>6, <2>7 DEF apc, aarg
  <2>10. Abs!sem_up(p, s)
    <3>1. \A q \in Procs : q \in Abs!Woken(s) <=> apc[q] = "asleep" /\ aarg[q] = s
      BY DEF Abs!Woken, Abs!Sleepers, apc, aarg
    <3>2. apc' = [q \in Procs |-> IF q \in Abs!Woken(s) THEN "woken"
                                  ELSE IF q = p THEN "user" ELSE apc[q]]
      BY <2>9, <3>1
    <3>3. Abs!CanUp(s)
      BY <1>4 DEF Abs!CanUp, Abs!Usable, Abs!Sems, Abs!Closed
    <3> QED
      BY <1>1, <1>4, <2>8, <3>2, <3>3 DEF Abs!sem_up, apc, aarg, aval
  <2> QED
    BY <2>5, <2>10 DEF Abs!Next, Abs!Call, Abs!AnyIndex
<1> QED
  BY <1>1, <1>2, <1>3, <1>4 DEF sem_up, goto

\* A visit of wakeup() changes nothing for Semaphore: the sleeper it finds was
\* already woken there, and it passes nobody who still sleeps.
LEMMA WakeupStep ==
  ASSUME LocksInv, NEW p \in Procs, wakeup(p)
  PROVE  LocksInv' /\ UNCHANGED Abs!vars
<1>1. PICK q \in Procs : q = at[p]
  BY DEF wakeup
<1>2. /\ pc[p] = "wakeup" /\ (q # p => plock[q] = Free)
      /\ at' = [at EXCEPT ![p] = @ + 1]
      /\ UNCHANGED <<count, bound, semlock, chan, plock, killed, pc, call, arg,
                     val, ret, stale>>
  BY <1>1 DEF wakeup
<1>3. state' = IF q # p /\ state[q] = "SLEEPING" /\ chan[q] = arg[p]
                 THEN [state EXCEPT ![q] = "RUNNABLE"] ELSE state
  BY <1>1 DEF wakeup
<1>4. at'[p] = q + 1 /\ \A r \in Procs \ {p} : Idle(r)
  BY <1>1, <1>2 DEF LocksInv, DomInv, Idle
<1>5. \A r \in Procs : state'[r] = state[r] \/ r = q
  BY <1>3 DEF LocksInv, DomInv
<1>6. LocksInv'
  <2>1. DomInv'
    <3>1. q + 1 \in 1 .. NPROC + 1
      OBVIOUS
    <3>2. at' \in [Procs -> 1 .. NPROC + 1]
      BY <1>1, <1>2, <3>1 DEF LocksInv, DomInv
    <3>3. DOMAIN state' = Procs
      BY <1>3 DEF LocksInv, DomInv
    <3> QED
      BY <1>2, <3>2, <3>3 DEF LocksInv, DomInv
  <2>2. Held(p)' /\ InCall(p)' /\ Asleep(p)'
    BY <1>2 DEF LocksInv, Held, InCall, Asleep, HasSemLock, HasProcLock, Slept,
                Outside
  <2>3. \A r \in Procs \ {p} : state'[r] = state[r] \/ plock[r] = Free
    BY <1>2, <1>5
  <2>4. \A r \in Procs \ {p} : plock'[r] = plock[r] /\ chan'[r] = chan[r]
    BY <1>2
  <2> QED
    BY <1>2, <1>4, <2>1, <2>2, <2>3, <2>4, OthersKept
<1>7. ASSUME NEW r \in Procs \ {p} PROVE Same(r)
  <2>0. Idle(r)
    BY <1>4
  <2>1. CASE r = q /\ state[q] = "SLEEPING" /\ chan[q] = arg[p]
    <3>1. state'[q] = "RUNNABLE"
      BY <1>3, <2>1 DEF LocksInv, DomInv
    <3>2. Held(q) /\ InCall(q) /\ Asleep(q) /\ plock[q] = Free
      BY <1>2, <2>1 DEF LocksInv
    <3>3. pc[q] \notin {"unlock", "swtch", "scheduler"}
      BY <3>2 DEF Held, HasProcLock
    <3>4. ~Sleeping(q)'
      BY <2>0, <2>1, <3>1, <3>3 DEF Sleeping, Idle
    <3>5. Sleeping(q) => Doomed(q)
      <4> HAVE Sleeping(q)
      <4>1. arg[q] = arg[p]
        BY <2>1, <3>2, <3>3 DEF Sleeping, Asleep
      <4> QED
        BY <1>1, <1>2, <4>1 DEF Doomed
    <3>6. AbsPC(q)' = AbsPC(q)
      BY <2>0, <2>1, <3>4, <3>5 DEF AbsPC, Idle
    <3> QED
      BY <2>0, <2>1, <3>6 DEF Same, AbsArg, AbsVal, Idle
  <2>2. CASE ~(r = q /\ state[q] = "SLEEPING" /\ chan[q] = arg[p])
    <3>1. state'[r] = state[r]
      BY <1>3, <1>5, <2>2
    <3>2. Sleeping(r)' <=> Sleeping(r)
      BY <2>0, <3>1 DEF Sleeping, Idle
    <3>3. Sleeping(r) /\ arg[r] = arg[p] => r # q
      <4> SUFFICES ASSUME Sleeping(r), arg[r] = arg[p], r = q PROVE FALSE
        OBVIOUS
      <4>1. Held(q) /\ Asleep(q) /\ plock[q] = Free
        BY <1>2 DEF LocksInv
      <4>2. pc[q] \notin {"unlock", "swtch", "scheduler"}
        BY <4>1 DEF Held, HasProcLock
      <4> QED
        BY <2>2, <4>1, <4>2 DEF Sleeping, Asleep
    <3>4. Sleeping(r) => (Doomed(r)' <=> Doomed(r))
      <4> HAVE Sleeping(r)
      <4>1. \A x \in Procs : (pc'[x] = "wakeup" /\ arg'[x] = arg[r] /\ at'[x] <= r)
              <=> (pc[x] = "wakeup" /\ arg[x] = arg[r] /\ at[x] <= r)
        <5> TAKE x \in Procs
        <5>1. CASE x = p
          BY <1>1, <1>2, <1>4, <3>3, <5>1
        <5>2. CASE x # p
          BY <1>4, <5>2 DEF Idle
        <5> QED
          BY <5>1, <5>2
      <4> QED
        BY <2>0, <4>1 DEF Doomed, Idle
    <3>5. AbsPC(r)' = AbsPC(r)
      BY <2>0, <3>2, <3>4 DEF AbsPC, Idle
    <3> QED
      BY <2>0, <3>5 DEF Same, AbsArg, AbsVal, Idle
  <2> QED
    BY <2>1, <2>2
<1>8. Same(p)
  BY <1>2 DEF Same, AbsPC, AbsArg, AbsVal
<1> QED
  BY <1>2, <1>6, <1>7, <1>8, Stutter

\* sem_up returns to a process that Semaphore already sees in user space.
LEMMA UpEndStep ==
  ASSUME LocksInv, NEW p \in Procs, sem_up_end(p)
  PROVE  LocksInv' /\ UNCHANGED Abs!vars
<1>1. /\ pc[p] = "wakeup" /\ at[p] \notin Procs
      /\ semlock' = [semlock EXCEPT ![arg[p]] = Free]
      /\ pc' = [pc EXCEPT ![p] = "user"] /\ ret' = [ret EXCEPT ![p] = 1]
      /\ call' = [call EXCEPT ![p] = "none"] /\ arg' = [arg EXCEPT ![p] = 0]
      /\ val' = [val EXCEPT ![p] = 0] /\ at' = [at EXCEPT ![p] = 1]
      /\ UNCHANGED <<count, bound, state, chan, plock, killed, stale>>
  BY DEF sem_up_end, release, Return, goto
<1>2. \A r \in Procs \ {p} : Idle(r)
  BY <1>1 DEF LocksInv, DomInv, Idle
<1>3. pc'[p] = "user" /\ ret' = ret
  <2>1. ret[p] = 1
    BY <1>1 DEF LocksInv, InCall
  <2> QED
    BY <1>1, <2>1 DEF LocksInv, DomInv
<1>4. LocksInv'
  <2>1. DomInv'
    <3>1. 1 \in 1 .. NPROC + 1
      OBVIOUS
    <3>2. at' \in [Procs -> 1 .. NPROC + 1]
      BY <1>1, <3>1 DEF LocksInv, DomInv
    <3>3. /\ DOMAIN semlock' = Sems /\ DOMAIN pc' = Procs /\ DOMAIN call' = Procs
          /\ DOMAIN arg' = Procs /\ DOMAIN val' = Procs
      BY <1>1 DEF LocksInv, DomInv
    <3> QED
      BY <1>1, <1>3, <3>2, <3>3 DEF LocksInv, DomInv
  <2>2. Held(p)' /\ InCall(p)' /\ Asleep(p)'
    BY <1>3 DEF Held, InCall, Asleep, HasSemLock, HasProcLock, Slept, Outside
  <2>3. pc[p] \in HasSemLock
    BY <1>1 DEF HasSemLock
  <2> QED
    BY <1>1, <1>2, <2>1, <2>2, <2>3, OthersKept
<1>5. ASSUME NEW r \in Procs \ {p} PROVE Same(r)
  <2>0. Idle(r) /\ state'[r] = state[r]
    BY <1>1, <1>2
  <2>1. Sleeping(r)' <=> Sleeping(r)
    BY <2>0 DEF Sleeping, Idle
  <2>2. Doomed(r)' <=> Doomed(r)
    <3>0. at[p] \in 1 .. NPROC + 1
      BY DEF LocksInv, DomInv
    <3>1. at[p] = NPROC + 1
      BY <1>1, <3>0
    <3>2. \A x \in Procs : (pc'[x] = "wakeup" /\ arg'[x] = arg[r] /\ at'[x] <= r)
              <=> (pc[x] = "wakeup" /\ arg[x] = arg[r] /\ at[x] <= r)
      BY <1>2, <1>3, <3>1 DEF Idle
    <3> QED
      BY <2>0, <3>2 DEF Doomed, Idle
  <2>3. AbsPC(r)' = AbsPC(r)
    BY <2>0, <2>1, <2>2 DEF AbsPC, Idle
  <2> QED
    BY <2>0, <2>3 DEF Same, AbsArg, AbsVal, Idle
<1>6. Same(p)
  <2>1. AbsPC(p) = "user" /\ AbsArg(p) = 0 /\ AbsVal(p) = 0
    BY <1>1 DEF AbsPC, AbsArg, AbsVal
  <2> QED
    BY <1>3, <2>1, InUser DEF Same
<1> QED
  BY <1>1, <1>3, <1>4, <1>5, <1>6, Stutter

\* sem_down's test of the count, with its lock held.
LEMMA DownStep ==
  ASSUME LocksInv, NEW p \in Procs, sem_down(p)
  PROVE  LocksInv' /\ (Abs!Next \/ UNCHANGED Abs!vars)
<1>1. /\ pc[p] = "body" /\ UNCHANGED bound /\ arg[p] \in Sems
      /\ call[p] \in {"sem_down", "again"}
  <2>1. pc[p] = "body" /\ call[p] \in {"sem_down", "again"} /\ UNCHANGED bound
    BY DEF sem_down
  <2> QED
    BY <2>1, InBody
<1>2. PICK s \in Sems : s = arg[p]
  BY <1>1
<1>3. /\ AbsPC(p) = IF call[p] = "again" THEN "woken" ELSE "kernel"
      /\ apc[p] = AbsPC(p) /\ (call[p] = "again" => aarg[p] = s)
  BY <1>1, <1>2, InBody DEF AbsArg
<1>4. CASE /\ call[p] = "sem_down" /\ count[s] = Closed /\ Leave(p, 0)
           /\ UNCHANGED <<count, stale>>
  <2>1. LocksInv' /\ Abs!Return(p, 0)
    BY <1>1, <1>4, LeaveStep
  <2>2. Abs!sem_down(p, s)
    BY <1>1, <1>3, <1>4, <2>1
    DEF Abs!sem_down, Abs!Usable, Abs!Fail, Abs!Sems, Abs!Closed, apc
  <2> QED
    BY <2>1, <2>2 DEF Abs!Next, Abs!Call, Abs!AnyIndex
<1>5. CASE /\ count[s] = 0 /\ pc' = [pc EXCEPT ![p] = "sleep"]
           /\ UNCHANGED <<count, semlock, state, chan, plock, killed, call, arg,
                          val, at, ret, stale>>
  <2>1. pc'[p] = "sleep"
    BY <1>5 DEF LocksInv, DomInv
  <2>2. AbsPC(p)' = AbsPC(p)
    BY <1>1, <1>5, <2>1 DEF AbsPC, Sleeping
  <2>3. UNCHANGED Abs!vars /\ \A q \in Procs \ {p} : Idle(q)
    <3>1. pc[p] # "wakeup" /\ \A q \in Procs \ {p} : state'[q] = state[q] /\ call'[q] = call[q]
      BY <1>1, <1>5
    <3> QED
      BY <1>1, <1>5, <2>2, <3>1, QuietStep
  <2>4. DomInv'
    BY <1>1, <1>5 DEF LocksInv, DomInv
  <2>5. Held(p)' /\ InCall(p)' /\ Asleep(p)'
    <3>1. semlock[arg[p]] = p
      BY <1>1 DEF LocksInv, Held, HasSemLock
    <3> QED
      BY <1>1, <1>2, <1>5, <2>1, <3>1
      DEF Held, InCall, Asleep, HasSemLock, HasProcLock, Slept, Outside
  <2> QED
    BY <1>5, <2>3, <2>4, <2>5, OthersKept
<1>6. CASE /\ count[s] # 0 /\ count[s] > -MaxDebt
           /\ (call[p] = "sem_down" => count[s] # Closed)
           /\ count' = [count EXCEPT ![s] = @ - 1]
           /\ stale' = stale \ {p} /\ Leave(p, 1)
  <2>1. LocksInv' /\ Abs!Return(p, 1)
    BY <1>1, <1>2, <1>6, LeaveStep
  <2>2. Abs!TakeOrSleep(p, s)
    BY <1>1, <1>6, <2>1 DEF Abs!TakeOrSleep
  <2>3. CASE call[p] = "sem_down"
    <3>1. Abs!sem_down(p, s)
      BY <1>3, <1>6, <2>2, <2>3
      DEF Abs!sem_down, Abs!Usable, Abs!Sems, Abs!Closed, apc
    <3> QED
      BY <2>1, <3>1 DEF Abs!Next, Abs!Call, Abs!AnyIndex
  <2>4. CASE call[p] = "again"
    <3>1. Abs!sem_down_woken(p)
      BY <1>3, <2>2, <2>4 DEF Abs!sem_down_woken, apc, aarg
    <3> QED
      BY <2>1, <3>1 DEF Abs!Next, Abs!Kernel
  <2> QED
    BY <1>1, <2>3, <2>4
<1> QED
  BY <1>1, <1>2, <1>4, <1>5, <1>6 DEF sem_down, goto

\* sem_down sleeps, for Semaphore, when it has p->lock: it still holds the
\* semaphore's lock, so the count is 0 and nobody is in wakeup().
LEMMA SleepStep ==
  ASSUME LocksInv, NEW p \in Procs, sleep(p)
  PROVE  LocksInv' /\ Abs!Next
<1>1. /\ pc[p] = "sleep" /\ plock' = [plock EXCEPT ![p] = p]
      /\ pc' = [pc EXCEPT ![p] = "unlock"]
      /\ call' = [call EXCEPT ![p] = "again"]
      /\ UNCHANGED <<count, bound, semlock, state, chan, killed, arg, val, at,
                     ret, stale>>
  BY DEF sleep, acquire, goto
<1>2. /\ arg[p] \in Sems /\ call[p] \in {"sem_down", "again"}
      /\ count[arg[p]] = 0 /\ semlock[arg[p]] = p
  BY <1>1 DEF LocksInv, InCall, Asleep, Held, HasSemLock, Outside
<1>3. PICK s \in Sems : s = arg[p]
  BY <1>2
<1>4. pc'[p] = "unlock" /\ call'[p] = "again" /\ plock'[p] = p
  BY <1>1 DEF LocksInv, DomInv
<1>5. \A q \in Procs \ {p} : Idle(q) /\ state'[q] = state[q]
  BY <1>1 DEF LocksInv, DomInv, Idle
<1>6. LocksInv'
  <2>1. DomInv'
    BY <1>1 DEF LocksInv, DomInv
  <2>2. Held(p)' /\ InCall(p)' /\ Asleep(p)'
    BY <1>1, <1>2, <1>4
    DEF Held, InCall, Asleep, HasSemLock, HasProcLock, Slept, Outside
  <2>3. \A q \in Procs \ {p} : plock'[q] = plock[q] /\ chan'[q] = chan[q]
    BY <1>1 DEF LocksInv, DomInv
  <2> QED
    BY <1>1, <1>5, <2>1, <2>2, <2>3, OthersKept
<1>7. AbsPC(p) = IF call[p] = "again" THEN "woken" ELSE "kernel"
  BY <1>1, <1>2 DEF AbsPC, Sleeping
<1>8. AbsPC(p)' = "asleep"
  <2>1. ~Doomed(p)
    BY <1>1, NotDoomed
  <2>2. \A x \in Procs : (pc'[x] = "wakeup" /\ arg'[x] = arg'[p] /\ at'[x] <= p)
              <=> (pc[x] = "wakeup" /\ arg[x] = arg[p] /\ at[x] <= p)
    BY <1>1, <1>4, <1>5 DEF Idle
  <2>3. ~Doomed(p)'
    BY <2>1, <2>2 DEF Doomed
  <2> QED
    BY <1>4, <2>3 DEF AbsPC, Sleeping
<1>9. \A q \in Procs \ {p} : Same(q)
  BY <1>1, <1>4, <1>5, LocalSame
<1>10. AbsArg(p)' = s /\ AbsVal(p)' = 0 /\ AbsVal(p) = 0
  BY <1>1, <1>3, <1>7, <1>8 DEF AbsArg, AbsVal
<1>11. /\ apc' = [apc EXCEPT ![p] = "asleep"] /\ aarg' = [aarg EXCEPT ![p] = s]
       /\ aval' = [aval EXCEPT ![p] = 0]
  BY <1>8, <1>9, <1>10, OneChanges
<1>12. /\ aval' = aval /\ apc[p] = AbsPC(p)
       /\ (AbsPC(p) = "woken" => aarg[p] = s)
  BY <1>3, <1>10, <1>11 DEF aval, apc, aarg, AbsArg
<1>13. Abs!TakeOrSleep(p, s)
  BY <1>1, <1>2, <1>3, <1>11, <1>12 DEF Abs!TakeOrSleep, apc, aarg, aval
<1>14. CASE call[p] = "sem_down"
  <2>1. Abs!sem_down(p, s)
    BY <1>2, <1>3, <1>7, <1>12, <1>13, <1>14
    DEF Abs!sem_down, Abs!Usable, Abs!Sems, Abs!Closed, apc
  <2> QED
    BY <1>6, <2>1 DEF Abs!Next, Abs!Call, Abs!AnyIndex
<1>15. CASE call[p] = "again"
  <2>1. Abs!sem_down_woken(p)
    BY <1>7, <1>12, <1>13, <1>15 DEF Abs!sem_down_woken, apc, aarg
  <2> QED
    BY <1>6, <2>1 DEF Abs!Next, Abs!Kernel
<1> QED
  BY <1>2, <1>14, <1>15

\* A step of the thread of p, or of the scheduler for it, inside a call: for
\* Semaphore p sleeps after it as it did before.
LEMMA SilentStep ==
  ASSUME LocksInv, NEW p \in Procs, NEW l, pc' = [pc EXCEPT ![p] = l],
         pc[p] \notin Outside \cup {"wakeup"}, l \notin Outside \cup {"wakeup"},
         UNCHANGED <<count, bound, killed, call, arg, val, at, ret, stale>>,
         \/ UNCHANGED semlock
         \/ semlock[arg[p]] = Free /\ semlock' = [semlock EXCEPT ![arg[p]] = p]
         \/ pc[p] \in HasSemLock /\ semlock' = [semlock EXCEPT ![arg[p]] = Free],
         DOMAIN state' = Procs, DOMAIN chan' = Procs, DOMAIN plock' = Procs,
         \A q \in Procs \ {p} : state'[q] = state[q] /\ plock'[q] = plock[q]
                                /\ chan'[q] = chan[q],
         Sleeping(p)' <=> Sleeping(p), Held(p)', InCall(p)', Asleep(p)'
  PROVE  LocksInv' /\ UNCHANGED Abs!vars
<1>1. pc'[p] = l /\ \A q \in Procs \ {p} : Idle(q)
  BY DEF LocksInv, DomInv, Idle
<1>2. DomInv'
  <2>1. DOMAIN semlock' = Sems /\ DOMAIN pc' = Procs
    BY DEF LocksInv, DomInv
  <2> QED
    BY <2>1 DEF LocksInv, DomInv
<1>3. LocksInv'
  <2>1. \A q \in Procs \ {p} : plock'[q] = plock[q] /\ chan'[q] = chan[q]
    OBVIOUS
  <2>2. \A q \in Procs \ {p} : state'[q] = state[q] \/ plock[q] = Free
    OBVIOUS
  <2> QED
    BY <1>1, <1>2, <2>1, <2>2, OthersKept
<1>4. Doomed(p)' <=> Doomed(p)
  <2>1. \A x \in Procs : (pc'[x] = "wakeup" /\ arg'[x] = arg'[p] /\ at'[x] <= p)
              <=> (pc[x] = "wakeup" /\ arg[x] = arg[p] /\ at[x] <= p)
    BY <1>1 DEF Idle
  <2> QED
    BY <2>1 DEF Doomed
<1>5. AbsPC(p)' = AbsPC(p)
  BY <1>1, <1>4 DEF AbsPC, Outside
<1>6. UNCHANGED Abs!vars
  <2>1. \A q \in Procs \ {p} : state'[q] = state[q]
    OBVIOUS
  <2>2. \A q \in Procs \ {p} : call'[q] = call[q]
    OBVIOUS
  <2>3. l # "wakeup" /\ pc[p] # "wakeup"
    OBVIOUS
  <2> QED
    BY <1>5, <2>1, <2>2, <2>3, QuietStep
<1> QED
  BY <1>3, <1>6

\* acquire() of the semaphore's lock.
LEMMA AcquireStep ==
  ASSUME LocksInv, NEW p \in Procs, Acquire(p)
  PROVE  LocksInv' /\ UNCHANGED Abs!vars
<1>1. /\ pc[p] = "acquire" /\ semlock[arg[p]] = Free
      /\ semlock' = [semlock EXCEPT ![arg[p]] = p]
      /\ pc' = [pc EXCEPT ![p] = "body"]
      /\ UNCHANGED <<count, bound, state, chan, plock, killed, call, arg, val, at,
                     ret, stale>>
  BY DEF Acquire, acquire, goto
<1>2. arg[p] \in Sems /\ InCall(p)
  BY <1>1 DEF LocksInv, InCall, Outside
<1>3. pc'[p] = "body" /\ semlock'[arg[p]] = p
  BY <1>1, <1>2 DEF LocksInv, DomInv
<1>4. Held(p)' /\ InCall(p)' /\ Asleep(p)'
  BY <1>1, <1>2, <1>3
  DEF Held, InCall, Asleep, HasSemLock, HasProcLock, Slept, Outside
<1>5. Sleeping(p)' <=> Sleeping(p)
  BY <1>1, <1>3 DEF Sleeping
<1>6. pc[p] \notin Outside \cup {"wakeup"} /\ "body" \notin Outside \cup {"wakeup"}
  BY <1>1 DEF Outside
<1>7. DOMAIN state' = Procs /\ DOMAIN chan' = Procs /\ DOMAIN plock' = Procs
  BY <1>1 DEF LocksInv, DomInv
<1> QED
  BY <1>1, <1>4, <1>5, <1>6, <1>7, SilentStep

\* release() of the semaphore's lock in sleep(), p->lock being held.
LEMMA UnlockStep ==
  ASSUME LocksInv, NEW p \in Procs, sleep_unlock(p)
  PROVE  LocksInv' /\ UNCHANGED Abs!vars
<1>1. /\ pc[p] = "unlock" /\ semlock' = [semlock EXCEPT ![arg[p]] = Free]
      /\ pc' = [pc EXCEPT ![p] = "swtch"]
      /\ UNCHANGED <<count, bound, state, chan, plock, killed, call, arg, val, at,
                     ret, stale>>
  BY DEF sleep_unlock, release, goto
<1>2. InCall(p) /\ plock[p] = p
  BY <1>1 DEF LocksInv, Held, HasProcLock
<1>3. pc'[p] = "swtch"
  BY <1>1 DEF LocksInv, DomInv
<1>4. Held(p)' /\ InCall(p)' /\ Asleep(p)'
  BY <1>1, <1>2, <1>3
  DEF Held, InCall, Asleep, HasSemLock, HasProcLock, Slept, Outside
<1>5. Sleeping(p)' <=> Sleeping(p)
  BY <1>1, <1>3 DEF Sleeping
<1>6. /\ pc[p] \notin Outside \cup {"wakeup"} /\ "swtch" \notin Outside \cup {"wakeup"}
      /\ pc[p] \in HasSemLock
  BY <1>1 DEF Outside, HasSemLock
<1>7. DOMAIN state' = Procs /\ DOMAIN chan' = Procs /\ DOMAIN plock' = Procs
  BY <1>1 DEF LocksInv, DomInv
<1> QED
  BY <1>1, <1>4, <1>5, <1>6, <1>7, SilentStep

\* sched(): p is SLEEPING on its semaphore when it leaves its CPU.
LEMMA SwtchStep ==
  ASSUME LocksInv, NEW p \in Procs, sleep_swtch(p)
  PROVE  LocksInv' /\ UNCHANGED Abs!vars
<1>1. /\ pc[p] = "swtch" /\ chan' = [chan EXCEPT ![p] = arg[p]]
      /\ state' = [state EXCEPT ![p] = "SLEEPING"]
      /\ pc' = [pc EXCEPT ![p] = "scheduler"]
      /\ UNCHANGED <<count, bound, semlock, plock, killed, call, arg, val, at, ret,
                     stale>>
  BY DEF sleep_swtch, goto
<1>2. InCall(p) /\ plock[p] = p
  BY <1>1 DEF LocksInv, Held, HasProcLock
<1>3. /\ pc'[p] = "scheduler" /\ chan'[p] = arg[p] /\ state'[p] = "SLEEPING"
      /\ DOMAIN state' = Procs /\ DOMAIN chan' = Procs /\ DOMAIN plock' = Procs
      /\ \A q \in Procs \ {p} : state'[q] = state[q] /\ plock'[q] = plock[q]
                                /\ chan'[q] = chan[q]
  BY <1>1 DEF LocksInv, DomInv
<1>4. Held(p)' /\ InCall(p)' /\ Asleep(p)'
  BY <1>1, <1>2, <1>3
  DEF Held, InCall, Asleep, HasSemLock, HasProcLock, Slept, Outside
<1>5. Sleeping(p)' <=> Sleeping(p)
  BY <1>1, <1>3 DEF Sleeping
<1>6. pc[p] \notin Outside \cup {"wakeup"} /\ "scheduler" \notin Outside \cup {"wakeup"}
  BY <1>1 DEF Outside
<1> QED
  BY <1>1, <1>3, <1>4, <1>5, <1>6, SilentStep

\* The scheduler releases p->lock: from here on wakeup() and kill() see p.
LEMMA OffStep ==
  ASSUME LocksInv, NEW p \in Procs, scheduler_off(p)
  PROVE  LocksInv' /\ UNCHANGED Abs!vars
<1>1. /\ pc[p] = "scheduler" /\ plock' = [plock EXCEPT ![p] = Free]
      /\ pc' = [pc EXCEPT ![p] = "off"]
      /\ UNCHANGED <<count, bound, semlock, state, chan, killed, call, arg, val, at,
                     ret, stale>>
  BY DEF scheduler_off, release, goto
<1>2. InCall(p) /\ state[p] = "SLEEPING" /\ chan[p] = arg[p]
  BY <1>1 DEF LocksInv, Asleep
<1>3. /\ pc'[p] = "off"
      /\ DOMAIN state' = Procs /\ DOMAIN chan' = Procs /\ DOMAIN plock' = Procs
      /\ \A q \in Procs \ {p} : state'[q] = state[q] /\ plock'[q] = plock[q]
                                /\ chan'[q] = chan[q]
  BY <1>1 DEF LocksInv, DomInv
<1>4. Held(p)' /\ InCall(p)' /\ Asleep(p)'
  BY <1>1, <1>2, <1>3
  DEF Held, InCall, Asleep, HasSemLock, HasProcLock, Slept, Outside
<1>5. Sleeping(p)' <=> Sleeping(p)
  BY <1>1, <1>2, <1>3 DEF Sleeping
<1>6. pc[p] \notin Outside \cup {"wakeup"} /\ "off" \notin Outside \cup {"wakeup"}
  BY <1>1 DEF Outside
<1> QED
  BY <1>1, <1>3, <1>4, <1>5, <1>6, SilentStep

\* The scheduler runs p again, with p->lock.
LEMMA OnStep ==
  ASSUME LocksInv, NEW p \in Procs, scheduler_on(p)
  PROVE  LocksInv' /\ UNCHANGED Abs!vars
<1>1. /\ pc[p] = "off" /\ state[p] = "RUNNABLE"
      /\ plock' = [plock EXCEPT ![p] = p]
      /\ state' = [state EXCEPT ![p] = "RUNNING"]
      /\ pc' = [pc EXCEPT ![p] = "resume"]
      /\ UNCHANGED <<count, bound, semlock, chan, killed, call, arg, val, at, ret,
                     stale>>
  BY DEF scheduler_on, acquire, goto
<1>2. InCall(p)
  BY DEF LocksInv
<1>3. /\ pc'[p] = "resume" /\ plock'[p] = p
      /\ DOMAIN state' = Procs /\ DOMAIN chan' = Procs /\ DOMAIN plock' = Procs
      /\ \A q \in Procs \ {p} : state'[q] = state[q] /\ plock'[q] = plock[q]
                                /\ chan'[q] = chan[q]
  BY <1>1 DEF LocksInv, DomInv
<1>4. Held(p)' /\ InCall(p)' /\ Asleep(p)'
  BY <1>1, <1>2, <1>3
  DEF Held, InCall, Asleep, HasSemLock, HasProcLock, Slept, Outside
<1>5. Sleeping(p)' <=> Sleeping(p)
  BY <1>1, <1>3 DEF Sleeping
<1>6. pc[p] \notin Outside \cup {"wakeup"} /\ "resume" \notin Outside \cup {"wakeup"}
  BY <1>1 DEF Outside
<1> QED
  BY <1>1, <1>3, <1>4, <1>5, <1>6, SilentStep

\* sleep(), back from sched(), releases p->lock and goes for the semaphore's.
LEMMA ResumeStep ==
  ASSUME LocksInv, NEW p \in Procs, sleep_resume(p)
  PROVE  LocksInv' /\ UNCHANGED Abs!vars
<1>1. /\ pc[p] = "resume" /\ chan' = [chan EXCEPT ![p] = Closed]
      /\ plock' = [plock EXCEPT ![p] = Free]
      /\ pc' = [pc EXCEPT ![p] = "acquire"]
      /\ UNCHANGED <<count, bound, semlock, state, killed, call, arg, val, at, ret,
                     stale>>
  BY DEF sleep_resume, release, goto
<1>2. InCall(p)
  BY DEF LocksInv
<1>3. /\ pc'[p] = "acquire"
      /\ DOMAIN state' = Procs /\ DOMAIN chan' = Procs /\ DOMAIN plock' = Procs
      /\ \A q \in Procs \ {p} : state'[q] = state[q] /\ plock'[q] = plock[q]
                                /\ chan'[q] = chan[q]
  BY <1>1 DEF LocksInv, DomInv
<1>4. Held(p)' /\ InCall(p)' /\ Asleep(p)'
  BY <1>1, <1>2, <1>3
  DEF Held, InCall, Asleep, HasSemLock, HasProcLock, Slept, Outside
<1>5. Sleeping(p)' <=> Sleeping(p)
  BY <1>1, <1>3 DEF Sleeping
<1>6. pc[p] \notin Outside \cup {"wakeup"} /\ "acquire" \notin Outside \cup {"wakeup"}
  BY <1>1 DEF Outside
<1> QED
  BY <1>1, <1>3, <1>4, <1>5, <1>6, SilentStep

-----------------------------------------------------------------------------
\* usertrap() lets a process into the kernel.
LEMMA EnterStep ==
  ASSUME LocksInv, NEW p \in Procs, Enter(p)
  PROVE  LocksInv' /\ Abs!Next
<1>1. /\ pc[p] = "user" /\ ~killed[p] /\ pc' = [pc EXCEPT ![p] = "kernel"]
      /\ ret' = [ret EXCEPT ![p] = 0]
      /\ UNCHANGED <<count, bound, semlock, state, chan, plock, killed, call, arg,
                     val, at, stale>>
  BY DEF Enter, goto
<1>2. pc'[p] = "kernel" /\ \A q \in Procs \ {p} : Idle(q)
  BY <1>1 DEF LocksInv, DomInv, Idle
<1>3. LocksInv'
  <2>1. DomInv'
    BY <1>1 DEF LocksInv, DomInv
  <2>2. Held(p)' /\ InCall(p)' /\ Asleep(p)'
    BY <1>2 DEF Held, InCall, Asleep, HasSemLock, HasProcLock, Slept, Outside
  <2> QED
    BY <1>1, <1>2, <2>1, <2>2, OthersKept
<1>4. \A q \in Procs \ {p} : Same(q)
  BY <1>1, <1>2, LocalSame
<1>5. AbsPC(p)' = "kernel" /\ AbsArg(p)' = AbsArg(p) /\ AbsVal(p)' = AbsVal(p)
  BY <1>1, <1>2 DEF AbsPC, AbsArg, AbsVal
<1>6. apc' = [apc EXCEPT ![p] = "kernel"]
  BY <1>4, <1>5, OneChanges
<1>7. aarg' = aarg /\ aval' = aval /\ apc[p] = "user"
  BY <1>1, <1>4, <1>5 DEF Same, aarg, aval, apc, AbsPC
<1>8. Abs!Enter(p)
  BY <1>1, <1>6, <1>7 DEF Abs!Enter, apc, aarg, aval
<1> QED
  BY <1>3, <1>8 DEF Abs!Next

\* usertrap() makes a killed process exit.
LEMMA ExitStep ==
  ASSUME LocksInv, NEW p \in Procs, Exit(p)
  PROVE  LocksInv' /\ Abs!Next
<1>1. /\ pc[p] = "user" /\ killed[p] /\ pc' = [pc EXCEPT ![p] = "exited"]
      /\ UNCHANGED <<count, bound, semlock, state, chan, plock, killed, call, arg,
                     val, at, ret, stale>>
  BY DEF Exit, goto
<1>2. pc'[p] = "exited" /\ \A q \in Procs \ {p} : Idle(q)
  BY <1>1 DEF LocksInv, DomInv, Idle
<1>3. LocksInv'
  <2>1. DomInv'
    BY <1>1 DEF LocksInv, DomInv
  <2>2. Held(p)' /\ InCall(p)' /\ Asleep(p)'
    BY <1>2 DEF Held, InCall, Asleep, HasSemLock, HasProcLock, Slept, Outside
  <2> QED
    BY <1>1, <1>2, <2>1, <2>2, OthersKept
<1>4. \A q \in Procs \ {p} : Same(q)
  BY <1>1, <1>2, LocalSame
<1>5. AbsPC(p)' = "exited" /\ AbsArg(p)' = AbsArg(p) /\ AbsVal(p)' = AbsVal(p)
  BY <1>1, <1>2 DEF AbsPC, AbsArg, AbsVal
<1>6. apc' = [apc EXCEPT ![p] = "exited"]
  BY <1>4, <1>5, OneChanges
<1>7. aarg' = aarg /\ aval' = aval /\ apc[p] = "user"
  BY <1>1, <1>4, <1>5 DEF Same, aarg, aval, apc, AbsPC
<1>8. Abs!Exit(p)
  BY <1>1, <1>6, <1>7 DEF Abs!Exit, apc, aarg, aval
<1> QED
  BY <1>3, <1>8 DEF Abs!Next

\* A call with an index outside semaphores[] fails.
LEMMA RefusedStep ==
  ASSUME LocksInv, NEW p \in Procs, pc[p] = "kernel", Return(p, 0),
         UNCHANGED <<count, bound, semlock, state, chan, plock, killed, at, stale>>
  PROVE  LocksInv' /\ Abs!Fail(p, 0) /\ apc[p] = "kernel"
<1>1. DomInv
  BY DEF LocksInv
<1>2. /\ \A q \in Procs \ {p} : Idle(q)
      /\ pc'[p] = "user"
      /\ DOMAIN pc' = Procs /\ DOMAIN call' = Procs /\ DOMAIN arg' = Procs
      /\ DOMAIN val' = Procs /\ DOMAIN ret' = Procs
      /\ ret' = [q \in Procs |-> ret'[q]]
      /\ Abs!Return(p, 0)
  BY <1>1, ReturnStep
<1>3. DomInv'
  BY <1>1, <1>2 DEF DomInv
<1>4. Held(p)' /\ InCall(p)' /\ Asleep(p)'
  BY <1>2 DEF Held, InCall, Asleep, HasSemLock, HasProcLock, Slept, Outside
<1>5. LocksInv'
  BY <1>2, <1>3, <1>4, OthersKept
<1>6. Abs!Fail(p, 0)
  BY <1>2 DEF Abs!Fail
<1> QED
  BY <1>5, <1>6 DEF apc, AbsPC

\* A call with an index inside goes for the lock; Semaphore sees only that
\* get_sem has begun its loop.
LEMMA StartStep ==
  ASSUME LocksInv, NEW p \in Procs, NEW c, NEW s \in Sems, NEW v,
         c # "again", c = "sem_open" => v \in Values, c = "get_sem" => s = 0,
         pc[p] = "kernel", pc' = [pc EXCEPT ![p] = "acquire"],
         call' = [call EXCEPT ![p] = c], arg' = [arg EXCEPT ![p] = s],
         val' = [val EXCEPT ![p] = v],
         UNCHANGED <<count, bound, semlock, state, chan, plock, killed, at, ret, stale>>
  PROVE  /\ LocksInv'
         /\ c # "get_sem" => UNCHANGED Abs!vars
         /\ c = "get_sem" => Abs!get_sem(p, v)
<1>1. pc'[p] = "acquire" /\ call'[p] = c /\ arg'[p] = s /\ val'[p] = v
  BY DEF LocksInv, DomInv
<1>2. \A q \in Procs \ {p} : Idle(q)
  BY DEF LocksInv, DomInv, Idle
<1>3. LocksInv'
  <2>1. DomInv'
    BY DEF LocksInv, DomInv
  <2>2. Held(p)' /\ InCall(p)' /\ Asleep(p)'
    BY <1>1 DEF Held, InCall, Asleep, HasSemLock, HasProcLock, Slept, Outside
  <2> QED
    BY <1>2, <2>1, <2>2, OthersKept
<1>4. \A q \in Procs \ {p} : Same(q)
  BY <1>1, <1>2, LocalSame
<1>5. AbsPC(p) = "kernel" /\ AbsArg(p) = 0 /\ AbsVal(p) = 0
  BY DEF AbsPC, AbsArg, AbsVal
<1>6. AbsPC(p)' = IF c = "get_sem" THEN "get_sem" ELSE "kernel"
  BY <1>1 DEF AbsPC, Sleeping
<1>7. CASE c = "get_sem"
  <2>1. AbsArg(p)' = 0 /\ AbsVal(p)' = v
    BY <1>1, <1>6, <1>7 DEF AbsArg, AbsVal
  <2>2. apc' = [apc EXCEPT ![p] = "get_sem"] /\ aval' = [aval EXCEPT ![p] = v]
    BY <1>4, <1>6, <1>7, <2>1, OneChanges
  <2>3. aarg' = aarg /\ apc[p] = "kernel"
    BY <1>4, <1>5, <2>1 DEF Same, aarg, apc
  <2>4. Abs!get_sem(p, v)
    BY <2>2, <2>3 DEF Abs!get_sem, apc, aarg, aval
  <2> QED
    BY <1>3, <1>7, <2>4
<1>8. CASE c # "get_sem"
  <2>1. Same(p)
    BY <1>5, <1>6, <1>8 DEF Same, AbsArg, AbsVal
  <2> QED
    BY <1>3, <1>4, <1>8, <2>1, Stutter
<1> QED
  BY <1>7, <1>8

\* The system calls.
LEMMA CallsStep ==
  ASSUME LocksInv, NEW p \in Procs, Calls(p)
  PROVE  LocksInv' /\ (Abs!Next \/ UNCHANGED Abs!vars)
<1>1. ASSUME NEW c, NEW s, NEW v, Begin(p, c, s, v),
             c # "again", c = "sem_open" => v \in Values, c = "get_sem" => s = 0
      PROVE  LocksInv' /\ \/ s \in Sems /\ c # "get_sem" /\ UNCHANGED Abs!vars
                          \/ s \in Sems /\ c = "get_sem" /\ Abs!get_sem(p, v)
                          \/ s \notin Sems /\ Abs!Fail(p, 0) /\ apc[p] = "kernel"
  <2>1. CASE /\ s \in Sems /\ pc[p] = "kernel" /\ pc' = [pc EXCEPT ![p] = "acquire"]
             /\ call' = [call EXCEPT ![p] = c] /\ arg' = [arg EXCEPT ![p] = s]
             /\ val' = [val EXCEPT ![p] = v]
             /\ UNCHANGED <<count, bound, semlock, state, chan, plock, killed, at,
                            ret, stale>>
    BY <1>1, <2>1, StartStep
  <2>2. CASE /\ s \notin Sems /\ pc[p] = "kernel" /\ Return(p, 0)
             /\ UNCHANGED <<count, bound, semlock, state, chan, plock, killed, at,
                            stale>>
    BY <2>2, RefusedStep
  <2> QED
    BY <1>1, <2>1, <2>2 DEF Begin, goto
<1>2. CASE \E s \in -1 .. N, v \in Values : Begin(p, "sem_open", s, v)
  <2>1. PICK s \in -1 .. N, v \in Values : Begin(p, "sem_open", s, v)
    BY <1>2
  <2>2. LocksInv' /\ \/ UNCHANGED Abs!vars
                     \/ s \notin Sems /\ Abs!Fail(p, 0) /\ apc[p] = "kernel"
    BY <1>1, <2>1
  <2>3. s \notin Sems /\ Abs!Fail(p, 0) /\ apc[p] = "kernel" => Abs!sem_open(p, s, v)
    BY DEF Abs!sem_open, Abs!Openable, Abs!Sems, apc
  <2> QED
    BY <2>2, <2>3 DEF Abs!Next, Abs!Call, Abs!AnyIndex
<1>3. CASE \E s \in -1 .. N, c \in {"sem_close", "sem_up", "sem_down"} :
             Begin(p, c, s, 0)
  <2>1. PICK s \in -1 .. N, c \in {"sem_close", "sem_up", "sem_down"} :
               Begin(p, c, s, 0)
    BY <1>3
  <2>2. LocksInv' /\ \/ UNCHANGED Abs!vars
                     \/ s \notin Sems /\ Abs!Fail(p, 0) /\ apc[p] = "kernel"
    BY <1>1, <2>1
  <2>3. s \notin Sems /\ Abs!Fail(p, 0) /\ apc[p] = "kernel" => Abs!sem_close(p, s)
    BY DEF Abs!sem_close, Abs!Usable, Abs!Sems, apc
  <2> QED
    BY <2>2, <2>3 DEF Abs!Next, Abs!Call, Abs!AnyIndex
<1>4. CASE \E v \in Values : Begin(p, "get_sem", 0, v)
  <2>1. PICK v \in Values : Begin(p, "get_sem", 0, v)
    BY <1>4
  <2>2. LocksInv' /\ Abs!get_sem(p, v)
    BY <1>1, <2>1
  <2> QED
    BY <2>2 DEF Abs!Next, Abs!Call
<1> QED
  BY <1>2, <1>3, <1>4 DEF Calls

\* kill() gets p->lock only when p is not on its way to sleep, so it wakes a
\* process that sleeps for Semaphore too.
LEMMA KillStep ==
  ASSUME LocksInv, NEW q \in Procs, kill(q)
  PROVE  LocksInv' /\ Abs!Next
<1>1. /\ pc[q] # "exited" /\ ~killed[q] /\ plock[q] = Free
      /\ killed' = [killed EXCEPT ![q] = TRUE]
      /\ state' = [state EXCEPT ![q] = IF @ = "SLEEPING" THEN "RUNNABLE" ELSE @]
      /\ UNCHANGED <<count, bound, semlock, chan, plock, pc, call, arg, val, at, ret,
                     stale>>
  BY DEF kill
<1>2. /\ \A r \in Procs : Idle(r)
      /\ \A r \in Procs \ {q} : state'[r] = state[r]
      /\ state'[q] = IF state[q] = "SLEEPING" THEN "RUNNABLE" ELSE state[q]
  BY <1>1 DEF LocksInv, DomInv, Idle
<1>3. pc[q] \notin HasProcLock /\ InCall(q)
  BY <1>1 DEF LocksInv, Held
<1>4. LocksInv'
  <2>1. DomInv'
    BY <1>1 DEF LocksInv, DomInv
  <2>2. Held(q)' /\ InCall(q)' /\ Asleep(q)'
    BY <1>1, <1>3 DEF LocksInv, Held, InCall, Asleep, HasProcLock
  <2> QED
    BY <1>1, <1>2, <2>1, <2>2, OthersKept
<1>5. \A r \in Procs : Doomed(r)' <=> Doomed(r)
  BY <1>1 DEF Doomed
<1>6. \A r \in Procs \ {q} : Same(r)
  <2> TAKE r \in Procs \ {q}
  <2>1. Sleeping(r)' <=> Sleeping(r)
    BY <1>1, <1>2 DEF Sleeping
  <2>2. AbsPC(r)' = AbsPC(r)
    BY <1>1, <1>5, <2>1 DEF AbsPC
  <2> QED
    BY <1>1, <2>2 DEF Same, AbsArg, AbsVal
<1>7. AbsPC(q)' = IF AbsPC(q) = "asleep" THEN "woken" ELSE AbsPC(q)
  <2>1. ~Sleeping(q)'
    BY <1>1, <1>2, <1>3 DEF Sleeping, HasProcLock
  <2>2. Sleeping(q) => call[q] = "again"
    BY <1>3 DEF Sleeping, InCall, Slept
  <2> QED
    BY <1>1, <2>1, <2>2 DEF AbsPC
<1>8. AbsArg(q)' = AbsArg(q) /\ AbsVal(q)' = AbsVal(q) /\ AbsPC(q) # "exited"
  BY <1>1, <1>7 DEF AbsArg, AbsVal, AbsPC
<1>9. /\ aarg' = aarg /\ aval' = aval /\ apc[q] # "exited"
      /\ apc' = [apc EXCEPT ![q] = IF @ = "asleep" THEN "woken" ELSE @]
  BY <1>6, <1>7, <1>8 DEF Same, apc, aarg, aval
<1>10. Abs!kill(q)
  BY <1>1, <1>9 DEF Abs!kill, apc, aarg, aval
<1> QED
  BY <1>4, <1>10 DEF Abs!Next

\* Every step keeps the invariant and is a step of Semaphore or none.
LEMMA NextStep ==
  ASSUME LocksInv, [Next]_vars
  PROVE  LocksInv' /\ (Abs!Next \/ UNCHANGED Abs!vars)
<1>1. ASSUME NEW p \in Procs, Kernel(p)
      PROVE  LocksInv' /\ (Abs!Next \/ UNCHANGED Abs!vars)
  <2>1. CASE Acquire(p) \/ sem_open(p) \/ get_sem(p) \/ get_sem_next(p)
    BY <2>1, AcquireStep, OpenStep, GetSemStep, GetSemNextStep
  <2>2. CASE sem_close(p) \/ sem_up(p) \/ wakeup(p) \/ sem_up_end(p)
    BY <2>2, CloseStep, UpStep, WakeupStep, UpEndStep
  <2>3. CASE sem_down(p) \/ sleep(p) \/ sleep_unlock(p) \/ sleep_swtch(p)
    BY <2>3, DownStep, SleepStep, UnlockStep, SwtchStep
  <2>4. CASE scheduler_off(p) \/ scheduler_on(p) \/ sleep_resume(p)
    BY <2>4, OffStep, OnStep, ResumeStep
  <2> QED
    BY <1>1, <2>1, <2>2, <2>3, <2>4 DEF Kernel
<1>2. ASSUME NEW p \in Procs, Enter(p) \/ Calls(p) \/ Exit(p)
      PROVE  LocksInv' /\ (Abs!Next \/ UNCHANGED Abs!vars)
  BY <1>2, EnterStep, CallsStep, ExitStep
<1>3. ASSUME NEW q \in Killable, kill(q)
      PROVE  LocksInv' /\ (Abs!Next \/ UNCHANGED Abs!vars)
  BY <1>3, KillStep, KillableAssumption
<1>4. CASE UNCHANGED vars
  <2> USE <1>4 DEF vars
  <2>1. DomInv'
    BY DEF LocksInv, DomInv
  <2>2. \A p \in Procs : Held(p)' /\ InCall(p)' /\ Asleep(p)'
    BY DEF LocksInv, Held, InCall, Asleep
  <2>3. \A p \in Procs : Same(p)
    BY DEF Same, AbsPC, AbsArg, AbsVal, Sleeping, Doomed
  <2> QED
    BY <2>1, <2>2, <2>3, Stutter DEF LocksInv
<1> QED
  BY <1>1, <1>2, <1>3, <1>4 DEF Next

\* The invariant holds at the start, where all processes are in user space.
LEMMA InitStep == Init => LocksInv /\ Abs!Init
<1> SUFFICES ASSUME Init PROVE LocksInv /\ Abs!Init
  OBVIOUS
<1>1. DomInv
  <2>1. 1 \in 1 .. NPROC + 1
    OBVIOUS
  <2> QED
    BY <2>1 DEF Init, DomInv
<1>2. \A p \in Procs : Held(p) /\ InCall(p) /\ Asleep(p)
  BY DEF Init, Held, InCall, Asleep, HasSemLock, HasProcLock, Slept, Outside
<1>3. \A p \in Procs : AbsPC(p) = "user" /\ AbsArg(p) = 0 /\ AbsVal(p) = 0
  BY DEF Init, AbsPC, AbsArg, AbsVal
<1>4. /\ apc = [p \in Procs |-> "user"] /\ aarg = [p \in Procs |-> 0]
      /\ aval = [p \in Procs |-> 0]
  BY <1>3 DEF apc, aarg, aval
<1>5. Abs!Init
  BY <1>4 DEF Init, Abs!Init, Abs!Sems, Abs!Closed, apc, aarg, aval
<1> QED
  BY <1>1, <1>2, <1>5 DEF LocksInv

\* The spin lock of each semaphore, p->lock and the protocol of sleep() and
\* wakeup() implement the one-step critical sections of Semaphore: for any
\* number of processes, no interleaving of wakeup()'s loop with processes that
\* go to sleep, run again or are killed is visible to the callers.
THEOREM LocksImplement == Spec => Refinement
<1>1. Init => LocksInv /\ Abs!Init
  BY InitStep
<1>2. LocksInv /\ [Next]_vars => LocksInv' /\ [Abs!Next]_(Abs!vars)
  BY NextStep
<1> QED
  BY <1>1, <1>2, PTL DEF Spec, Refinement, Abs!Spec
=============================================================================

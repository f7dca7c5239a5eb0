--------------------------- MODULE SemaphoreLocks ----------------------------
(***************************************************************************)
(* The semaphores of kernel/semaphore.c with their locks: the spin lock of *)
(* each semaphore, p->lock of each process, the steps of sleep(), the loop *)
(* of wakeup() over the process table and the hand-over of p->lock to and  *)
(* from the scheduler.  Refinement states that this implements Semaphore:  *)
(* the protocol of sleep() and wakeup() makes every critical section look  *)
(* like one step.                                                          *)
(*                                                                         *)
(* pc[p] is the next thing the kernel thread of p does:                    *)
(*   "user", "kernel", "exited"   as in Semaphore                          *)
(*   "acquire"    acquire the lock of semaphore arg[p], for call[p]        *)
(*   "body"       run the critical section of call[p]                      *)
(*   "wakeup"     visit process at[p] in wakeup(), called by sem_up        *)
(*   "sleep"      acquire p->lock in sleep(), called by sem_down           *)
(*   "unlock"     release the semaphore's lock in sleep()                  *)
(*   "swtch"      become SLEEPING and switch to the scheduler              *)
(*   "scheduler"  the scheduler is to release p->lock                      *)
(*   "off"        not on any CPU                                           *)
(*   "resume"     on a CPU again, to release p->lock in sleep()            *)
(* CPUs are not counted: any runnable process may be on one.  Proc models  *)
(* the scheduler and its CPUs.                                             *)
(***************************************************************************)
EXTENDS Integers

CONSTANTS
  NPROC,               \* size of the process table
  N, Values, MaxDebt,  \* as in Semaphore
  Killable             \* bound of the model: the processes kill() is used on

ASSUME NPROCAssumption == NPROC \in Nat \ {0}
ASSUME NAssumption == N \in Nat \ {0}
ASSUME KillableAssumption == Killable \subseteq 1 .. NPROC

Procs == 1 .. NPROC
Sems == 0 .. N - 1
Free == 0
Closed == -1

VARIABLES
  count, bound, semlock,   \* struct semaphore; semlock[s] is its holder
  state, chan, plock,      \* fields of struct proc
  killed,
  pc, call, arg, val, at,  \* where each process is
  ret, stale               \* as in Semaphore

vars == <<count, bound, semlock, state, chan, plock, killed,
          pc, call, arg, val, at, ret, stale>>

Init ==
  /\ count = [s \in Sems |-> Closed]
  /\ bound = [s \in Sems |-> -1]
  /\ semlock = [s \in Sems |-> Free]
  /\ state = [p \in Procs |-> "RUNNING"]
  /\ chan = [p \in Procs |-> Closed]
  /\ plock = [p \in Procs |-> Free]
  /\ killed = [p \in Procs |-> FALSE]
  /\ pc = [p \in Procs |-> "user"]
  /\ call = [p \in Procs |-> "none"]
  /\ arg = [p \in Procs |-> 0]
  /\ val = [p \in Procs |-> 0]
  /\ at = [p \in Procs |-> 1]
  /\ ret = [p \in Procs |-> 0]
  /\ stale = {}
-----------------------------------------------------------------------------
(***************************************************************************)
(* What Semaphore sees of a process.  sem_down counts as asleep from the   *)
(* moment it holds p->lock, and sem_up has woken the sleepers its loop has *)
(* not visited yet.                                                        *)
(***************************************************************************)
Sleeping(q) ==
  \/ pc[q] \in {"unlock", "swtch", "scheduler"}
  \/ pc[q] = "off" /\ state[q] = "SLEEPING"

\* Some sem_up is about to wake q up.
Doomed(q) == \E p \in Procs : pc[p] = "wakeup" /\ arg[p] = arg[q] /\ at[p] <= q

AbsPC(q) ==
  IF pc[q] \in {"user", "kernel", "exited"} THEN pc[q]
  ELSE IF pc[q] = "wakeup" THEN "user"
  ELSE IF Sleeping(q) /\ ~Doomed(q) THEN "asleep"
  ELSE IF call[q] = "again" THEN "woken"
  ELSE IF call[q] = "get_sem" THEN "get_sem"
  ELSE "kernel"

AbsArg(q) == IF AbsPC(q) \in {"asleep", "woken", "get_sem"} THEN arg[q] ELSE 0
AbsVal(q) == IF AbsPC(q) = "get_sem" THEN val[q] ELSE 0
AbsWaiters(s) ==
  {p \in Procs : AbsPC(p) \in {"asleep", "woken"} /\ arg[p] = s}
-----------------------------------------------------------------------------
goto(p, l) == pc' = [pc EXCEPT ![p] = l]
acquire(lock, x, p) == lock[x] = Free /\ lock' = [lock EXCEPT ![x] = p]
release(lock, x) == lock' = [lock EXCEPT ![x] = Free]

Return(p, r) ==
  /\ goto(p, "user")
  /\ ret' = [ret EXCEPT ![p] = r]
  /\ call' = [call EXCEPT ![p] = "none"]
  /\ arg' = [arg EXCEPT ![p] = 0]
  /\ val' = [val EXCEPT ![p] = 0]

Enter(p) ==
  /\ pc[p] = "user" /\ ~killed[p]
  /\ goto(p, "kernel")
  /\ ret' = [ret EXCEPT ![p] = 0]
  /\ UNCHANGED <<count, bound, semlock, state, chan, plock, killed,
                 call, arg, val, at, stale>>

Exit(p) ==
  /\ pc[p] = "user" /\ killed[p]
  /\ goto(p, "exited")
  /\ UNCHANGED <<count, bound, semlock, state, chan, plock, killed,
                 call, arg, val, at, ret, stale>>

\* A call with an index outside semaphores[] returns 0 and locks nothing.
Begin(p, c, s, v) ==
  /\ pc[p] = "kernel"
  /\ \/ /\ s \in Sems
        /\ goto(p, "acquire")
        /\ call' = [call EXCEPT ![p] = c]
        /\ arg' = [arg EXCEPT ![p] = s]
        /\ val' = [val EXCEPT ![p] = v]
        /\ UNCHANGED ret
     \/ s \notin Sems /\ Return(p, 0)
  /\ UNCHANGED <<count, bound, semlock, state, chan, plock, killed, at, stale>>

Acquire(p) ==
  /\ pc[p] = "acquire"
  /\ acquire(semlock, arg[p], p)
  /\ goto(p, "body")
  /\ UNCHANGED <<count, bound, state, chan, plock, killed,
                 call, arg, val, at, ret, stale>>

\* The critical section ends: the lock is released and the call returns r.
Leave(p, r) ==
  /\ release(semlock, arg[p])
  /\ Return(p, r)
  /\ UNCHANGED <<state, chan, plock, killed, at>>

sem_open(p) ==
  /\ pc[p] = "body" /\ call[p] = "sem_open"
  /\ \/ /\ count[arg[p]] = Closed
        /\ count' = [count EXCEPT ![arg[p]] = val[p]]
        /\ bound' = [bound EXCEPT ![arg[p]] = val[p]]
        /\ Leave(p, 1)
     \/ count[arg[p]] # Closed /\ Leave(p, 0) /\ UNCHANGED <<count, bound>>
  /\ UNCHANGED stale

\* get_sem calls sem_open on one index after the other.
get_sem(p) ==
  /\ pc[p] = "body" /\ call[p] = "get_sem"
  /\ \/ /\ count[arg[p]] = Closed
        /\ count' = [count EXCEPT ![arg[p]] = val[p]]
        /\ bound' = [bound EXCEPT ![arg[p]] = val[p]]
        /\ Leave(p, arg[p])
     \/ /\ count[arg[p]] # Closed
        /\ release(semlock, arg[p])
        /\ arg' = [arg EXCEPT ![p] = @ + 1]
        /\ goto(p, "next")
        /\ UNCHANGED <<count, bound, state, chan, plock, killed,
                       call, val, at, ret>>
  /\ UNCHANGED stale

\* get_sem, before sem_open looks at its next index.
get_sem_next(p) ==
  /\ pc[p] = "next"
  /\ \/ /\ arg[p] \in Sems
        /\ goto(p, "acquire")
        /\ UNCHANGED <<call, arg, val, ret>>
     \/ arg[p] \notin Sems /\ Return(p, -1)
  /\ UNCHANGED <<count, bound, semlock, state, chan, plock, killed, at, stale>>

sem_close(p) ==
  /\ pc[p] = "body" /\ call[p] = "sem_close"
  /\ \/ /\ count[arg[p]] # Closed
        /\ count' = [count EXCEPT ![arg[p]] = Closed]
        /\ stale' = stale \cup AbsWaiters(arg[p])
        /\ Leave(p, 1)
     \/ count[arg[p]] = Closed /\ Leave(p, 0) /\ UNCHANGED <<count, stale>>
  /\ UNCHANGED bound

sem_up(p) ==
  /\ pc[p] = "body" /\ call[p] = "sem_up"
  /\ \/ /\ count[arg[p]] \notin {Closed, bound[arg[p]]}
        /\ count' = [count EXCEPT ![arg[p]] = @ + 1]
        /\ goto(p, "wakeup")
        /\ at' = [at EXCEPT ![p] = 1]
        /\ ret' = [ret EXCEPT ![p] = 1]
        /\ UNCHANGED <<semlock, state, chan, plock, killed, call, arg, val>>
     \/ /\ count[arg[p]] \in {Closed, bound[arg[p]]}
        /\ Leave(p, 0)
        /\ UNCHANGED count
  /\ UNCHANGED <<bound, stale>>

\* wakeup(): each process in turn, under its own lock.
wakeup(p) ==
  LET q == at[p] IN
  /\ pc[p] = "wakeup" /\ q \in Procs
  /\ q # p => plock[q] = Free
  /\ state' = IF q # p /\ state[q] = "SLEEPING" /\ chan[q] = arg[p]
                THEN [state EXCEPT ![q] = "RUNNABLE"] ELSE state
  /\ at' = [at EXCEPT ![p] = @ + 1]
  /\ UNCHANGED <<count, bound, semlock, chan, plock, killed,
                 pc, call, arg, val, ret, stale>>

sem_up_end(p) ==
  /\ pc[p] = "wakeup" /\ at[p] \notin Procs
  /\ release(semlock, arg[p])
  /\ Return(p, 1)
  /\ at' = [at EXCEPT ![p] = 1]
  /\ UNCHANGED <<count, bound, state, chan, plock, killed, stale>>

\* call[p] = "again" once it has slept: only count == 0 is tested then.
sem_down(p) ==
  /\ pc[p] = "body" /\ call[p] \in {"sem_down", "again"}
  /\ \/ /\ call[p] = "sem_down" /\ count[arg[p]] = Closed
        /\ Leave(p, 0)
        /\ UNCHANGED <<count, stale>>
     \/ /\ count[arg[p]] = 0
        /\ goto(p, "sleep")
        /\ UNCHANGED <<count, semlock, state, chan, plock, killed,
                       call, arg, val, at, ret, stale>>
     \/ /\ count[arg[p]] # 0 /\ count[arg[p]] > -MaxDebt
        /\ call[p] = "sem_down" => count[arg[p]] # Closed
        /\ count' = [count EXCEPT ![arg[p]] = @ - 1]
        /\ stale' = stale \ {p}
        /\ Leave(p, 1)
  /\ UNCHANGED bound
-----------------------------------------------------------------------------
\* sleep() and sched(), on p's own kernel thread, then the scheduler.

\* Mutant of sleep: the semaphore's lock is released without taking p->lock.
sleep_NoLock(p) ==
  /\ pc[p] = "sleep"
  /\ goto(p, "unlock")
  /\ call' = [call EXCEPT ![p] = "again"]
  /\ UNCHANGED <<count, bound, semlock, state, chan, plock, killed,
                 arg, val, at, ret, stale>>

sleep(p) ==
  /\ pc[p] = "sleep"
  /\ acquire(plock, p, p)
  /\ goto(p, "unlock")
  /\ call' = [call EXCEPT ![p] = "again"]
  /\ UNCHANGED <<count, bound, semlock, state, chan, killed,
                 arg, val, at, ret, stale>>

sleep_unlock(p) ==
  /\ pc[p] = "unlock"
  /\ release(semlock, arg[p])
  /\ goto(p, "swtch")
  /\ UNCHANGED <<count, bound, state, chan, plock, killed,
                 call, arg, val, at, ret, stale>>

sleep_swtch(p) ==
  /\ pc[p] = "swtch"
  /\ chan' = [chan EXCEPT ![p] = arg[p]]
  /\ state' = [state EXCEPT ![p] = "SLEEPING"]
  /\ goto(p, "scheduler")
  /\ UNCHANGED <<count, bound, semlock, plock, killed,
                 call, arg, val, at, ret, stale>>

\* Mutant of scheduler_off: the scheduler keeps p->lock.
scheduler_off_Held(p) ==
  /\ pc[p] = "scheduler"
  /\ goto(p, "off")
  /\ UNCHANGED <<count, bound, semlock, state, chan, plock, killed,
                 call, arg, val, at, ret, stale>>

\* The scheduler, back from swtch, releases the lock that p acquired.
scheduler_off(p) ==
  /\ pc[p] = "scheduler"
  /\ release(plock, p)
  /\ goto(p, "off")
  /\ UNCHANGED <<count, bound, semlock, state, chan, killed,
                 call, arg, val, at, ret, stale>>

\* The scheduler finds p RUNNABLE and switches to it holding p->lock.
scheduler_on(p) ==
  /\ pc[p] = "off" /\ state[p] = "RUNNABLE"
  /\ acquire(plock, p, p)
  /\ state' = [state EXCEPT ![p] = "RUNNING"]
  /\ goto(p, "resume")
  /\ UNCHANGED <<count, bound, semlock, chan, killed,
                 call, arg, val, at, ret, stale>>

sleep_resume(p) ==
  /\ pc[p] = "resume"
  /\ chan' = [chan EXCEPT ![p] = Closed]
  /\ release(plock, p)
  /\ goto(p, "acquire")
  /\ UNCHANGED <<count, bound, semlock, state, killed,
                 call, arg, val, at, ret, stale>>

\* kill() by some other process, when it finds q in the table.
kill(q) ==
  /\ pc[q] # "exited" /\ ~killed[q]
  /\ plock[q] = Free
  /\ killed' = [killed EXCEPT ![q] = TRUE]
  /\ state' = [state EXCEPT ![q] = IF @ = "SLEEPING" THEN "RUNNABLE" ELSE @]
  /\ UNCHANGED <<count, bound, semlock, chan, plock,
                 pc, call, arg, val, at, ret, stale>>
-----------------------------------------------------------------------------
Calls(p) ==
  \/ \E s \in -1 .. N, v \in Values : Begin(p, "sem_open", s, v)
  \/ \E s \in -1 .. N, c \in {"sem_close", "sem_up", "sem_down"} :
       Begin(p, c, s, 0)
  \/ \E v \in Values : Begin(p, "get_sem", 0, v)

\* The steps a process in the kernel takes by itself, or the scheduler for it.
Kernel(p) ==
  \/ Acquire(p) \/ sem_open(p) \/ get_sem(p) \/ get_sem_next(p)
  \/ sem_close(p) \/ sem_up(p) \/ wakeup(p) \/ sem_up_end(p) \/ sem_down(p)
  \/ sleep(p) \/ sleep_unlock(p) \/ sleep_swtch(p) \/ scheduler_off(p)
  \/ scheduler_on(p) \/ sleep_resume(p)

Next ==
  \/ \E p \in Procs : Enter(p) \/ Calls(p) \/ Kernel(p) \/ Exit(p)
  \/ \E q \in Killable : kill(q)

Fairness == \A p \in Procs : WF_vars(Kernel(p))

Spec == Init /\ [][Next]_vars /\ Fairness
-----------------------------------------------------------------------------
Abs == INSTANCE Semaphore WITH
         pc <- [p \in Procs |-> AbsPC(p)],
         arg <- [p \in Procs |-> AbsArg(p)],
         val <- [p \in Procs |-> AbsVal(p)]

\* The locks and the sleep/wakeup protocol implement the one-step critical
\* sections of Semaphore: no interleaving of wakeup()'s loop with processes
\* going to sleep, waking, being killed or closing is visible above.
Refinement == Abs!Spec

\* wakeup() cannot be stuck on the lock of a process that is going to sleep:
\* every sem_up that got the semaphore returns.
WakeupEnds == \A p \in Procs : pc[p] = "wakeup" ~> pc[p] = "user"
=============================================================================

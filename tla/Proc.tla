-------------------------------- MODULE Proc ---------------------------------
(***************************************************************************)
(* The process table of kernel/proc.c on several CPUs: fork, exit, wait,   *)
(* kill, yield, sleep/wakeup on a process and the per-CPU schedulers, with *)
(* p->lock and wait_lock.                                                  *)
(*                                                                         *)
(* A section that holds one p->lock and nothing else, from acquire to      *)
(* release, is one step, taken when the lock is free: every other access   *)
(* to the fields it touches is under that same lock.  What is not one step *)
(* is everything under wait_lock, the loops over the table, and the        *)
(* hand-over of p->lock between a process and the scheduler: plock[p] is   *)
(* TRUE from the switch in until the process resumes, and from the switch  *)
(* out until the scheduler is off its kernel stack.                        *)
(*                                                                         *)
(* wait() sleeps on the process itself and is the only sleep on a process, *)
(* so of all the slots that wakeup(q) visits only q's own can match.       *)
(***************************************************************************)
EXTENDS Integers

CONSTANTS
  NPROC,        \* size of proc[]
  CPUs,
  MaxPid,       \* bound of the model: pids are handed out up to MaxPid
  KillTargets   \* pids that processes pass to kill()

ASSUME NPROCAssumption == NPROC \in Nat \ {0}
ASSUME MaxPidAssumption == MaxPid \in Nat \ {0}
ASSUME KillAssumption == KillTargets \subseteq Nat

Slots == 1 .. NPROC
initproc == 1
None == 0

VARIABLES
  state, pid, parent, chan, killed,  \* fields of struct proc
  plock, wait_lock,                  \* wait_lock is the slot holding it
  nextpid,
  running, spc, si,  \* each CPU: its process, what it does, scheduler's slot
  saved,             \* what a process does first when it is switched to
  pc, idx, kids, np, \* each kernel thread: position, loop index, havekids, np
  target,            \* its argument of kill()
  asked              \* history: the pids given to kill()

vars == <<state, pid, parent, chan, killed, plock, wait_lock, nextpid,
          running, spc, si, saved, pc, idx, kids, np, target, asked>>

cpuvars == <<running, spc, si>>
locals == <<idx, kids, np, target>>

\* userinit: slot 1 holds the first process, which starts in forkret.
Init ==
  /\ state = [p \in Slots |-> IF p = initproc THEN "RUNNABLE" ELSE "UNUSED"]
  /\ pid = [p \in Slots |-> IF p = initproc THEN 1 ELSE 0]
  /\ parent = [p \in Slots |-> None]
  /\ chan = [p \in Slots |-> None]
  /\ killed = [p \in Slots |-> FALSE]
  /\ plock = [p \in Slots |-> FALSE]
  /\ wait_lock = None
  /\ nextpid = 2
  /\ running = [c \in CPUs |-> None]
  /\ spc = [c \in CPUs |-> "scan"]
  /\ si = [c \in CPUs |-> 1]
  /\ saved = [p \in Slots |-> IF p = initproc THEN "forkret" ELSE "none"]
  /\ pc = [p \in Slots |-> "user"]
  /\ idx = [p \in Slots |-> 1]
  /\ kids = [p \in Slots |-> FALSE]
  /\ np = [p \in Slots |-> None]
  /\ target = [p \in Slots |-> 0]
  /\ asked = {}
-----------------------------------------------------------------------------
(* The scheduler loop of each CPU.                                         *)

after(p) == IF p = NPROC THEN 1 ELSE p + 1

scheduler_scan(c) ==
  LET p == si[c] IN
  /\ spc[c] = "scan" /\ ~plock[p]
  /\ \/ /\ state[p] = "RUNNABLE"
        /\ state' = [state EXCEPT ![p] = "RUNNING"]
        /\ plock' = [plock EXCEPT ![p] = TRUE]
        /\ running' = [running EXCEPT ![c] = p]
        /\ spc' = [spc EXCEPT ![c] = "run"]
        /\ UNCHANGED si
     \/ /\ state[p] # "RUNNABLE"
        /\ si' = [si EXCEPT ![c] = after(p)]
        /\ UNCHANGED <<state, plock, running, spc>>
  /\ UNCHANGED <<pid, parent, chan, killed, wait_lock, nextpid, saved, pc,
                 locals, asked>>

\* Mutant of scheduler_back: after a process the search starts from the first
\* slot again, not from the next one.
scheduler_back_First(c) ==
  /\ spc[c] = "back"
  /\ running' = [running EXCEPT ![c] = None]
  /\ plock' = [plock EXCEPT ![si[c]] = FALSE]
  /\ spc' = [spc EXCEPT ![c] = "scan"]
  /\ si' = [si EXCEPT ![c] = 1]
  /\ UNCHANGED <<state, pid, parent, chan, killed, wait_lock, nextpid, saved,
                 pc, locals, asked>>

\* Back from swtch: off the stack of the process, whose lock is released now.
scheduler_back(c) ==
  /\ spc[c] = "back"
  /\ running' = [running EXCEPT ![c] = None]
  /\ plock' = [plock EXCEPT ![si[c]] = FALSE]
  /\ spc' = [spc EXCEPT ![c] = "scan"]
  /\ si' = [si EXCEPT ![c] = after(@)]
  /\ UNCHANGED <<state, pid, parent, chan, killed, wait_lock, nextpid, saved,
                 pc, locals, asked>>
-----------------------------------------------------------------------------
On(c, p) == running[c] = p /\ spc[c] = "run"

\* The kernel thread of p runs, past the point where it was switched to.
Runs(p) == saved[p] = "none" /\ \E c \in CPUs : On(c, p)

\* Mutant of SwitchOut: p->lock is released before the switch to the scheduler.
SwitchOut_Early(p, s, sv) ==
  /\ ~plock[p]
  /\ state' = [state EXCEPT ![p] = s]
  /\ saved' = [saved EXCEPT ![p] = sv]
  /\ \E c \in CPUs : On(c, p) /\ spc' = [spc EXCEPT ![c] = "back"]
  /\ UNCHANGED <<plock, running, si>>

\* p->lock is taken, the state set and sched() called; the lock stays taken
\* until the scheduler is back.
SwitchOut(p, s, sv) ==
  /\ ~plock[p]
  /\ plock' = [plock EXCEPT ![p] = TRUE]
  /\ state' = [state EXCEPT ![p] = s]
  /\ saved' = [saved EXCEPT ![p] = sv]
  /\ \E c \in CPUs : On(c, p) /\ spc' = [spc EXCEPT ![c] = "back"]
  /\ UNCHANGED <<running, si>>

goto(p, l) == pc' = [pc EXCEPT ![p] = l]

\* The first thing p does when it is switched to, the end of yield, sleep or
\* forkret: release p->lock, after clearing p->chan in sleep().
Resume(p) ==
  /\ saved[p] # "none" /\ \E c \in CPUs : On(c, p)
  /\ plock' = [plock EXCEPT ![p] = FALSE]
  /\ saved' = [saved EXCEPT ![p] = "none"]
  /\ chan' = [chan EXCEPT ![p] = IF saved[p] = "sleep" THEN None ELSE @]
  /\ UNCHANGED <<state, pid, parent, killed, wait_lock, nextpid, cpuvars, pc,
                 locals, asked>>

\* A timer interrupt, wherever p holds no spin lock.
Interruptible == {"user", "alloc", "fork_parent", "fork_run", "exit", "wait",
                  "kill"}

yield(p) ==
  /\ Runs(p) /\ pc[p] \in Interruptible
  /\ SwitchOut(p, "RUNNABLE", "yield")
  /\ UNCHANGED <<pid, parent, chan, killed, wait_lock, nextpid, pc, locals,
                 asked>>

\* A system call begins; a killed process does not start one (usertrap).
Begin(p, l) ==
  /\ Runs(p) /\ pc[p] = "user" /\ ~killed[p]
  /\ goto(p, l)
  /\ idx' = [idx EXCEPT ![p] = 1]
  /\ UNCHANGED <<state, pid, parent, chan, killed, plock, wait_lock, nextpid,
                 cpuvars, saved, kids, np>>

\* Steps of p's kernel thread that touch neither a CPU nor what is saved.
Step(p, l) == Runs(p) /\ pc[p] = l /\ UNCHANGED <<cpuvars, saved>>

\* A system call returns to user space.
Return(p) ==
  /\ goto(p, "user")
  /\ idx' = [idx EXCEPT ![p] = 1]
  /\ kids' = [kids EXCEPT ![p] = FALSE]
  /\ np' = [np EXCEPT ![p] = None]
  /\ target' = [target EXCEPT ![p] = 0]

advance(p) == idx' = [idx EXCEPT ![p] = @ + 1]

\* Mutant of freeproc: the killed flag is left for the slot's next process.
freeproc_KeepKilled(q) ==
  /\ state' = [state EXCEPT ![q] = "UNUSED"]
  /\ pid' = [pid EXCEPT ![q] = 0]
  /\ parent' = [parent EXCEPT ![q] = None]
  /\ chan' = [chan EXCEPT ![q] = None]
  /\ UNCHANGED killed

freeproc(q) ==
  /\ state' = [state EXCEPT ![q] = "UNUSED"]
  /\ pid' = [pid EXCEPT ![q] = 0]
  /\ parent' = [parent EXCEPT ![q] = None]
  /\ chan' = [chan EXCEPT ![q] = None]
  /\ killed' = [killed EXCEPT ![q] = FALSE]
-----------------------------------------------------------------------------
(* fork()                                                                  *)

\* Forks end, and one that is under way fails, when pids reach MaxPid.
fork(p) ==
  /\ nextpid <= MaxPid
  /\ Begin(p, "alloc")
  /\ UNCHANGED <<target, asked>>

\* allocproc's loop; then, still under the new process's lock, the copies of
\* memory, registers and files, any allocation of which may fail.
allocproc(p) ==
  LET q == idx[p] IN
  /\ Step(p, "alloc")
  /\ \/ /\ q \in Slots /\ ~plock[q] /\ state[q] # "UNUSED"
        /\ advance(p)
        /\ UNCHANGED <<state, pid, parent, chan, killed, nextpid, pc, np, kids,
                       target>>
     \/ /\ q \in Slots /\ ~plock[q] /\ state[q] = "UNUSED"
        /\ nextpid <= MaxPid
        /\ nextpid' = nextpid + 1
        /\ \/ /\ state' = [state EXCEPT ![q] = "USED"]
              /\ pid' = [pid EXCEPT ![q] = nextpid]
              /\ np' = [np EXCEPT ![p] = q]
              /\ goto(p, "fork_parent")
              /\ UNCHANGED <<parent, chan, killed, idx, kids, target>>
           \/ freeproc(q) /\ Return(p)
     \/ /\ q \notin Slots \/ nextpid > MaxPid
        /\ Return(p)
        /\ UNCHANGED <<state, pid, parent, chan, killed, nextpid>>
  /\ UNCHANGED <<plock, wait_lock, asked>>

fork_parent(p) ==
  /\ Step(p, "fork_parent")
  /\ wait_lock = None
  /\ parent' = [parent EXCEPT ![np[p]] = p]
  /\ goto(p, "fork_run")
  /\ UNCHANGED <<state, pid, chan, killed, plock, wait_lock, nextpid, locals,
                 asked>>

fork_run(p) ==
  LET q == np[p] IN
  /\ Runs(p) /\ pc[p] = "fork_run" /\ ~plock[q]
  /\ state' = [state EXCEPT ![q] = "RUNNABLE"]
  /\ saved' = [saved EXCEPT ![q] = "forkret"]
  /\ Return(p)
  /\ UNCHANGED <<pid, parent, chan, killed, plock, wait_lock, nextpid, cpuvars,
                 asked>>
-----------------------------------------------------------------------------
(* exit()                                                                  *)

\* Called by the program, or by usertrap() for a killed process.  init must
\* not exit: it panics.
exit(p) ==
  /\ Step(p, "user")
  /\ p = initproc => killed[p]
  /\ goto(p, IF p = initproc THEN "panic" ELSE "exit")
  /\ UNCHANGED <<state, pid, parent, chan, killed, plock, wait_lock, nextpid,
                 locals, asked>>

exit_lock(p) ==
  /\ Step(p, "exit")
  /\ wait_lock = None /\ wait_lock' = p
  /\ goto(p, "reparent")
  /\ idx' = [idx EXCEPT ![p] = 1]
  /\ UNCHANGED <<state, pid, parent, chan, killed, plock, nextpid, kids, np,
                 target, asked>>

\* wakeup(q) under q's lock; it skips the process that calls it.
wakeup(p, q) ==
  /\ q # p => ~plock[q]
  /\ state' = [state EXCEPT ![q] =
       IF q # p /\ @ = "SLEEPING" /\ chan[q] = q THEN "RUNNABLE" ELSE @]

\* Mutant of Abandoned: the last slot is not looked at.
Abandoned_Short(p, q) == parent[q] = p /\ q < NPROC

Abandoned(p, q) == parent[q] = p

reparent(p) ==
  LET q == idx[p] IN
  /\ Step(p, "reparent") /\ q \in Slots
  /\ \/ /\ Abandoned(p, q)
        /\ parent' = [parent EXCEPT ![q] = initproc]
        /\ goto(p, "reparent_wakeup")
        /\ UNCHANGED idx
     \/ /\ ~Abandoned(p, q)
        /\ advance(p)
        /\ UNCHANGED <<parent, pc>>
  /\ UNCHANGED <<state, pid, chan, killed, plock, wait_lock, nextpid, kids, np,
                 target, asked>>

reparent_wakeup(p) ==
  /\ Step(p, "reparent_wakeup")
  /\ wakeup(p, initproc)
  /\ advance(p)
  /\ goto(p, "reparent")
  /\ UNCHANGED <<pid, parent, chan, killed, plock, wait_lock, nextpid, kids, np,
                 target, asked>>

\* Mutant of exit_wakeup: the parent is not woken.
exit_wakeup_None(p) ==
  /\ Step(p, "reparent") /\ idx[p] \notin Slots
  /\ goto(p, "zombie")
  /\ UNCHANGED <<state, pid, parent, chan, killed, plock, wait_lock, nextpid,
                 locals, asked>>

exit_wakeup(p) ==
  /\ Step(p, "reparent") /\ idx[p] \notin Slots
  /\ wakeup(p, parent[p])
  /\ goto(p, "zombie")
  /\ UNCHANGED <<pid, parent, chan, killed, plock, wait_lock, nextpid, locals,
                 asked>>

\* sched() never returns here; the slot's next process starts in user space.
exit_zombie(p) ==
  /\ Runs(p) /\ pc[p] = "zombie"
  /\ SwitchOut(p, "ZOMBIE", "dead")
  /\ wait_lock' = None
  /\ Return(p)
  /\ UNCHANGED <<pid, parent, chan, killed, nextpid, asked>>
-----------------------------------------------------------------------------
(* wait()                                                                  *)

wait(p) == Begin(p, "wait") /\ UNCHANGED <<target, asked>>

\* acquire(&wait_lock), at the start of wait() and at the end of sleep().
wait_acquire(p) ==
  /\ Step(p, "wait")
  /\ wait_lock = None /\ wait_lock' = p
  /\ goto(p, "scan")
  /\ idx' = [idx EXCEPT ![p] = 1]
  /\ kids' = [kids EXCEPT ![p] = FALSE]
  /\ UNCHANGED <<state, pid, parent, chan, killed, plock, nextpid, np, target,
                 asked>>

\* Mutant of ChildLock: wait() does not acquire pp->lock.
ChildLock_None(q) == TRUE

\* "make sure the child isn't still in exit() or swtch()"
ChildLock(q) == ~plock[q]

\* One slot of the scan.  Reaping fails if the status cannot be copied out,
\* which init does not ask for (init.c calls wait(0)).
wait_scan(p) ==
  LET q == idx[p] IN
  /\ Step(p, "scan") /\ q \in Slots
  /\ \/ /\ parent[q] # p
        /\ advance(p)
        /\ UNCHANGED <<state, pid, parent, chan, killed, wait_lock, pc, kids,
                       np, target>>
     \/ /\ parent[q] = p /\ ChildLock(q) /\ state[q] # "ZOMBIE"
        /\ kids' = [kids EXCEPT ![p] = TRUE]
        /\ advance(p)
        /\ UNCHANGED <<state, pid, parent, chan, killed, wait_lock, pc,
                       np, target>>
     \/ /\ parent[q] = p /\ ChildLock(q) /\ state[q] = "ZOMBIE"
        /\ \/ freeproc(q)
           \/ p # initproc /\ UNCHANGED <<state, pid, parent, chan, killed>>
        /\ wait_lock' = None
        /\ Return(p)
  /\ UNCHANGED <<plock, nextpid, asked>>

wait_end(p) ==
  /\ Step(p, "scan") /\ idx[p] \notin Slots
  /\ ~plock[p]
  /\ \/ /\ ~kids[p] \/ killed[p]
        /\ wait_lock' = None
        /\ Return(p)
     \/ /\ kids[p] /\ ~killed[p]
        /\ goto(p, "sleep")
        /\ UNCHANGED <<wait_lock, locals>>
  /\ UNCHANGED <<state, pid, parent, chan, killed, plock, nextpid, asked>>

\* sleep(p, &wait_lock): from here on p->lock keeps wakeup() out.
wait_sleep(p) ==
  /\ Runs(p) /\ pc[p] = "sleep"
  /\ SwitchOut(p, "SLEEPING", "sleep")
  /\ chan' = [chan EXCEPT ![p] = p]
  /\ wait_lock' = None
  /\ goto(p, "wait")
  /\ UNCHANGED <<pid, parent, killed, nextpid, locals, asked>>
-----------------------------------------------------------------------------
(* kill()                                                                  *)

kill(p, n) ==
  /\ Begin(p, "kill")
  /\ target' = [target EXCEPT ![p] = n]
  /\ asked' = asked \cup {n}

\* One slot of kill's loop.
kill_scan(p) ==
  LET q == idx[p] IN
  /\ Step(p, "kill")
  /\ \/ /\ q \in Slots /\ ~plock[q] /\ pid[q] # target[p]
        /\ advance(p)
        /\ UNCHANGED <<state, killed, pc, kids, np, target>>
     \/ /\ q \in Slots /\ ~plock[q] /\ pid[q] = target[p]
        /\ killed' = [killed EXCEPT ![q] = TRUE]
        /\ state' = [state EXCEPT ![q] =
                       IF @ = "SLEEPING" THEN "RUNNABLE" ELSE @]
        /\ Return(p)
     \/ q \notin Slots /\ Return(p) /\ UNCHANGED <<state, killed>>
  /\ UNCHANGED <<pid, parent, chan, plock, wait_lock, nextpid, asked>>
-----------------------------------------------------------------------------
scheduler(c) == scheduler_scan(c) \/ scheduler_back(c)

\* What a process does in user space, where the program decides.
User(p) ==
  fork(p) \/ wait(p) \/ exit(p) \/ \E n \in KillTargets : kill(p, n)

\* What the kernel does for it.
Kernel(p) ==
  \/ allocproc(p) \/ fork_parent(p) \/ fork_run(p)
  \/ exit_lock(p) \/ reparent(p) \/ reparent_wakeup(p)
  \/ exit_wakeup(p) \/ exit_zombie(p)
  \/ wait_acquire(p) \/ wait_scan(p) \/ wait_end(p) \/ wait_sleep(p)
  \/ kill_scan(p)

Next ==
  \/ \E c \in CPUs : scheduler(c)
  \/ \E p \in Slots : User(p) \/ Kernel(p) \/ Resume(p) \/ yield(p)

Spec == Init /\ [][Next]_vars

\* Every CPU runs.  Strong fairness where a step may be disabled for a while:
\* a timer interrupt stays pending while interrupts are off, a time slice is
\* long enough for a step, and a spin lock that is released again and again is
\* acquired.  init.c keeps calling wait.
Fairness ==
  /\ \A c \in CPUs : WF_vars(scheduler(c))
  /\ \A p \in Slots : /\ WF_vars(Resume(p))
                       /\ SF_vars(Kernel(p)) /\ SF_vars(yield(p))
  /\ SF_vars(wait(initproc))

LiveSpec == Spec /\ Fairness
-----------------------------------------------------------------------------
States == {"UNUSED", "USED", "SLEEPING", "RUNNABLE", "RUNNING", "ZOMBIE"}

\* No two CPUs are on the same kernel stack, not even while one of them is
\* still switching away from a process that is RUNNABLE again.
OneCPU ==
  \A c, d \in CPUs : running[c] = running[d] /\ running[c] # None => c = d

\* A slot is not freed, and not given to another process, while a CPU is still
\* on its kernel stack (the comment in wait(), "make sure the child isn't still
\* in exit() or swtch()").
FreedOffStack ==
  \A c \in CPUs : running[c] # None
                    => state[running[c]] \notin {"UNUSED", "USED"}

\* Nobody's parent is a zombie or a free slot: exit() hands every child to init
\* before it becomes a zombie, although fork() fills in np->parent late.
ParentAlive ==
  \A p \in Slots \ {initproc} :
    state[p] \in {"RUNNABLE", "RUNNING", "SLEEPING", "ZOMBIE"}
      => /\ parent[p] # None
         /\ state[parent[p]] \notin {"UNUSED", "USED", "ZOMBIE"}

\* While nobody holds wait_lock, no parent sleeps in wait() past a zombie child
\* of its own, adopted children of init included.
NoMissedExit ==
  wait_lock = None =>
    \A p, q \in Slots :
      state[p] = "SLEEPING" /\ parent[q] = p => state[q] # "ZOMBIE"

\* kill()'s comment, "Kill the process with the given pid": a process that is
\* marked killed is one whose pid was given to kill().
KilledAsAsked ==
  \A p \in Slots : state[p] # "UNUSED" /\ killed[p] => pid[p] \in asked

\* The round robin starves nobody: whoever is RUNNABLE gets a CPU.
NoStarvation == \A p \in Slots : state[p] = "RUNNABLE" ~> state[p] = "RUNNING"

\* Every zombie that belongs to init, an adopted one too, is reaped.
OrphansReaped ==
  \A p \in Slots :
    state[p] = "ZOMBIE" /\ parent[p] = initproc ~> state[p] = "UNUSED"
=============================================================================

----------------------------- MODULE ProcProofs ------------------------------
(***************************************************************************)
(* Proofs about the process table, for any number of slots and CPUs: the   *)
(* hand-over of p->lock between a process and the scheduler keeps every    *)
(* kernel stack to one CPU and every slot in use while a CPU is on its     *)
(* stack; wait_lock keeps the parents of live processes alive and lets no  *)
(* parent sleep through an exit; only processes that somebody named are    *)
(* killed.                                                                 *)
(***************************************************************************)
EXTENDS Proc, TLAPS

USE NPROCAssumption DEF Slots, initproc, None, States

(***************************************************************************)
(* The inductive invariant.  CpuInv says why a CPU keeps others away from  *)
(* the process it is on: by its state while it runs it, by its lock while  *)
(* it is leaving it.  NpInv says that a slot fork() is filling belongs to  *)
(* one process and is run by nobody; without it fork() could make a slot   *)
(* RUNNABLE that somebody else had freed.                                  *)
(***************************************************************************)
CoreType ==
  /\ state \in [Slots -> States]
  /\ plock \in [Slots -> BOOLEAN]
  /\ running \in [CPUs -> Slots \cup {None}]
  /\ spc \in [CPUs -> {"scan", "run", "back"}]
  /\ si \in [CPUs -> Slots]
  /\ DOMAIN pc = Slots
  /\ DOMAIN np = Slots

CpuInv ==
  \A c \in CPUs :
    /\ running[c] = None <=> spc[c] = "scan"
    /\ running[c] # None => running[c] = si[c]
    /\ spc[c] = "run" => state[si[c]] = "RUNNING"
    /\ spc[c] = "back" => /\ plock[si[c]]
                          /\ state[si[c]] \in {"RUNNABLE", "SLEEPING", "ZOMBIE"}

Forking(p) == pc[p] \in {"fork_parent", "fork_run"}

NpInv ==
  /\ \A p \in Slots : Forking(p) => np[p] \in Slots /\ state[np[p]] = "USED"
  /\ \A p, q \in Slots : Forking(p) /\ Forking(q) /\ p # q => np[p] # np[q]

StackInv == CoreType /\ CpuInv /\ OneCPU /\ NpInv
-----------------------------------------------------------------------------
\* A process that a CPU is on is RUNNING, or its lock is taken.
LEMMA OnStack ==
  ASSUME StackInv, NEW c \in CPUs, NEW p \in Slots, running[c] = p
  PROVE  /\ state[p] = "RUNNING" \/ plock[p]
         /\ state[p] \in {"RUNNING", "RUNNABLE", "SLEEPING", "ZOMBIE"}
  BY DEF StackInv, CoreType, CpuInv

\* Steps that only change the state of a process no CPU is on, and that no
\* fork() is filling.
LEMMA StateStep ==
  ASSUME StackInv, NEW q \in Slots, NEW s \in States,
         state' = [state EXCEPT ![q] = s],
         \A c \in CPUs : running[c] # q,
         \A p \in Slots : Forking(p)' => Forking(p) /\ np'[p] = np[p] /\ np[p] # q,
         DOMAIN pc' = Slots, DOMAIN np' = Slots,
         UNCHANGED <<plock, running, spc, si>>
  PROVE  StackInv'
<1>1. CoreType'
  BY DEF StackInv, CoreType
<1>2. CpuInv'
  <2> SUFFICES ASSUME NEW c \in CPUs
               PROVE  /\ running[c] = None <=> spc[c] = "scan"
                      /\ running[c] # None => running[c] = si[c]
                      /\ spc[c] = "run" => state'[si[c]] = "RUNNING"
                      /\ spc[c] = "back" =>
                           /\ plock[si[c]]
                           /\ state'[si[c]] \in {"RUNNABLE", "SLEEPING", "ZOMBIE"}
    BY DEF CpuInv
  <2>1. CASE spc[c] = "scan"
    BY <2>1 DEF StackInv, CpuInv
  <2>2. CASE spc[c] # "scan"
    <3>1. running[c] = si[c] /\ si[c] \in Slots /\ si[c] # q
      BY <2>2 DEF StackInv, CpuInv, CoreType
    <3>2. state'[si[c]] = state[si[c]]
      BY <3>1 DEF StackInv, CoreType
    <3> QED
      BY <3>2 DEF StackInv, CpuInv
  <2> QED
    BY <2>1, <2>2
<1>3. OneCPU'
  BY DEF StackInv, OneCPU
<1>4. NpInv'
  BY DEF StackInv, NpInv, CoreType
<1> QED
  BY <1>1, <1>2, <1>3, <1>4 DEF StackInv

\* Steps that leave the table and the CPUs alone.
LEMMA QuietStep ==
  ASSUME StackInv, DOMAIN pc' = Slots, DOMAIN np' = Slots,
         \A p \in Slots : Forking(p)' => Forking(p) /\ np'[p] = np[p],
         UNCHANGED <<state, plock, running, spc, si>>
  PROVE  StackInv'
<1>1. CoreType'
  BY DEF StackInv, CoreType
<1>2. CpuInv' /\ OneCPU'
  BY DEF StackInv, CpuInv, OneCPU
<1>3. NpInv'
  BY DEF StackInv, NpInv
<1> QED
  BY <1>1, <1>2, <1>3 DEF StackInv

\* A process switches out under its lock.
LEMMA SwitchOutStep ==
  ASSUME StackInv, NEW p \in Slots, NEW s \in {"RUNNABLE", "SLEEPING", "ZOMBIE"},
         NEW sv, SwitchOut(p, s, sv), DOMAIN pc' = Slots, DOMAIN np' = Slots,
         \A q \in Slots : Forking(q)' => Forking(q) /\ np'[q] = np[q]
  PROVE  StackInv'
<1>1. PICK c \in CPUs : On(c, p) /\ spc' = [spc EXCEPT ![c] = "back"]
  BY DEF SwitchOut
<1>2. running[c] = p /\ si[c] = p /\ spc[c] = "run" /\ state[p] = "RUNNING"
  BY <1>1 DEF On, StackInv, CpuInv, CoreType
<1>3. CoreType'
  BY <1>1 DEF StackInv, CoreType, SwitchOut
<1>4. CpuInv'
  <2> SUFFICES ASSUME NEW d \in CPUs
               PROVE  /\ running[d] = None <=> spc'[d] = "scan"
                      /\ running[d] # None => running[d] = si[d]
                      /\ spc'[d] = "run" => state'[si[d]] = "RUNNING"
                      /\ spc'[d] = "back" =>
                           /\ plock'[si[d]]
                           /\ state'[si[d]] \in {"RUNNABLE", "SLEEPING", "ZOMBIE"}
    BY DEF CpuInv, SwitchOut
  <2>1. CASE d = c
    BY <1>1, <1>2, <2>1 DEF StackInv, CoreType, SwitchOut
  <2>2. CASE d # c
    <3>1. spc'[d] = spc[d]
      BY <1>1, <2>2 DEF StackInv, CoreType
    <3>2. CASE spc[d] = "scan"
      BY <3>1, <3>2 DEF StackInv, CpuInv
    <3>3. CASE spc[d] # "scan"
      <4>1. running[d] = si[d] /\ running[d] # None /\ si[d] \in Slots
        BY <3>3 DEF StackInv, CpuInv, CoreType
      <4>2. si[d] # p
        BY <1>2, <2>2, <4>1 DEF StackInv, OneCPU
      <4>3. state'[si[d]] = state[si[d]] /\ (plock[si[d]] => plock'[si[d]])
        BY <4>1, <4>2 DEF SwitchOut, StackInv, CoreType
      <4> QED
        BY <3>1, <4>1, <4>3 DEF StackInv, CpuInv
    <3> QED
      BY <3>2, <3>3
  <2> QED
    BY <2>1, <2>2
<1>5. OneCPU'
  BY DEF StackInv, OneCPU, SwitchOut
<1>6. NpInv'
  <2>1. \A q \in Slots : Forking(q) => np[q] # p
    BY <1>2 DEF StackInv, NpInv
  <2> QED
    BY <2>1 DEF StackInv, NpInv, SwitchOut, CoreType
<1> QED
  BY <1>3, <1>4, <1>5, <1>6 DEF StackInv

\* Nobody starts to fill a slot in this step.
NoNewFork ==
  /\ DOMAIN pc' = Slots /\ DOMAIN np' = Slots
  /\ \A q \in Slots : Forking(q)' => Forking(q) /\ np'[q] = np[q]

\* A process that returns to user space fills no slot.
LEMMA ReturnNoFork ==
  ASSUME CoreType, NEW p \in Slots, Return(p)
  PROVE  NoNewFork /\ ~Forking(p)'
  BY DEF CoreType, Return, goto, NoNewFork, Forking

\* A move to a place outside fork() fills no slot.
LEMMA GotoNoFork ==
  ASSUME CoreType, NEW p \in Slots, NEW l, goto(p, l),
         l \notin {"fork_parent", "fork_run"}, UNCHANGED np
  PROVE  NoNewFork
  BY DEF CoreType, goto, NoNewFork, Forking

\* Nor does a step that moves nobody.
LEMMA StayNoFork ==
  ASSUME CoreType, UNCHANGED <<pc, np>>
  PROVE  NoNewFork
  BY DEF CoreType, NoNewFork, Forking

\* wakeup() and kill() touch the state of a process only under its lock.
LEMMA WakeStep ==
  ASSUME StackInv, NEW q \in Slots, ~plock[q] \/ state' = state,
         \/ state' = [state EXCEPT ![q] = "RUNNABLE"] /\ state[q] = "SLEEPING"
         \/ state' = state,
         NoNewFork, UNCHANGED <<plock, running, spc, si>>
  PROVE  StackInv'
<1>1. CASE state' = state
  BY <1>1, QuietStep DEF NoNewFork
<1>2. CASE state' = [state EXCEPT ![q] = "RUNNABLE"] /\ state[q] = "SLEEPING"
           /\ state' # state
  <2>1. \A c \in CPUs : running[c] # q
    BY <1>2, OnStack
  <2>2. \A p \in Slots : Forking(p) => np[p] # q
    BY <1>2 DEF StackInv, NpInv
  <2> QED
    BY <1>2, <2>1, <2>2, StateStep DEF NoNewFork
<1> QED
  BY <1>1, <1>2
-----------------------------------------------------------------------------
\* A scheduler takes a process whose lock is free, and keeps it while it switches.
LEMMA SchedulerStep ==
  ASSUME StackInv, NEW c \in CPUs, scheduler(c)
  PROVE  StackInv'
<1>1. ASSUME scheduler_scan(c), state[si[c]] = "RUNNABLE"
      PROVE  StackInv'
  <2> DEFINE p == si[c]
  <2>0. /\ p \in Slots /\ spc[c] = "scan" /\ ~plock[p]
        /\ state' = [state EXCEPT ![p] = "RUNNING"]
        /\ plock' = [plock EXCEPT ![p] = TRUE]
        /\ running' = [running EXCEPT ![c] = p]
        /\ spc' = [spc EXCEPT ![c] = "run"]
        /\ UNCHANGED <<si, pc, np>>
    BY <1>1 DEF scheduler_scan, StackInv, CoreType, locals
  <2> HIDE DEF p
  <2>1. \A d \in CPUs : running[d] # p
    BY <1>1, <2>0, OnStack DEF p
  <2>2. CoreType'
    BY <2>0 DEF StackInv, CoreType
  <2>3. CpuInv'
    <3> SUFFICES ASSUME NEW d \in CPUs
                 PROVE  /\ running'[d] = None <=> spc'[d] = "scan"
                        /\ running'[d] # None => running'[d] = si[d]
                        /\ spc'[d] = "run" => state'[si[d]] = "RUNNING"
                        /\ spc'[d] = "back" =>
                             /\ plock'[si[d]]
                             /\ state'[si[d]] \in
                                  {"RUNNABLE", "SLEEPING", "ZOMBIE"}
      BY <2>0 DEF CpuInv
    <3>1. CASE d = c
      BY <2>0, <3>1 DEF StackInv, CoreType, p
    <3>2. CASE d # c
      <4>1. spc'[d] = spc[d] /\ running'[d] = running[d]
        BY <2>0, <3>2 DEF StackInv, CoreType
      <4>2. CASE spc[d] = "scan"
        BY <4>1, <4>2 DEF StackInv, CpuInv
      <4>3. CASE spc[d] # "scan"
        <5>1. running[d] = si[d] /\ si[d] \in Slots /\ si[d] # p
          BY <4>3, <2>1 DEF StackInv, CpuInv, CoreType
        <5>2. state'[si[d]] = state[si[d]] /\ (plock[si[d]] => plock'[si[d]])
          BY <2>0, <5>1 DEF StackInv, CoreType
        <5> QED
          BY <4>1, <5>1, <5>2 DEF StackInv, CpuInv
      <4> QED
        BY <4>2, <4>3
    <3> QED
      BY <3>1, <3>2
  <2>4. OneCPU'
    BY <2>0, <2>1 DEF StackInv, OneCPU, CoreType
  <2>5. NpInv'
    <3>1. \A q \in Slots : Forking(q) => np[q] # p
      BY <1>1 DEF StackInv, NpInv, p
    <3> QED
      BY <2>0, <3>1 DEF StackInv, NpInv, CoreType, Forking
  <2> QED
    BY <2>2, <2>3, <2>4, <2>5 DEF StackInv
<1>2. ASSUME scheduler_scan(c), state[si[c]] # "RUNNABLE"
      PROVE  StackInv'
  <2>0. /\ spc[c] = "scan" /\ si[c] \in Slots
        /\ si' = [si EXCEPT ![c] = after(si[c])]
        /\ UNCHANGED <<state, plock, running, spc, pc, np>>
    BY <1>2 DEF scheduler_scan, locals, StackInv, CoreType
  <2>1. CoreType'
    BY <2>0 DEF StackInv, CoreType, after
  <2>2. CpuInv'
    BY <2>0 DEF StackInv, CpuInv, CoreType
  <2>3. OneCPU' /\ NpInv'
    BY <2>0 DEF StackInv, OneCPU, NpInv, Forking
  <2> QED
    BY <2>1, <2>2, <2>3 DEF StackInv
<1>3. ASSUME scheduler_back(c)
      PROVE  StackInv'
  <2>0. /\ spc[c] = "back" /\ si[c] \in Slots
        /\ running[c] = si[c]
        /\ running' = [running EXCEPT ![c] = None]
        /\ plock' = [plock EXCEPT ![si[c]] = FALSE]
        /\ spc' = [spc EXCEPT ![c] = "scan"]
        /\ si' = [si EXCEPT ![c] = after(si[c])]
        /\ UNCHANGED <<state, pc, np>>
    BY <1>3 DEF scheduler_back, locals, StackInv, CoreType, CpuInv
  <2>1. CoreType'
    BY <2>0 DEF StackInv, CoreType, after
  <2>2. CpuInv'
    <3> SUFFICES ASSUME NEW d \in CPUs
                 PROVE  /\ running'[d] = None <=> spc'[d] = "scan"
                        /\ running'[d] # None => running'[d] = si'[d]
                        /\ spc'[d] = "run" => state[si'[d]] = "RUNNING"
                        /\ spc'[d] = "back" =>
                             /\ plock'[si'[d]]
                             /\ state[si'[d]] \in
                                  {"RUNNABLE", "SLEEPING", "ZOMBIE"}
      BY <2>0 DEF CpuInv
    <3>1. CASE d = c
      BY <2>0, <3>1 DEF StackInv, CoreType
    <3>2. CASE d # c
      <4>1. spc'[d] = spc[d] /\ running'[d] = running[d] /\ si'[d] = si[d]
        BY <2>0, <3>2 DEF StackInv, CoreType
      <4>2. CASE spc[d] = "scan"
        BY <4>1, <4>2 DEF StackInv, CpuInv
      <4>3. CASE spc[d] # "scan"
        <5>1. running[d] = si[d] /\ si[d] \in Slots /\ si[d] # si[c]
          BY <2>0, <3>2, <4>3 DEF StackInv, CpuInv, CoreType, OneCPU
        <5>2. plock'[si[d]] = plock[si[d]]
          BY <2>0, <5>1 DEF StackInv, CoreType
        <5> QED
          BY <4>1, <5>1, <5>2 DEF StackInv, CpuInv
      <4> QED
        BY <4>2, <4>3
    <3> QED
      BY <3>1, <3>2
  <2>3. OneCPU'
    BY <2>0 DEF StackInv, OneCPU, CoreType
  <2>4. NpInv'
    BY <2>0 DEF StackInv, NpInv, Forking
  <2> QED
    BY <2>1, <2>2, <2>3, <2>4 DEF StackInv
<1> QED
  BY <1>1, <1>2, <1>3 DEF scheduler
-----------------------------------------------------------------------------
\* Resume releases p->lock; no other CPU is on p, so none relied on it.
LEMMA ResumeStep ==
  ASSUME StackInv, NEW p \in Slots, Resume(p)
  PROVE  StackInv'
<1>1. PICK c \in CPUs : On(c, p)
  BY DEF Resume
<1>2. /\ running[c] = p /\ spc[c] = "run"
      /\ plock' = [plock EXCEPT ![p] = FALSE]
      /\ UNCHANGED <<state, running, spc, si, pc, np>>
  BY <1>1 DEF Resume, On, cpuvars, locals
<1>3. CoreType'
  BY <1>2 DEF StackInv, CoreType
<1>4. CpuInv'
  <2> SUFFICES ASSUME NEW d \in CPUs, spc[d] = "back" PROVE plock'[si[d]]
    BY <1>2 DEF StackInv, CpuInv
  <2>1. d # c /\ running[d] = si[d] /\ running[d] # None /\ si[d] \in Slots
    BY <1>2 DEF StackInv, CpuInv, CoreType
  <2>2. si[d] # p /\ plock[si[d]]
    BY <1>2, <2>1 DEF StackInv, CpuInv, OneCPU
  <2> QED
    BY <1>2, <2>1, <2>2 DEF StackInv, CoreType
<1>5. OneCPU' /\ NpInv'
  BY <1>2 DEF StackInv, OneCPU, NpInv, Forking
<1> QED
  BY <1>3, <1>4, <1>5 DEF StackInv

\* allocproc takes an UNUSED slot, which no CPU is on and no fork() fills.
LEMMA AllocStep ==
  ASSUME StackInv, NEW p \in Slots, allocproc(p)
  PROVE  StackInv'
<1> DEFINE q == idx[p]
<1>0. UNCHANGED <<plock, running, spc, si>>
  BY DEF allocproc, Step, cpuvars
<1>1. CASE advance(p) /\ UNCHANGED <<state, pc, np>>
  BY <1>0, <1>1, StayNoFork, QuietStep DEF NoNewFork, StackInv
<1>2. CASE Return(p) /\ UNCHANGED state
  BY <1>0, <1>2, ReturnNoFork, QuietStep DEF NoNewFork, StackInv
<1>3. CASE /\ q \in Slots /\ state[q] = "UNUSED" /\ freeproc(q) /\ Return(p)
  <2>1. state' = state
    BY <1>3 DEF freeproc, StackInv, CoreType
  <2> QED
    BY <1>2, <1>3, <2>1
<1>4. CASE /\ q \in Slots /\ state[q] = "UNUSED"
           /\ state' = [state EXCEPT ![q] = "USED"]
           /\ np' = [np EXCEPT ![p] = q]
           /\ goto(p, "fork_parent")
  <2> HIDE DEF q
  <2>1. \A c \in CPUs : running[c] # q
    BY <1>4, OnStack
  <2>2. pc[p] = "alloc" /\ ~Forking(p)
    BY DEF allocproc, Step, Forking
  <2>3. \A r \in Slots : Forking(r) => np[r] # q
    BY <1>4 DEF StackInv, NpInv
  <2>4. CoreType'
    BY <1>0, <1>4 DEF StackInv, CoreType, goto
  <2>5. CpuInv'
    <3> SUFFICES ASSUME NEW c \in CPUs, spc[c] # "scan"
                 PROVE  state'[si[c]] = state[si[c]]
      BY <1>0 DEF StackInv, CpuInv
    <3>1. running[c] = si[c] /\ si[c] \in Slots
      BY DEF StackInv, CpuInv, CoreType
    <3> QED
      BY <1>4, <2>1, <3>1 DEF StackInv, CoreType
  <2>6. OneCPU'
    BY <1>0 DEF StackInv, OneCPU
  <2>7. /\ np'[p] = q
        /\ \A r \in Slots \ {p} : (Forking(r)' <=> Forking(r)) /\ np'[r] = np[r]
    BY <1>4 DEF StackInv, CoreType, goto, Forking
  <2>8. \A r \in Slots : state'[r] = IF r = q THEN "USED" ELSE state[r]
    BY <1>4 DEF StackInv, CoreType
  <2>9. NpInv'
    BY <1>4, <2>3, <2>7, <2>8 DEF StackInv, NpInv
  <2> QED
    BY <2>4, <2>5, <2>6, <2>9 DEF StackInv
<1> QED
  BY <1>1, <1>2, <1>3, <1>4 DEF allocproc

\* fork() makes its slot RUNNABLE: nobody ran it, and it is its own no more.
LEMMA ForkRunStep ==
  ASSUME StackInv, NEW p \in Slots, fork_run(p)
  PROVE  StackInv'
<1>1. Forking(p) /\ np[p] \in Slots /\ state[np[p]] = "USED"
  BY DEF fork_run, Forking, StackInv, NpInv
<1>2. \A c \in CPUs : running[c] # np[p]
  BY <1>1, OnStack
<1>3. NoNewFork /\ ~Forking(p)'
  BY ReturnNoFork DEF fork_run, StackInv
<1>4. \A q \in Slots : Forking(q)' => Forking(q) /\ np'[q] = np[q] /\ np[q] # np[p]
  BY <1>1, <1>3 DEF NoNewFork, StackInv, NpInv
<1> QED
  BY <1>1, <1>2, <1>3, <1>4, StateStep DEF fork_run, cpuvars, NoNewFork

\* wait() frees a ZOMBIE whose lock is free: the CPU that ran it is gone.
LEMMA WaitScanStep ==
  ASSUME StackInv, NEW p \in Slots, wait_scan(p)
  PROVE  StackInv'
<1> DEFINE q == idx[p]
<1>0. q \in Slots /\ UNCHANGED <<plock, running, spc, si>>
  BY DEF wait_scan, Step, cpuvars
<1>1. CASE UNCHANGED <<state, pc, np>>
  BY <1>0, <1>1, StayNoFork, QuietStep DEF NoNewFork, StackInv
<1>2. CASE UNCHANGED state /\ Return(p)
  BY <1>0, <1>2, ReturnNoFork, QuietStep DEF NoNewFork, StackInv
<1>3. CASE ~plock[q] /\ state[q] = "ZOMBIE" /\ freeproc(q) /\ Return(p)
  <2>1. \A c \in CPUs : running[c] # q
    BY <1>0, <1>3, OnStack
  <2>2. \A r \in Slots : Forking(r) => np[r] # q
    BY <1>3 DEF StackInv, NpInv
  <2>3. NoNewFork
    BY <1>3, ReturnNoFork DEF StackInv
  <2>4. state' = [state EXCEPT ![q] = "UNUSED"] /\ "UNUSED" \in States
    BY <1>3 DEF freeproc
  <2> HIDE DEF q
  <2> QED
    BY <1>0, <2>1, <2>2, <2>3, <2>4, StateStep DEF NoNewFork
<1> QED
  BY <1>1, <1>2, <1>3 DEF wait_scan, ChildLock

\* The steps of exit(), wait() and kill() that wake somebody up.
LEMMA WakeupStep ==
  ASSUME StackInv, NEW p \in Slots, NEW q, wakeup(p, q), NoNewFork,
         UNCHANGED <<plock, running, spc, si>>
  PROVE  StackInv'
<1>1. CASE q \in Slots
  <2>1. CASE q # p /\ state[q] = "SLEEPING" /\ chan[q] = q
    BY <1>1, <2>1, WakeStep DEF wakeup
  <2>2. CASE ~(q # p /\ state[q] = "SLEEPING" /\ chan[q] = q)
    <3>1. state' = state
      BY <1>1, <2>2 DEF wakeup, StackInv, CoreType
    <3> QED
      BY <3>1, QuietStep DEF NoNewFork
  <2> QED
    BY <2>1, <2>2
<1>2. CASE q \notin Slots
  <2>1. state' = state
    BY <1>2 DEF wakeup, StackInv, CoreType
  <2> QED
    BY <2>1, QuietStep DEF NoNewFork
<1> QED
  BY <1>1, <1>2

\* kill() touches only a process whose lock is free.
LEMMA KillScanStep ==
  ASSUME StackInv, NEW p \in Slots, kill_scan(p)
  PROVE  StackInv'
<1> DEFINE q == idx[p]
<1>0. UNCHANGED <<plock, running, spc, si>>
  BY DEF kill_scan, Step, cpuvars
<1>1. CASE UNCHANGED <<state, pc, np>>
  BY <1>0, <1>1, StayNoFork, QuietStep DEF NoNewFork, StackInv
<1>2. CASE UNCHANGED state /\ Return(p)
  BY <1>0, <1>2, ReturnNoFork, QuietStep DEF NoNewFork, StackInv
<1>3. CASE /\ q \in Slots /\ ~plock[q] /\ Return(p)
           /\ state' = [state EXCEPT ![q] =
                           IF @ = "SLEEPING" THEN "RUNNABLE" ELSE @]
  <2>1. NoNewFork
    BY <1>3, ReturnNoFork DEF StackInv
  <2>2. CASE state[q] = "SLEEPING"
    <3>1. state' = [state EXCEPT ![q] = "RUNNABLE"]
      BY <1>3, <2>2
    <3> HIDE DEF q
    <3> QED
      BY <1>0, <1>3, <2>1, <2>2, <3>1, WakeStep
  <2>3. CASE state[q] # "SLEEPING"
    <3>1. state' = state
      BY <1>3, <2>3 DEF StackInv, CoreType
    <3> QED
      BY <1>0, <2>1, <3>1, QuietStep DEF NoNewFork
  <2> QED
    BY <2>2, <2>3
<1> QED
  BY <1>1, <1>2, <1>3 DEF kill_scan
-----------------------------------------------------------------------------
\* The invariant about kernel stacks holds throughout.
LEMMA StackInvariant == Spec => []StackInv
<1>1. Init => StackInv
  BY DEF Init, StackInv, CoreType, CpuInv, OneCPU, NpInv, Forking
<1>2. StackInv /\ [Next]_vars => StackInv'
  <2> SUFFICES ASSUME StackInv, [Next]_vars PROVE StackInv'
    OBVIOUS
  <2>0. CoreType
    BY DEF StackInv
  <2>1. ASSUME NEW c \in CPUs, scheduler(c) PROVE StackInv'
    BY <2>1, SchedulerStep
  <2>2. ASSUME NEW p \in Slots, User(p) PROVE StackInv'
    <3>1. ASSUME NEW l \in {"alloc", "wait", "kill"}, Begin(p, l) PROVE StackInv'
      <4>1. NoNewFork
        BY <2>0, <3>1, GotoNoFork DEF Begin
      <4> QED
        BY <3>1, <4>1, QuietStep DEF Begin, cpuvars, NoNewFork
    <3>2. ASSUME exit(p) PROVE StackInv'
      <4>1. UNCHANGED <<state, plock, running, spc, si, np>>
        BY <3>2 DEF exit, Step, cpuvars, locals
      <4>2. NoNewFork
        BY <2>0, <3>2, <4>1, GotoNoFork DEF exit
      <4> QED
        BY <4>1, <4>2, QuietStep DEF NoNewFork
    <3> QED
      BY <2>2, <3>1, <3>2 DEF User, fork, wait, kill
  <2>3. ASSUME NEW p \in Slots, Resume(p) PROVE StackInv'
    BY <2>3, ResumeStep
  <2>4. ASSUME NEW p \in Slots, yield(p) PROVE StackInv'
    <3>1. NoNewFork
      BY <2>0, <2>4, StayNoFork DEF yield, locals
    <3> QED
      BY <2>4, <3>1, SwitchOutStep DEF yield, NoNewFork
  <2>5. ASSUME NEW p \in Slots, allocproc(p) \/ fork_run(p) \/ wait_scan(p)
                                  \/ kill_scan(p)
        PROVE  StackInv'
    BY <2>5, AllocStep, ForkRunStep, WaitScanStep, KillScanStep
  <2>6. ASSUME NEW p \in Slots, fork_parent(p) PROVE StackInv'
    <3>1. /\ pc[p] = "fork_parent" /\ pc' = [pc EXCEPT ![p] = "fork_run"]
          /\ UNCHANGED <<state, plock, running, spc, si, np>>
      BY <2>6 DEF fork_parent, Step, goto, cpuvars, locals
    <3>2. NoNewFork
      BY <2>0, <3>1 DEF CoreType, NoNewFork, Forking
    <3> QED
      BY <3>1, <3>2, QuietStep DEF NoNewFork
  <2>7. ASSUME NEW p \in Slots, exit_lock(p) \/ reparent(p) \/ wait_acquire(p)
        PROVE  StackInv'
    <3>1. UNCHANGED <<state, plock, running, spc, si, np>>
      BY <2>7 DEF exit_lock, reparent, wait_acquire, Step, cpuvars
    <3>2. NoNewFork
      BY <2>0, <2>7, <3>1, GotoNoFork, StayNoFork
      DEF exit_lock, reparent, wait_acquire
    <3> QED
      BY <3>1, <3>2, QuietStep DEF NoNewFork
  <2>8. ASSUME NEW p \in Slots, wait_end(p) PROVE StackInv'
    <3>1. UNCHANGED <<state, plock, running, spc, si>>
      BY <2>8 DEF wait_end, Step, cpuvars
    <3>2. NoNewFork
      BY <2>0, <2>8, GotoNoFork, ReturnNoFork DEF wait_end, locals
    <3> QED
      BY <3>1, <3>2, QuietStep DEF NoNewFork
  <2>9. ASSUME NEW p \in Slots, reparent_wakeup(p) \/ exit_wakeup(p)
        PROVE  StackInv'
    <3>1. UNCHANGED <<plock, running, spc, si, np>>
      BY <2>9 DEF reparent_wakeup, exit_wakeup, Step, cpuvars, locals
    <3>2. NoNewFork
      BY <2>0, <2>9, <3>1, GotoNoFork DEF reparent_wakeup, exit_wakeup
    <3> QED
      BY <2>9, <3>1, <3>2, WakeupStep DEF reparent_wakeup, exit_wakeup
  <2>10. ASSUME NEW p \in Slots, exit_zombie(p) PROVE StackInv'
    <3>1. NoNewFork
      BY <2>0, <2>10, ReturnNoFork DEF exit_zombie
    <3> QED
      BY <2>10, <3>1, SwitchOutStep DEF exit_zombie, NoNewFork
  <2>11. ASSUME NEW p \in Slots, wait_sleep(p) PROVE StackInv'
    <3>1. NoNewFork
      BY <2>0, <2>11, GotoNoFork DEF wait_sleep, locals
    <3> QED
      BY <2>11, <3>1, SwitchOutStep DEF wait_sleep, NoNewFork
  <2>12. CASE UNCHANGED vars
    BY <2>0, <2>12, StayNoFork, QuietStep DEF vars, NoNewFork
  <2> QED
    BY <2>1, <2>2, <2>3, <2>4, <2>5, <2>6, <2>7, <2>8, <2>9, <2>10, <2>11,
       <2>12
    DEF Next, Kernel
<1> QED
  BY <1>1, <1>2, PTL DEF Spec

\* No kernel stack is ever used by two CPUs, for any number of CPUs and slots:
\* p->lock, taken before the state changes and released by the scheduler after
\* the switch, is what sched() needs.
THEOREM StacksNotShared == Spec => []OneCPU
<1>1. StackInv => OneCPU
  BY DEF StackInv
<1> QED
  BY <1>1, StackInvariant, PTL

\* wait() never frees, and fork() never reuses, a slot that a CPU is still on.
THEOREM SlotsFreedOffStack == Spec => []FreedOffStack
<1>1. StackInv => FreedOffStack
  BY DEF StackInv, CoreType, CpuInv, FreedOffStack
<1> QED
  BY <1>1, StackInvariant, PTL
-----------------------------------------------------------------------------
(***************************************************************************)
(* The family.  LockInv: who is in a section under wait_lock holds it and  *)
(* is RUNNING.  ParentInv: every parent is alive, and exit() has given     *)
(* away the children below its loop index.  SleepInv: a sleeper with a     *)
(* zombie child is about to be woken; it follows from what the scan of     *)
(* wait() has seen of the table, and from the parent of a process that is  *)
(* about to become a zombie being awake.                                   *)
(***************************************************************************)
Alive == {"RUNNABLE", "RUNNING", "SLEEPING"}
Locked == {"reparent", "reparent_wakeup", "zombie", "scan", "sleep"}
Exiting == {"exit", "reparent", "reparent_wakeup", "zombie"}

TreeType ==
  /\ parent \in [Slots -> Slots \cup {None}]
  /\ chan \in [Slots -> Slots \cup {None}]
  /\ idx \in [Slots -> 1 .. NPROC + 1]
  /\ wait_lock \in Slots \cup {None}

LockInv ==
  \A p \in Slots : /\ pc[p] \in Locked <=> wait_lock = p
                   /\ pc[p] \in Locked => state[p] = "RUNNING"

ParentInv ==
  /\ state[initproc] \in Alive
  /\ \A p \in Slots :
       /\ parent[p] # None => state[parent[p]] \in Alive
       /\ state[p] \in Alive \cup {"ZOMBIE"} => p = initproc \/ parent[p] # None
       /\ state[p] = "UNUSED" => parent[p] = None /\ chan[p] = None
       /\ pc[p] = "fork_run" => parent[np[p]] = p
       /\ pc[p] \in Exiting => p # initproc
  /\ \A p, q \in Slots :
       /\ pc[p] = "reparent" /\ q < idx[p] => parent[q] # p
       /\ pc[p] = "reparent_wakeup" /\ q <= idx[p] => parent[q] # p
       /\ pc[p] = "zombie" => parent[q] # p

SleepInv ==
  /\ \A p \in Slots :
       /\ state[p] = "SLEEPING" => chan[p] = p
       /\ pc[p] = "reparent_wakeup" => idx[p] \in Slots
       /\ pc[p] = "zombie" => parent[p] # None /\ state[parent[p]] # "SLEEPING"
  /\ \A p, q \in Slots : parent[q] = p /\ state[q] = "ZOMBIE" =>
       /\ state[p] = "SLEEPING" =>
            p = initproc /\ \E r \in Slots : pc[r] = "reparent_wakeup"
       /\ ~(pc[p] = "scan" /\ q < idx[p])
       /\ pc[p] # "sleep"

TreeInv == TreeType /\ LockInv /\ ParentInv /\ SleepInv

\* KillInv: a free slot is nobody's, so its next process starts unmarked.
KillInv ==
  /\ pid \in [Slots -> Nat] /\ killed \in [Slots -> BOOLEAN]
  /\ target \in [Slots -> Nat] /\ 0 \notin asked /\ nextpid \in Nat
  /\ \A p \in Slots : /\ killed[p] => pid[p] \in asked
                      /\ state[p] = "UNUSED" => pid[p] = 0
                      /\ pc[p] = "kill" => target[p] \in asked

\* A process whose kernel thread runs is RUNNING.
LEMMA RunsRunning ==
  ASSUME StackInv, NEW p \in Slots, Runs(p)
  PROVE  state[p] = "RUNNING"
  BY DEF Runs, On, StackInv, CpuInv, CoreType

\* p alone moves in its program.
Moves(p) ==
  /\ DOMAIN pc' = Slots /\ DOMAIN np' = Slots
  /\ idx' \in [Slots -> 1 .. NPROC + 1]
  /\ \A q \in Slots \ {p} : pc'[q] = pc[q] /\ idx'[q] = idx[q] /\ np'[q] = np[q]

\* p moves outside the sections under wait_lock, if at all; processes are
\* dispatched, woken, preempted or allocated, but none ends.
LEMMA MoveStep ==
  ASSUME StackInv, TreeInv, NEW p \in Slots, Moves(p),
         UNCHANGED <<parent, chan, wait_lock>>,
         \A q \in Slots :
           \/ state'[q] = state[q]
           \/ state[q] \in {"SLEEPING", "RUNNABLE"} /\ state'[q] \in {"RUNNABLE", "RUNNING"}
           \/ state[q] = "RUNNING" /\ state'[q] = "RUNNABLE" /\ pc[q] \notin Locked
           \/ state[q] = "UNUSED" /\ state'[q] = "USED",
         \/ pc'[p] = pc[p] /\ idx'[p] = idx[p] /\ np'[p] = np[p]
         \/ /\ pc[p] \notin Locked /\ pc'[p] \notin Locked \cup {"fork_run"}
            /\ pc'[p] = "exit" => p # initproc
  PROVE  TreeInv'
<1>a. TreeType /\ LockInv /\ ParentInv /\ SleepInv
  BY DEF TreeInv
<1>1. TreeType'
  BY <1>a DEF TreeType, Moves
<1>2. \A q \in Slots : /\ pc'[q] \in Locked \cup {"fork_run"} \/ pc[q] \in Locked =>
                             pc'[q] = pc[q] /\ idx'[q] = idx[q] /\ np'[q] = np[q]
                       /\ pc'[q] = "exit" => q # initproc
  BY <1>a DEF Moves, ParentInv, Exiting
<1>3. LockInv'
  <2>1. \A q \in Slots : pc'[q] \in Locked <=> pc[q] \in Locked
    BY <1>2
  <2>2. \A q \in Slots : pc[q] \in Locked => state'[q] = "RUNNING"
    BY <1>a DEF LockInv
  <2> QED
    BY <1>a, <2>1, <2>2 DEF LockInv
<1>4. ParentInv'
  <2>1. \A q \in Slots : /\ state[q] \in Alive => state'[q] \in Alive
                         /\ state'[q] \in Alive \cup {"ZOMBIE"} =>
                              state[q] \in Alive \cup {"ZOMBIE"}
                         /\ state'[q] = "UNUSED" => state[q] = "UNUSED"
    BY DEF Alive
  <2>2. \A q \in Slots : /\ parent'[q] # None => state'[parent'[q]] \in Alive
                         /\ state'[q] \in Alive \cup {"ZOMBIE"} =>
                              q = initproc \/ parent'[q] # None
                         /\ state'[q] = "UNUSED" => parent'[q] = None /\ chan'[q] = None
    <3> TAKE q \in Slots
    <3>1. parent[q] # None => parent[q] \in Slots
      BY <1>a DEF TreeType
    <3>2. parent'[q] # None => state'[parent'[q]] \in Alive
      BY <1>a, <2>1, <3>1 DEF ParentInv
    <3> QED
      BY <1>a, <2>1, <3>2 DEF ParentInv
  <2>3. \A q \in Slots : /\ pc'[q] = "fork_run" => parent'[np'[q]] = q
                         /\ pc'[q] \in Exiting => q # initproc
    BY <1>a, <1>2 DEF ParentInv, Exiting, Locked
  <2>4. \A q, r \in Slots :
          /\ pc'[q] = "reparent" /\ r < idx'[q] => parent'[r] # q
          /\ pc'[q] = "reparent_wakeup" /\ r <= idx'[q] => parent'[r] # q
          /\ pc'[q] = "zombie" => parent'[r] # q
    BY <1>a, <1>2 DEF ParentInv, Locked
  <2> QED
    BY <1>a, <2>1, <2>2, <2>3, <2>4 DEF ParentInv
<1>5. SleepInv'
  <2>1. \A q \in Slots : /\ state'[q] = "SLEEPING" => state[q] = "SLEEPING"
                         /\ state'[q] = "ZOMBIE" => state[q] = "ZOMBIE"
    OBVIOUS
  <2>2. \A q \in Slots :
          /\ state'[q] = "SLEEPING" => chan'[q] = q
          /\ pc'[q] = "reparent_wakeup" => idx'[q] \in Slots
          /\ pc'[q] = "zombie" => parent'[q] # None /\ state'[parent'[q]] # "SLEEPING"
    <3> TAKE q \in Slots
    <3>1. parent[q] # None => parent[q] \in Slots
      BY <1>a DEF TreeType
    <3>2. ASSUME pc'[q] = "zombie"
          PROVE  parent'[q] # None /\ state'[parent'[q]] # "SLEEPING"
      BY <1>a, <1>2, <2>1, <3>1, <3>2 DEF SleepInv, Locked
    <3> QED
      BY <1>a, <1>2, <2>1, <3>2 DEF SleepInv, Locked
  <2>3. ASSUME NEW q \in Slots, NEW r \in Slots, parent'[r] = q, state'[r] = "ZOMBIE"
        PROVE  /\ state'[q] = "SLEEPING" =>
                    q = initproc /\ \E t \in Slots : pc'[t] = "reparent_wakeup"
               /\ ~(pc'[q] = "scan" /\ r < idx'[q])
               /\ pc'[q] # "sleep"
    BY <1>a, <1>2, <2>1, <2>3 DEF SleepInv, Locked
  <2> QED
    BY <2>2, <2>3 DEF SleepInv
<1> QED
  BY <1>1, <1>3, <1>4, <1>5 DEF TreeInv

\* Back in sleep(), p->chan is cleared: p is RUNNING.
LEMMA ResumeTree ==
  ASSUME StackInv, TreeInv, NEW p \in Slots, Resume(p)
  PROVE  TreeInv'
<1>1. state[p] = "RUNNING"
  BY DEF Resume, On, StackInv, CpuInv, CoreType
<1>2. /\ UNCHANGED <<state, parent, wait_lock, pc, idx, np>>
      /\ chan' = [chan EXCEPT ![p] = IF saved[p] = "sleep" THEN None ELSE @]
  BY DEF Resume, locals
<1>3. /\ chan' \in [Slots -> Slots \cup {None}]
      /\ \A q \in Slots : q # p => chan'[q] = chan[q]
  BY <1>2 DEF TreeInv, TreeType
<1>4. TreeType' /\ LockInv'
  BY <1>2, <1>3 DEF TreeInv, TreeType, LockInv
<1>5. ParentInv'
  BY <1>1, <1>2, <1>3 DEF TreeInv, ParentInv
<1>6. SleepInv'
  BY <1>1, <1>2, <1>3 DEF TreeInv, SleepInv
<1> QED
  BY <1>4, <1>5, <1>6 DEF TreeInv

\* fork(): np->parent = p.
LEMMA ForkParentTree ==
  ASSUME StackInv, TreeInv, NEW p \in Slots, fork_parent(p)
  PROVE  TreeInv'
<1>a. TreeType /\ LockInv /\ ParentInv /\ SleepInv
  BY DEF TreeInv
<1>1. PICK n \in Slots : /\ n = np[p] /\ state[n] = "USED"
                         /\ \A q \in Slots : Forking(q) /\ q # p => np[q] # n
  BY DEF fork_parent, Step, StackInv, NpInv, Forking
<1>2. /\ pc[p] = "fork_parent" /\ state[p] = "RUNNING"
      /\ parent' = [parent EXCEPT ![n] = p] /\ pc' = [pc EXCEPT ![p] = "fork_run"]
      /\ UNCHANGED <<state, chan, wait_lock, idx, np>>
  BY <1>1, RunsRunning DEF fork_parent, Step, goto, locals
<1>3. /\ pc'[p] = "fork_run" /\ \A q \in Slots : q # p => pc'[q] = pc[q]
      /\ parent'[n] = p /\ \A q \in Slots : q # n => parent'[q] = parent[q]
  BY <1>a, <1>1, <1>2 DEF StackInv, CoreType, TreeType
<1>4. TreeType'
  BY <1>a, <1>2 DEF TreeType
<1>5. LockInv'
  BY <1>a, <1>2, <1>3 DEF LockInv, Locked
<1>6. ParentInv'
  <2>1. \A q \in Slots : /\ parent'[q] # None => state'[parent'[q]] \in Alive
                         /\ state'[q] \in Alive \cup {"ZOMBIE"} =>
                              q = initproc \/ parent'[q] # None
                         /\ state'[q] = "UNUSED" => parent'[q] = None /\ chan'[q] = None
    BY <1>a, <1>1, <1>2, <1>3 DEF ParentInv, Alive
  <2>2. \A q \in Slots : pc'[q] = "fork_run" => parent'[np'[q]] = q
    <3> TAKE q \in Slots
    <3>1. CASE q = p
      BY <1>1, <1>2, <1>3, <3>1
    <3>2. CASE q # p /\ pc[q] = "fork_run"
      <4>1. np[q] \in Slots /\ np[q] # n /\ parent[np[q]] = q
        BY <1>a, <1>1, <3>2 DEF ParentInv, Forking, StackInv, NpInv
      <4> QED
        BY <1>2, <1>3, <3>2, <4>1
    <3> QED
      BY <1>3, <3>1, <3>2
  <2>3. \A q, r \in Slots :
          /\ pc'[q] = "reparent" /\ r < idx'[q] => parent'[r] # q
          /\ pc'[q] = "reparent_wakeup" /\ r <= idx'[q] => parent'[r] # q
          /\ pc'[q] = "zombie" => parent'[r] # q
          /\ pc'[q] \in Exiting => q # initproc
    BY <1>a, <1>2, <1>3 DEF ParentInv, Exiting
  <2> QED
    BY <1>a, <1>2, <2>1, <2>2, <2>3 DEF ParentInv
<1>7. SleepInv'
  <2>1. \A q \in Slots :
          /\ state'[q] = "SLEEPING" => chan'[q] = q
          /\ pc'[q] = "reparent_wakeup" => idx'[q] \in Slots
          /\ pc'[q] = "zombie" => parent'[q] # None /\ state'[parent'[q]] # "SLEEPING"
    BY <1>a, <1>1, <1>2, <1>3 DEF SleepInv, LockInv, Locked
  <2>2. \A q \in Slots : pc[q] = "reparent_wakeup" => pc'[q] = "reparent_wakeup"
    BY <1>2, <1>3
  <2>3. ASSUME NEW q \in Slots, NEW r \in Slots, parent'[r] = q, state'[r] = "ZOMBIE"
        PROVE  /\ state'[q] = "SLEEPING" =>
                    q = initproc /\ \E t \in Slots : pc'[t] = "reparent_wakeup"
               /\ ~(pc'[q] = "scan" /\ r < idx'[q])
               /\ pc'[q] # "sleep"
    BY <1>a, <1>1, <1>2, <1>3, <2>2, <2>3 DEF SleepInv
  <2> QED
    BY <2>1, <2>3 DEF SleepInv
<1> QED
  BY <1>4, <1>5, <1>6, <1>7 DEF TreeInv

\* fork() ends: the child, which has a parent by now, may run.
LEMMA ForkRunTree ==
  ASSUME StackInv, TreeInv, NEW p \in Slots, fork_run(p)
  PROVE  TreeInv'
<1>a. TreeType /\ LockInv /\ ParentInv /\ SleepInv
  BY DEF TreeInv
<1>1. PICK n \in Slots : n = np[p] /\ state[n] = "USED"
  BY DEF fork_run, StackInv, NpInv, Forking
<1>2. /\ pc[p] = "fork_run" /\ parent[n] = p
      /\ state' = [state EXCEPT ![n] = "RUNNABLE"] /\ pc' = [pc EXCEPT ![p] = "user"]
      /\ idx' = [idx EXCEPT ![p] = 1] /\ np' = [np EXCEPT ![p] = None]
      /\ UNCHANGED <<parent, chan, wait_lock>>
  BY <1>a, <1>1 DEF fork_run, Return, goto, ParentInv
<1>3. /\ pc'[p] = "user" /\ \A q \in Slots : q # p => pc'[q] = pc[q]
      /\ \A q \in Slots : q # p => idx'[q] = idx[q] /\ np'[q] = np[q]
      /\ state'[n] = "RUNNABLE" /\ \A q \in Slots : q # n => state'[q] = state[q]
  BY <1>a, <1>1, <1>2 DEF StackInv, CoreType, TreeType
<1>4. TreeType'
  BY <1>a, <1>2 DEF TreeType
<1>5. LockInv'
  BY <1>a, <1>1, <1>2, <1>3 DEF LockInv, Locked
<1>6. ParentInv'
  <2>1. \A q \in Slots : /\ parent'[q] # None => state'[parent'[q]] \in Alive
                         /\ state'[q] \in Alive \cup {"ZOMBIE"} =>
                              q = initproc \/ parent'[q] # None
                         /\ state'[q] = "UNUSED" => parent'[q] = None /\ chan'[q] = None
                         /\ pc'[q] = "fork_run" => parent'[np'[q]] = q
                         /\ pc'[q] \in Exiting => q # initproc
    <3> TAKE q \in Slots
    <3>1. parent'[q] # None => state'[parent'[q]] \in Alive
      BY <1>a, <1>2, <1>3 DEF ParentInv, Alive, TreeType
    <3>2. /\ state'[q] \in Alive \cup {"ZOMBIE"} => q = initproc \/ parent'[q] # None
          /\ state'[q] = "UNUSED" => parent'[q] = None /\ chan'[q] = None
      BY <1>a, <1>2, <1>3 DEF ParentInv
    <3>3. /\ pc'[q] = "fork_run" => parent'[np'[q]] = q
          /\ pc'[q] \in Exiting => q # initproc
      BY <1>a, <1>2, <1>3 DEF ParentInv, Exiting
    <3> QED
      BY <3>1, <3>2, <3>3
  <2>2. \A q, r \in Slots :
          /\ pc'[q] = "reparent" /\ r < idx'[q] => parent'[r] # q
          /\ pc'[q] = "reparent_wakeup" /\ r <= idx'[q] => parent'[r] # q
          /\ pc'[q] = "zombie" => parent'[r] # q
    BY <1>a, <1>2, <1>3 DEF ParentInv
  <2> QED
    BY <1>a, <1>1, <1>3, <2>1, <2>2 DEF ParentInv, Alive
<1>7. SleepInv'
  <2>1. \A q \in Slots :
          /\ state'[q] = "SLEEPING" => chan'[q] = q
          /\ pc'[q] = "reparent_wakeup" => idx'[q] \in Slots
          /\ pc'[q] = "zombie" => parent'[q] # None /\ state'[parent'[q]] # "SLEEPING"
    BY <1>a, <1>1, <1>2, <1>3 DEF SleepInv, TreeType
  <2>2. ASSUME NEW q \in Slots, NEW r \in Slots, parent'[r] = q, state'[r] = "ZOMBIE"
        PROVE  /\ state'[q] = "SLEEPING" =>
                    q = initproc /\ \E t \in Slots : pc'[t] = "reparent_wakeup"
               /\ ~(pc'[q] = "scan" /\ r < idx'[q])
               /\ pc'[q] # "sleep"
    BY <1>a, <1>1, <1>2, <1>3, <2>2 DEF SleepInv
  <2> QED
    BY <2>1, <2>2 DEF SleepInv
<1> QED
  BY <1>4, <1>5, <1>6, <1>7 DEF TreeInv

\* wait_lock keeps all others out of the sections under it.
LEMMA OneLocked ==
  ASSUME LockInv, NEW p \in Slots, wait_lock = p
  PROVE  \A q \in Slots : q # p => pc[q] \notin Locked
  BY DEF LockInv

\* exit() and wait() acquire wait_lock and start their loop.
LEMMA LockTree ==
  ASSUME StackInv, TreeInv, NEW p \in Slots, exit_lock(p) \/ wait_acquire(p)
  PROVE  TreeInv'
<1>a. TreeType /\ LockInv /\ ParentInv /\ SleepInv
  BY DEF TreeInv
<1>1. /\ state[p] = "RUNNING" /\ wait_lock = None /\ wait_lock' = p
      /\ idx' = [idx EXCEPT ![p] = 1] /\ UNCHANGED <<state, parent, chan, np>>
      /\ \/ pc[p] = "exit" /\ pc' = [pc EXCEPT ![p] = "reparent"]
         \/ pc[p] = "wait" /\ pc' = [pc EXCEPT ![p] = "scan"]
  BY RunsRunning DEF exit_lock, wait_acquire, Step, goto
<1>2. /\ idx'[p] = 1 /\ \A q \in Slots : q # p => pc'[q] = pc[q] /\ idx'[q] = idx[q]
      /\ \/ pc[p] = "exit" /\ pc'[p] = "reparent"
         \/ pc[p] = "wait" /\ pc'[p] = "scan"
  BY <1>a, <1>1 DEF StackInv, CoreType, TreeType
<1>3. \A q \in Slots : pc[q] \notin Locked
  BY <1>a, <1>1 DEF LockInv
<1>4. TreeType'
  BY <1>a, <1>1 DEF TreeType
<1>5. LockInv'
  BY <1>1, <1>2, <1>3 DEF LockInv, Locked
<1>6. ParentInv'
  BY <1>a, <1>1, <1>2, <1>3 DEF ParentInv, Locked, Exiting
<1>7. SleepInv'
  BY <1>a, <1>1, <1>2, <1>3 DEF SleepInv, Locked
<1> QED
  BY <1>4, <1>5, <1>6, <1>7 DEF TreeInv

\* reparent() gives a child to init, or goes on to the next slot.
LEMMA ReparentTree ==
  ASSUME StackInv, TreeInv, NEW p \in Slots, reparent(p)
  PROVE  TreeInv'
<1>a. TreeType /\ LockInv /\ ParentInv /\ SleepInv
  BY DEF TreeInv
<1>0. /\ pc[p] = "reparent" /\ idx[p] \in Slots /\ wait_lock = p /\ p # initproc
      /\ state[p] = "RUNNING"
      /\ \A q \in Slots : q # p => pc[q] \notin Locked
  BY <1>a, OneLocked DEF reparent, Step, LockInv, Locked, ParentInv, Exiting
<1>1. CASE parent[idx[p]] # p
  <2>1. /\ idx' = [idx EXCEPT ![p] = @ + 1]
        /\ UNCHANGED <<state, parent, chan, wait_lock, pc, np>>
    BY <1>1 DEF reparent, Abandoned, advance
  <2>2. idx'[p] = idx[p] + 1 /\ \A q \in Slots : q # p => idx'[q] = idx[q]
    BY <1>a, <1>0, <2>1 DEF TreeType
  <2>3. TreeType'
    BY <1>a, <1>0, <2>1 DEF TreeType
  <2>4. LockInv'
    BY <1>a, <2>1 DEF LockInv
  <2>5. ParentInv'
    <3>1. \A q \in Slots : q < idx'[p] => parent[q] # p
      BY <1>a, <1>0, <1>1, <2>2 DEF ParentInv, TreeType
    <3> QED
      BY <1>a, <1>0, <2>1, <2>2, <3>1 DEF ParentInv
  <2>6. SleepInv'
    BY <1>a, <1>0, <2>1, <2>2 DEF SleepInv
  <2> QED
    BY <2>3, <2>4, <2>5, <2>6 DEF TreeInv
<1>2. CASE parent[idx[p]] = p
  <2>0. PICK c \in Slots : c = idx[p]
    BY <1>0
  <2>1. /\ parent' = [parent EXCEPT ![c] = initproc]
        /\ pc' = [pc EXCEPT ![p] = "reparent_wakeup"]
        /\ UNCHANGED <<state, chan, wait_lock, idx, np>>
    BY <1>2, <2>0 DEF reparent, Abandoned, goto
  <2>2. /\ pc'[p] = "reparent_wakeup" /\ \A q \in Slots : q # p => pc'[q] = pc[q]
        /\ parent'[c] = initproc /\ \A q \in Slots : q # c => parent'[q] = parent[q]
    BY <1>a, <2>0, <2>1 DEF StackInv, CoreType, TreeType
  <2>3. TreeType'
    BY <1>a, <2>1 DEF TreeType
  <2>4. LockInv'
    BY <1>a, <1>0, <2>1, <2>2 DEF LockInv, Locked
  <2>5. ParentInv'
    <3>1. \A q \in Slots : /\ parent'[q] # None => state'[parent'[q]] \in Alive
                           /\ state'[q] \in Alive \cup {"ZOMBIE"} =>
                                q = initproc \/ parent'[q] # None
                           /\ state'[q] = "UNUSED" => parent'[q] = None /\ chan'[q] = None
      BY <1>a, <1>2, <2>0, <2>1, <2>2 DEF ParentInv
    <3>2. ASSUME NEW q \in Slots, pc'[q] = "fork_run" PROVE parent'[np'[q]] = q
      <4>1. q # p /\ pc[q] = "fork_run" /\ parent[np[q]] = q /\ np[q] \in Slots
        BY <1>a, <2>2, <3>2 DEF ParentInv, StackInv, NpInv, Forking
      <4> QED
        BY <1>2, <2>0, <2>1, <2>2, <4>1
    <3>3. \A q \in Slots : q <= idx[p] => parent'[q] # p
      BY <1>a, <1>0, <2>0, <2>2 DEF ParentInv, TreeType
    <3>4. \A q, r \in Slots :
            /\ pc'[q] = "reparent" /\ r < idx'[q] => parent'[r] # q
            /\ pc'[q] = "reparent_wakeup" /\ r <= idx'[q] => parent'[r] # q
            /\ pc'[q] = "zombie" => parent'[r] # q
            /\ pc'[q] \in Exiting => q # initproc
      BY <1>a, <1>0, <2>1, <2>2, <3>3 DEF ParentInv, Exiting, Locked
    <3> QED
      BY <1>a, <2>1, <3>1, <3>2, <3>4 DEF ParentInv
  <2>6. SleepInv'
    <3>1. \A q \in Slots :
            /\ state'[q] = "SLEEPING" => chan'[q] = q
            /\ pc'[q] = "reparent_wakeup" => idx'[q] \in Slots
            /\ pc'[q] = "zombie" => parent'[q] # None /\ state'[parent'[q]] # "SLEEPING"
      BY <1>a, <1>0, <2>1, <2>2 DEF SleepInv, Locked
    <3>2. ASSUME NEW q \in Slots, NEW r \in Slots, parent'[r] = q, state'[r] = "ZOMBIE"
          PROVE  /\ state'[q] = "SLEEPING" =>
                      q = initproc /\ \E t \in Slots : pc'[t] = "reparent_wakeup"
                 /\ ~(pc'[q] = "scan" /\ r < idx'[q])
                 /\ pc'[q] # "sleep"
      BY <1>a, <1>0, <2>1, <2>2, <3>2 DEF SleepInv, Locked
    <3> QED
      BY <3>1, <3>2 DEF SleepInv
  <2> QED
    BY <2>3, <2>4, <2>5, <2>6 DEF TreeInv
<1> QED
  BY <1>1, <1>2

\* wakeup(q) leaves q awake, if the sleeper's channel is itself.
LEMMA Wakes ==
  ASSUME StackInv, SleepInv, NEW p \in Slots, NEW q \in Slots, wakeup(p, q),
         state[p] = "RUNNING"
  PROVE  /\ state'[q] # "SLEEPING" /\ \A r \in Slots : r # q => state'[r] = state[r]
         /\ state'[q] = state[q] \/ (state[q] = "SLEEPING" /\ state'[q] = "RUNNABLE")
  BY DEF wakeup, SleepInv, StackInv, CoreType

\* reparent() wakes init, which has a new child, maybe a zombie.
LEMMA ReparentWakeupTree ==
  ASSUME StackInv, TreeInv, NEW p \in Slots, reparent_wakeup(p)
  PROVE  TreeInv'
<1>a. TreeType /\ LockInv /\ ParentInv /\ SleepInv
  BY DEF TreeInv
<1>0. /\ pc[p] = "reparent_wakeup" /\ idx[p] \in Slots /\ wait_lock = p /\ p # initproc
      /\ state[p] = "RUNNING"
      /\ \A q \in Slots : q # p => pc[q] \notin Locked
  BY <1>a, OneLocked DEF reparent_wakeup, Step, LockInv, Locked, ParentInv,
     Exiting, SleepInv
<1>1. /\ idx' = [idx EXCEPT ![p] = @ + 1] /\ pc' = [pc EXCEPT ![p] = "reparent"]
      /\ UNCHANGED <<parent, chan, wait_lock, np>>
  BY DEF reparent_wakeup, advance, goto
<1>2. /\ state'[initproc] # "SLEEPING"
      /\ \A r \in Slots : \/ state'[r] = state[r]
                          \/ state[r] = "SLEEPING" /\ state'[r] = "RUNNABLE"
  BY <1>a, <1>0, Wakes DEF reparent_wakeup
<1>3. /\ pc'[p] = "reparent" /\ idx'[p] = idx[p] + 1
      /\ \A q \in Slots : q # p => pc'[q] = pc[q] /\ idx'[q] = idx[q]
  BY <1>a, <1>0, <1>1 DEF StackInv, CoreType, TreeType
<1>4. TreeType'
  BY <1>a, <1>0, <1>1 DEF TreeType
<1>5. LockInv'
  <2>1. \A q \in Slots : q # p => pc'[q] \notin Locked /\ wait_lock' # q
    BY <1>0, <1>1, <1>3
  <2>2. pc'[p] \in Locked /\ wait_lock' = p /\ state'[p] = "RUNNING"
    BY <1>0, <1>1, <1>2, <1>3 DEF Locked
  <2> QED
    BY <2>1, <2>2 DEF LockInv
<1>6. ParentInv'
  <2>1. \A q \in Slots : /\ state[q] \in Alive => state'[q] \in Alive
                         /\ state'[q] \in Alive \cup {"ZOMBIE"} =>
                              state[q] \in Alive \cup {"ZOMBIE"}
                         /\ state'[q] = "UNUSED" => state[q] = "UNUSED"
    BY <1>2 DEF Alive
  <2>2. \A q \in Slots : parent[q] # None => parent[q] \in Slots
    BY <1>a DEF TreeType
  <2>3. \A q \in Slots : /\ parent'[q] # None => state'[parent'[q]] \in Alive
                         /\ state'[q] \in Alive \cup {"ZOMBIE"} =>
                              q = initproc \/ parent'[q] # None
                         /\ state'[q] = "UNUSED" => parent'[q] = None /\ chan'[q] = None
    BY <1>a, <1>1, <2>1, <2>2 DEF ParentInv
  <2>4. \A q \in Slots : q < idx[p] + 1 => parent[q] # p
    BY <1>a, <1>0 DEF ParentInv, TreeType
  <2>5. \A q, r \in Slots :
          /\ pc'[q] = "reparent" /\ r < idx'[q] => parent'[r] # q
          /\ pc'[q] = "reparent_wakeup" /\ r <= idx'[q] => parent'[r] # q
          /\ pc'[q] = "zombie" => parent'[r] # q
          /\ pc'[q] = "fork_run" => parent'[np'[q]] = q
          /\ pc'[q] \in Exiting => q # initproc
    BY <1>a, <1>0, <1>1, <1>3, <2>4 DEF ParentInv, Exiting, Locked
  <2> QED
    BY <1>a, <2>1, <2>3, <2>5 DEF ParentInv
<1>7. SleepInv'
  <2>1. \A q \in Slots :
          /\ state'[q] = "SLEEPING" => chan'[q] = q
          /\ pc'[q] # "reparent_wakeup" /\ pc'[q] # "zombie"
          /\ pc'[q] # "scan" /\ pc'[q] # "sleep"
    BY <1>a, <1>0, <1>1, <1>2, <1>3 DEF SleepInv, Locked
  <2>2. ASSUME NEW q \in Slots, NEW r \in Slots, parent'[r] = q, state'[r] = "ZOMBIE"
        PROVE  state'[q] # "SLEEPING"
    BY <1>a, <1>1, <1>2, <2>2 DEF SleepInv
  <2> QED
    BY <2>1, <2>2 DEF SleepInv
<1> QED
  BY <1>4, <1>5, <1>6, <1>7 DEF TreeInv

\* exit() has no children left, and wakes its parent.
LEMMA ExitWakeupTree ==
  ASSUME StackInv, TreeInv, NEW p \in Slots, exit_wakeup(p)
  PROVE  TreeInv'
<1>a. TreeType /\ LockInv /\ ParentInv /\ SleepInv
  BY DEF TreeInv
<1>0. /\ pc[p] = "reparent" /\ idx[p] = NPROC + 1 /\ wait_lock = p /\ p # initproc
      /\ state[p] = "RUNNING"
      /\ \A q \in Slots : q # p => pc[q] \notin Locked
  <2>1. pc[p] = "reparent" /\ idx[p] \notin Slots
    BY DEF exit_wakeup, Step
  <2>2. idx[p] = NPROC + 1
    <3>1. idx[p] \in 1 .. NPROC + 1
      BY <1>a DEF TreeType
    <3> QED
      BY <2>1, <3>1
  <2>3. wait_lock = p /\ state[p] = "RUNNING" /\ p # initproc
    BY <1>a, <2>1 DEF LockInv, Locked, ParentInv, Exiting
  <2> QED
    BY <1>a, <2>1, <2>2, <2>3, OneLocked
<1>1. /\ pc' = [pc EXCEPT ![p] = "zombie"]
      /\ UNCHANGED <<parent, chan, wait_lock, idx, np>>
  BY DEF exit_wakeup, locals, goto
<1>2. PICK m \in Slots : m = parent[p]
  BY <1>a, <1>0 DEF ParentInv, TreeType, Alive
<1>3. /\ state'[m] # "SLEEPING"
      /\ \A r \in Slots : \/ state'[r] = state[r]
                          \/ state[r] = "SLEEPING" /\ state'[r] = "RUNNABLE"
  BY <1>a, <1>0, <1>2, Wakes DEF exit_wakeup
<1>4. /\ pc'[p] = "zombie" /\ \A q \in Slots : q # p => pc'[q] = pc[q]
  BY <1>1 DEF StackInv, CoreType
<1>5. TreeType'
  BY <1>a, <1>1 DEF TreeType
<1>6. LockInv'
  <2>1. \A q \in Slots : q # p => pc'[q] \notin Locked /\ wait_lock' # q
    BY <1>0, <1>1, <1>4
  <2>2. pc'[p] \in Locked /\ wait_lock' = p /\ state'[p] = "RUNNING"
    BY <1>0, <1>1, <1>3, <1>4 DEF Locked
  <2> QED
    BY <2>1, <2>2 DEF LockInv
<1>7. ParentInv'
  <2>1. \A q \in Slots : /\ state[q] \in Alive => state'[q] \in Alive
                         /\ state'[q] \in Alive \cup {"ZOMBIE"} =>
                              state[q] \in Alive \cup {"ZOMBIE"}
                         /\ state'[q] = "UNUSED" => state[q] = "UNUSED"
    BY <1>3 DEF Alive
  <2>2. \A q \in Slots : parent[q] # None => parent[q] \in Slots
    BY <1>a DEF TreeType
  <2>3. \A q \in Slots : /\ parent'[q] # None => state'[parent'[q]] \in Alive
                         /\ state'[q] \in Alive \cup {"ZOMBIE"} =>
                              q = initproc \/ parent'[q] # None
                         /\ state'[q] = "UNUSED" => parent'[q] = None /\ chan'[q] = None
    BY <1>a, <1>1, <2>1, <2>2 DEF ParentInv
  <2>4. \A q \in Slots : parent[q] # p
    BY <1>a, <1>0 DEF ParentInv
  <2>5. \A q, r \in Slots :
          /\ pc'[q] = "reparent" /\ r < idx'[q] => parent'[r] # q
          /\ pc'[q] = "reparent_wakeup" /\ r <= idx'[q] => parent'[r] # q
          /\ pc'[q] = "zombie" => parent'[r] # q
          /\ pc'[q] = "fork_run" => parent'[np'[q]] = q
          /\ pc'[q] \in Exiting => q # initproc
    BY <1>a, <1>0, <1>1, <1>4, <2>4 DEF ParentInv, Exiting, Locked
  <2> QED
    BY <1>a, <2>1, <2>3, <2>5 DEF ParentInv
<1>8. SleepInv'
  <2>1. \A q \in Slots : /\ pc'[q] # "reparent_wakeup" /\ pc[q] # "reparent_wakeup"
                         /\ pc'[q] # "scan" /\ pc'[q] # "sleep"
                         /\ pc'[q] = "zombie" => q = p
    BY <1>0, <1>4 DEF Locked
  <2>2. \A q \in Slots :
          /\ state'[q] = "SLEEPING" => chan'[q] = q
          /\ pc'[q] = "zombie" => parent'[q] # None /\ state'[parent'[q]] # "SLEEPING"
    BY <1>a, <1>1, <1>2, <1>3, <2>1 DEF SleepInv
  <2>3. ASSUME NEW q \in Slots, NEW r \in Slots, parent'[r] = q, state'[r] = "ZOMBIE"
        PROVE  state'[q] # "SLEEPING"
    BY <1>a, <1>1, <1>3, <2>1, <2>3 DEF SleepInv
  <2> QED
    BY <2>1, <2>2, <2>3 DEF SleepInv
<1> QED
  BY <1>5, <1>6, <1>7, <1>8 DEF TreeInv

\* exit() ends: p is a zombie, nobody's parent, and its own parent is awake.
LEMMA ZombieTree ==
  ASSUME StackInv, TreeInv, NEW p \in Slots, exit_zombie(p)
  PROVE  TreeInv'
<1>a. TreeType /\ LockInv /\ ParentInv /\ SleepInv
  BY DEF TreeInv
<1>0. /\ pc[p] = "zombie" /\ wait_lock = p /\ p # initproc
      /\ parent[p] # None /\ state[parent[p]] # "SLEEPING"
      /\ \A q \in Slots : parent[q] # p
      /\ \A q \in Slots : q # p => pc[q] \notin Locked
  BY <1>a, OneLocked DEF exit_zombie, LockInv, Locked, ParentInv, Exiting,
     SleepInv
<1>1. /\ state' = [state EXCEPT ![p] = "ZOMBIE"] /\ pc' = [pc EXCEPT ![p] = "user"]
      /\ idx' = [idx EXCEPT ![p] = 1] /\ np' = [np EXCEPT ![p] = None]
      /\ wait_lock' = None /\ UNCHANGED <<parent, chan>>
  BY DEF exit_zombie, SwitchOut, Return, goto
<1>2. /\ state'[p] = "ZOMBIE" /\ pc'[p] = "user"
      /\ \A q \in Slots : q # p => /\ state'[q] = state[q] /\ pc'[q] = pc[q]
                                   /\ idx'[q] = idx[q] /\ np'[q] = np[q]
  BY <1>a, <1>1 DEF StackInv, CoreType, TreeType
<1>3. \A q \in Slots : pc'[q] \notin Locked
  BY <1>0, <1>2 DEF Locked
<1>4. TreeType' /\ LockInv'
  BY <1>a, <1>1, <1>3 DEF TreeType, LockInv
<1>5. ParentInv'
  <2>1. \A q \in Slots : parent[q] # None => parent[q] \in Slots /\ parent[q] # p
    BY <1>a, <1>0 DEF TreeType
  <2>2. \A q \in Slots : /\ parent'[q] # None => state'[parent'[q]] \in Alive
                         /\ state'[q] \in Alive \cup {"ZOMBIE"} =>
                              q = initproc \/ parent'[q] # None
                         /\ state'[q] = "UNUSED" => parent'[q] = None /\ chan'[q] = None
    BY <1>a, <1>0, <1>1, <1>2, <2>1 DEF ParentInv
  <2>3. \A q \in Slots : /\ pc'[q] = "fork_run" => parent'[np'[q]] = q
                         /\ pc'[q] \in Exiting => q # initproc
    BY <1>a, <1>1, <1>2 DEF ParentInv, Exiting
  <2>4. state'[initproc] \in Alive
    BY <1>a, <1>0, <1>2 DEF ParentInv
  <2> QED
    BY <1>3, <2>2, <2>3, <2>4 DEF ParentInv, Locked
<1>6. SleepInv'
  <2>1. \A q \in Slots : state'[q] = "SLEEPING" => chan'[q] = q
    BY <1>a, <1>1, <1>2 DEF SleepInv
  <2>2. ASSUME NEW q \in Slots, NEW r \in Slots, parent'[r] = q, state'[r] = "ZOMBIE"
        PROVE  state'[q] # "SLEEPING"
    <3>1. CASE r = p
      BY <1>0, <1>1, <1>2, <2>2, <3>1
    <3>2. CASE r # p
      <4>1. \A t \in Slots : pc[t] # "reparent_wakeup"
        BY <1>0 DEF Locked
      <4> QED
        BY <1>a, <1>1, <1>2, <2>2, <3>2, <4>1 DEF SleepInv
    <3> QED
      BY <3>1, <3>2
  <2> QED
    BY <1>3, <2>1, <2>2 DEF SleepInv, Locked
<1> QED
  BY <1>4, <1>5, <1>6 DEF TreeInv

\* wait() goes to sleep: it has seen that no child is a zombie.
LEMMA SleepTree ==
  ASSUME StackInv, TreeInv, NEW p \in Slots, wait_sleep(p)
  PROVE  TreeInv'
<1>a. TreeType /\ LockInv /\ ParentInv /\ SleepInv
  BY DEF TreeInv
<1>0. /\ pc[p] = "sleep" /\ wait_lock = p /\ state[p] = "RUNNING"
      /\ \A q \in Slots : q # p => pc[q] \notin Locked
  BY <1>a, OneLocked DEF wait_sleep, LockInv, Locked
<1>1. /\ state' = [state EXCEPT ![p] = "SLEEPING"] /\ pc' = [pc EXCEPT ![p] = "wait"]
      /\ chan' = [chan EXCEPT ![p] = p]
      /\ wait_lock' = None /\ UNCHANGED <<parent, idx, np>>
  BY DEF wait_sleep, SwitchOut, goto, locals
<1>2. /\ state'[p] = "SLEEPING" /\ pc'[p] = "wait" /\ chan'[p] = p
      /\ \A q \in Slots : q # p => /\ state'[q] = state[q] /\ pc'[q] = pc[q]
                                   /\ chan'[q] = chan[q]
  BY <1>a, <1>1 DEF StackInv, CoreType, TreeType
<1>3. \A q \in Slots : pc'[q] \notin Locked
  BY <1>0, <1>2 DEF Locked
<1>4. TreeType' /\ LockInv'
  BY <1>a, <1>1, <1>3 DEF TreeType, LockInv
<1>5. ParentInv'
  <2>1. \A q \in Slots : state[q] \in Alive => state'[q] \in Alive
    BY <1>2 DEF Alive
  <2>2. \A q \in Slots : parent[q] # None => parent[q] \in Slots
    BY <1>a DEF TreeType
  <2>3. \A q \in Slots : /\ parent'[q] # None => state'[parent'[q]] \in Alive
                         /\ state'[q] \in Alive \cup {"ZOMBIE"} =>
                              q = initproc \/ parent'[q] # None
                         /\ state'[q] = "UNUSED" => parent'[q] = None /\ chan'[q] = None
    BY <1>a, <1>0, <1>1, <1>2, <2>1, <2>2 DEF ParentInv, Alive
  <2>4. \A q \in Slots : /\ pc'[q] = "fork_run" => parent'[np'[q]] = q
                         /\ pc'[q] \in Exiting => q # initproc
    BY <1>a, <1>1, <1>2 DEF ParentInv, Exiting
  <2> QED
    BY <1>a, <1>3, <2>1, <2>3, <2>4 DEF ParentInv, Locked
<1>6. SleepInv'
  <2>1. \A q \in Slots : state'[q] = "SLEEPING" => chan'[q] = q
    BY <1>a, <1>2 DEF SleepInv
  <2>2. ASSUME NEW q \in Slots, NEW r \in Slots, parent'[r] = q, state'[r] = "ZOMBIE"
        PROVE  state'[q] # "SLEEPING"
    <3>1. parent[r] = q /\ state[r] = "ZOMBIE"
      BY <1>0, <1>1, <1>2, <2>2
    <3>2. \A t \in Slots : pc[t] # "reparent_wakeup"
      BY <1>0 DEF Locked
    <3> QED
      BY <1>a, <1>0, <1>2, <3>1, <3>2 DEF SleepInv
  <2> QED
    BY <1>3, <2>1, <2>2 DEF SleepInv, Locked
<1> QED
  BY <1>4, <1>5, <1>6 DEF TreeInv

\* wait() is over: p has released wait_lock, and nothing else has changed.
LEMMA UnlockTree ==
  ASSUME StackInv, TreeInv, NEW p \in Slots, wait_lock = p, wait_lock' = None,
         pc[p] \in {"scan", "sleep"}, Return(p), UNCHANGED <<state, parent, chan>>
  PROVE  TreeInv'
<1>a. TreeType /\ LockInv /\ ParentInv /\ SleepInv
  BY DEF TreeInv
<1>1. /\ pc' = [pc EXCEPT ![p] = "user"] /\ idx' = [idx EXCEPT ![p] = 1]
      /\ np' = [np EXCEPT ![p] = None]
  BY DEF Return, goto
<1>2. /\ pc'[p] = "user"
      /\ \A q \in Slots : q # p => /\ pc'[q] = pc[q] /\ pc[q] \notin Locked
                                   /\ idx'[q] = idx[q] /\ np'[q] = np[q]
  BY <1>a, <1>1, OneLocked DEF StackInv, CoreType, TreeType
<1>3. \A q \in Slots : pc'[q] \notin Locked
  BY <1>2 DEF Locked
<1>4. TreeType' /\ LockInv'
  BY <1>a, <1>1, <1>3 DEF TreeType, LockInv
<1>5. ParentInv'
  BY <1>a, <1>2, <1>3 DEF ParentInv, Locked, Exiting
<1>6. SleepInv'
  <2>1. \A t \in Slots : pc[t] # "reparent_wakeup"
    BY <1>2 DEF Locked
  <2> QED
    BY <1>a, <1>3, <2>1 DEF SleepInv, Locked
<1> QED
  BY <1>4, <1>5, <1>6 DEF TreeInv

\* One slot of wait()'s scan.
LEMMA ScanTree ==
  ASSUME StackInv, TreeInv, NEW p \in Slots, wait_scan(p)
  PROVE  TreeInv'
<1>a. TreeType /\ LockInv /\ ParentInv /\ SleepInv
  BY DEF TreeInv
<1>0. /\ pc[p] = "scan" /\ idx[p] \in Slots /\ wait_lock = p /\ state[p] = "RUNNING"
      /\ \A q \in Slots : q # p => pc[q] \notin Locked
  BY <1>a, OneLocked DEF wait_scan, Step, LockInv, Locked
<1>1. CASE /\ parent[idx[p]] # p \/ state[idx[p]] # "ZOMBIE"
           /\ advance(p) /\ UNCHANGED <<state, parent, chan, wait_lock, pc, np>>
  <2>1. /\ idx'[p] = idx[p] + 1 /\ \A q \in Slots : q # p => idx'[q] = idx[q]
        /\ idx' \in [Slots -> 1 .. NPROC + 1]
    BY <1>a, <1>0, <1>1 DEF advance, TreeType
  <2>2. TreeType' /\ LockInv'
    BY <1>a, <1>1, <2>1 DEF TreeType, LockInv
  <2>3. ParentInv'
    BY <1>a, <1>0, <1>1, <2>1 DEF ParentInv
  <2>4. SleepInv'
    <3>1. \A q \in Slots : parent[q] = p /\ state[q] = "ZOMBIE" => ~(q < idx[p] + 1)
      BY <1>a, <1>0, <1>1 DEF SleepInv, TreeType
    <3>2. \A q \in Slots : pc[q] = "reparent_wakeup" => idx'[q] \in Slots
      BY <1>a, <1>0, <2>1 DEF SleepInv
    <3>3. \A q, r \in Slots : parent[r] = q /\ state[r] = "ZOMBIE" =>
             ~(pc[q] = "scan" /\ r < idx'[q])
      BY <1>a, <2>1, <3>1 DEF SleepInv
    <3> QED
      BY <1>a, <1>1, <3>2, <3>3 DEF SleepInv
  <2> QED
    BY <2>2, <2>3, <2>4 DEF TreeInv
<1>2. CASE Return(p) /\ wait_lock' = None /\ UNCHANGED <<state, parent, chan>>
  BY <1>0, <1>2, UnlockTree
<1>3. CASE /\ parent[idx[p]] = p /\ state[idx[p]] = "ZOMBIE"
           /\ freeproc(idx[p]) /\ wait_lock' = None /\ Return(p)
  <2>0. PICK z \in Slots : z = idx[p]
    BY <1>0
  <2>1. /\ state' = [state EXCEPT ![z] = "UNUSED"] /\ parent' = [parent EXCEPT ![z] = None]
        /\ chan' = [chan EXCEPT ![z] = None] /\ pc' = [pc EXCEPT ![p] = "user"]
        /\ idx' = [idx EXCEPT ![p] = 1] /\ np' = [np EXCEPT ![p] = None]
    BY <1>3, <2>0 DEF freeproc, Return, goto
  <2>2. /\ state'[z] = "UNUSED" /\ parent'[z] = None /\ chan'[z] = None /\ pc'[p] = "user"
        /\ \A q \in Slots : q # z => /\ state'[q] = state[q] /\ parent'[q] = parent[q]
                                     /\ chan'[q] = chan[q]
        /\ \A q \in Slots : q # p => /\ pc'[q] = pc[q] /\ idx'[q] = idx[q]
                                     /\ np'[q] = np[q]
    BY <1>a, <2>1 DEF StackInv, CoreType, TreeType
  <2>3. \A q \in Slots : pc'[q] \notin Locked
    BY <1>0, <2>2 DEF Locked
  <2>4. TreeType' /\ LockInv'
    BY <1>a, <1>3, <2>1, <2>3 DEF TreeType, LockInv
  <2>5. ParentInv'
    <3>1. z # initproc /\ \A q \in Slots : parent[q] # None => parent[q] \in Slots /\ parent[q] # z
      <4>1. state[z] \notin Alive
        BY <1>3, <2>0 DEF Alive
      <4> QED
        BY <1>a, <4>1 DEF ParentInv, TreeType
    <3>2. \A q \in Slots : /\ parent'[q] # None => state'[parent'[q]] \in Alive
                           /\ state'[q] \in Alive \cup {"ZOMBIE"} =>
                                q = initproc \/ parent'[q] # None
                           /\ state'[q] = "UNUSED" => parent'[q] = None /\ chan'[q] = None
      <4> TAKE q \in Slots
      <4>1. CASE q = z
        BY <2>2, <4>1 DEF Alive
      <4>2. CASE q # z
        <5>1. parent'[q] = parent[q] /\ state'[q] = state[q] /\ chan'[q] = chan[q]
          BY <2>2, <4>2
        <5>2. parent[q] # None => state'[parent[q]] = state[parent[q]]
          BY <2>2, <3>1
        <5> QED
          BY <1>a, <5>1, <5>2 DEF ParentInv
      <4> QED
        BY <4>1, <4>2
    <3>3. ASSUME NEW q \in Slots, pc'[q] = "fork_run" PROVE parent'[np'[q]] = q
      <4>1. q # p /\ pc[q] = "fork_run" /\ np[q] \in Slots /\ state[np[q]] = "USED"
        BY <2>2, <3>3 DEF StackInv, NpInv, Forking
      <4> QED
        BY <1>a, <1>3, <2>0, <2>2, <4>1 DEF ParentInv
    <3>4. \A q \in Slots : pc'[q] \in Exiting => q # initproc
      BY <1>a, <2>2 DEF ParentInv, Exiting
    <3> QED
      BY <1>a, <2>2, <2>3, <3>1, <3>2, <3>3, <3>4 DEF ParentInv, Locked
  <2>6. SleepInv'
    <3>1. \A q \in Slots : state'[q] = "SLEEPING" => chan'[q] = q
      BY <1>a, <2>2 DEF SleepInv
    <3>2. ASSUME NEW q \in Slots, NEW r \in Slots, parent'[r] = q, state'[r] = "ZOMBIE"
          PROVE  state'[q] # "SLEEPING"
      <4>1. r # z /\ parent[r] = q /\ state[r] = "ZOMBIE"
        BY <2>2, <3>2
      <4>2. \A t \in Slots : pc[t] # "reparent_wakeup"
        BY <1>0 DEF Locked
      <4> QED
        BY <1>a, <2>2, <4>1, <4>2 DEF SleepInv
    <3> QED
      BY <2>3, <3>1, <3>2 DEF SleepInv, Locked
  <2> QED
    BY <2>4, <2>5, <2>6 DEF TreeInv
<1> QED
  BY <1>1, <1>2, <1>3 DEF wait_scan

\* The end of the scan: wait() returns, or decides to sleep.
LEMMA ScanEndTree ==
  ASSUME StackInv, TreeInv, NEW p \in Slots, wait_end(p)
  PROVE  TreeInv'
<1>a. TreeType /\ LockInv /\ ParentInv /\ SleepInv
  BY DEF TreeInv
<1>0. /\ pc[p] = "scan" /\ wait_lock = p /\ state[p] = "RUNNING"
      /\ \A q \in Slots : q # p => pc[q] \notin Locked
      /\ UNCHANGED <<state, parent, chan>>
  BY <1>a, OneLocked DEF wait_end, Step, LockInv, Locked
<1>1. CASE Return(p) /\ wait_lock' = None
  BY <1>0, <1>1, UnlockTree
<1>2. CASE goto(p, "sleep") /\ UNCHANGED <<wait_lock, locals>>
  <2>0. idx[p] = NPROC + 1
    BY <1>a DEF wait_end, TreeType
  <2>1. /\ pc'[p] = "sleep" /\ \A q \in Slots : q # p => pc'[q] = pc[q]
        /\ UNCHANGED <<wait_lock, idx, np>>
    BY <1>2 DEF goto, locals, StackInv, CoreType
  <2>2. TreeType' /\ LockInv'
    BY <1>a, <1>0, <2>1 DEF TreeType, LockInv, Locked
  <2>3. ParentInv'
    BY <1>a, <1>0, <2>1 DEF ParentInv, Exiting
  <2>4. \A q \in Slots : parent[q] = p => state[q] # "ZOMBIE"
    BY <1>a, <1>0, <2>0 DEF SleepInv
  <2>5. SleepInv'
    <3>1. \A t \in Slots : pc[t] # "reparent_wakeup"
      BY <1>0 DEF Locked
    <3> QED
      BY <1>a, <1>0, <2>1, <2>4, <3>1 DEF SleepInv
  <2> QED
    BY <2>2, <2>3, <2>5 DEF TreeInv
<1> QED
  BY <1>1, <1>2 DEF wait_end

\* The steps of MoveStep: the scheduler, preemption, the beginnings of system
\* calls, the loops of allocproc() and kill().
LEMMA QuietTree ==
  ASSUME StackInv, TreeInv,
         \/ \E c \in CPUs : scheduler(c)
         \/ \E p \in Slots : User(p) \/ yield(p) \/ allocproc(p) \/ kill_scan(p)
         \/ UNCHANGED vars
  PROVE  TreeInv'
<1>a. CoreType /\ TreeType /\ LockInv /\ ParentInv /\ SleepInv
  BY DEF TreeInv, StackInv
<1>0. \A p \in Slots : UNCHANGED <<pc, idx, np>> => Moves(p)
  BY <1>a DEF Moves, CoreType, TreeType
<1>r. ASSUME NEW p \in Slots, Return(p)
      PROVE  Moves(p) /\ pc'[p] = "user" /\ "user" \notin Locked \cup {"fork_run", "exit"}
  <2>1. pc' = [pc EXCEPT ![p] = "user"] /\ idx' = [idx EXCEPT ![p] = 1]
        /\ np' = [np EXCEPT ![p] = None]
    BY <1>r DEF Return, goto
  <2> QED
    BY <1>a, <2>1 DEF Moves, CoreType, TreeType, Locked
<1>1. ASSUME NEW c \in CPUs, scheduler(c) PROVE TreeInv'
  <2>1. UNCHANGED <<parent, chan, wait_lock, pc, idx, np>>
    BY <1>1 DEF scheduler, scheduler_scan, scheduler_back, locals
  <2>2. \A q \in Slots : \/ state'[q] = state[q]
                         \/ state[q] = "RUNNABLE" /\ state'[q] = "RUNNING"
    BY <1>a, <1>1 DEF scheduler, scheduler_scan, scheduler_back, CoreType
  <2>3. 1 \in Slots
    OBVIOUS
  <2> QED
    BY <1>0, <2>1, <2>2, <2>3, MoveStep
<1>2. ASSUME NEW p \in Slots, User(p) PROVE TreeInv'
  <2>1. /\ pc[p] = "user" /\ UNCHANGED <<state, parent, chan, wait_lock, np>>
        /\ \E l \in {"alloc", "wait", "kill", "panic", "exit"} :
             pc' = [pc EXCEPT ![p] = l] /\ (l = "exit" => p # initproc)
        /\ idx' = idx \/ idx' = [idx EXCEPT ![p] = 1]
    BY <1>2 DEF User, fork, wait, kill, exit, Begin, Step, goto, locals
  <2>2. /\ Moves(p) /\ pc'[p] \notin Locked \cup {"fork_run"}
        /\ pc'[p] = "exit" => p # initproc
    <3>1. PICK l \in {"alloc", "wait", "kill", "panic", "exit"} :
            pc' = [pc EXCEPT ![p] = l] /\ (l = "exit" => p # initproc)
      BY <2>1
    <3>2. pc'[p] = l
      BY <1>a, <3>1 DEF CoreType
    <3>3. pc'[p] \notin Locked \cup {"fork_run"} /\ (pc'[p] = "exit" => p # initproc)
      BY <3>1, <3>2 DEF Locked
    <3>4. DOMAIN pc' = Slots /\ DOMAIN np' = Slots
      BY <1>a, <2>1, <3>1 DEF CoreType
    <3>5. idx' \in [Slots -> 1 .. NPROC + 1]
      <4>1. 1 \in 1 .. NPROC + 1
        OBVIOUS
      <4> QED
        BY <1>a, <2>1, <4>1 DEF TreeType
    <3>6. \A q \in Slots \ {p} :
            pc'[q] = pc[q] /\ idx'[q] = idx[q] /\ np'[q] = np[q]
      BY <1>a, <2>1, <3>1 DEF CoreType, TreeType
    <3> QED
      BY <3>3, <3>4, <3>5, <3>6 DEF Moves
  <2>3. pc[p] \notin Locked
    BY <2>1 DEF Locked
  <2> QED
    BY <2>1, <2>2, <2>3, MoveStep
<1>3. ASSUME NEW p \in Slots, yield(p) PROVE TreeInv'
  <2>1. /\ pc[p] \notin Locked /\ state[p] = "RUNNING"
        /\ state' = [state EXCEPT ![p] = "RUNNABLE"]
        /\ UNCHANGED <<parent, chan, wait_lock, pc, idx, np>>
    BY <1>3, RunsRunning DEF yield, SwitchOut, Interruptible, Locked, locals
  <2>2. \A q \in Slots : \/ state'[q] = state[q]
                         \/ /\ state[q] = "RUNNING" /\ state'[q] = "RUNNABLE"
                            /\ pc[q] \notin Locked
    BY <1>a, <2>1 DEF CoreType
  <2> QED
    BY <1>0, <2>1, <2>2, MoveStep
<1>4. ASSUME NEW p \in Slots, allocproc(p) PROVE TreeInv'
  <2>0. pc[p] = "alloc" /\ pc[p] \notin Locked /\ wait_lock' = wait_lock
    BY <1>4 DEF allocproc, Step, Locked
  <2>1. CASE advance(p) /\ idx[p] \in Slots /\ UNCHANGED <<state, parent, chan, pc, np>>
    <3>1. Moves(p)
      BY <1>a, <2>1 DEF Moves, CoreType, TreeType, advance
    <3> QED
      BY <2>0, <2>1, <3>1, MoveStep DEF Locked
  <2>2. CASE Return(p) /\ UNCHANGED <<state, parent, chan>>
    BY <1>r, <2>0, <2>2, MoveStep
  <2>3. CASE idx[p] \in Slots /\ state[idx[p]] = "UNUSED" /\ freeproc(idx[p]) /\ Return(p)
    <3>1. parent[idx[p]] = None /\ chan[idx[p]] = None
      BY <1>a, <2>3 DEF ParentInv
    <3>2. UNCHANGED <<state, parent, chan>>
      BY <1>a, <2>3, <3>1 DEF freeproc, CoreType, TreeType
    <3> QED
      BY <2>2, <2>3, <3>2
  <2>4. CASE /\ idx[p] \in Slots /\ state[idx[p]] = "UNUSED"
             /\ state' = [state EXCEPT ![idx[p]] = "USED"]
             /\ np' = [np EXCEPT ![p] = idx[p]] /\ goto(p, "fork_parent")
             /\ UNCHANGED <<parent, chan, idx>>
    <3>1. Moves(p) /\ pc'[p] = "fork_parent"
      BY <1>a, <2>4 DEF Moves, CoreType, TreeType, goto
    <3>2. \A q \in Slots : state'[q] = state[q] \/ (state[q] = "UNUSED" /\ state'[q] = "USED")
      BY <1>a, <2>4 DEF CoreType
    <3>3. pc'[p] \notin Locked \cup {"fork_run", "exit"}
      BY <3>1 DEF Locked
    <3> QED
      BY <2>0, <2>4, <3>1, <3>2, <3>3, MoveStep
  <2> QED
    BY <1>4, <2>1, <2>2, <2>3, <2>4 DEF allocproc
<1>5. ASSUME NEW p \in Slots, kill_scan(p) PROVE TreeInv'
  <2>0. pc[p] = "kill" /\ pc[p] \notin Locked /\ UNCHANGED <<parent, chan, wait_lock>>
    BY <1>5 DEF kill_scan, Step, Locked
  <2>1. CASE advance(p) /\ idx[p] \in Slots /\ UNCHANGED <<state, pc, np>>
    <3>1. Moves(p)
      BY <1>a, <2>1 DEF Moves, CoreType, TreeType, advance
    <3> QED
      BY <2>0, <2>1, <3>1, MoveStep DEF Locked
  <2>2. CASE Return(p)
    <3>1. \A q \in Slots : \/ state'[q] = state[q]
                           \/ state[q] = "SLEEPING" /\ state'[q] = "RUNNABLE"
      <4>1. CASE UNCHANGED state
        BY <4>1
      <4>2. CASE /\ idx[p] \in Slots
                 /\ state' = [state EXCEPT ![idx[p]] = IF @ = "SLEEPING" THEN "RUNNABLE" ELSE @]
        BY <1>a, <4>2 DEF CoreType
      <4> QED
        BY <1>5, <4>1, <4>2 DEF kill_scan
    <3> QED
      BY <1>r, <2>0, <2>2, <3>1, MoveStep
  <2> QED
    BY <1>5, <2>1, <2>2 DEF kill_scan
<1>6. ASSUME UNCHANGED vars PROVE TreeInv'
  BY <1>6 DEF vars, TreeInv, TreeType, LockInv, ParentInv, SleepInv
<1> QED
  BY <1>1, <1>2, <1>3, <1>4, <1>5, <1>6

\* TreeInv holds in every state.
LEMMA TreeAlways == Spec => []TreeInv
<1>1. Init => TreeInv
  BY DEF Init, TreeInv, TreeType, LockInv, ParentInv, SleepInv, Locked, Exiting,
     Alive
<1>2. StackInv /\ TreeInv /\ [Next]_vars => TreeInv'
  BY QuietTree, ResumeTree, ForkParentTree, ForkRunTree, LockTree, ReparentTree,
     ReparentWakeupTree, ExitWakeupTree, ZombieTree, SleepTree, ScanTree, ScanEndTree
  DEF Next, Kernel
<1> QED
  BY <1>1, <1>2, StackInvariant, PTL DEF Spec

\* proc.c, for any table and any number of CPUs: nobody's parent is a zombie or
\* a free slot, with forks, exits and reparenting in any order.
THEOREM ParentsLive == Spec => []ParentAlive
<1>1. TreeInv => ParentAlive
  BY DEF TreeInv, TreeType, ParentInv, ParentAlive, Alive
<1> QED
  BY <1>1, TreeAlways, PTL

\* proc.c: wait() misses no exit, neither of its own child nor of one that init
\* adopts as a zombie.
THEOREM ExitsSeen == Spec => []NoMissedExit
<1>1. TreeInv => NoMissedExit
  BY DEF TreeInv, LockInv, SleepInv, NoMissedExit, Locked
<1> QED
  BY <1>1, TreeAlways, PTL
-----------------------------------------------------------------------------
\* Steps that mark nobody and free nothing.
LEMMA UnmarkedStep ==
  ASSUME KillInv, UNCHANGED <<pid, killed, asked, nextpid>>,
         target' \in [Slots -> Nat],
         \A q \in Slots : /\ state'[q] = "UNUSED" => state[q] = "UNUSED"
                          /\ pc'[q] = "kill" => /\ pc[q] = "kill"
                                                /\ target'[q] = target[q]
  PROVE  KillInv'
  BY DEF KillInv

\* A system call that returns leaves kill().
LEMMA ReturnKill ==
  ASSUME CoreType, KillInv, NEW p \in Slots, Return(p)
  PROVE  /\ target' \in [Slots -> Nat]
         /\ \A q \in Slots : pc'[q] = "kill" => /\ pc[q] = "kill"
                                                /\ target'[q] = target[q]
<1>1. /\ pc' = [pc EXCEPT ![p] = "user"]
      /\ target' = [target EXCEPT ![p] = 0]
  BY DEF Return, goto
<1> QED
  BY <1>1 DEF CoreType, KillInv

\* A step to any other place leaves it too.
LEMMA GotoKill ==
  ASSUME CoreType, KillInv, NEW p \in Slots, NEW l, l # "kill", goto(p, l),
         UNCHANGED target
  PROVE  /\ target' \in [Slots -> Nat]
         /\ \A q \in Slots : pc'[q] = "kill" => /\ pc[q] = "kill"
                                                /\ target'[q] = target[q]
  BY DEF CoreType, KillInv, goto

\* freeproc() clears the mark together with the pid.
LEMMA FreeKill ==
  ASSUME CoreType, KillInv, NEW p \in Slots, NEW r \in Slots, freeproc(r),
         Return(p), UNCHANGED asked, nextpid' \in Nat
  PROVE  KillInv'
<1>1. /\ state' = [state EXCEPT ![r] = "UNUSED"]
      /\ pid' = [pid EXCEPT ![r] = 0]
      /\ killed' = [killed EXCEPT ![r] = FALSE]
  BY DEF freeproc
<1>2. pid' \in [Slots -> Nat] /\ killed' \in [Slots -> BOOLEAN]
  BY <1>1 DEF KillInv
<1>3. \A q \in Slots : /\ killed'[q] => pid'[q] \in asked
                       /\ state'[q] = "UNUSED" => pid'[q] = 0
  <2> SUFFICES ASSUME NEW q \in Slots
               PROVE  /\ killed'[q] => pid'[q] \in asked
                      /\ state'[q] = "UNUSED" => pid'[q] = 0
    OBVIOUS
  <2>1. CASE q = r
    BY <1>1, <2>1 DEF KillInv, CoreType
  <2>2. CASE q # r
    BY <1>1, <2>2 DEF KillInv, CoreType
  <2> QED
    BY <2>1, <2>2
<1> QED
  BY <1>2, <1>3, ReturnKill DEF KillInv

\* allocproc() takes a slot whose pid is 0, and nobody asked to kill pid 0: the
\* slot is unmarked when it gets its pid.
LEMMA AllocKill ==
  ASSUME CoreType, KillInv, NEW p \in Slots, allocproc(p)
  PROVE  KillInv'
<1>0. UNCHANGED asked
  BY DEF allocproc
<1>1. CASE advance(p) /\ UNCHANGED <<state, pid, killed, nextpid, pc, target>>
  BY <1>0, <1>1, UnmarkedStep DEF KillInv
<1>2. CASE Return(p) /\ UNCHANGED <<state, pid, killed, nextpid>>
  BY <1>0, <1>2, ReturnKill, UnmarkedStep
<1>3. CASE /\ idx[p] \in Slots /\ freeproc(idx[p]) /\ Return(p)
           /\ nextpid' = nextpid + 1
  <2>1. nextpid' \in Nat
    BY <1>3 DEF KillInv
  <2> QED
    BY <1>0, <1>3, <2>1, FreeKill
<1>4. CASE /\ idx[p] \in Slots /\ state[idx[p]] = "UNUSED"
           /\ nextpid' = nextpid + 1
           /\ state' = [state EXCEPT ![idx[p]] = "USED"]
           /\ pid' = [pid EXCEPT ![idx[p]] = nextpid]
           /\ goto(p, "fork_parent")
           /\ UNCHANGED <<killed, target>>
  <2>1. PICK r \in Slots : r = idx[p]
    BY <1>4
  <2>2. pid[r] = 0 /\ ~killed[r]
    BY <1>4, <2>1 DEF KillInv
  <2>3. pid' \in [Slots -> Nat] /\ nextpid' \in Nat
    BY <1>4, <2>1 DEF KillInv
  <2>4. \A q \in Slots : /\ killed'[q] => pid'[q] \in asked
                         /\ state'[q] = "UNUSED" => pid'[q] = 0
    BY <1>4, <2>1, <2>2 DEF KillInv, CoreType
  <2>5. /\ target' \in [Slots -> Nat]
        /\ \A q \in Slots : pc'[q] = "kill" => /\ pc[q] = "kill"
                                               /\ target'[q] = target[q]
    BY <1>4, GotoKill
  <2> QED
    BY <1>0, <1>4, <2>3, <2>4, <2>5 DEF KillInv
<1> QED
  BY <1>1, <1>2, <1>3, <1>4 DEF allocproc

\* kill(n) records that n is asked for, and its loop marks only that pid.
LEMMA KillKill ==
  ASSUME CoreType, KillInv, 0 \notin KillTargets, NEW p \in Slots,
         kill_scan(p) \/ \E n \in KillTargets : kill(p, n)
  PROVE  KillInv'
<1>1. ASSUME NEW n \in KillTargets, kill(p, n) PROVE KillInv'
  <2>1. /\ pc' = [pc EXCEPT ![p] = "kill"]
        /\ target' = [target EXCEPT ![p] = n]
        /\ asked' = asked \cup {n}
        /\ UNCHANGED <<state, pid, killed, nextpid>>
    BY <1>1 DEF kill, Begin, goto
  <2>2. n \in Nat /\ n # 0
    BY KillAssumption
  <2>3. target' \in [Slots -> Nat] /\ 0 \notin asked'
    BY <2>1, <2>2 DEF KillInv
  <2>4. \A q \in Slots : pc'[q] = "kill" => target'[q] \in asked'
    BY <2>1 DEF KillInv, CoreType
  <2> QED
    BY <2>1, <2>3, <2>4 DEF KillInv
<1>2. ASSUME kill_scan(p) PROVE KillInv'
  <2>0. UNCHANGED <<pid, nextpid, asked>> /\ pc[p] = "kill"
    BY <1>2 DEF kill_scan, Step
  <2>1. CASE UNCHANGED <<state, killed, pc, target>>
    BY <2>0, <2>1, UnmarkedStep DEF KillInv
  <2>2. CASE Return(p) /\ UNCHANGED <<state, killed>>
    BY <2>0, <2>2, ReturnKill, UnmarkedStep
  <2>3. CASE /\ idx[p] \in Slots /\ pid[idx[p]] = target[p]
             /\ killed' = [killed EXCEPT ![idx[p]] = TRUE]
             /\ state' = [state EXCEPT ![idx[p]] =
                            IF @ = "SLEEPING" THEN "RUNNABLE" ELSE @]
             /\ Return(p)
    <3>1. PICK r \in Slots : r = idx[p]
      BY <2>3
    <3>2. pid[r] \in asked
      BY <2>0, <2>3, <3>1 DEF KillInv
    <3>3. killed' \in [Slots -> BOOLEAN]
      BY <2>3, <3>1 DEF KillInv
    <3>4. \A q \in Slots : killed'[q] => pid[q] \in asked
      BY <2>3, <3>1, <3>2 DEF KillInv
    <3>5. \A q \in Slots : state'[q] = "UNUSED" => state[q] = "UNUSED"
      BY <2>3, <3>1 DEF CoreType
    <3>6. /\ target' \in [Slots -> Nat]
          /\ \A q \in Slots : pc'[q] = "kill" => /\ pc[q] = "kill"
                                                 /\ target'[q] = target[q]
      BY <2>3, ReturnKill
    <3> QED
      BY <2>0, <3>3, <3>4, <3>5, <3>6 DEF KillInv
  <2> QED
    BY <1>2, <2>1, <2>2, <2>3 DEF kill_scan
<1> QED
  BY <1>1, <1>2

\* Every other step of a process, system call by system call.
LEMMA OtherKill ==
  ASSUME CoreType, KillInv, NEW p \in Slots,
         \/ fork(p) \/ wait(p) \/ exit(p) \/ Resume(p) \/ yield(p)
         \/ fork_parent(p) \/ exit_lock(p) \/ reparent(p) \/ reparent_wakeup(p)
         \/ exit_wakeup(p) \/ wait_acquire(p) \/ wait_sleep(p)
         \/ fork_run(p) \/ exit_zombie(p) \/ wait_scan(p) \/ wait_end(p)
  PROVE  KillInv'
<1>0. ASSUME UNCHANGED <<pc, target>>
      PROVE  /\ target' \in [Slots -> Nat]
             /\ \A q \in Slots : pc'[q] = "kill" => /\ pc[q] = "kill"
                                                    /\ target'[q] = target[q]
  BY <1>0 DEF KillInv
<1>s. ASSUME NEW r, NEW s, s # "UNUSED", state' = [state EXCEPT ![r] = s]
      PROVE  \A q \in Slots : state'[q] = "UNUSED" => state[q] = "UNUSED"
  BY <1>s DEF CoreType
<1>w. ASSUME NEW q \in Slots, NEW r, wakeup(p, r)
      PROVE  state'[q] = "UNUSED" => state[q] = "UNUSED"
  BY <1>w DEF wakeup, CoreType
<1>1. CASE fork(p) \/ wait(p) \/ exit(p)
  <2>1. /\ UNCHANGED <<state, pid, killed, nextpid, target, asked>>
        /\ \E l \in {"alloc", "wait", "panic", "exit"} : goto(p, l)
    BY <1>1 DEF fork, wait, exit, Begin, locals
  <2> QED
    BY <2>1, GotoKill, UnmarkedStep
<1>2. CASE Resume(p) \/ yield(p)
  <2>1. UNCHANGED <<pid, killed, nextpid, asked, pc, target>>
    BY <1>2 DEF Resume, yield, locals
  <2>2. state' = state \/ state' = [state EXCEPT ![p] = "RUNNABLE"]
    BY <1>2 DEF Resume, yield, SwitchOut
  <2> QED
    BY <1>0, <1>s, <2>1, <2>2, UnmarkedStep
<1>3. CASE fork_parent(p) \/ exit_lock(p) \/ wait_acquire(p)
  <2>1. /\ UNCHANGED <<state, pid, killed, nextpid, target, asked>>
        /\ \E l \in {"fork_run", "reparent", "scan"} : goto(p, l)
    BY <1>3 DEF fork_parent, exit_lock, wait_acquire, locals
  <2> QED
    BY <2>1, GotoKill, UnmarkedStep
<1>4. CASE reparent(p)
  <2>1. /\ UNCHANGED <<state, pid, killed, nextpid, target, asked>>
        /\ UNCHANGED pc \/ goto(p, "reparent_wakeup")
    BY <1>4 DEF reparent
  <2> QED
    BY <1>0, <2>1, GotoKill, UnmarkedStep
<1>5. CASE reparent_wakeup(p) \/ exit_wakeup(p)
  <2>1. /\ UNCHANGED <<pid, killed, nextpid, target, asked>>
        /\ \E l \in {"reparent", "zombie"} : goto(p, l)
        /\ \E r : wakeup(p, r)
    BY <1>5 DEF reparent_wakeup, exit_wakeup, locals
  <2> QED
    BY <1>w, <2>1, GotoKill, UnmarkedStep
<1>6. CASE wait_sleep(p)
  <2>1. /\ UNCHANGED <<pid, killed, nextpid, target, asked>> /\ goto(p, "wait")
        /\ state' = [state EXCEPT ![p] = "SLEEPING"]
    BY <1>6 DEF wait_sleep, SwitchOut, locals
  <2> QED
    BY <1>s, <2>1, GotoKill, UnmarkedStep
<1>7. CASE fork_run(p) \/ exit_zombie(p)
  <2>1. /\ UNCHANGED <<pid, killed, nextpid, asked>> /\ Return(p)
        /\ \E r, s : s # "UNUSED" /\ state' = [state EXCEPT ![r] = s]
    BY <1>7 DEF fork_run, exit_zombie, SwitchOut
  <2> QED
    BY <1>s, <2>1, ReturnKill, UnmarkedStep
<1>8. CASE wait_scan(p)
  <2>0. UNCHANGED <<nextpid, asked>> /\ nextpid' \in Nat
    BY <1>8 DEF wait_scan, KillInv
  <2>1. CASE UNCHANGED <<state, pid, killed, pc, target>>
    BY <1>0, <2>0, <2>1, UnmarkedStep
  <2>2. CASE Return(p) /\ UNCHANGED <<state, pid, killed>>
    BY <2>0, <2>2, ReturnKill, UnmarkedStep
  <2>3. CASE idx[p] \in Slots /\ freeproc(idx[p]) /\ Return(p)
    BY <2>0, <2>3, FreeKill
  <2> QED
    BY <1>8, <2>1, <2>2, <2>3 DEF wait_scan
<1>9. CASE wait_end(p)
  <2>0. UNCHANGED <<state, pid, killed, nextpid, asked>>
    BY <1>9 DEF wait_end
  <2>1. CASE Return(p)
    BY <2>0, <2>1, ReturnKill, UnmarkedStep
  <2>2. CASE goto(p, "sleep") /\ UNCHANGED target
    BY <2>0, <2>2, GotoKill, UnmarkedStep
  <2> QED
    BY <1>9, <2>1, <2>2 DEF wait_end, locals
<1> QED
  BY <1>1, <1>2, <1>3, <1>4, <1>5, <1>6, <1>7, <1>8, <1>9

\* The scheduler marks and frees nothing.
LEMMA SchedulerKill ==
  ASSUME CoreType, KillInv, NEW c \in CPUs, scheduler(c)
  PROVE  KillInv'
<1>1. UNCHANGED <<pid, killed, asked, nextpid, pc, target>>
  BY DEF scheduler, scheduler_scan, scheduler_back, locals
<1>2. \A q \in Slots : state'[q] = "UNUSED" => state[q] = "UNUSED"
  <2>1. \/ UNCHANGED state
        \/ state' = [state EXCEPT ![si[c]] = "RUNNING"]
    BY DEF scheduler, scheduler_scan, scheduler_back
  <2> QED
    BY <2>1 DEF CoreType
<1> QED
  BY <1>1, <1>2, UnmarkedStep DEF KillInv

\* proc.c, kill() and freeproc(): if nobody passes 0, the pid of a free slot, a
\* process that is marked killed is one whose pid was passed to kill(), however
\* often its slot has been used before.
THEOREM KilledWasAsked == 0 \notin KillTargets => (Spec => []KilledAsAsked)
<1> SUFFICES ASSUME 0 \notin KillTargets PROVE Spec => []KilledAsAsked
  OBVIOUS
<1>1. Init => KillInv
  BY DEF Init, KillInv
<1>2. StackInv /\ KillInv /\ [Next]_vars => KillInv'
  <2> SUFFICES ASSUME StackInv, KillInv, [Next]_vars PROVE KillInv'
    OBVIOUS
  <2>0. CoreType
    BY DEF StackInv
  <2>1. ASSUME NEW p \in Slots, User(p) \/ Kernel(p) \/ Resume(p) \/ yield(p)
        PROVE  KillInv'
    BY <2>0, <2>1, AllocKill, KillKill, OtherKill DEF User, Kernel
  <2>2. CASE UNCHANGED vars
    BY <2>2 DEF vars, KillInv
  <2> QED
    BY <2>0, <2>1, <2>2, SchedulerKill DEF Next
<1>3. KillInv => KilledAsAsked
  BY DEF KillInv, KilledAsAsked
<1> QED
  BY <1>1, <1>2, <1>3, StackInvariant, PTL DEF Spec
=============================================================================

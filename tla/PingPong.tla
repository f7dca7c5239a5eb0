------------------------------ MODULE PingPong -------------------------------
(***************************************************************************)
(* user/pingpong.c running on the semaphores of Semaphore: each instance   *)
(* is a parent that prints "Pong" and a child that prints "Ping", taking   *)
(* turns with two semaphores.  Several instances may run at the same time, *)
(* as the shell's "pingpong 10 & ; pingpong 10 & ; pingpong 20" does.      *)
(*                                                                         *)
(* upc[p] is the statement of pingpong() that p executes next.  Each is    *)
(* one system call: Trap(p) enters the kernel, and the statement after it  *)
(* waits for it to return.                                                 *)
(***************************************************************************)
EXTENDS Semaphore, Sequences

CONSTANTS
  Instances,     \* the concurrent runs of the program
  Amount,        \* its argument
  ForkMayFail    \* whether fork() can return -1

ASSUME AmountAssumption == Amount \in Nat \ {0}
ASSUME ForkAssumption == ForkMayFail \in BOOLEAN
ASSUME ProcsAssumption == Procs = Instances \X {"parent", "child"}

VARIABLES
  upc, i,        \* each process's statement and round counter
  index, sems,   \* each instance's loop variable and sems[0 .. var-1]
  pings, pongs   \* history: lines printed by each instance

uvars == <<upc, i, index, sems, pings, pongs>>
allvars == <<vars, uvars>>

parent(a) == <<a, "parent">>
child(a) == <<a, "child">>
sem1(p) == sems[p[1]][1]
sem2(p) == sems[p[1]][2]

\* main() has checked its argument, in the instances the shell was asked for;
\* their children are not there yet.
PPInit ==
  /\ Init
  /\ \E asked \in SUBSET Instances :
       upc = [p \in Procs |-> IF p[1] \in asked /\ p[2] = "parent"
                                THEN "open" ELSE "unborn"]
  /\ i = [p \in Procs |-> 0]
  /\ index = [a \in Instances |-> 0]
  /\ sems = [a \in Instances |-> <<>>]
  /\ pings = [a \in Instances |-> 0]
  /\ pongs = [a \in Instances |-> 0]
-----------------------------------------------------------------------------
Trap(p) ==
  /\ upc[p] \notin {"unborn", "done"}
  /\ Enter(p)
  /\ UNCHANGED uvars

\* A system call that is not about semaphores.
OtherCall(p) ==
  /\ pc[p] = "kernel"
  /\ pc' = [pc EXCEPT ![p] = "user"]
  /\ UNCHANGED <<count, bound, arg, val, ret, killed, stale>>

goto(p, l) == upc' = [upc EXCEPT ![p] = l]

\* while((var != 2) && (index < 256)) if (sem_open(index, 1) == 1) ...
OpenLoop(a) ==
  LET p == parent(a) IN
  /\ upc[p] = "open" /\ Len(sems[a]) # 2 /\ index[a] < N
  /\ sem_open(p, index[a], 1)
  /\ sems' = [sems EXCEPT ![a] = IF ret'[p] = 1 THEN Append(@, index[a]) ELSE @]
  /\ index' = [index EXCEPT ![a] = @ + 1]
  /\ UNCHANGED <<upc, i, pings, pongs>>

\* The process leaves through exit(): its memory, but no semaphore, is freed.
Quit(p) ==
  /\ pc[p] = "kernel"
  /\ pc' = [pc EXCEPT ![p] = "exited"]
  /\ UNCHANGED <<count, bound, arg, val, ret, killed, stale>>

\* Without two semaphores: exit(1), which leaves a first one open.
OpenFailed(a) ==
  LET p == parent(a) IN
  /\ upc[p] = "open" /\ Len(sems[a]) # 2 /\ index[a] = N
  /\ Quit(p)
  /\ goto(p, "done")
  /\ UNCHANGED <<i, index, sems, pings, pongs>>

\* sem_down(sem2): the parent must not print first.
FirstDown(a) ==
  LET p == parent(a) IN
  /\ upc[p] = "open" /\ Len(sems[a]) = 2
  /\ sem_down(p, sem2(p))
  /\ goto(p, "fork")
  /\ UNCHANGED <<i, index, sems, pings, pongs>>

Fork(a) ==
  LET p == parent(a) IN
  /\ upc[p] = "fork" /\ OtherCall(p)
  /\ \/ upc' = [upc EXCEPT ![p] = "loop", ![child(a)] = "loop"]
     \/ ForkMayFail /\ goto(p, "loop")
  /\ UNCHANGED <<i, index, sems, pings, pongs>>

\* Mutant of TakeTurn: the parent waits for the semaphore it posts.
TakeTurn_Same(p) == sem_down(p, sem1(p))

TakeTurn(p) == sem_down(p, IF p[2] = "child" THEN sem1(p) ELSE sem2(p))

Rounds(p) == i[p] < Amount

LoopDown(p) ==
  /\ upc[p] = "loop" /\ Rounds(p)
  /\ TakeTurn(p)
  /\ goto(p, "print")
  /\ UNCHANGED <<i, index, sems, pings, pongs>>

LoopPrint(p) ==
  /\ upc[p] = "print" /\ OtherCall(p)
  /\ goto(p, "up")
  /\ IF p[2] = "child"
       THEN pings' = [pings EXCEPT ![p[1]] = @ + 1] /\ UNCHANGED pongs
       ELSE pongs' = [pongs EXCEPT ![p[1]] = @ + 1] /\ UNCHANGED pings
  /\ UNCHANGED <<i, index, sems>>

LoopUp(p) ==
  /\ upc[p] = "up"
  /\ sem_up(p, IF p[2] = "child" THEN sem2(p) ELSE sem1(p))
  /\ i' = [i EXCEPT ![p] = @ + 1]
  /\ goto(p, "loop")
  /\ UNCHANGED <<index, sems, pings, pongs>>

\* wait(0) returns when the child has exited, and at once without a child.
WaitReturns(p) ==
  p[2] = "parent" => upc[child(p[1])] \in {"unborn", "done"}

Wait(p) ==
  /\ upc[p] = "loop" /\ ~Rounds(p) /\ OtherCall(p)
  /\ WaitReturns(p)
  /\ goto(p, "close1")
  /\ UNCHANGED <<i, index, sems, pings, pongs>>

\* Both the parent and the child close both semaphores.
Close(p) ==
  /\ \/ upc[p] = "close1" /\ sem_close(p, sem1(p)) /\ goto(p, "close2")
     \/ upc[p] = "close2" /\ sem_close(p, sem2(p)) /\ goto(p, "exit")
  /\ UNCHANGED <<i, index, sems, pings, pongs>>

ExitZero(p) ==
  /\ upc[p] = "exit"
  /\ Quit(p)
  /\ goto(p, "done")
  /\ UNCHANGED <<i, index, sems, pings, pongs>>
-----------------------------------------------------------------------------
Program(p) ==
  \/ Trap(p)
  \/ \E a \in Instances :
       p = parent(a) /\ (OpenLoop(a) \/ OpenFailed(a) \/ FirstDown(a) \/ Fork(a))
  \/ LoopDown(p) \/ LoopPrint(p) \/ LoopUp(p)
  \/ Wait(p) \/ Close(p) \/ ExitZero(p)

Woke(p) == sem_down_woken(p) /\ UNCHANGED uvars

PPNext == \E p \in Procs : Program(p) \/ Woke(p)

\* The scheduler's round robin and the timer's yield run every process.
PPFair == \A p \in Procs : WF_allvars(Program(p) \/ Woke(p))

PPSpec == PPInit /\ [][PPNext]_allvars /\ PPFair
-----------------------------------------------------------------------------
AllDone == \A p \in Procs : upc[p] \in {"unborn", "done"}

\* Only one instance runs.
Alone == \A a, b \in Instances :
           a = b \/ upc[parent(a)] = "unborn" \/ upc[parent(b)] = "unborn"

ForkFailed ==
  \E a \in Instances : /\ upc[child(a)] = "unborn"
                        /\ upc[parent(a)] \notin {"unborn", "open", "fork"}

\* grade-lab2's "proper order": every Pong answers a Ping that came before it,
\* and no second Ping comes before its answer.
Alternation ==
  Alone => \A a \in Instances : pongs[a] <= pings[a] /\ pings[a] <= pongs[a] + 1

\* The opening loops of concurrent instances interleave freely, and still two
\* instances share a semaphore only after somebody began to close his.
SharedOnlyAfterClose ==
  \A a, b \in Instances :
    a # b /\ (\E j \in DOMAIN sems[a], k \in DOMAIN sems[b] :
                sems[a][j] = sems[b][k])
      => \E p \in Procs : upc[p] \in {"close2", "exit", "done"}

\* grade-lab2's "termination" and "three rounds": an instance that runs alone,
\* and whose fork succeeds, ends, with every line printed.  Both its processes
\* close both semaphores, each failing where the other was first, and the
\* sem_down of one may still hit a semaphore the other closed; all the same
\* every semaphore is closed, and can be opened again, at the end.
EndsAlone ==
  [](Alone /\ ~ForkFailed) =>
    <>(/\ AllDone
       /\ \A a \in Instances : upc[parent(a)] = "done"
                                 => pings[a] = Amount /\ pongs[a] = Amount
       /\ \A s \in Sems : count[s] = Closed)

=============================================================================

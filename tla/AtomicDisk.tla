----------------------------- MODULE AtomicDisk ------------------------------
(***************************************************************************)
(* What the log of kernel/log.c promises the file system: operations write *)
(* blocks, and what they have written becomes durable in one step, taken   *)
(* while no operation is in progress.  A crash loses what is not durable,  *)
(* and nothing else.                                                       *)
(***************************************************************************)
CONSTANTS Procs, Blocks, Values

VARIABLES
  view,     \* the blocks as the operations see them
  stable,   \* the blocks as they would be found after a crash
  active    \* processes between begin_op and end_op

advars == <<view, stable, active>>

Init ==
  /\ stable \in [Blocks -> Values]
  /\ view = stable
  /\ active = {}

Begin(p) ==
  /\ p \notin active
  /\ active' = active \cup {p}
  /\ UNCHANGED <<view, stable>>

Write(p, b, v) ==
  /\ p \in active
  /\ view' = [view EXCEPT ![b] = v]
  /\ UNCHANGED <<stable, active>>

End(p) ==
  /\ p \in active
  /\ active' = active \ {p}
  /\ UNCHANGED <<view, stable>>

Commit ==
  /\ active = {}
  /\ stable' = view
  /\ UNCHANGED <<view, active>>

Crash ==
  /\ view' = stable
  /\ active' = {}
  /\ UNCHANGED stable

Next ==
  \/ \E p \in Procs : Begin(p) \/ End(p)
  \/ \E p \in Procs, b \in Blocks, v \in Values : Write(p, b, v)
  \/ Commit
  \/ Crash

Spec == Init /\ [][Next]_advars
=============================================================================

----------------------------- MODULE BlockStore ------------------------------
(***************************************************************************)
(* What bread, bwrite and brelse promise: blocks, each with at most one    *)
(* holder, who alone may change it, and whose changes last.                *)
(***************************************************************************)
CONSTANTS Procs, Blocks, Values, None

VARIABLES content, holder

bsvars == <<content, holder>>

Init ==
  /\ content \in [Blocks -> Values]
  /\ holder = [k \in Blocks |-> None]

Acquire(p, k) ==
  /\ holder[k] = None
  /\ holder' = [holder EXCEPT ![k] = p]
  /\ UNCHANGED content

Change(p, k, v) ==
  /\ holder[k] = p
  /\ content' = [content EXCEPT ![k] = v]
  /\ UNCHANGED holder

Release(p, k) ==
  /\ holder[k] = p
  /\ holder' = [holder EXCEPT ![k] = None]
  /\ UNCHANGED content

Next ==
  \E p \in Procs, k \in Blocks :
    Acquire(p, k) \/ Release(p, k) \/ \E v \in Values : Change(p, k, v)

Spec == Init /\ [][Next]_bsvars
=============================================================================

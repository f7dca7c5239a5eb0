--------------------------------- MODULE Log ---------------------------------
(***************************************************************************)
(* The redo log of kernel/log.c: begin_op, log_write and end_op of several *)
(* processes, the commit, a crash at any moment and the recovery at boot.  *)
(*                                                                         *)
(* A section under log.lock is one step, up to sleep() (Semaphore and      *)
(* SemaphoreLocks show why sleeping with the lock is).  log_write is one   *)
(* step with the change of the buffer before it, both under the buffer's   *)
(* sleep lock.  Each bwrite() of the commit and of the recovery is a step  *)
(* of its own: a block is written whole or not at all.  The buffer cache   *)
(* is the function cache: a block that is in the log's memory header is    *)
(* pinned, and what is read of any other is its home block.                *)
(***************************************************************************)
EXTENDS Integers, Sequences, FiniteSets

CONSTANTS
  Procs, Blocks, Values,
  MAXOPBLOCKS, LOGSIZE   \* as in param.h

ASSUME SizesAssumption ==
  /\ MAXOPBLOCKS \in Nat \ {0} /\ LOGSIZE \in Nat
  /\ MAXOPBLOCKS <= LOGSIZE
ASSUME ValuesAssumption == Values # {}

\* log.size, the blocks of the log on disk with its header, as mkfs sets it.
nlog == LOGSIZE

VARIABLES
  home, logdata, head,             \* disk: blocks, log blocks, log header
  lh, outstanding, committing,     \* struct log
  cache,                           \* contents of the buffers
  pc, wrote,                       \* each process; the blocks its op wrote
  phase, tail,                     \* the commit, or the recovery
  panicked

disk == <<home, logdata, head>>
mem == <<lh, outstanding, committing, cache>>
vars == <<disk, mem, pc, wrote, phase, tail, panicked>>

Contents == [Blocks -> Values]
Logged == {lh[j] : j \in DOMAIN lh}

\* initlog runs first, on whatever mkfs left: an empty log.
Init ==
  /\ home \in Contents
  /\ logdata = [j \in 1 .. LOGSIZE |-> CHOOSE v \in Values : TRUE]
  /\ head = <<>>
  /\ lh = <<>>
  /\ outstanding = 0
  /\ committing = FALSE
  /\ cache = home
  /\ pc = [p \in Procs |-> "out"]
  /\ wrote = [p \in Procs |-> {}]
  /\ phase = "read_head"
  /\ tail = 0
  /\ panicked = FALSE
-----------------------------------------------------------------------------
recovering == phase \in {"read_head", "reinstall"}
up == ~recovering /\ ~panicked

CanBegin ==
  /\ ~committing
  /\ Len(lh) + (outstanding + 1) * MAXOPBLOCKS <= LOGSIZE

\* begin_op's loop, at the call and each time it is woken.
begin_op(p) ==
  /\ up /\ pc[p] \in {"out", "woken"}
  /\ \/ /\ CanBegin
        /\ outstanding' = outstanding + 1
        /\ pc' = [pc EXCEPT ![p] = "op"]
     \/ /\ ~CanBegin
        /\ pc' = [pc EXCEPT ![p] = "asleep"]
        /\ UNCHANGED outstanding
  /\ UNCHANGED <<disk, lh, committing, cache, wrote, phase, tail, panicked>>

Absorbed(b) == b \in Logged

TooBig == Len(lh) >= LOGSIZE \/ Len(lh) >= nlog - 1

\* An operation changes a block and calls log_write; by MAXOPBLOCKS' comment,
\* "max # of blocks any FS op writes", it writes no more different ones.
log_write(p, b, v) ==
  /\ up /\ pc[p] = "op"
  /\ Cardinality(wrote[p] \cup {b}) <= MAXOPBLOCKS
  /\ cache' = [cache EXCEPT ![b] = v]
  /\ wrote' = [wrote EXCEPT ![p] = @ \cup {b}]
  /\ \/ TooBig /\ panicked' = TRUE /\ UNCHANGED lh
     \/ /\ ~TooBig
        /\ lh' = IF Absorbed(b) THEN lh ELSE Append(lh, b)
        /\ UNCHANGED panicked
  /\ UNCHANGED <<disk, outstanding, committing, pc, phase, tail>>

wakeup(to) == [q \in Procs |-> IF to[q] = "asleep" THEN "woken" ELSE to[q]]

\* Mutant of end_op_wakeup: whoever waits for space is not woken.
end_op_wakeup_None(p) == pc' = [pc EXCEPT ![p] = "out"]

end_op_wakeup(p) == pc' = wakeup([pc EXCEPT ![p] = "out"])

LastOp == outstanding = 1

\* Mutant of NeedsCommit: a transaction of one block is forgotten.
NeedsCommit_Two == Len(lh) > 1

NeedsCommit == Len(lh) > 0

end_op(p) ==
  /\ up /\ pc[p] = "op"
  /\ outstanding' = outstanding - 1
  /\ wrote' = [wrote EXCEPT ![p] = {}]
  /\ \/ /\ LastOp
        /\ committing' = TRUE
        /\ phase' = IF NeedsCommit THEN "write_log" ELSE "committed"
        /\ pc' = [pc EXCEPT ![p] = "commit"]
     \/ /\ ~LastOp
        /\ end_op_wakeup(p)
        /\ UNCHANGED <<committing, phase>>
  /\ UNCHANGED <<disk, lh, cache, tail, panicked>>
-----------------------------------------------------------------------------
(* commit(), by the process that ended last.                               *)

\* Mutant of write_log: the header is not kept back until the log is written.
write_log_HeadFirst ==
  /\ phase = "write_log" /\ tail < Len(lh)
  /\ head' = lh
  /\ logdata' = [logdata EXCEPT ![tail + 1] = cache[lh[tail + 1]]]
  /\ tail' = tail + 1
  /\ UNCHANGED <<home, mem, pc, wrote, phase, panicked>>

write_log ==
  /\ phase = "write_log" /\ tail < Len(lh)
  /\ logdata' = [logdata EXCEPT ![tail + 1] = cache[lh[tail + 1]]]
  /\ tail' = tail + 1
  /\ UNCHANGED <<home, head, mem, pc, wrote, phase, panicked>>

\* "the real commit"
write_head ==
  /\ phase = "write_log" /\ tail = Len(lh)
  /\ head' = lh
  /\ phase' = "install"
  /\ tail' = 0
  /\ UNCHANGED <<home, logdata, mem, pc, wrote, panicked>>

\* install_trans, with recovering 0 and 1.
install_trans ==
  /\ phase \in {"install", "reinstall"} /\ tail < Len(lh)
  /\ home' = [home EXCEPT ![lh[tail + 1]] = logdata[tail + 1]]
  /\ cache' = [cache EXCEPT ![lh[tail + 1]] = logdata[tail + 1]]
  /\ tail' = tail + 1
  /\ UNCHANGED <<logdata, head, lh, outstanding, committing, pc, wrote, phase,
                 panicked>>

\* log.lh.n = 0; write_head(): "Erase the transaction from the log".
clear ==
  /\ phase \in {"install", "reinstall"} /\ tail = Len(lh)
  /\ lh' = <<>>
  /\ head' = <<>>
  /\ phase' = IF phase = "install" THEN "committed" ELSE "idle"
  /\ tail' = 0
  /\ UNCHANGED <<home, logdata, outstanding, committing, cache, pc, wrote,
                 panicked>>

\* The end of end_op.
end_op_done ==
  /\ phase = "committed"
  /\ committing' = FALSE
  /\ pc' = wakeup([p \in Procs |-> IF pc[p] = "commit" THEN "out" ELSE pc[p]])
  /\ phase' = "idle"
  /\ UNCHANGED <<disk, lh, outstanding, cache, wrote, tail, panicked>>
-----------------------------------------------------------------------------
\* Memory and processes are lost; the next boot calls initlog.  What is not in
\* the cache is read from its home block.
Crash ==
  /\ lh' = <<>>
  /\ outstanding' = 0
  /\ committing' = FALSE
  /\ cache' = home
  /\ pc' = [p \in Procs |-> "out"]
  /\ wrote' = [p \in Procs |-> {}]
  /\ phase' = "read_head"
  /\ tail' = 0
  /\ panicked' = FALSE
  /\ UNCHANGED disk

read_head ==
  /\ phase = "read_head"
  /\ lh' = head
  /\ phase' = "reinstall"
  /\ UNCHANGED <<disk, outstanding, committing, cache, pc, wrote, tail, panicked>>

Commit == write_log \/ write_head \/ install_trans \/ clear \/ end_op_done

Next ==
  \/ \E p \in Procs : begin_op(p) \/ end_op(p)
  \/ \E p \in Procs, b \in Blocks, v \in Values : log_write(p, b, v)
  \/ ~panicked /\ Commit
  \/ read_head
  \/ Crash

Spec == Init /\ [][Next]_vars
-----------------------------------------------------------------------------
\* What recovery makes of the disk: the blocks the header names come from the
\* log, all others from home.
Recovered ==
  [b \in Blocks |->
     IF \E j \in DOMAIN head : head[j] = b
       THEN logdata[CHOOSE j \in DOMAIN head : head[j] = b] ELSE home[b]]

\* Once the last end_op has returned nothing is left to be written: a crash
\* now loses no operation that is over.
DurableWhenIdle ==
  up /\ outstanding = 0 /\ ~committing => Recovered = cache

\* Nobody sleeps in begin_op while it could go on: every change of
\* log.outstanding, log.lh.n and log.committing that lets it is announced.
BeginNotLost ==
  \A p \in Procs : up /\ pc[p] = "asleep" => ~CanBegin

\* The log makes groups of whole operations durable in one step, with a crash
\* before any disk write of the commit and of the recovery itself.
Abs == INSTANCE AtomicDisk WITH
         view <- IF recovering THEN Recovered ELSE cache,
         stable <- Recovered,
         active <- {p \in Procs : pc[p] = "op"}

CrashAtomic == Abs!Spec
=============================================================================

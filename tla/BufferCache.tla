----------------------------- MODULE BufferCache -----------------------------
(***************************************************************************)
(* kernel/bio.c on VirtioDisk, with the sleep locks of kernel/sleeplock.c: *)
(* bget, bread, bwrite, brelse, bpin and bunpin of processes that use the  *)
(* cache as log.c does: who changes a buffer pins it before he lets it go, *)
(* and unpins it when he has written it.                                   *)
(*                                                                         *)
(* A section under bcache.lock, or under a sleep lock's spin lock, is one  *)
(* step.  pc[p] is                                                         *)
(*   "out"      outside                                                    *)
(*   "lock"     in acquiresleep, "locksleep" if asleep there               *)
(*   "bread"    in bread, holding the lock, before the test of valid       *)
(*   "reading", "writing"   in virtio_disk_rw                              *)
(*   "held"     back from bread or bwrite, with the buffer                 *)
(*   "brelse"   between releasesleep and the decrement of refcnt           *)
(***************************************************************************)
EXTENDS VirtioDisk

\* NBUF
ASSUME BufsAssumption == IsFiniteSet(Bufs)

VARIABLES
  refcnt, valid, locked,  \* struct buf, and its sleep lock's holder
  lru,                    \* the list from bcache.head.next on
  pc, want, buf,          \* each process: the block it asked for, its buffer
  dirty,                  \* it changed the buffer and has not pinned it
  pinned,                 \* blocks that are pinned
  panicked

bcvars == <<refcnt, valid, locked, lru, pc, want, buf, dirty, pinned, panicked>>
vars == <<vdvars, bcvars>>

\* binit.
Init ==
  /\ VDInit
  /\ refcnt = [b \in Bufs |-> 0]
  /\ valid = [b \in Bufs |-> FALSE]
  /\ locked = [b \in Bufs |-> None]
  /\ lru = CHOOSE s \in [1 .. Cardinality(Bufs) -> Bufs] :
             \A b \in Bufs : \E j \in DOMAIN s : s[j] = b
  /\ pc = [p \in Procs |-> "out"]
  /\ want = [p \in Procs |-> None]
  /\ buf = [p \in Procs |-> None]
  /\ dirty = [p \in Procs |-> FALSE]
  /\ pinned = {}
  /\ panicked = FALSE

goto(p, l) == pc' = [pc EXCEPT ![p] = l]
-----------------------------------------------------------------------------
(* bget and acquiresleep                                                   *)

Cached(k) == {b \in Bufs : block[b] = k}
Unused == {j \in DOMAIN lru : refcnt[lru[j]] = 0}

bget_hit(p, k) ==
  /\ pc[p] = "out" /\ \E b \in Cached(k) :
       /\ refcnt' = [refcnt EXCEPT ![b] = @ + 1]
       /\ buf' = [buf EXCEPT ![p] = b]
  /\ want' = [want EXCEPT ![p] = k]
  /\ goto(p, "lock")
  /\ UNCHANGED <<vdvars, valid, locked, lru, dirty, pinned, panicked>>

\* Mutant of Victim: the end of the list is taken without a look at refcnt.
Victim_Any == lru[Len(lru)]

\* The least recently used buffer that nobody refers to.
Victim == lru[CHOOSE j \in Unused : \A i \in Unused : i <= j]

bget_recycle(p, k) ==
  LET b == Victim IN
  /\ pc[p] = "out" /\ Cached(k) = {} /\ Unused # {}
  /\ block' = [block EXCEPT ![b] = k]
  /\ valid' = [valid EXCEPT ![b] = FALSE]
  /\ refcnt' = [refcnt EXCEPT ![b] = 1]
  /\ buf' = [buf EXCEPT ![p] = b]
  /\ want' = [want EXCEPT ![p] = k]
  /\ goto(p, "lock")
  /\ UNCHANGED <<disk, data, busy, free, chain, info, write, avail, used, irq,
                 intr, rw, locked, lru, dirty, pinned, panicked>>

\* panic("bget: no buffers").
bget_panic(p, k) ==
  /\ pc[p] = "out" /\ Cached(k) = {} /\ Unused = {}
  /\ panicked' = TRUE
  /\ UNCHANGED <<vdvars, refcnt, valid, locked, lru, pc, want, buf, dirty, pinned>>

acquiresleep(p) ==
  /\ pc[p] = "lock"
  /\ \/ /\ locked[buf[p]] # None
        /\ goto(p, "locksleep")
        /\ UNCHANGED locked
     \/ /\ locked[buf[p]] = None
        /\ locked' = [locked EXCEPT ![buf[p]] = p]
        /\ goto(p, "bread")
  /\ UNCHANGED <<vdvars, refcnt, valid, lru, want, buf, dirty, pinned, panicked>>

\* wakeup(lk).
woken_by(b) ==
  [q \in Procs |-> IF pc[q] = "locksleep" /\ buf[q] = b THEN "lock" ELSE pc[q]]
-----------------------------------------------------------------------------
(* bread and bwrite                                                        *)

\* p calls virtio_disk_rw.
start(p, l) ==
  /\ goto(p, l)
  /\ rw' = [rw EXCEPT ![p] = "alloc"]
  /\ UNCHANGED <<disk, block, data, busy, free, chain, info, write, avail,
                 used, irq, intr>>

bread(p) ==
  /\ pc[p] = "bread"
  /\ \/ valid[buf[p]] /\ goto(p, "held") /\ UNCHANGED vdvars
     \/ ~valid[buf[p]] /\ start(p, "reading")
  /\ UNCHANGED <<refcnt, valid, locked, lru, want, buf, dirty, pinned, panicked>>

\* The write that the log's commit makes of a buffer that it has pinned.
bwrite(p) ==
  /\ pc[p] = "held" /\ want[p] \in pinned /\ ~dirty[p]
  /\ start(p, "writing")
  /\ UNCHANGED <<refcnt, valid, locked, lru, want, buf, dirty, pinned, panicked>>

transfer(p) ==
  /\ pc[p] \in {"reading", "writing"}
  /\ \/ virtio_disk_rw_full(p)
     \/ virtio_disk_rw(p, buf[p], pc[p] = "writing")
  /\ UNCHANGED bcvars

bunpin(p) ==
  /\ refcnt' = [refcnt EXCEPT ![buf[p]] = @ - 1]
  /\ pinned' = pinned \ {want[p]}

\* bread's valid = 1; after a write, the unpinning of install_trans.
transfer_done(p) ==
  LET b == buf[p] IN
  /\ virtio_disk_rw_done(p, b)
  /\ goto(p, "held")
  /\ \/ /\ pc[p] = "reading"
        /\ valid' = [valid EXCEPT ![b] = TRUE]
        /\ UNCHANGED <<refcnt, pinned>>
     \/ pc[p] = "writing" /\ bunpin(p) /\ UNCHANGED valid
  /\ UNCHANGED <<locked, lru, want, buf, dirty, panicked>>
-----------------------------------------------------------------------------
(* What holders do                                                         *)

change(p, v) ==
  /\ pc[p] = "held" /\ v # data[buf[p]]
  /\ data' = [data EXCEPT ![buf[p]] = v]
  /\ dirty' = [dirty EXCEPT ![p] = want[p] \notin pinned]
  /\ UNCHANGED <<disk, block, busy, free, chain, info, write, avail, used, irq,
                 intr, rw, refcnt, valid, locked, lru, pc, want, buf, pinned,
                 panicked>>

\* Mutant of bpin: it counts nothing.
bpin_None(p) ==
  /\ pc[p] = "held" /\ dirty[p]
  /\ pinned' = pinned \cup {want[p]}
  /\ dirty' = [dirty EXCEPT ![p] = FALSE]
  /\ UNCHANGED <<vdvars, refcnt, valid, locked, lru, pc, want, buf, panicked>>

bpin(p) ==
  /\ pc[p] = "held" /\ dirty[p]
  /\ refcnt' = [refcnt EXCEPT ![buf[p]] = @ + 1]
  /\ pinned' = pinned \cup {want[p]}
  /\ dirty' = [dirty EXCEPT ![p] = FALSE]
  /\ UNCHANGED <<vdvars, valid, locked, lru, pc, want, buf, panicked>>

\* releasesleep, the first half of brelse.
releasesleep(p) ==
  /\ pc[p] = "held" /\ ~dirty[p]
  /\ locked' = [locked EXCEPT ![buf[p]] = None]
  /\ pc' = [woken_by(buf[p]) EXCEPT ![p] = "brelse"]
  /\ UNCHANGED <<vdvars, refcnt, valid, lru, want, buf, dirty, pinned, panicked>>

\* b is taken out of the list and put at its front.
to_front(b) ==
  LET i == CHOOSE i \in DOMAIN lru : lru[i] = b
  IN [j \in DOMAIN lru |->
        IF j = 1 THEN b ELSE IF j <= i THEN lru[j - 1] ELSE lru[j]]

brelse(p) ==
  LET b == buf[p] IN
  /\ pc[p] = "brelse"
  /\ refcnt' = [refcnt EXCEPT ![b] = @ - 1]
  /\ lru' = IF refcnt[b] = 1 THEN to_front(b) ELSE lru
  /\ buf' = [buf EXCEPT ![p] = None]
  /\ want' = [want EXCEPT ![p] = None]
  /\ goto(p, "out")
  /\ UNCHANGED <<vdvars, valid, locked, dirty, pinned, panicked>>
-----------------------------------------------------------------------------
Device == (\E d \in avail : device(d)) /\ UNCHANGED bcvars
Interrupt ==
  /\ virtio_disk_intr \/ virtio_disk_intr_loop \/ virtio_disk_intr_end
  /\ UNCHANGED bcvars

Begin(p) ==
  \E k \in Blocks : bget_hit(p, k) \/ bget_recycle(p, k) \/ bget_panic(p, k)

\* The steps a process takes by itself once it is in bread, bwrite or brelse.
Kernel(p) ==
  \/ acquiresleep(p) \/ bread(p) \/ transfer(p) \/ transfer_done(p) \/ brelse(p)

User(p) == bwrite(p) \/ bpin(p) \/ \E v \in Values : change(p, v)

Next ==
  /\ ~panicked
  /\ \/ \E p \in Procs : Begin(p) \/ Kernel(p) \/ User(p) \/ releasesleep(p)
     \/ Device \/ Interrupt

Spec == Init /\ [][Next]_vars
-----------------------------------------------------------------------------
\* Between bget's look-up and the buffer's lock others come and go; a process
\* that gets the lock has the block it asked for, no block is in two buffers,
\* and refcnt counts exactly the processes and pins that hold on to a buffer.
RightBuffer ==
  /\ \A p \in Procs : buf[p] # None => block[buf[p]] = want[p]
  /\ \A b, c \in Bufs : block[b] = block[c] /\ block[b] # None => b = c
  /\ \A b \in Bufs :
       refcnt[b] = Cardinality({p \in Procs : buf[p] = b})
                   + (IF block[b] \in pinned THEN 1 ELSE 0)

\* No wake-up is lost on the way of a block: nobody sleeps for a sleep lock
\* that is free, nor in the driver for what has happened (DiskNotLost).
SleepersWoken ==
  /\ DiskNotLost
  /\ \A p \in Procs : pc[p] = "locksleep" => locked[buf[p]] # None

Abs == INSTANCE BlockStore WITH
         content <- [k \in Blocks |->
            IF \E b \in Cached(k) : valid[b]
              THEN data[CHOOSE b \in Cached(k) : valid[b]] ELSE disk[k]],
         holder <- [k \in Blocks |->
            IF Cached(k) = {} THEN None
              ELSE locked[CHOOSE b \in Cached(k) : TRUE]]

\* Through recycling, write-back and requests that finish out of order, whoever
\* holds a block sees the last change made to it, and nobody else changes it.
Coherent == Abs!Spec
=============================================================================

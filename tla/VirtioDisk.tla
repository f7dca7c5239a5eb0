----------------------------- MODULE VirtioDisk ------------------------------
(***************************************************************************)
(* kernel/virtio_disk.c: requests of three descriptors, the device, its    *)
(* completion interrupt, and the sleeping of those who wait for either.    *)
(*                                                                         *)
(* A section under vdisk_lock that ends in release() or sleep() is one     *)
(* step.  The interrupt handler is not: while it holds the lock            *)
(* (intr = TRUE) the device goes on.  A request is named by the first      *)
(* descriptor of its chain; avail is the set of requests the device has    *)
(* been told of and has not finished, used the sequence of those it has    *)
(* finished and the driver has not seen.                                   *)
(***************************************************************************)
EXTENDS Integers, Sequences, FiniteSets

CONSTANTS
  Procs, Bufs, Blocks, Values,
  NUM,       \* the queue sizes (numbers of descriptors) to start with
  None

ASSUME NUMAssumption == NUM \subseteq Nat /\ \A n \in NUM : n >= 3
ASSUME NoneAssumption == None \notin Bufs \cup Blocks \cup Procs
ASSUME ValuesAssumption == Values # {}

VARIABLES
  disk,                      \* the blocks on the device
  block, data, busy,         \* struct buf: blockno, data, disk
  free,                      \* descriptors
  chain,                     \* idx[] of each process in virtio_disk_rw
  info, write,               \* of each request: its buffer, its direction
  avail, used, irq, intr,
  rw                         \* where each process is in virtio_disk_rw

Descs == DOMAIN info

vdvars == <<disk, block, data, busy, free, chain, info, write, avail, used,
            irq, intr, rw>>

VDInit ==
  /\ disk = [k \in Blocks |-> CHOOSE v \in Values : TRUE]
  /\ block = [b \in Bufs |-> None]
  /\ data = [b \in Bufs |-> CHOOSE v \in Values : TRUE]
  /\ busy = [b \in Bufs |-> FALSE]
  /\ \E n \in NUM :
       /\ free = 0 .. n - 1
       /\ info = [d \in 0 .. n - 1 |-> None]
       /\ write = [d \in 0 .. n - 1 |-> FALSE]
  /\ chain = [p \in Procs |-> <<>>]
  /\ avail = {} /\ used = <<>> /\ irq = FALSE /\ intr = FALSE
  /\ rw = [p \in Procs |-> "out"]
-----------------------------------------------------------------------------
\* alloc_desc finds the first free one.
first(s) == CHOOSE d \in s : \A e \in s : d <= e

\* wakeup(&disk.free[0]).
wakeup_free == [q \in Procs |-> IF rw[q] = "sleep_desc" THEN "alloc" ELSE rw[q]]

\* alloc3_desc fails and gives back what it took.
virtio_disk_rw_full(p) ==
  /\ rw[p] = "alloc" /\ ~intr /\ Cardinality(free) < 3
  /\ rw' = [IF free = {} THEN rw ELSE wakeup_free EXCEPT ![p] = "sleep_desc"]
  /\ UNCHANGED <<disk, block, data, busy, free, chain, info, write, avail,
                 used, irq, intr>>

alloc3_desc ==
  LET d1 == first(free)
      d2 == first(free \ {d1})
  IN <<d1, d2, first(free \ {d1, d2})>>

\* alloc3_desc succeeds; the request is made and its process waits for it.
virtio_disk_rw(p, b, w) ==
  LET c == alloc3_desc IN
  /\ rw[p] = "alloc" /\ ~intr /\ Cardinality(free) >= 3
  /\ chain' = [chain EXCEPT ![p] = c]
  /\ free' = free \ {c[j] : j \in 1 .. 3}
  /\ info' = [info EXCEPT ![c[1]] = b]
  /\ write' = [write EXCEPT ![c[1]] = w]
  /\ busy' = [busy EXCEPT ![b] = TRUE]
  /\ avail' = avail \cup {c[1]}
  /\ rw' = [rw EXCEPT ![p] = "sleep_buf"]
  /\ UNCHANGED <<disk, block, data, used, irq, intr>>

\* Mutant of freed: the chain's last descriptor is forgotten.
freed_Two(c) == {c[1], c[2]}

\* free_chain.
freed(c) == {c[j] : j \in 1 .. 3}

\* The end of virtio_disk_rw, when the request is done.
virtio_disk_rw_done(p, b) ==
  /\ rw[p] = "woken" /\ ~intr /\ ~busy[b]
  /\ info' = [info EXCEPT ![chain[p][1]] = None]
  /\ write' = [write EXCEPT ![chain[p][1]] = FALSE]  \* not read again
  /\ free' = free \cup freed(chain[p])
  /\ chain' = [chain EXCEPT ![p] = <<>>]
  /\ rw' = [wakeup_free EXCEPT ![p] = "out"]
  /\ UNCHANGED <<disk, block, data, busy, avail, used, irq, intr>>
-----------------------------------------------------------------------------
\* The device finishes its requests in any order.
device(d) ==
  /\ d \in avail
  /\ LET b == info[d] IN
       IF write[d]
         THEN disk' = [disk EXCEPT ![block[b]] = data[b]] /\ UNCHANGED data
         ELSE data' = [data EXCEPT ![b] = disk[block[b]]] /\ UNCHANGED disk
  /\ avail' = avail \ {d}
  /\ used' = Append(used, d)
  /\ irq' = TRUE
  /\ UNCHANGED <<block, busy, free, chain, info, write, intr, rw>>

\* The handler acquires the lock and acknowledges the interrupt.
virtio_disk_intr ==
  /\ irq /\ ~intr
  /\ intr' = TRUE
  /\ irq' = FALSE
  /\ UNCHANGED <<disk, block, data, busy, free, chain, info, write, avail,
                 used, rw>>

\* One round of its loop: b->disk = 0 and wakeup(b).
virtio_disk_intr_loop ==
  /\ intr /\ used # <<>>
  /\ LET b == info[Head(used)] IN
       /\ busy' = [busy EXCEPT ![b] = FALSE]
       /\ rw' = [q \in Procs |->
                   IF rw[q] = "sleep_buf" /\ info[chain[q][1]] = b
                     THEN "woken" ELSE rw[q]]
  /\ used' = Tail(used)
  /\ UNCHANGED <<disk, block, data, free, chain, info, write, avail, irq, intr>>

\* Mutant of virtio_disk_intr_end: "if" in the place of "while".
virtio_disk_intr_end_If ==
  /\ intr
  /\ intr' = FALSE
  /\ UNCHANGED <<disk, block, data, busy, free, chain, info, write, avail,
                 used, irq, rw>>

virtio_disk_intr_end ==
  /\ intr /\ used = <<>>
  /\ intr' = FALSE
  /\ UNCHANGED <<disk, block, data, busy, free, chain, info, write, avail,
                 used, irq, rw>>
-----------------------------------------------------------------------------
\* Descriptors are neither lost nor in two chains: each is free, or in the
\* chain of exactly one process in virtio_disk_rw (free_desc's panics cannot
\* happen), and what the rings hold are first descriptors of such chains.
ChainsOwned ==
  LET of(p) == {chain[p][j] : j \in DOMAIN chain[p]} IN
  /\ Descs = free \cup UNION {of(p) : p \in Procs}
  /\ \A p, q \in Procs : of(p) \cap free = {} /\ (p # q => of(p) \cap of(q) = {})
  /\ \A d \in avail \cup {used[j] : j \in DOMAIN used} :
       \E p \in Procs : chain[p] # <<>> /\ chain[p][1] = d

\* No completion and no wake-up is lost: a finished request that the driver has
\* not seen has its interrupt pending or its handler running, whoever sleeps on
\* a buffer has a request that is not over, and whoever sleeps for descriptors
\* finds fewer than three.
DiskNotLost ==
  /\ used # <<>> => irq \/ intr
  /\ \A p \in Procs :
       /\ rw[p] = "sleep_buf" => busy[info[chain[p][1]]]
       /\ rw[p] = "sleep_desc" => Cardinality(free) < 3
=============================================================================

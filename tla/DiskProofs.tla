----------------------------- MODULE DiskProofs ------------------------------
(***************************************************************************)
(* Proofs about BufferCache on VirtioDisk, for any number of processes,    *)
(* buffers, blocks and descriptors: no descriptor is lost or shared, no    *)
(* completion and no wake-up is lost, every holder has the block it asked  *)
(* for, and the cache implements BlockStore.                               *)
(***************************************************************************)
EXTENDS BufferCache, FiniteSetTheorems, TLAPS

Waiting == {"sleep_buf", "woken"}   \* a request of its own is under way
Holding == {"bread", "reading", "writing", "held"}

DiskType ==
  /\ disk \in [Blocks -> Values] /\ data \in [Bufs -> Values]
  /\ block \in [Bufs -> Blocks \cup {None}]
  /\ busy \in [Bufs -> BOOLEAN]
  /\ irq \in BOOLEAN /\ intr \in BOOLEAN

RingType ==
  /\ Descs \subseteq Nat
  /\ info \in [Descs -> Bufs \cup {None}] /\ write \in [Descs -> BOOLEAN]
  /\ free \subseteq Descs /\ IsFiniteSet(free)
  /\ avail \subseteq Descs /\ used \in Seq(Descs)
  /\ chain \in [Procs -> {<< >>} \cup (Descs \X Descs \X Descs)]
  /\ rw \in [Procs -> {"out", "alloc", "sleep_desc", "sleep_buf", "woken"}]

LruType == \E n \in Nat : lru \in [1 .. n -> Bufs]

CacheType ==
  /\ LruType
  /\ refcnt \in [Bufs -> Int] /\ valid \in [Bufs -> BOOLEAN]
  /\ locked \in [Bufs -> Procs \cup {None}]
  /\ pc \in [Procs -> Holding \cup {"out", "lock", "locksleep", "brelse"}]
  /\ want \in [Procs -> Blocks \cup {None}] /\ buf \in [Procs -> Bufs \cup {None}]
  /\ dirty \in [Procs -> BOOLEAN] /\ pinned \subseteq Blocks

\* The descriptors of p's chain, and the requests the device has finished.
Of(p) == {chain[p][j] : j \in DOMAIN chain[p]}
Finished == {used[j] : j \in 1 .. Len(used)}

(***************************************************************************)
(* LockInv: where a process is says what it holds.  It does not depend on  *)
(* the driver, and the driver's invariant rests on it: because a buffer's  *)
(* lock has one holder, a buffer has one request.                          *)
(***************************************************************************)
LockInv ==
  /\ \A p \in Procs :
       /\ buf[p] = None <=> pc[p] = "out"
       /\ buf[p] # None => want[p] \in Blocks /\ block[buf[p]] = want[p]
       /\ rw[p] # "out" <=> pc[p] \in {"reading", "writing"}
       /\ pc[p] = "locksleep" => locked[buf[p]] # None
  /\ \A p \in Procs, b \in Bufs : locked[b] = p <=> buf[p] = b /\ pc[p] \in Holding
  /\ \A b, c \in Bufs : block[b] = block[c] /\ block[b] # None => b = c

(***************************************************************************)
(* RingInv: the descriptors are partitioned, a process waits for a request *)
(* exactly while the device or the driver has it, and the request is the   *)
(* one its process made.                                                   *)
(***************************************************************************)
RingInv ==
  /\ Descs = free \cup UNION {Of(p) : p \in Procs}
  /\ \A p, q \in Procs : Of(p) \cap free = {} /\ (p # q => Of(p) \cap Of(q) = {})
  /\ \A p \in Procs :
       /\ chain[p] # << >> <=> rw[p] \in Waiting
       /\ chain[p] # << >> => /\ info[chain[p][1]] = buf[p]
                              /\ write[chain[p][1]] <=> pc[p] = "writing"
       /\ rw[p] = "sleep_buf" => chain[p][1] \in avail \cup Finished
  /\ \A d \in avail \cup Finished :
       \E p \in Procs : rw[p] = "sleep_buf" /\ chain[p][1] = d
  /\ avail \cap Finished = {}
  /\ \A j, k \in 1 .. Len(used) : used[j] = used[k] => j = k

WakeInv ==
  /\ used # << >> => irq \/ intr
  /\ \A p \in Procs : /\ rw[p] = "sleep_buf" => busy[buf[p]]
                      /\ rw[p] = "sleep_desc" => Cardinality(free) < 3

(***************************************************************************)
(* CountInv: refcnt counts the users of a buffer and its pin, so that a    *)
(* buffer with refcnt 0 can be recycled.                                   *)
(***************************************************************************)
Users(b) == {p \in Procs : buf[p] = b}
Pin(b) == IF block[b] \in pinned THEN 1 ELSE 0

CountInv ==
  /\ \A b \in Bufs : /\ IsFiniteSet(Users(b))
                     /\ refcnt[b] = Cardinality(Users(b)) + Pin(b)
  /\ \A k \in pinned : \E b \in Bufs : block[b] = k
  /\ \A p \in Procs : /\ dirty[p] => pc[p] = "held" /\ want[p] \notin pinned
                      /\ pc[p] = "writing" => want[p] \in pinned

(***************************************************************************)
(* DataInv: what is in a buffer, compared with the disk.                   *)
(***************************************************************************)
Clean(b) == block[b] \notin pinned /\ \A p \in Procs : ~(locked[b] = p /\ dirty[p])

DataInv ==
  /\ \A b \in Bufs : valid[b] => /\ block[b] \in Blocks
                                 /\ Clean(b) => data[b] = disk[block[b]]
  /\ \A p \in Procs :
       /\ pc[p] \in {"held", "writing"} => valid[buf[p]]
       /\ pc[p] = "reading" => ~valid[buf[p]]
       /\ chain[p] # << >> /\ chain[p][1] \notin avail
            => data[buf[p]] = disk[block[buf[p]]]

CacheInv ==
  /\ DiskType /\ RingType /\ CacheType
  /\ LockInv /\ RingInv /\ WakeInv /\ CountInv /\ DataInv
-----------------------------------------------------------------------------
(* The choices the code makes: alloc_desc's first free descriptor, bget's  *)
(* least recently used buffer.                                             *)

\* A set of numbers that is not empty has a least element.
LEMMA Least ==
  ASSUME NEW s \in SUBSET Nat, s # {}
  PROVE  \E d \in s : \A e \in s : d <= e
<1>1. PICK d \in s : \A e \in s : ~(<<e, d>> \in OpToRel(<, Nat))
  BY WFMin, NatLessThanWellFounded
<1>2. \A e \in s : ~(e < d)
  BY <1>1 DEF OpToRel
<1> QED
  BY <1>2

\* With three free descriptors alloc3_desc gets three different free ones.
LEMMA Alloc3 ==
  ASSUME RingType, Cardinality(free) >= 3
  PROVE  \E d1, d2, d3 \in free : /\ alloc3_desc = <<d1, d2, d3>>
                                  /\ d1 # d2 /\ d1 # d3 /\ d2 # d3
<1>1. ASSUME NEW s \in SUBSET free, s # {} PROVE first(s) \in s
  <2>1. \E d \in s : \A e \in s : d <= e
    BY <1>1, Least DEF RingType
  <2> QED
    BY <2>1 DEF first
<1>2. \A d \in free : /\ IsFiniteSet(free \ {d})
                      /\ Cardinality(free \ {d}) = Cardinality(free) - 1
  BY FS_RemoveElement DEF RingType
<1>3. \A d, e \in free : d # e => Cardinality(free \ {d, e}) = Cardinality(free) - 2
  <2> TAKE d, e \in free
  <2> HAVE d # e
  <2>1. free \ {d, e} = (free \ {d}) \ {e} /\ e \in free \ {d}
    OBVIOUS
  <2>2. Cardinality((free \ {d}) \ {e}) = Cardinality(free \ {d}) - 1
    BY <1>2, <2>1, FS_RemoveElement
  <2>3. Cardinality(free) \in Nat
    BY FS_CardinalityType DEF RingType
  <2> QED
    BY <1>2, <2>1, <2>2, <2>3
<1>4. Cardinality(free) \in Nat /\ Cardinality({}) = 0
  BY FS_CardinalityType, FS_EmptySet DEF RingType
<1> DEFINE d1 == first(free)
           d2 == first(free \ {d1})
           d3 == first(free \ {d1, d2})
<1>5. d1 \in free
  BY <1>1, <1>4
<1>6. d2 \in free \ {d1}
  <2>1. free \ {d1} # {}
    BY <1>2, <1>4, <1>5
  <2> QED
    BY <1>1, <2>1
<1>7. d3 \in free \ {d1, d2}
  <2>1. free \ {d1, d2} # {}
    BY <1>3, <1>4, <1>5, <1>6
  <2> QED
    BY <1>1, <2>1
<1> QED
  BY <1>5, <1>6, <1>7 DEF alloc3_desc

\* A buffer that bget recycles is not referred to.
LEMMA VictimUnused ==
  ASSUME CacheType, Unused # {}
  PROVE  Victim \in Bufs /\ refcnt[Victim] = 0
<1>1. PICK n \in Nat : lru \in [1 .. n -> Bufs]
  BY DEF CacheType, LruType
<1>2. Unused \subseteq 1 .. n
  BY <1>1 DEF Unused
<1>3. \E j \in Unused : \A i \in Unused : i <= j
  <2> DEFINE s == {n - j : j \in Unused}
  <2>0. \A j \in Unused : n - j \in Nat
    BY <1>2
  <2>1. s \in SUBSET Nat /\ s # {}
    BY <2>0
  <2>2. PICK d \in s : \A e \in s : d <= e
    BY <2>1, Least
  <2>3. PICK j \in Unused : d = n - j
    BY <2>2
  <2>4. \A i \in Unused : n - i \in s
    OBVIOUS
  <2>5. \A i \in Unused : d <= n - i
    BY <2>2, <2>4
  <2>6. \A i \in Unused : i <= j
    BY <1>2, <2>3, <2>5
  <2> QED
    BY <2>6
<1> QED
  BY <1>1, <1>3 DEF Victim, Unused
-----------------------------------------------------------------------------
(* What the invariant says of a process that waits for a request.          *)

\* A process with a chain is in the middle of a request for its buffer.
LEMMA Request ==
  ASSUME CacheInv, NEW p \in Procs, chain[p] # << >>
  PROVE  /\ \E d, e, f \in Descs : chain[p] = <<d, e, f>> /\ Of(p) = {d, e, f}
         /\ chain[p][1] \in Descs /\ chain[p][1] \in Of(p)
         /\ rw[p] \in Waiting
         /\ info[chain[p][1]] = buf[p] /\ buf[p] \in Bufs
         /\ pc[p] \in {"reading", "writing"}
         /\ locked[buf[p]] = p
         /\ block[buf[p]] = want[p] /\ want[p] \in Blocks
<1>a. RingType /\ CacheType /\ RingInv /\ LockInv
  BY DEF CacheInv
<1>1. chain[p] \in Descs \X Descs \X Descs
  BY <1>a DEF RingType
<1>2. PICK d, e, f \in Descs : chain[p] = <<d, e, f>>
  BY <1>1
<1>3. Of(p) = {d, e, f}
  <2>1. DOMAIN chain[p] = {1, 2, 3}
    BY <1>2
  <2> QED
    BY <1>2, <2>1 DEF Of
<1>4. rw[p] \in Waiting /\ info[chain[p][1]] = buf[p]
  BY <1>a DEF RingInv
<1>5. pc[p] \in {"reading", "writing"}
  BY <1>a, <1>4 DEF LockInv, Waiting
<1>6. buf[p] \in Bufs /\ want[p] \in Blocks /\ block[buf[p]] = want[p]
  BY <1>a, <1>5 DEF LockInv, CacheType
<1>7. locked[buf[p]] = p
  BY <1>a, <1>5, <1>6 DEF LockInv, Holding
<1> QED
  BY <1>2, <1>3, <1>4, <1>5, <1>6, <1>7

\* A request has one process, and a buffer one request.
LEMMA OneRequest ==
  ASSUME CacheInv, NEW p \in Procs, NEW q \in Procs,
         chain[p] # << >>, chain[q] # << >>,
         buf[p] = buf[q] \/ chain[p][1] = chain[q][1]
  PROVE  p = q
<1>1. CASE buf[p] = buf[q]
  <2>1. locked[buf[p]] = p /\ locked[buf[p]] = q
    BY <1>1, Request
  <2> QED
    BY <2>1
<1>2. CASE chain[p][1] = chain[q][1]
  <2>1. chain[p][1] \in Of(p) /\ chain[p][1] \in Of(q)
    BY <1>2, Request
  <2> QED
    BY <2>1 DEF CacheInv, RingInv
<1> QED
  BY <1>1, <1>2
-----------------------------------------------------------------------------
\* binit and virtio_disk_init.
LEMMA CacheInit == Init => CacheInv
<1> SUFFICES ASSUME Init PROVE CacheInv
  OBVIOUS
<1>1. DiskType
  BY ValuesAssumption DEF DiskType, Init, VDInit
<1>2. PICK n \in NUM : /\ free = 0 .. n - 1 /\ info = [d \in 0 .. n - 1 |-> None]
                       /\ write = [d \in 0 .. n - 1 |-> FALSE]
  BY DEF Init, VDInit
<1>3. n \in Nat /\ Descs = 0 .. n - 1
  BY <1>2, NUMAssumption DEF Descs
<1>4. /\ avail = {} /\ used = << >> /\ irq = FALSE /\ intr = FALSE /\ pinned = {}
      /\ \A p \in Procs : /\ chain[p] = << >> /\ rw[p] = "out" /\ pc[p] = "out"
                          /\ buf[p] = None /\ dirty[p] = FALSE
      /\ \A b \in Bufs : /\ block[b] = None /\ locked[b] = None
                         /\ valid[b] = FALSE /\ refcnt[b] = 0
  BY DEF Init, VDInit
<1>5. RingType
  <2>1. /\ chain \in [Procs -> {<< >>} \cup (Descs \X Descs \X Descs)]
        /\ rw \in [Procs -> {"out", "alloc", "sleep_desc", "sleep_buf", "woken"}]
    BY DEF Init, VDInit
  <2>2. IsFiniteSet(free)
    BY <1>2, <1>3, FS_Interval
  <2>3. /\ info \in [Descs -> Bufs \cup {None}] /\ write \in [Descs -> BOOLEAN]
        /\ free \subseteq Descs /\ Descs \subseteq Nat
    BY <1>2, <1>3
  <2>4. avail \subseteq Descs /\ used \in Seq(Descs)
    BY <1>4
  <2> QED
    BY <2>1, <2>2, <2>3, <2>4 DEF RingType
<1>6. CacheType
  <2>1. Cardinality(Bufs) \in Nat /\ ExistsBijection(1 .. Cardinality(Bufs), Bufs)
    BY BufsAssumption, FS_CardinalityType
  <2>2. PICK f \in [1 .. Cardinality(Bufs) -> Bufs] :
          \A b \in Bufs : \E j \in 1 .. Cardinality(Bufs) : f[j] = b
    BY <2>1 DEF ExistsBijection, Bijection, Surjection
  <2>3. DOMAIN f = 1 .. Cardinality(Bufs)
    BY <2>2
  <2>4. lru \in [1 .. Cardinality(Bufs) -> Bufs]
    BY <2>2, <2>3 DEF Init
  <2>5. /\ refcnt \in [Bufs -> Int] /\ valid \in [Bufs -> BOOLEAN]
        /\ locked \in [Bufs -> Procs \cup {None}] /\ pinned \subseteq Blocks
    BY DEF Init
  <2>6. /\ pc \in [Procs -> Holding \cup {"out", "lock", "locksleep", "brelse"}]
        /\ want \in [Procs -> Blocks \cup {None}]
        /\ buf \in [Procs -> Bufs \cup {None}] /\ dirty \in [Procs -> BOOLEAN]
    BY DEF Init
  <2> QED
    BY <2>1, <2>4, <2>5, <2>6 DEF CacheType, LruType
<1>7. LockInv /\ WakeInv
  BY <1>4, NoneAssumption DEF LockInv, WakeInv, Holding
<1>8. RingInv
  <2>1. \A p \in Procs : Of(p) = {}
    BY <1>4 DEF Of
  <2>2. Finished = {} /\ Len(used) = 0
    BY <1>4 DEF Finished
  <2> QED
    BY <1>2, <1>3, <1>4, <2>1, <2>2 DEF RingInv, Waiting
<1>9. CountInv
  <2>1. \A b \in Bufs : Users(b) = {} /\ Pin(b) = 0
    BY <1>4, NoneAssumption DEF Users, Pin
  <2>2. \A b \in Bufs : IsFiniteSet(Users(b)) /\ Cardinality(Users(b)) = 0
    BY <2>1, FS_EmptySet
  <2> QED
    BY <1>4, <2>1, <2>2 DEF CountInv
<1>10. DataInv
  BY <1>4 DEF DataInv
<1> QED
  BY <1>1, <1>5, <1>6, <1>7, <1>8, <1>9, <1>10 DEF CacheInv
-----------------------------------------------------------------------------
(* Steps outside the driver.                                               *)

\* The driver's state is left alone, and so is where its callers are.
DriverAlone ==
  /\ UNCHANGED <<free, chain, info, write, avail, used>>
  /\ \A p \in Procs :
       /\ rw'[p] = rw[p] \/ (rw[p] = "out" /\ rw'[p] = "alloc")
       /\ rw[p] # "out" => pc'[p] = pc[p] /\ buf'[p] = buf[p]

\* Such a step keeps what is said of the rings.
LEMMA RingFrame ==
  ASSUME CacheInv, DriverAlone
  PROVE  RingInv'
<1>a. RingInv
  BY DEF CacheInv
<1> USE DEF DriverAlone
<1>0. Descs' = Descs /\ Finished' = Finished /\ \A p \in Procs : Of(p)' = Of(p)
  BY DEF Descs, Finished, Of
<1>1. \A p \in Procs : /\ rw'[p] \in Waiting <=> rw[p] \in Waiting
                       /\ rw'[p] = "sleep_buf" <=> rw[p] = "sleep_buf"
  BY DEF Waiting
<1>2. (Descs = free \cup UNION {Of(p) : p \in Procs})'
  BY <1>a, <1>0 DEF RingInv
<1>3. \A p, q \in Procs : Of(p)' \cap free' = {} /\ (p # q => Of(p)' \cap Of(q)' = {})
  BY <1>a, <1>0 DEF RingInv
<1>4. ASSUME NEW p \in Procs
      PROVE  /\ chain'[p] # << >> <=> rw'[p] \in Waiting
             /\ chain'[p] # << >> => /\ info'[chain'[p][1]] = buf'[p]
                                     /\ write'[chain'[p][1]] <=> pc'[p] = "writing"
             /\ rw'[p] = "sleep_buf" => chain'[p][1] \in avail' \cup Finished'
  BY <1>a, <1>0, <1>1 DEF RingInv, Waiting
<1>5. \A d \in avail' \cup Finished' :
        \E p \in Procs : rw'[p] = "sleep_buf" /\ chain'[p][1] = d
  BY <1>a, <1>0, <1>1 DEF RingInv
<1>6. avail' \cap Finished' = {}
  BY <1>a, <1>0 DEF RingInv
<1>7. \A j, k \in 1 .. Len(used') : used'[j] = used'[k] => j = k
  BY <1>a DEF RingInv
<1> QED
  BY <1>2, <1>3, <1>4, <1>5, <1>6, <1>7 DEF RingInv

\* And what is said of wake-ups, if no request ends.
LEMMA DriverFrame ==
  ASSUME CacheInv, DriverAlone, UNCHANGED <<busy, irq, intr>>
  PROVE  RingInv' /\ WakeInv'
<1>1. WakeInv'
  BY DEF CacheInv, WakeInv, DriverAlone
<1> QED
  BY <1>1, RingFrame

\* Who holds a buffer's lock is its only user in the driver, and knows its block.
LEMMA Holder ==
  ASSUME CacheInv, NEW p \in Procs, pc[p] \in Holding
  PROVE  /\ buf[p] \in Bufs /\ locked[buf[p]] = p
         /\ want[p] \in Blocks /\ block[buf[p]] = want[p]
         /\ \A q \in Procs : q # p /\ buf[q] = buf[p] => pc[q] \notin Holding /\ rw[q] = "out"
         /\ \A q \in Procs : q # p /\ pc[q] \in Holding => want[q] # want[p]
<1>a. CacheType /\ LockInv
  BY DEF CacheInv
<1>1. buf[p] \in Bufs /\ locked[buf[p]] = p /\ want[p] \in Blocks /\ block[buf[p]] = want[p]
  BY <1>a DEF CacheType, LockInv, Holding
<1>2. ASSUME NEW q \in Procs, q # p, buf[q] = buf[p]
      PROVE  pc[q] \notin Holding /\ rw[q] = "out"
  BY <1>a, <1>1, <1>2 DEF LockInv, Holding
<1>3. ASSUME NEW q \in Procs, q # p, pc[q] \in Holding PROVE want[q] # want[p]
  <2>1. buf[q] \in Bufs /\ want[q] \in Blocks /\ block[buf[q]] = want[q]
    BY <1>a, <1>3 DEF CacheType, LockInv, Holding
  <2>2. buf[q] # buf[p]
    BY <1>2, <1>3
  <2> QED
    BY <1>a, <1>1, <2>1, <2>2, NoneAssumption DEF LockInv
<1> QED
  BY <1>1, <1>2, <1>3

\* bget finds the block in the cache.
LEMMA HitStep ==
  ASSUME CacheInv, NEW p \in Procs, NEW k \in Blocks, bget_hit(p, k)
  PROVE  CacheInv'
<1>a. DiskType /\ RingType /\ CacheType /\ LockInv /\ RingInv /\ CountInv /\ DataInv
  BY DEF CacheInv
<1>1. PICK b \in Bufs : /\ block[b] = k
                        /\ refcnt' = [refcnt EXCEPT ![b] = @ + 1]
                        /\ buf' = [buf EXCEPT ![p] = b]
  BY DEF bget_hit, Cached
<1>2. /\ want' = [want EXCEPT ![p] = k] /\ pc' = [pc EXCEPT ![p] = "lock"]
      /\ pc[p] = "out" /\ buf[p] = None /\ rw[p] = "out" /\ ~dirty[p]
      /\ UNCHANGED <<vdvars, valid, locked, lru, dirty, pinned>>
  BY <1>a DEF bget_hit, goto, LockInv, CountInv
<1>3. DiskType' /\ RingType'
  BY <1>a, <1>2 DEF vdvars, DiskType, RingType, Descs
<1>4. CacheType'
  <2>1. LruType'
    BY <1>a, <1>2 DEF CacheType, LruType
  <2> QED
    BY <1>a, <1>1, <1>2, <2>1 DEF CacheType
<1>5. LockInv'
  BY <1>a, <1>1, <1>2, NoneAssumption DEF LockInv, CacheType, vdvars, Holding
<1>6. DriverAlone /\ UNCHANGED <<busy, irq, intr>>
  <2>1. UNCHANGED <<free, chain, info, write, avail, used, rw, busy, irq, intr>>
    BY <1>2 DEF vdvars
  <2>2. \A q \in Procs \ {p} : pc'[q] = pc[q] /\ buf'[q] = buf[q]
    BY <1>a, <1>1, <1>2 DEF CacheType
  <2> QED
    BY <1>2, <2>1, <2>2 DEF DriverAlone
<1>7. CountInv'
  <2>1. Users(b)' = Users(b) \cup {p} /\ p \notin Users(b)
    BY <1>a, <1>1, <1>2, NoneAssumption DEF Users, CacheType
  <2>2. \A c \in Bufs : c # b => Users(c)' = Users(c)
    BY <1>a, <1>1, <1>2, NoneAssumption DEF Users, CacheType
  <2>3. IsFiniteSet(Users(b)') /\ Cardinality(Users(b)') = Cardinality(Users(b)) + 1
    BY <1>a, <2>1, FS_AddElement DEF CountInv
  <2>4. \A c \in Bufs : Pin(c)' = Pin(c) /\ Pin(c) \in Nat
    BY <1>2 DEF Pin, vdvars
  <2>5. Cardinality(Users(b)) \in Nat
    BY <1>a, FS_CardinalityType DEF CountInv
  <2>6. \A c \in Bufs : IsFiniteSet(Users(c)') /\ refcnt'[c] = Cardinality(Users(c)') + Pin(c)'
    BY <1>a, <1>1, <2>2, <2>3, <2>4, <2>5 DEF CountInv, CacheType
  <2>7. \A c \in pinned' : \E d \in Bufs : block'[d] = c
    BY <1>a, <1>2 DEF CountInv, vdvars
  <2>8. \A q \in Procs : /\ dirty'[q] => pc'[q] = "held" /\ want'[q] \notin pinned'
                         /\ pc'[q] = "writing" => want'[q] \in pinned'
    BY <1>a, <1>2 DEF CountInv, CacheType
  <2> QED
    BY <2>6, <2>7, <2>8 DEF CountInv
<1>8. DataInv'
  <2>1. UNCHANGED <<disk, block, data, chain, avail, valid, locked, dirty, pinned>>
    BY <1>2 DEF vdvars
  <2>2. \A q \in Procs \ {p} : pc'[q] = pc[q] /\ buf'[q] = buf[q]
    BY <1>a, <1>1, <1>2 DEF CacheType
  <2>3. pc'[p] = "lock" /\ chain[p] = << >>
    <3>1. pc'[p] = "lock"
      BY <1>a, <1>2 DEF CacheType
    <3> QED
      BY <1>a, <1>2, <3>1 DEF RingInv, Waiting
  <2>4. \A c \in Bufs : Clean(c)' <=> Clean(c)
    BY <2>1 DEF Clean
  <2> QED
    BY <1>a, <2>1, <2>2, <2>3, <2>4 DEF DataInv
<1> QED
  BY <1>3, <1>4, <1>5, <1>6, <1>7, <1>8, DriverFrame DEF CacheInv

\* bget recycles a buffer.
LEMMA RecycleStep ==
  ASSUME CacheInv, NEW p \in Procs, NEW k \in Blocks, bget_recycle(p, k)
  PROVE  CacheInv'
<1>a. DiskType /\ RingType /\ CacheType /\ LockInv /\ RingInv /\ CountInv /\ DataInv
  BY DEF CacheInv
<1>0. PICK b \in Bufs : b = Victim /\ refcnt[b] = 0
  BY <1>a, VictimUnused DEF bget_recycle
<1>1. /\ block' = [block EXCEPT ![b] = k] /\ valid' = [valid EXCEPT ![b] = FALSE]
      /\ refcnt' = [refcnt EXCEPT ![b] = 1] /\ buf' = [buf EXCEPT ![p] = b]
      /\ want' = [want EXCEPT ![p] = k] /\ pc' = [pc EXCEPT ![p] = "lock"]
      /\ UNCHANGED <<disk, data, busy, free, chain, info, write, avail, used, irq,
                     intr, rw, locked, lru, dirty, pinned>>
      /\ \A c \in Bufs : block[c] # k
  BY <1>0 DEF bget_recycle, goto, Cached
<1>2. pc[p] = "out" /\ buf[p] = None /\ rw[p] = "out" /\ ~dirty[p]
  BY <1>a DEF bget_recycle, LockInv, CountInv
<1>3. /\ Users(b) = {} /\ block[b] \notin pinned /\ k \notin pinned
      /\ \A q \in Procs : buf[q] # b
  <2>1. Cardinality(Users(b)) \in Nat /\ Pin(b) \in {0, 1}
    BY <1>a, <1>0, FS_CardinalityType DEF CountInv, Pin
  <2>2. Cardinality(Users(b)) = 0 /\ Pin(b) = 0
    BY <1>a, <1>0, <2>1 DEF CountInv
  <2>3. Users(b) = {}
    BY <1>a, <1>0, <2>2, FS_EmptySet DEF CountInv
  <2> QED
    BY <1>a, <1>0, <1>1, <2>2, <2>3 DEF Users, Pin, CountInv
<1>4. DiskType' /\ RingType'
  BY <1>a, <1>0, <1>1 DEF DiskType, RingType, Descs
<1>5. CacheType'
  <2>1. LruType'
    BY <1>a, <1>1 DEF CacheType, LruType
  <2> QED
    BY <1>a, <1>1, <2>1 DEF CacheType
<1>6. LockInv'
  <2>1. \A q \in Procs : q # p => /\ buf'[q] = buf[q] /\ want'[q] = want[q] /\ pc'[q] = pc[q]
                                  /\ buf[q] # None => block'[buf[q]] = block[buf[q]]
    BY <1>a, <1>0, <1>1, <1>3 DEF CacheType, DiskType
  <2>2. buf'[p] = b /\ want'[p] = k /\ pc'[p] = "lock" /\ block'[b] = k
    BY <1>a, <1>0, <1>1 DEF CacheType, DiskType
  <2>3. \A c, d \in Bufs : block'[c] = block'[d] /\ block'[c] # None => c = d
    BY <1>a, <1>0, <1>1 DEF LockInv, DiskType
  <2>4. \A q \in Procs, c \in Bufs : locked'[c] = q <=> buf'[q] = c /\ pc'[q] \in Holding
    BY <1>a, <1>1, <1>2, <2>1, <2>2 DEF LockInv, Holding
  <2> QED
    BY <1>a, <1>0, <1>1, <1>2, <2>1, <2>2, <2>3, <2>4, NoneAssumption DEF LockInv
<1>7. DriverAlone /\ UNCHANGED <<busy, irq, intr>>
  <2>1. \A q \in Procs \ {p} : pc'[q] = pc[q] /\ buf'[q] = buf[q]
    BY <1>a, <1>1 DEF CacheType
  <2> QED
    BY <1>1, <1>2, <2>1 DEF DriverAlone
<1>8. CountInv'
  <2>1. Users(b)' = {p}
    BY <1>a, <1>0, <1>1, <1>3 DEF Users, CacheType
  <2>2. \A c \in Bufs : c # b => Users(c)' = Users(c) /\ Pin(c)' = Pin(c)
    BY <1>a, <1>0, <1>1, <1>2, NoneAssumption DEF Users, CacheType, DiskType, Pin
  <2>3. Pin(b)' = 0
    BY <1>a, <1>0, <1>1, <1>3 DEF Pin, DiskType
  <2>4. IsFiniteSet(Users(b)') /\ Cardinality(Users(b)') = 1
    BY <2>1, FS_Singleton
  <2>5. \A c \in Bufs : IsFiniteSet(Users(c)') /\ refcnt'[c] = Cardinality(Users(c)') + Pin(c)'
    BY <1>a, <1>0, <1>1, <2>2, <2>3, <2>4 DEF CountInv, CacheType
  <2>6. \A c \in pinned' : \E d \in Bufs : block'[d] = c
    BY <1>a, <1>0, <1>1, <1>3 DEF CountInv, DiskType
  <2>7. \A q \in Procs : /\ dirty'[q] => pc'[q] = "held" /\ want'[q] \notin pinned'
                         /\ pc'[q] = "writing" => want'[q] \in pinned'
    BY <1>a, <1>1, <1>2 DEF CountInv, CacheType
  <2> QED
    BY <2>5, <2>6, <2>7 DEF CountInv
<1>9. DataInv'
  <2>1. \A c \in Bufs : c # b => /\ block'[c] = block[c] /\ valid'[c] = valid[c]
                                 /\ Clean(c)' <=> Clean(c)
    BY <1>a, <1>0, <1>1 DEF DiskType, CacheType, Clean
  <2>2. ~valid'[b]
    BY <1>a, <1>0, <1>1 DEF CacheType
  <2>3. \A c \in Bufs : valid'[c] => /\ block'[c] \in Blocks
                                     /\ Clean(c)' => data'[c] = disk'[block'[c]]
    BY <1>a, <1>1, <2>1, <2>2 DEF DataInv
  <2>4. ASSUME NEW q \in Procs
        PROVE  /\ pc'[q] \in {"held", "writing"} => valid'[buf'[q]]
               /\ pc'[q] = "reading" => ~valid'[buf'[q]]
               /\ chain'[q] # << >> /\ chain'[q][1] \notin avail'
                    => data'[buf'[q]] = disk'[block'[buf'[q]]]
    <3>1. CASE q = p
      <4>1. pc'[p] = "lock" /\ chain'[p] = << >>
        BY <1>a, <1>1, <1>2 DEF CacheType, RingInv, Waiting
      <4> QED
        BY <3>1, <4>1
    <3>2. CASE q # p
      <4>1. buf'[q] = buf[q] /\ pc'[q] = pc[q] /\ buf[q] # b
        BY <1>a, <1>1, <1>3, <3>2 DEF CacheType
      <4>2. buf[q] \in Bufs => block'[buf[q]] = block[buf[q]] /\ valid'[buf[q]] = valid[buf[q]]
        BY <2>1, <4>1
      <4>3. pc[q] # "out" => buf[q] \in Bufs
        BY <1>a DEF LockInv, CacheType
      <4>4. chain[q] # << >> => buf[q] \in Bufs
        BY Request
      <4> QED
        BY <1>a, <1>1, <4>1, <4>2, <4>3, <4>4 DEF DataInv
    <3> QED
      BY <3>1, <3>2
  <2> QED
    BY <2>3, <2>4 DEF DataInv
<1> QED
  BY <1>4, <1>5, <1>6, <1>7, <1>8, <1>9, DriverFrame DEF CacheInv

\* p moves on without a change of any buffer's content, users or pins.
LEMMA PcStep ==
  ASSUME CacheInv, NEW p \in Procs, ~dirty[p], pc[p] \notin {"reading", "writing"},
         UNCHANGED <<disk, block, data, busy, free, chain, info, write, avail,
                     used, irq, intr, refcnt, valid, lru, want, buf, dirty, pinned>>,
         rw' = rw \/ rw' = [rw EXCEPT ![p] = "alloc"],
         locked' \in [Bufs -> Procs \cup {None}],
         pc' \in [Procs -> Holding \cup {"out", "lock", "locksleep", "brelse"}],
         \A q \in Procs \ {p} :
           pc'[q] = pc[q] \/ (pc[q] = "locksleep" /\ pc'[q] = "lock"),
         pc'[p] \in {"held", "writing"} => valid[buf[p]],
         pc'[p] = "reading" => ~valid[buf[p]],
         pc'[p] = "writing" => want[p] \in pinned,
         LockInv'
  PROVE  CacheInv'
<1>a. DiskType /\ RingType /\ CacheType /\ LockInv /\ RingInv /\ CountInv /\ DataInv
  BY DEF CacheInv
<1>1. DiskType' /\ RingType'
  BY <1>a DEF DiskType, RingType, Descs
<1>2. CacheType'
  <2>1. LruType'
    BY <1>a DEF CacheType, LruType
  <2> QED
    BY <1>a, <2>1 DEF CacheType
<1>3. rw[p] = "out" /\ \A q \in Procs \ {p} : rw'[q] = rw[q]
  BY <1>a DEF LockInv, RingType
<1>4. DriverAlone
  <2>1. \A q \in Procs : rw[q] # "out" => pc[q] \in {"reading", "writing"} /\ q # p
    BY <1>a, <1>3 DEF LockInv
  <2>2. rw'[p] \in {"out", "alloc"}
    BY <1>a, <1>3 DEF RingType
  <2> QED
    BY <1>3, <2>1, <2>2 DEF DriverAlone
<1>5. CountInv'
  <2>1. \A b \in Bufs : Users(b)' = Users(b) /\ Pin(b)' = Pin(b)
    BY DEF Users, Pin
  <2>2. \A q \in Procs : /\ dirty'[q] => pc'[q] = "held" /\ want'[q] \notin pinned'
                         /\ pc'[q] = "writing" => want'[q] \in pinned'
    BY <1>a DEF CountInv
  <2>3. \A k \in pinned' : \E b \in Bufs : block'[b] = k
    BY <1>a DEF CountInv
  <2>4. \A b \in Bufs : IsFiniteSet(Users(b)') /\ refcnt'[b] = Cardinality(Users(b)') + Pin(b)'
    BY <1>a, <2>1 DEF CountInv
  <2> QED
    BY <2>2, <2>3, <2>4 DEF CountInv
<1>6. DataInv'
  <2>1. \A q \in Procs, b \in Bufs : dirty[q] => (locked'[b] = q <=> locked[b] = q)
    BY <1>a DEF LockInv, CountInv, Holding
  <2>2. \A b \in Bufs : Clean(b)' <=> Clean(b)
    BY <2>1 DEF Clean
  <2>3. chain[p] = << >>
    BY <1>a, <1>3 DEF RingInv, Waiting
  <2>4. \A b \in Bufs : valid'[b] => /\ block'[b] \in Blocks
                                     /\ Clean(b)' => data'[b] = disk'[block'[b]]
    BY <1>a, <2>2 DEF DataInv
  <2>5. \A q \in Procs : /\ pc'[q] \in {"held", "writing"} => valid'[buf'[q]]
                         /\ pc'[q] = "reading" => ~valid'[buf'[q]]
                         /\ chain'[q] # << >> /\ chain'[q][1] \notin avail'
                              => data'[buf'[q]] = disk'[block'[buf'[q]]]
    BY <1>a, <2>3 DEF DataInv
  <2> QED
    BY <2>4, <2>5 DEF DataInv
<1> QED
  BY <1>1, <1>2, <1>4, <1>5, <1>6, DriverFrame DEF CacheInv

\* acquiresleep sleeps, or takes the lock.
LEMMA AcquireStep ==
  ASSUME CacheInv, NEW p \in Procs, acquiresleep(p)
  PROVE  CacheInv'
<1>a. DiskType /\ CacheType /\ LockInv /\ CountInv
  BY DEF CacheInv
<1>1. /\ pc[p] = "lock" /\ ~dirty[p] /\ buf[p] \in Bufs
      /\ UNCHANGED <<disk, block, data, busy, free, chain, info, write, avail,
                     used, irq, intr, rw>>
      /\ UNCHANGED <<refcnt, valid, lru, want, buf, dirty, pinned>>
  BY <1>a DEF acquiresleep, vdvars, LockInv, CountInv, CacheType
<1>2. /\ locked' \in [Bufs -> Procs \cup {None}]
      /\ pc' \in [Procs -> Holding \cup {"out", "lock", "locksleep", "brelse"}]
      /\ \A q \in Procs \ {p} : pc'[q] = pc[q]
      /\ pc'[p] \in {"locksleep", "bread"}
  BY <1>a, <1>1 DEF acquiresleep, goto, CacheType, Holding
<1>3. LockInv'
  <2>1. CASE locked[buf[p]] # None /\ goto(p, "locksleep") /\ UNCHANGED locked
    BY <1>a, <1>1, <2>1 DEF LockInv, goto, CacheType, Holding
  <2>2. CASE /\ locked[buf[p]] = None /\ goto(p, "bread")
             /\ locked' = [locked EXCEPT ![buf[p]] = p]
    <3>1. pc'[p] = "bread" /\ \A c \in Bufs : locked'[c] = IF c = buf[p] THEN p ELSE locked[c]
      BY <1>a, <1>1, <2>2 DEF goto, CacheType
    <3>2. ASSUME NEW q \in Procs, NEW c \in Bufs
          PROVE  locked'[c] = q <=> buf'[q] = c /\ pc'[q] \in Holding
      BY <1>a, <1>1, <1>2, <2>2, <3>1, NoneAssumption DEF LockInv, Holding
    <3>3. ASSUME NEW q \in Procs
          PROVE  /\ buf'[q] = None <=> pc'[q] = "out"
                 /\ buf'[q] # None => want'[q] \in Blocks /\ block'[buf'[q]] = want'[q]
                 /\ rw'[q] # "out" <=> pc'[q] \in {"reading", "writing"}
      BY <1>a, <1>1, <1>2, <3>1 DEF LockInv
    <3>4. ASSUME NEW q \in Procs, pc'[q] = "locksleep" PROVE locked'[buf'[q]] # None
      <4>1. q # p /\ pc[q] = "locksleep" /\ buf[q] \in Bufs
        BY <1>a, <1>2, <3>1, <3>4 DEF LockInv, CacheType
      <4> QED
        BY <1>a, <1>1, <3>1, <4>1, NoneAssumption DEF LockInv
    <3>5. \A b, c \in Bufs : block'[b] = block'[c] /\ block'[b] # None => b = c
      BY <1>a, <1>1 DEF LockInv
    <3> QED
      BY <3>2, <3>3, <3>4, <3>5 DEF LockInv
  <2> QED
    BY <2>1, <2>2 DEF acquiresleep
<1> QED
  BY <1>1, <1>2, <1>3, PcStep

\* bread finds the buffer valid or starts to read it; bwrite starts to write it.
LEMMA StartStep ==
  ASSUME CacheInv, NEW p \in Procs, bread(p) \/ bwrite(p)
  PROVE  CacheInv'
<1>a. DiskType /\ RingType /\ CacheType /\ LockInv /\ CountInv /\ DataInv
  BY DEF CacheInv
<1>1. /\ pc[p] \in {"bread", "held"} /\ ~dirty[p] /\ buf[p] \in Bufs
      /\ UNCHANGED <<refcnt, valid, locked, lru, want, buf, dirty, pinned>>
  BY <1>a DEF bread, bwrite, LockInv, CountInv, CacheType
<1>2. \/ valid[buf[p]] /\ pc' = [pc EXCEPT ![p] = "held"] /\ UNCHANGED vdvars
      \/ ~valid[buf[p]] /\ start(p, "reading")
      \/ /\ want[p] \in pinned /\ valid[buf[p]] /\ start(p, "writing")
  BY <1>a DEF bread, bwrite, goto, DataInv
<1>3. /\ UNCHANGED <<disk, block, data, busy, free, chain, info, write, avail,
                     used, irq, intr>>
      /\ rw' = rw \/ rw' = [rw EXCEPT ![p] = "alloc"]
  BY <1>2 DEF vdvars, start
<1>4. /\ locked' \in [Bufs -> Procs \cup {None}]
      /\ pc' \in [Procs -> Holding \cup {"out", "lock", "locksleep", "brelse"}]
      /\ \A q \in Procs \ {p} : pc'[q] = pc[q]
  BY <1>a, <1>1, <1>2 DEF start, goto, CacheType, Holding
<1>5. /\ pc'[p] = "held" => valid[buf[p]] /\ rw'[p] = rw[p]
      /\ pc'[p] = "reading" => ~valid[buf[p]] /\ rw'[p] = "alloc"
      /\ pc'[p] = "writing" => want[p] \in pinned /\ valid[buf[p]] /\ rw'[p] = "alloc"
      /\ pc'[p] \in {"held", "reading", "writing"}
      /\ \A q \in Procs \ {p} : rw'[q] = rw[q]
  <2>1. CASE valid[buf[p]] /\ pc' = [pc EXCEPT ![p] = "held"] /\ UNCHANGED vdvars
    BY <1>a, <2>1 DEF vdvars, CacheType, RingType
  <2>2. CASE ~valid[buf[p]] /\ start(p, "reading")
    BY <1>a, <2>2 DEF start, goto, CacheType, RingType
  <2>3. CASE want[p] \in pinned /\ valid[buf[p]] /\ start(p, "writing")
    BY <1>a, <2>3 DEF start, goto, CacheType, RingType
  <2> QED
    BY <1>2, <2>1, <2>2, <2>3
<1>6. LockInv'
  BY <1>a, <1>1, <1>3, <1>4, <1>5 DEF LockInv, Holding
<1> QED
  BY <1>1, <1>3, <1>4, <1>5, <1>6, PcStep

\* releasesleep wakes whoever sleeps for the buffer.
LEMMA ReleaseStep ==
  ASSUME CacheInv, NEW p \in Procs, releasesleep(p)
  PROVE  CacheInv'
<1>a. DiskType /\ CacheType /\ LockInv
  BY DEF CacheInv
<1>0. buf[p] \in Bufs /\ locked[buf[p]] = p
  BY Holder DEF releasesleep, Holding
<1>1. /\ pc[p] = "held" /\ ~dirty[p]
      /\ locked' = [locked EXCEPT ![buf[p]] = None]
      /\ pc' = [woken_by(buf[p]) EXCEPT ![p] = "brelse"]
      /\ UNCHANGED <<disk, block, data, busy, free, chain, info, write, avail,
                     used, irq, intr, rw>>
      /\ UNCHANGED <<refcnt, valid, lru, want, buf, dirty, pinned>>
  BY <1>a DEF releasesleep, vdvars
<1>2. /\ pc'[p] = "brelse"
      /\ \A q \in Procs \ {p} :
           pc'[q] = IF pc[q] = "locksleep" /\ buf[q] = buf[p] THEN "lock" ELSE pc[q]
      /\ pc' \in [Procs -> Holding \cup {"out", "lock", "locksleep", "brelse"}]
  BY <1>a, <1>1 DEF woken_by, CacheType
<1>3. /\ locked' \in [Bufs -> Procs \cup {None}]
      /\ \A c \in Bufs : locked'[c] = IF c = buf[p] THEN None ELSE locked[c]
  BY <1>a, <1>0, <1>1 DEF CacheType
<1>4. LockInv'
  <2>1. ASSUME NEW q \in Procs
        PROVE  /\ buf'[q] = None <=> pc'[q] = "out"
               /\ buf'[q] # None => want'[q] \in Blocks /\ block'[buf'[q]] = want'[q]
               /\ rw'[q] # "out" <=> pc'[q] \in {"reading", "writing"}
    BY <1>a, <1>1, <1>2 DEF LockInv
  <2>2. ASSUME NEW q \in Procs, pc'[q] = "locksleep" PROVE locked'[buf'[q]] # None
    <3>1. q # p /\ pc[q] = "locksleep" /\ buf[q] # buf[p] /\ buf[q] \in Bufs
      BY <1>a, <1>2, <2>2 DEF LockInv, CacheType
    <3> QED
      BY <1>a, <1>1, <1>3, <3>1 DEF LockInv
  <2>3. ASSUME NEW q \in Procs, NEW c \in Bufs
        PROVE  locked'[c] = q <=> buf'[q] = c /\ pc'[q] \in Holding
    BY <1>a, <1>0, <1>1, <1>2, <1>3, NoneAssumption DEF LockInv, Holding
  <2>4. \A b, c \in Bufs : block'[b] = block'[c] /\ block'[b] # None => b = c
    BY <1>a, <1>1 DEF LockInv
  <2> QED
    BY <2>1, <2>2, <2>3, <2>4 DEF LockInv
<1> QED
  BY <1>1, <1>2, <1>3, <1>4, PcStep

\* A holder changes the buffer: it is dirty, or pinned.
LEMMA ChangeStep ==
  ASSUME CacheInv, NEW p \in Procs, NEW v \in Values, change(p, v)
  PROVE  CacheInv'
<1>a. DiskType /\ RingType /\ CacheType /\ LockInv /\ RingInv /\ CountInv /\ DataInv
  BY DEF CacheInv
<1>0. PICK b \in Bufs : b = buf[p] /\ locked[b] = p /\ block[b] = want[p]
  BY Holder DEF change, Holding
<1>1. /\ pc[p] = "held" /\ data' = [data EXCEPT ![b] = v]
      /\ dirty' = [dirty EXCEPT ![p] = want[p] \notin pinned]
      /\ UNCHANGED <<disk, block, busy, free, chain, info, write, avail, used, irq,
                     intr, rw, refcnt, valid, locked, lru, pc, want, buf, pinned>>
  BY <1>0 DEF change
<1>2. DiskType' /\ RingType'
  BY <1>a, <1>1 DEF DiskType, RingType, Descs
<1>3. CacheType'
  <2>1. LruType'
    BY <1>a, <1>1 DEF CacheType, LruType
  <2>2. (want[p] \notin pinned) \in BOOLEAN
    OBVIOUS
  <2>3. dirty' \in [Procs -> BOOLEAN]
    BY <1>a, <1>1, <2>2 DEF CacheType
  <2> QED
    BY <1>a, <1>1, <2>1, <2>3 DEF CacheType
<1>4. LockInv'
  BY <1>a, <1>1 DEF LockInv
<1>5. DriverAlone
  BY <1>1 DEF DriverAlone
<1>6. /\ dirty'[p] <=> want[p] \notin pinned
      /\ \A q \in Procs \ {p} : dirty'[q] = dirty[q]
      /\ \A c \in Bufs \ {b} : data'[c] = data[c]
  BY <1>a, <1>1 DEF CacheType, DiskType
<1>7. CountInv'
  <2>1. \A c \in Bufs : Users(c)' = Users(c) /\ Pin(c)' = Pin(c)
    BY <1>1 DEF Users, Pin
  <2>2. \A q \in Procs : /\ dirty'[q] => pc'[q] = "held" /\ want'[q] \notin pinned'
                         /\ pc'[q] = "writing" => want'[q] \in pinned'
    BY <1>a, <1>1, <1>6 DEF CountInv
  <2>3. \A k \in pinned' : \E c \in Bufs : block'[c] = k
    BY <1>a, <1>1 DEF CountInv
  <2>4. \A c \in Bufs : IsFiniteSet(Users(c)') /\ refcnt'[c] = Cardinality(Users(c)') + Pin(c)'
    BY <1>a, <1>1, <2>1 DEF CountInv
  <2> QED
    BY <2>2, <2>3, <2>4 DEF CountInv
<1>8. DataInv'
  <2>1. ~Clean(b)'
    BY <1>0, <1>1, <1>6 DEF Clean
  <2>2. ASSUME NEW c \in Bufs, c # b PROVE Clean(c)' <=> Clean(c)
    <3>1. locked[c] # p
      BY <1>a, <1>0, <2>2 DEF LockInv
    <3> QED
      BY <1>1, <1>6, <3>1 DEF Clean
  <2>3. \A c \in Bufs : valid'[c] => /\ block'[c] \in Blocks
                                     /\ Clean(c)' => data'[c] = disk'[block'[c]]
    BY <1>a, <1>1, <1>6, <2>1, <2>2 DEF DataInv
  <2>4. ASSUME NEW q \in Procs, chain[q] # << >> PROVE buf[q] # b /\ buf[q] \in Bufs
    <3>1. pc[q] \in {"reading", "writing"} /\ buf[q] \in Bufs /\ locked[buf[q]] = q
      BY <2>4, Request
    <3> QED
      BY <1>0, <1>1, <3>1
  <2>5. \A q \in Procs : /\ pc'[q] \in {"held", "writing"} => valid'[buf'[q]]
                         /\ pc'[q] = "reading" => ~valid'[buf'[q]]
                         /\ chain'[q] # << >> /\ chain'[q][1] \notin avail'
                              => data'[buf'[q]] = disk'[block'[buf'[q]]]
    BY <1>a, <1>1, <1>6, <2>4 DEF DataInv
  <2> QED
    BY <2>3, <2>5 DEF DataInv
<1> QED
  BY <1>1, <1>2, <1>3, <1>4, <1>5, <1>7, <1>8, DriverFrame DEF CacheInv

\* bpin: the block was not pinned, and the count goes up with the pin.
LEMMA PinStep ==
  ASSUME CacheInv, NEW p \in Procs, bpin(p)
  PROVE  CacheInv'
<1>a. DiskType /\ RingType /\ CacheType /\ LockInv /\ RingInv /\ CountInv /\ DataInv
  BY DEF CacheInv
<1>0. PICK b \in Bufs : /\ b = buf[p] /\ locked[b] = p /\ block[b] = want[p]
                        /\ want[p] \in Blocks
  BY Holder DEF bpin, Holding
<1>1. /\ pc[p] = "held" /\ dirty[p]
      /\ refcnt' = [refcnt EXCEPT ![b] = @ + 1]
      /\ pinned' = pinned \cup {want[p]}
      /\ dirty' = [dirty EXCEPT ![p] = FALSE]
      /\ UNCHANGED <<disk, block, data, busy, free, chain, info, write, avail,
                     used, irq, intr, rw>>
      /\ UNCHANGED <<valid, locked, lru, pc, want, buf>>
  BY <1>0 DEF bpin, vdvars
<1>2. DiskType' /\ RingType'
  BY <1>a, <1>1 DEF DiskType, RingType, Descs
<1>3. CacheType'
  <2>1. LruType'
    BY <1>a, <1>1 DEF CacheType, LruType
  <2> QED
    BY <1>a, <1>0, <1>1, <2>1 DEF CacheType
<1>4. LockInv'
  BY <1>a, <1>1 DEF LockInv
<1>5. DriverAlone
  BY <1>1 DEF DriverAlone
<1>6. /\ ~dirty'[p] /\ \A q \in Procs \ {p} : dirty'[q] = dirty[q]
      /\ block[b] \notin pinned
      /\ \A c \in Bufs : c # b => block[c] # want[p]
  BY <1>a, <1>0, <1>1, NoneAssumption DEF CacheType, CountInv, LockInv
<1>7. CountInv'
  <2>1. \A c \in Bufs : Users(c)' = Users(c)
    BY <1>1 DEF Users
  <2>2. Pin(b)' = 1 /\ Pin(b) = 0 /\ \A c \in Bufs : c # b => Pin(c)' = Pin(c)
    BY <1>0, <1>1, <1>6 DEF Pin
  <2>3. Cardinality(Users(b)) \in Nat
    BY <1>a, FS_CardinalityType DEF CountInv
  <2>4. \A c \in Bufs : IsFiniteSet(Users(c)') /\ refcnt'[c] = Cardinality(Users(c)') + Pin(c)'
    BY <1>a, <1>1, <2>1, <2>2, <2>3 DEF CountInv, CacheType
  <2>5. \A k \in pinned' : \E c \in Bufs : block'[c] = k
    BY <1>a, <1>0, <1>1 DEF CountInv
  <2>6. \A q \in Procs : q # p /\ pc[q] = "held" => want[q] # want[p]
    BY <1>1, Holder DEF Holding
  <2>7. \A q \in Procs : /\ dirty'[q] => pc'[q] = "held" /\ want'[q] \notin pinned'
                         /\ pc'[q] = "writing" => want'[q] \in pinned'
    BY <1>a, <1>1, <1>6, <2>6 DEF CountInv
  <2> QED
    BY <2>4, <2>5, <2>7 DEF CountInv
<1>8. DataInv'
  <2>1. ~Clean(b)'
    BY <1>0, <1>1 DEF Clean
  <2>2. ASSUME NEW c \in Bufs, c # b PROVE Clean(c)' <=> Clean(c)
    <3>1. locked[c] # p
      BY <1>a, <1>0, <2>2 DEF LockInv
    <3> QED
      BY <1>1, <1>6, <2>2, <3>1 DEF Clean
  <2>3. \A c \in Bufs : valid'[c] => /\ block'[c] \in Blocks
                                     /\ Clean(c)' => data'[c] = disk'[block'[c]]
    BY <1>a, <1>1, <2>1, <2>2 DEF DataInv
  <2>4. \A q \in Procs : /\ pc'[q] \in {"held", "writing"} => valid'[buf'[q]]
                         /\ pc'[q] = "reading" => ~valid'[buf'[q]]
                         /\ chain'[q] # << >> /\ chain'[q][1] \notin avail'
                              => data'[buf'[q]] = disk'[block'[buf'[q]]]
    BY <1>a, <1>1 DEF DataInv
  <2> QED
    BY <2>3, <2>4 DEF DataInv
<1> QED
  BY <1>1, <1>2, <1>3, <1>4, <1>5, <1>7, <1>8, DriverFrame DEF CacheInv

\* brelse gives up its reference; the last one moves the buffer to the front.
LEMMA BrelseStep ==
  ASSUME CacheInv, NEW p \in Procs, brelse(p)
  PROVE  CacheInv'
<1>a. DiskType /\ RingType /\ CacheType /\ LockInv /\ RingInv /\ CountInv /\ DataInv
  BY DEF CacheInv
<1>0. PICK b \in Bufs : b = buf[p]
  BY <1>a DEF brelse, LockInv, CacheType
<1>1. /\ pc[p] = "brelse"
      /\ refcnt' = [refcnt EXCEPT ![b] = @ - 1]
      /\ lru' = IF refcnt[b] = 1 THEN to_front(b) ELSE lru
      /\ buf' = [buf EXCEPT ![p] = None] /\ want' = [want EXCEPT ![p] = None]
      /\ pc' = [pc EXCEPT ![p] = "out"]
      /\ UNCHANGED <<disk, block, data, busy, free, chain, info, write, avail,
                     used, irq, intr, rw>>
      /\ UNCHANGED <<valid, locked, dirty, pinned>>
  BY <1>0 DEF brelse, vdvars, goto
<1>2. DiskType' /\ RingType'
  BY <1>a, <1>1 DEF DiskType, RingType, Descs
<1>3. CacheType'
  <2>1. LruType'
    <3>1. PICK n \in Nat : lru \in [1 .. n -> Bufs]
      BY <1>a DEF CacheType, LruType
    <3>2. PICK i : to_front(b) = [j \in 1 .. n |->
             IF j = 1 THEN b ELSE IF j <= i THEN lru[j - 1] ELSE lru[j]]
      BY <3>1 DEF to_front
    <3>3. to_front(b) \in [1 .. n -> Bufs]
      BY <3>1, <3>2
    <3> QED
      BY <1>1, <3>1, <3>3 DEF LruType
  <2> QED
    BY <1>a, <1>1, <2>1 DEF CacheType
<1>4. /\ ~dirty[p] /\ rw[p] = "out" /\ chain[p] = << >>
      /\ buf'[p] = None /\ pc'[p] = "out"
      /\ \A q \in Procs \ {p} : buf'[q] = buf[q] /\ want'[q] = want[q] /\ pc'[q] = pc[q]
  <2>1. ~dirty[p] /\ rw[p] = "out"
    BY <1>a, <1>1 DEF LockInv, CountInv
  <2>2. chain[p] = << >>
    BY <1>a, <2>1 DEF RingInv, Waiting
  <2> QED
    BY <1>a, <1>1, <2>1, <2>2 DEF CacheType
<1>5. LockInv'
  BY <1>a, <1>1, <1>4, NoneAssumption DEF LockInv, Holding
<1>6. DriverAlone
  BY <1>1, <1>4 DEF DriverAlone
<1>7. CountInv'
  <2>1. p \in Users(b) /\ Users(b)' = Users(b) \ {p}
    BY <1>0, <1>4, NoneAssumption DEF Users
  <2>2. \A c \in Bufs : c # b => Users(c)' = Users(c)
    BY <1>0, <1>4, NoneAssumption DEF Users
  <2>3. IsFiniteSet(Users(b)') /\ Cardinality(Users(b)') = Cardinality(Users(b)) - 1
    BY <1>a, <2>1, FS_RemoveElement DEF CountInv
  <2>4. Cardinality(Users(b)) \in Nat
    BY <1>a, FS_CardinalityType DEF CountInv
  <2>5. \A c \in Bufs : Pin(c)' = Pin(c) /\ Pin(c) \in Nat
    BY <1>1 DEF Pin
  <2>6. \A c \in Bufs : IsFiniteSet(Users(c)') /\ refcnt'[c] = Cardinality(Users(c)') + Pin(c)'
    BY <1>a, <1>1, <2>2, <2>3, <2>4, <2>5 DEF CountInv, CacheType
  <2>7. \A k \in pinned' : \E c \in Bufs : block'[c] = k
    BY <1>a, <1>1 DEF CountInv
  <2>8. \A q \in Procs : /\ dirty'[q] => pc'[q] = "held" /\ want'[q] \notin pinned'
                         /\ pc'[q] = "writing" => want'[q] \in pinned'
    BY <1>a, <1>1, <1>4 DEF CountInv
  <2> QED
    BY <2>6, <2>7, <2>8 DEF CountInv
<1>8. DataInv'
  <2>1. \A c \in Bufs : Clean(c)' <=> Clean(c)
    BY <1>1 DEF Clean
  <2> QED
    BY <1>a, <1>1, <1>4, <2>1 DEF DataInv
<1> QED
  BY <1>1, <1>2, <1>3, <1>5, <1>6, <1>7, <1>8, DriverFrame DEF CacheInv
-----------------------------------------------------------------------------
(* Steps of the driver, its interrupt and the device.                      *)

\* The cache's part of the invariant when only the driver's state changes.
LEMMA CacheFrame ==
  ASSUME CacheInv, UNCHANGED bcvars, UNCHANGED block,
         \A p \in Procs : rw'[p] = "out" <=> rw[p] = "out"
  PROVE  CacheType' /\ LockInv' /\ CountInv' /\ \A b \in Bufs : Clean(b)' <=> Clean(b)
<1>a. CacheType /\ LockInv /\ CountInv
  BY DEF CacheInv
<1>1. UNCHANGED <<refcnt, valid, locked, lru, pc, want, buf, dirty, pinned>>
  BY DEF bcvars
<1>2. CacheType'
  <2>1. LruType'
    BY <1>a, <1>1 DEF CacheType, LruType
  <2> QED
    BY <1>a, <1>1, <2>1 DEF CacheType
<1>3. LockInv'
  BY <1>a, <1>1 DEF LockInv
<1>4. CountInv'
  <2>1. \A b \in Bufs : Users(b)' = Users(b) /\ Pin(b)' = Pin(b)
    BY <1>1 DEF Users, Pin
  <2> QED
    BY <1>a, <1>1, <2>1 DEF CountInv
<1>5. \A b \in Bufs : Clean(b)' <=> Clean(b)
  BY <1>1 DEF Clean
<1> QED
  BY <1>2, <1>3, <1>4, <1>5

\* alloc3_desc fails: whoever sleeps for a descriptor is woken by what it frees.
LEMMA FullStep ==
  ASSUME CacheInv, NEW p \in Procs, virtio_disk_rw_full(p), UNCHANGED bcvars
  PROVE  CacheInv'
<1>a. DiskType /\ RingType /\ LockInv /\ RingInv /\ WakeInv /\ DataInv
  BY DEF CacheInv
<1>1. /\ rw[p] = "alloc" /\ Cardinality(free) < 3
      /\ UNCHANGED <<disk, block, data, busy, free, chain, info, write, avail,
                     used, irq, intr>>
      /\ UNCHANGED <<valid, pc, buf>>
  BY DEF virtio_disk_rw_full, bcvars
<1>2. /\ rw' \in [Procs -> {"out", "alloc", "sleep_desc", "sleep_buf", "woken"}]
      /\ rw'[p] = "sleep_desc"
      /\ \A q \in Procs \ {p} : rw'[q] = rw[q] \/ (rw[q] = "sleep_desc" /\ rw'[q] = "alloc")
  <2>1. rw' = [rw EXCEPT ![p] = "sleep_desc"] \/ rw' = [wakeup_free EXCEPT ![p] = "sleep_desc"]
    BY DEF virtio_disk_rw_full
  <2>2. /\ wakeup_free \in [Procs -> {"out", "alloc", "sleep_desc", "sleep_buf", "woken"}]
        /\ \A q \in Procs : \/ wakeup_free[q] = rw[q]
                            \/ rw[q] = "sleep_desc" /\ wakeup_free[q] = "alloc"
    BY <1>a DEF wakeup_free, RingType
  <2> QED
    BY <1>a, <2>1, <2>2 DEF RingType
<1>3. DiskType' /\ RingType'
  BY <1>a, <1>1, <1>2 DEF DiskType, RingType, Descs
<1>4. \A q \in Procs : /\ rw'[q] = "out" <=> rw[q] = "out"
                       /\ rw'[q] \in Waiting <=> rw[q] \in Waiting
                       /\ rw'[q] = "sleep_buf" <=> rw[q] = "sleep_buf"
  BY <1>1, <1>2 DEF Waiting
<1>5. CacheType' /\ LockInv' /\ CountInv' /\ \A b \in Bufs : Clean(b)' <=> Clean(b)
  BY <1>1, <1>4, CacheFrame
<1>6. RingInv'
  <2>1. Descs' = Descs /\ Finished' = Finished /\ \A q \in Procs : Of(q)' = Of(q)
    BY <1>1 DEF Descs, Finished, Of
  <2>2. (Descs = free \cup UNION {Of(q) : q \in Procs})'
    BY <1>a, <1>1, <2>1 DEF RingInv
  <2>3. \A q, r \in Procs : Of(q)' \cap free' = {} /\ (q # r => Of(q)' \cap Of(r)' = {})
    BY <1>a, <1>1, <2>1 DEF RingInv
  <2>4. ASSUME NEW q \in Procs
        PROVE  /\ chain'[q] # << >> <=> rw'[q] \in Waiting
               /\ chain'[q] # << >> => /\ info'[chain'[q][1]] = buf'[q]
                                       /\ write'[chain'[q][1]] <=> pc'[q] = "writing"
               /\ rw'[q] = "sleep_buf" => chain'[q][1] \in avail' \cup Finished'
    BY <1>a, <1>1, <1>4, <2>1 DEF RingInv
  <2>5. \A d \in avail' \cup Finished' :
          \E q \in Procs : rw'[q] = "sleep_buf" /\ chain'[q][1] = d
    BY <1>a, <1>1, <1>4, <2>1 DEF RingInv
  <2>6. avail' \cap Finished' = {} /\ \A j, k \in 1 .. Len(used') : used'[j] = used'[k] => j = k
    BY <1>a, <1>1, <2>1 DEF RingInv
  <2> QED
    BY <2>2, <2>3, <2>4, <2>5, <2>6 DEF RingInv
<1>7. WakeInv'
  BY <1>a, <1>1, <1>2, <1>4 DEF WakeInv
<1>8. DataInv'
  BY <1>a, <1>1, <1>5 DEF DataInv
<1> QED
  BY <1>3, <1>5, <1>6, <1>7, <1>8 DEF CacheInv

\* The request is made.
LEMMA RequestStep ==
  ASSUME CacheInv, NEW p \in Procs, pc[p] \in {"reading", "writing"},
         virtio_disk_rw(p, buf[p], pc[p] = "writing"), UNCHANGED bcvars
  PROVE  CacheInv'
<1>a. DiskType /\ RingType /\ LockInv /\ RingInv /\ WakeInv /\ DataInv
  BY DEF CacheInv
<1>0. PICK b \in Bufs : b = buf[p] /\ locked[b] = p
  BY Holder DEF Holding
<1>1. PICK d, e, f \in free : alloc3_desc = <<d, e, f>> /\ d # e /\ d # f /\ e # f
  BY <1>a, Alloc3 DEF virtio_disk_rw
<1>2. /\ rw[p] = "alloc"
      /\ chain' = [chain EXCEPT ![p] = <<d, e, f>>]
      /\ free' = free \ {d, e, f}
      /\ info' = [info EXCEPT ![d] = b]
      /\ write' = [write EXCEPT ![d] = (pc[p] = "writing")]
      /\ busy' = [busy EXCEPT ![b] = TRUE]
      /\ avail' = avail \cup {d}
      /\ rw' = [rw EXCEPT ![p] = "sleep_buf"]
      /\ UNCHANGED <<disk, block, data, used, irq, intr>>
      /\ UNCHANGED <<valid, pc, buf, locked>>
  <2>1. \A j \in 1 .. 3 : j = 1 \/ j = 2 \/ j = 3
    OBVIOUS
  <2>2. <<d, e, f>>[1] = d /\ <<d, e, f>>[2] = e /\ <<d, e, f>>[3] = f
    OBVIOUS
  <2>3. {<<d, e, f>>[j] : j \in 1 .. 3} = {d, e, f}
    BY <2>1, <2>2
  <2> QED
    BY <1>0, <1>1, <2>2, <2>3 DEF virtio_disk_rw, bcvars
<1>3. Descs' = Descs
  BY <1>a, <1>2 DEF Descs
<1>4. /\ chain'[p] = <<d, e, f>> /\ rw'[p] = "sleep_buf" /\ busy'[b]
      /\ info'[d] = b /\ (write'[d] <=> pc[p] = "writing")
      /\ \A q \in Procs \ {p} : chain'[q] = chain[q] /\ rw'[q] = rw[q]
      /\ \A g \in Descs \ {d} : info'[g] = info[g] /\ write'[g] = write[g]
      /\ \A c \in Bufs \ {b} : busy'[c] = busy[c]
  <2>1. (pc[p] = "writing") \in BOOLEAN /\ d \in Descs
    BY <1>a DEF RingType
  <2> QED
    BY <1>a, <1>0, <1>2, <2>1 DEF RingType, DiskType, Descs
<1>5. DiskType'
  BY <1>a, <1>0, <1>2 DEF DiskType
<1>6. RingType'
  <2>1. d \in Descs /\ e \in Descs /\ f \in Descs /\ (pc[p] = "writing") \in BOOLEAN
    BY <1>a DEF RingType
  <2>2. chain' \in [Procs -> {<< >>} \cup (Descs \X Descs \X Descs)]
    BY <1>a, <1>2, <2>1 DEF RingType
  <2>3. info' \in [Descs -> Bufs \cup {None}] /\ write' \in [Descs -> BOOLEAN]
    BY <1>a, <1>0, <1>2, <2>1 DEF RingType
  <2>4. free' \subseteq Descs /\ IsFiniteSet(free')
    BY <1>a, <1>2, FS_Subset DEF RingType
  <2>5. rw' \in [Procs -> {"out", "alloc", "sleep_desc", "sleep_buf", "woken"}]
    BY <1>a, <1>2 DEF RingType
  <2> QED
    BY <1>a, <1>2, <1>3, <2>1, <2>2, <2>3, <2>4, <2>5 DEF RingType
<1>7. chain[p] = << >> /\ Of(p) = {}
  BY <1>a, <1>2 DEF RingInv, Waiting, Of
<1>8. CacheType' /\ LockInv' /\ CountInv' /\ \A c \in Bufs : Clean(c)' <=> Clean(c)
  <2>1. \A q \in Procs : rw'[q] = "out" <=> rw[q] = "out"
    BY <1>2, <1>4
  <2> QED
    BY <1>2, <2>1, CacheFrame
<1>9. /\ d \notin avail \cup Finished
      /\ \A q \in Procs \ {p} : chain[q] # << >> => chain[q][1] # d /\ chain[q][1] \in Descs
  <2>1. \A q \in Procs : chain[q] # << >> => chain[q][1] \in Of(q) /\ chain[q][1] \in Descs
    BY Request
  <2>2. \A q \in Procs : rw[q] = "sleep_buf" => chain[q] # << >>
    BY <1>a DEF RingInv, Waiting
  <2>3. \A q \in Procs : d \notin Of(q)
    BY <1>a DEF RingInv
  <2> QED
    BY <1>a, <2>1, <2>2, <2>3 DEF RingInv
<1>10. RingInv'
  <2>1. /\ Finished' = Finished /\ Of(p)' = {d, e, f}
        /\ \A q \in Procs \ {p} : Of(q)' = Of(q)
    <3>1. DOMAIN chain'[p] = {1, 2, 3}
      BY <1>4
    <3>2. Of(p)' = {d, e, f}
      BY <1>4, <3>1 DEF Of
    <3> QED
      BY <1>2, <1>4, <3>2 DEF Finished, Of
  <2>2. (Descs = free \cup UNION {Of(q) : q \in Procs})'
    <3>1. UNION {Of(q)' : q \in Procs} = {d, e, f} \cup UNION {Of(q) : q \in Procs}
      BY <1>7, <2>1
    <3> QED
      BY <1>a, <1>2, <1>3, <3>1 DEF RingInv
  <2>3. \A q, r \in Procs : Of(q)' \cap free' = {} /\ (q # r => Of(q)' \cap Of(r)' = {})
    BY <1>a, <1>2, <2>1 DEF RingInv
  <2>4. ASSUME NEW q \in Procs
        PROVE  /\ chain'[q] # << >> <=> rw'[q] \in Waiting
               /\ chain'[q] # << >> => /\ info'[chain'[q][1]] = buf'[q]
                                       /\ write'[chain'[q][1]] <=> pc'[q] = "writing"
               /\ rw'[q] = "sleep_buf" => chain'[q][1] \in avail' \cup Finished'
    <3>1. CASE q = p
      BY <1>0, <1>2, <1>4, <3>1 DEF Waiting
    <3>2. CASE q # p
      BY <1>a, <1>2, <1>4, <1>9, <2>1, <3>2 DEF RingInv
    <3> QED
      BY <3>1, <3>2
  <2>5. ASSUME NEW g \in avail' \cup Finished'
        PROVE  \E q \in Procs : rw'[q] = "sleep_buf" /\ chain'[q][1] = g
    <3>1. CASE g = d
      BY <1>4, <3>1
    <3>2. CASE g # d
      <4>1. PICK q \in Procs : rw[q] = "sleep_buf" /\ chain[q][1] = g
        BY <1>a, <1>2, <2>1, <3>2 DEF RingInv
      <4>2. q # p
        BY <1>2, <4>1
      <4> QED
        BY <1>4, <4>1, <4>2
    <3> QED
      BY <3>1, <3>2
  <2>6. avail' \cap Finished' = {} /\ \A j, k \in 1 .. Len(used') : used'[j] = used'[k] => j = k
    BY <1>a, <1>2, <1>9, <2>1 DEF RingInv
  <2> QED
    BY <2>2, <2>3, <2>4, <2>5, <2>6 DEF RingInv
<1>11. WakeInv'
  <2>1. used' # << >> => irq' \/ intr'
    BY <1>a, <1>2 DEF WakeInv
  <2>2. Cardinality(free') <= Cardinality(free) /\ Cardinality(free') \in Nat /\ Cardinality(free) \in Nat
    BY <1>a, <1>2, FS_Subset, FS_CardinalityType DEF RingType
  <2>3. ASSUME NEW q \in Procs, rw'[q] = "sleep_buf" PROVE busy'[buf'[q]]
    <3>1. buf[q] \in Bufs
      <4>1. CASE q = p
        BY <1>0, <4>1
      <4>2. CASE q # p
        <5>1. chain[q] # << >>
          BY <1>a, <1>4, <2>3, <4>2 DEF RingInv, Waiting
        <5> QED
          BY <5>1, Request
      <4> QED
        BY <4>1, <4>2
    <3> QED
      BY <1>a, <1>0, <1>2, <1>4, <2>3, <3>1 DEF WakeInv
  <2>4. ASSUME NEW q \in Procs, rw'[q] = "sleep_desc" PROVE Cardinality(free') < 3
    BY <1>a, <1>4, <2>2, <2>4 DEF WakeInv
  <2> QED
    BY <2>1, <2>3, <2>4 DEF WakeInv
<1>12. DataInv'
  <2>1. \A c \in Bufs : valid'[c] => /\ block'[c] \in Blocks
                                     /\ Clean(c)' => data'[c] = disk'[block'[c]]
    BY <1>a, <1>2, <1>8 DEF DataInv
  <2>2. \A q \in Procs : /\ pc'[q] \in {"held", "writing"} => valid'[buf'[q]]
                         /\ pc'[q] = "reading" => ~valid'[buf'[q]]
    BY <1>a, <1>2 DEF DataInv
  <2>3. \A q \in Procs : chain'[q] # << >> /\ chain'[q][1] \notin avail'
                           => data'[buf'[q]] = disk'[block'[buf'[q]]]
    BY <1>a, <1>2, <1>4 DEF DataInv
  <2> QED
    BY <2>1, <2>2, <2>3 DEF DataInv
<1> QED
  BY <1>5, <1>6, <1>8, <1>10, <1>11, <1>12 DEF CacheInv

\* The end of virtio_disk_rw: the descriptors are free again and whoever sleeps
\* for them is woken; a read makes the buffer valid, a write unpins it.
LEMMA DoneStep ==
  ASSUME CacheInv, NEW p \in Procs, transfer_done(p)
  PROVE  CacheInv'
<1>a. DiskType /\ RingType /\ CacheType /\ LockInv /\ RingInv /\ WakeInv /\ CountInv /\ DataInv
  BY DEF CacheInv
<1>0. chain[p] # << >> /\ rw[p] = "woken"
  BY <1>a DEF transfer_done, virtio_disk_rw_done, RingInv, Waiting
<1>1. PICK b \in Bufs : /\ b = buf[p] /\ locked[b] = p /\ block[b] = want[p]
                        /\ want[p] \in Blocks /\ pc[p] \in {"reading", "writing"}
  BY <1>0, Request
<1>2. PICK d, e, f \in Descs : chain[p] = <<d, e, f>> /\ Of(p) = {d, e, f} /\ chain[p][1] = d
  <2>1. PICK d, e, f \in Descs : chain[p] = <<d, e, f>> /\ Of(p) = {d, e, f}
    BY <1>0, Request
  <2> QED
    BY <2>1
<1>3. /\ ~busy[b]
      /\ info' = [info EXCEPT ![d] = None] /\ write' = [write EXCEPT ![d] = FALSE]
      /\ free' = free \cup {d, e, f}
      /\ chain' = [chain EXCEPT ![p] = << >>]
      /\ rw' = [wakeup_free EXCEPT ![p] = "out"]
      /\ pc' = [pc EXCEPT ![p] = "held"]
      /\ UNCHANGED <<disk, block, data, busy, avail, used, irq, intr>>
      /\ UNCHANGED <<locked, lru, want, buf, dirty>>
  <2>1. \A j \in 1 .. 3 : j = 1 \/ j = 2 \/ j = 3
    OBVIOUS
  <2>2. {<<d, e, f>>[j] : j \in 1 .. 3} = {d, e, f}
    BY <2>1
  <2>3. freed(chain[p]) = {d, e, f}
    BY <1>2, <2>2 DEF freed
  <2> QED
    BY <1>1, <1>2, <2>3 DEF transfer_done, virtio_disk_rw_done, goto
<1>4. \/ /\ pc[p] = "reading" /\ valid' = [valid EXCEPT ![b] = TRUE]
         /\ refcnt' = refcnt /\ pinned' = pinned
      \/ /\ pc[p] = "writing" /\ valid' = valid
         /\ refcnt' = [refcnt EXCEPT ![b] = @ - 1]
         /\ pinned' = pinned \ {want[p]}
  BY <1>1 DEF transfer_done, bunpin
<1>5. /\ rw' \in [Procs -> {"out", "alloc", "sleep_desc", "sleep_buf", "woken"}]
      /\ rw'[p] = "out"
      /\ \A q \in Procs \ {p} : rw'[q] = IF rw[q] = "sleep_desc" THEN "alloc" ELSE rw[q]
  BY <1>a, <1>3 DEF wakeup_free, RingType
<1>6. /\ chain'[p] = << >> /\ pc'[p] = "held"
      /\ \A q \in Procs \ {p} : chain'[q] = chain[q] /\ pc'[q] = pc[q]
      /\ \A g \in Descs \ {d} : info'[g] = info[g] /\ write'[g] = write[g]
  BY <1>a, <1>3 DEF RingType, CacheType
<1>7. Descs' = Descs /\ DiskType'
  BY <1>a, <1>3 DEF Descs, DiskType
<1>8. RingType'
  <2>1. chain' \in [Procs -> {<< >>} \cup (Descs \X Descs \X Descs)]
    BY <1>a, <1>3 DEF RingType
  <2>2. info' \in [Descs -> Bufs \cup {None}] /\ write' \in [Descs -> BOOLEAN]
    BY <1>a, <1>3 DEF RingType
  <2>3. IsFiniteSet(free')
    <3>1. IsFiniteSet({d, e, f})
      <4>1. IsFiniteSet({d}) /\ IsFiniteSet({e}) /\ IsFiniteSet({f})
        BY FS_Singleton
      <4>2. IsFiniteSet({d} \cup {e})
        BY <4>1, FS_Union
      <4>3. IsFiniteSet(({d} \cup {e}) \cup {f})
        BY <4>1, <4>2, FS_Union
      <4>4. {d, e, f} = ({d} \cup {e}) \cup {f}
        OBVIOUS
      <4> QED
        BY <4>3, <4>4
    <3> QED
      BY <1>a, <1>3, <3>1, FS_Union DEF RingType
  <2> QED
    BY <1>a, <1>3, <1>5, <1>7, <2>1, <2>2, <2>3 DEF RingType
<1>9. CacheType'
  <2>1. LruType'
    BY <1>a, <1>3 DEF CacheType, LruType
  <2>2. refcnt' \in [Bufs -> Int] /\ pinned' \subseteq Blocks
    <3>1. refcnt[b] - 1 \in Int
      BY <1>a DEF CacheType
    <3> QED
      BY <1>a, <1>4, <3>1 DEF CacheType
  <2>4. valid' \in [Bufs -> BOOLEAN]
    BY <1>a, <1>4 DEF CacheType
  <2>3. pc' \in [Procs -> Holding \cup {"out", "lock", "locksleep", "brelse"}]
    BY <1>a, <1>3 DEF CacheType, Holding
  <2> QED
    BY <1>a, <1>3, <2>1, <2>2, <2>3, <2>4 DEF CacheType
<1>10. LockInv'
  <2>1. ASSUME NEW q \in Procs
        PROVE  /\ buf'[q] = None <=> pc'[q] = "out"
               /\ buf'[q] # None => want'[q] \in Blocks /\ block'[buf'[q]] = want'[q]
               /\ rw'[q] # "out" <=> pc'[q] \in {"reading", "writing"}
               /\ pc'[q] = "locksleep" => locked'[buf'[q]] # None
    <3>1. CASE q = p
      BY <1>a, <1>1, <1>3, <1>5, <1>6, <3>1 DEF LockInv
    <3>2. CASE q # p
      BY <1>a, <1>3, <1>5, <1>6, <3>2 DEF LockInv
    <3> QED
      BY <3>1, <3>2
  <2>2. \A q \in Procs, c \in Bufs : locked'[c] = q <=> buf'[q] = c /\ pc'[q] \in Holding
    BY <1>a, <1>1, <1>3, <1>6 DEF LockInv, Holding
  <2>3. \A c, g \in Bufs : block'[c] = block'[g] /\ block'[c] # None => c = g
    BY <1>a, <1>3 DEF LockInv
  <2> QED
    BY <2>1, <2>2, <2>3 DEF LockInv
<1>11. /\ \A q \in Procs \ {p} : chain[q] # << >> => chain[q][1] # d /\ chain[q][1] \in Descs
       /\ d \notin avail
  <2>1. \A q \in Procs : chain[q] # << >> => chain[q][1] \in Of(q) /\ chain[q][1] \in Descs
    BY Request
  <2>2. \A q \in Procs \ {p} : d \notin Of(q)
    BY <1>a, <1>2 DEF RingInv
  <2>3. \A q \in Procs : rw[q] = "sleep_buf" => chain[q] # << >>
    BY <1>a DEF RingInv, Waiting
  <2> QED
    BY <1>a, <1>0, <2>1, <2>2, <2>3 DEF RingInv
<1>12. RingInv'
  <2>1. /\ Finished' = Finished /\ Of(p)' = {}
        /\ \A q \in Procs \ {p} : Of(q)' = Of(q)
    BY <1>3, <1>6 DEF Finished, Of
  <2>2. (Descs = free \cup UNION {Of(q) : q \in Procs})'
    <3>1. UNION {Of(q) : q \in Procs} = {d, e, f} \cup UNION {Of(q)' : q \in Procs}
      BY <1>2, <2>1
    <3> QED
      BY <1>a, <1>3, <1>7, <3>1 DEF RingInv
  <2>3. \A q, r \in Procs : Of(q)' \cap free' = {} /\ (q # r => Of(q)' \cap Of(r)' = {})
    BY <1>a, <1>2, <1>3, <2>1 DEF RingInv
  <2>4. ASSUME NEW q \in Procs
        PROVE  /\ chain'[q] # << >> <=> rw'[q] \in Waiting
               /\ chain'[q] # << >> => /\ info'[chain'[q][1]] = buf'[q]
                                       /\ write'[chain'[q][1]] <=> pc'[q] = "writing"
               /\ rw'[q] = "sleep_buf" => chain'[q][1] \in avail' \cup Finished'
    <3>1. CASE q = p
      BY <1>5, <1>6, <3>1 DEF Waiting
    <3>2. CASE q # p
      BY <1>a, <1>3, <1>5, <1>6, <1>11, <2>1, <3>2 DEF RingInv, Waiting
    <3> QED
      BY <3>1, <3>2
  <2>5. ASSUME NEW g \in avail' \cup Finished'
        PROVE  \E q \in Procs : rw'[q] = "sleep_buf" /\ chain'[q][1] = g
    <3>1. PICK q \in Procs : rw[q] = "sleep_buf" /\ chain[q][1] = g
      BY <1>a, <1>3, <2>1 DEF RingInv
    <3>2. q # p
      BY <1>0, <3>1
    <3> QED
      BY <1>5, <1>6, <3>1, <3>2
  <2>6. avail' \cap Finished' = {} /\ \A j, k \in 1 .. Len(used') : used'[j] = used'[k] => j = k
    BY <1>a, <1>3, <2>1 DEF RingInv
  <2> QED
    BY <2>2, <2>3, <2>4, <2>5, <2>6 DEF RingInv
<1>13. WakeInv'
  <2>1. \A q \in Procs : rw'[q] # "sleep_desc" /\ (rw'[q] = "sleep_buf" => rw[q] = "sleep_buf")
    BY <1>5
  <2> QED
    BY <1>a, <1>3, <2>1 DEF WakeInv
<1>14. \A c \in Bufs : c # b => block[c] # want[p]
  BY <1>a, <1>1, NoneAssumption DEF LockInv
<1>15. ~dirty[p]
  BY <1>a, <1>1 DEF CountInv
<1>16. CountInv'
  <2>1. \A c \in Bufs : Users(c)' = Users(c)
    BY <1>3 DEF Users
  <2>2. Cardinality(Users(b)) \in Nat
    BY <1>a, FS_CardinalityType DEF CountInv
  <2>3. \A c \in Bufs : IsFiniteSet(Users(c)') /\ refcnt'[c] = Cardinality(Users(c)') + Pin(c)'
    <3>1. CASE pc[p] = "reading"
      <4>1. \A c \in Bufs : Pin(c)' = Pin(c)
        BY <1>3, <1>4, <3>1 DEF Pin
      <4> QED
        BY <1>a, <1>4, <2>1, <3>1, <4>1 DEF CountInv
    <3>2. CASE pc[p] = "writing"
      <4>1. Pin(b)' = 0 /\ Pin(b) = 1 /\ \A c \in Bufs : c # b => Pin(c)' = Pin(c)
        BY <1>a, <1>1, <1>3, <1>4, <1>14, <3>2 DEF Pin, CountInv
      <4> QED
        BY <1>a, <1>4, <2>1, <2>2, <3>2, <4>1 DEF CountInv, CacheType
    <3> QED
      BY <1>1, <3>1, <3>2
  <2>4. \A k \in pinned' : \E c \in Bufs : block'[c] = k
    BY <1>a, <1>3, <1>4 DEF CountInv
  <2>5. \A q \in Procs : q # p /\ pc[q] \in Holding => want[q] # want[p]
    BY <1>1, Holder DEF Holding
  <2>6. \A q \in Procs : /\ dirty'[q] => pc'[q] = "held" /\ want'[q] \notin pinned'
                         /\ pc'[q] = "writing" => want'[q] \in pinned'
    BY <1>a, <1>3, <1>4, <1>6, <1>15, <2>5 DEF CountInv, Holding
  <2> QED
    BY <2>3, <2>4, <2>6 DEF CountInv
<1>17. DataInv'
  <2>1. data[b] = disk[block[b]]
    BY <1>a, <1>0, <1>1, <1>2, <1>11 DEF DataInv
  <2>2. valid'[b] /\ \A c \in Bufs : c # b => valid'[c] = valid[c]
    BY <1>a, <1>1, <1>4 DEF CacheType, DataInv
  <2>3. \A c \in Bufs : c # b => (Clean(c)' <=> Clean(c))
    BY <1>3, <1>4, <1>14 DEF Clean
  <2>4. \A c \in Bufs : valid'[c] => /\ block'[c] \in Blocks
                                     /\ Clean(c)' => data'[c] = disk'[block'[c]]
    BY <1>a, <1>1, <1>3, <2>1, <2>2, <2>3 DEF DataInv
  <2>5. ASSUME NEW q \in Procs
        PROVE  /\ pc'[q] \in {"held", "writing"} => valid'[buf'[q]]
               /\ pc'[q] = "reading" => ~valid'[buf'[q]]
               /\ chain'[q] # << >> /\ chain'[q][1] \notin avail'
                    => data'[buf'[q]] = disk'[block'[buf'[q]]]
    <3>1. CASE q = p
      BY <1>1, <1>3, <1>6, <2>2, <3>1
    <3>2. CASE q # p
      <4>1. pc[q] \in {"held", "writing", "reading"} => buf[q] # b /\ buf[q] \in Bufs
        <5>1. pc[q] \in Holding => buf[q] \in Bufs /\ locked[buf[q]] = q
          BY Holder
        <5> QED
          BY <1>1, <3>2, <5>1 DEF Holding
      <4> QED
        BY <1>a, <1>3, <1>6, <2>2, <3>2, <4>1 DEF DataInv
    <3> QED
      BY <3>1, <3>2
  <2> QED
    BY <2>4, <2>5 DEF DataInv
<1> QED
  BY <1>7, <1>8, <1>9, <1>10, <1>12, <1>13, <1>16, <1>17 DEF CacheInv

\* The request d is its process's, which sleeps on a buffer that it has locked.
LEMMA Owner ==
  ASSUME CacheInv, NEW d \in avail \cup Finished
  PROVE  \E p \in Procs :
           /\ rw[p] = "sleep_buf" /\ chain[p] # << >> /\ chain[p][1] = d
           /\ info[d] = buf[p] /\ buf[p] \in Bufs /\ d \in Descs
           /\ block[buf[p]] \in Blocks /\ pc[p] \in {"reading", "writing"}
           /\ write[d] <=> pc[p] = "writing"
           /\ \A q \in Procs \ {p} : chain[q] # << >> =>
                buf[q] # buf[p] /\ buf[q] \in Bufs /\ chain[q][1] # d
<1>a. RingInv
  BY DEF CacheInv
<1>1. PICK p \in Procs : rw[p] = "sleep_buf" /\ chain[p][1] = d
  BY <1>a DEF RingInv
<1>2. chain[p] # << >> /\ (write[d] <=> pc[p] = "writing")
  BY <1>a, <1>1 DEF RingInv, Waiting
<1>3. ASSUME NEW q \in Procs, q # p, chain[q] # << >>
      PROVE  buf[q] # buf[p] /\ buf[q] \in Bufs /\ chain[q][1] # d
  BY <1>1, <1>2, <1>3, Request, OneRequest
<1> QED
  BY <1>1, <1>2, <1>3, Request

\* The device finishes a request.
LEMMA DeviceStep ==
  ASSUME CacheInv, NEW d \in avail, device(d), UNCHANGED bcvars
  PROVE  CacheInv'
<1>a. DiskType /\ RingType /\ RingInv /\ WakeInv /\ DataInv /\ LockInv
  BY DEF CacheInv
<1>0. PICK p \in Procs :
           /\ rw[p] = "sleep_buf" /\ chain[p] # << >> /\ chain[p][1] = d
           /\ info[d] = buf[p] /\ buf[p] \in Bufs /\ d \in Descs
           /\ block[buf[p]] \in Blocks /\ pc[p] \in {"reading", "writing"}
           /\ write[d] <=> pc[p] = "writing"
           /\ \A q \in Procs \ {p} : chain[q] # << >> =>
                buf[q] # buf[p] /\ buf[q] \in Bufs /\ chain[q][1] # d
  BY Owner
<1>1. PICK b \in Bufs : b = buf[p]
  BY <1>0
<1>2. /\ avail' = avail \ {d} /\ used' = Append(used, d) /\ irq' = TRUE
      /\ UNCHANGED <<block, busy, free, chain, info, write, intr, rw>>
      /\ UNCHANGED <<valid, pc, buf>>
  BY DEF device, bcvars
<1>3. /\ pc[p] = "writing" => disk' = [disk EXCEPT ![block[b]] = data[b]] /\ data' = data
      /\ pc[p] = "reading" => data' = [data EXCEPT ![b] = disk[block[b]]] /\ disk' = disk
  BY <1>0, <1>1 DEF device
<1>4. DiskType'
  BY <1>a, <1>0, <1>1, <1>2, <1>3 DEF DiskType
<1>5. RingType' /\ Descs' = Descs
  BY <1>a, <1>0, <1>2 DEF RingType, Descs
<1>6. CacheType' /\ LockInv' /\ CountInv' /\ \A c \in Bufs : Clean(c)' <=> Clean(c)
  BY <1>2, CacheFrame
<1>7. /\ Finished' = Finished \cup {d}
      /\ \A j, k \in 1 .. Len(used') : used'[j] = used'[k] => j = k
      /\ d \notin Finished
  <2>1. used \in Seq(Descs) /\ Len(used) \in Nat
    BY <1>a DEF RingType
  <2>2. /\ Len(used') = Len(used) + 1 /\ used'[Len(used) + 1] = d
        /\ \A j \in 1 .. Len(used) : used'[j] = used[j]
    BY <1>2, <2>1
  <2>3. d \notin Finished
    BY <1>a DEF RingInv
  <2>4. Finished' = Finished \cup {d}
    <3>1. 1 .. Len(used') = 1 .. Len(used) \cup {Len(used) + 1}
      BY <2>1, <2>2
    <3>2. Finished' = {used'[j] : j \in 1 .. Len(used')}
      BY DEF Finished
    <3> QED
      BY <2>2, <3>1, <3>2 DEF Finished
  <2>5. \A j, k \in 1 .. Len(used') : used'[j] = used'[k] => j = k
    <3> TAKE j, k \in 1 .. Len(used')
    <3>1. \A i \in 1 .. Len(used) : used[i] # d
      BY <2>3 DEF Finished
    <3>2. \A i \in 1 .. Len(used') : i \in 1 .. Len(used) \/ i = Len(used) + 1
      BY <2>1, <2>2
    <3> QED
      BY <1>a, <2>2, <3>1, <3>2 DEF RingInv
  <2> QED
    BY <2>3, <2>4, <2>5
<1>8. RingInv'
  <2>1. \A q \in Procs : Of(q)' = Of(q)
    BY <1>2 DEF Of
  <2>2. (Descs = free \cup UNION {Of(q) : q \in Procs})'
    BY <1>a, <1>2, <1>5, <2>1 DEF RingInv
  <2>3. \A q, r \in Procs : Of(q)' \cap free' = {} /\ (q # r => Of(q)' \cap Of(r)' = {})
    BY <1>a, <1>2, <2>1 DEF RingInv
  <2>4. ASSUME NEW q \in Procs
        PROVE  /\ chain'[q] # << >> <=> rw'[q] \in Waiting
               /\ chain'[q] # << >> => /\ info'[chain'[q][1]] = buf'[q]
                                       /\ write'[chain'[q][1]] <=> pc'[q] = "writing"
               /\ rw'[q] = "sleep_buf" => chain'[q][1] \in avail' \cup Finished'
    BY <1>a, <1>2, <1>7 DEF RingInv
  <2>5. avail' \cup Finished' = avail \cup Finished /\ avail' \cap Finished' = {}
    BY <1>a, <1>2, <1>7 DEF RingInv
  <2>6. \A g \in avail' \cup Finished' :
          \E q \in Procs : rw'[q] = "sleep_buf" /\ chain'[q][1] = g
    BY <1>a, <1>2, <2>5 DEF RingInv
  <2> QED
    BY <1>7, <2>2, <2>3, <2>4, <2>5, <2>6 DEF RingInv
<1>9. WakeInv'
  BY <1>a, <1>2 DEF WakeInv
<1>10. /\ data'[b] = disk'[block[b]]
       /\ \A c \in Bufs : c # b => data'[c] = data[c]
       /\ \A c \in Bufs : c # b /\ block[c] \in Blocks => disk'[block[c]] = disk[block[c]]
  BY <1>a, <1>0, <1>1, <1>3, NoneAssumption DEF DiskType, LockInv
<1>11. DataInv'
  <2>1. \A c \in Bufs : valid'[c] => /\ block'[c] \in Blocks
                                     /\ Clean(c)' => data'[c] = disk'[block'[c]]
    BY <1>a, <1>2, <1>6, <1>10 DEF DataInv
  <2>2. \A q \in Procs : /\ pc'[q] \in {"held", "writing"} => valid'[buf'[q]]
                         /\ pc'[q] = "reading" => ~valid'[buf'[q]]
    BY <1>a, <1>2 DEF DataInv
  <2>3. ASSUME NEW q \in Procs, chain'[q] # << >>, chain'[q][1] \notin avail'
        PROVE  data'[buf'[q]] = disk'[block'[buf'[q]]]
    <3>1. CASE q = p
      BY <1>1, <1>2, <1>10, <3>1
    <3>2. CASE q # p
      <4>1. buf[q] # b /\ buf[q] \in Bufs /\ chain[q][1] # d /\ block[buf[q]] \in Blocks
        BY <1>0, <1>1, <1>2, <2>3, <3>2, Request
      <4> QED
        BY <1>a, <1>2, <1>10, <2>3, <4>1 DEF DataInv
    <3> QED
      BY <3>1, <3>2
  <2> QED
    BY <2>1, <2>2, <2>3 DEF DataInv
<1> QED
  BY <1>4, <1>5, <1>6, <1>8, <1>9, <1>11 DEF CacheInv

\* The interrupt handler wakes the process of the first finished request.
LEMMA LoopStep ==
  ASSUME CacheInv, virtio_disk_intr_loop, UNCHANGED bcvars
  PROVE  CacheInv'
<1>a. DiskType /\ RingType /\ RingInv /\ WakeInv /\ DataInv /\ LockInv
  BY DEF CacheInv
<1>0. /\ used \in Seq(Descs) /\ Len(used) \in Nat /\ Len(used) >= 1
      /\ Head(used) = used[1] /\ Head(used) \in Finished
  <2>1. used \in Seq(Descs) /\ used # << >>
    BY <1>a DEF RingType, virtio_disk_intr_loop
  <2>2. Len(used) \in Nat /\ Len(used) >= 1 /\ Head(used) = used[1]
    BY <2>1
  <2> QED
    BY <2>1, <2>2 DEF Finished
<1>1. PICK d \in Finished : d = Head(used)
  BY <1>0
<1>2. PICK p \in Procs :
           /\ rw[p] = "sleep_buf" /\ chain[p] # << >> /\ chain[p][1] = d
           /\ info[d] = buf[p] /\ buf[p] \in Bufs /\ d \in Descs
           /\ block[buf[p]] \in Blocks /\ pc[p] \in {"reading", "writing"}
           /\ write[d] <=> pc[p] = "writing"
           /\ \A q \in Procs \ {p} : chain[q] # << >> =>
                buf[q] # buf[p] /\ buf[q] \in Bufs /\ chain[q][1] # d
  BY Owner
<1>3. PICK b \in Bufs : b = buf[p]
  BY <1>2
<1>4. /\ intr /\ busy' = [busy EXCEPT ![b] = FALSE]
      /\ rw' = [q \in Procs |-> IF rw[q] = "sleep_buf" /\ info[chain[q][1]] = b
                                  THEN "woken" ELSE rw[q]]
      /\ used' = Tail(used)
      /\ UNCHANGED <<disk, block, data, free, chain, info, write, avail, irq, intr>>
      /\ UNCHANGED <<valid, pc, buf>>
  BY <1>1, <1>2, <1>3 DEF virtio_disk_intr_loop, bcvars
<1>5. rw'[p] = "woken" /\ \A q \in Procs \ {p} : rw'[q] = rw[q]
  <2>1. rw'[p] = "woken"
    BY <1>2, <1>3, <1>4
  <2>2. ASSUME NEW q \in Procs, q # p, rw[q] = "sleep_buf" PROVE info[chain[q][1]] # b
    BY <1>a, <1>2, <1>3, <2>2 DEF RingInv, Waiting
  <2> QED
    BY <1>4, <2>1, <2>2
<1>6. /\ Finished' = Finished \ {d}
      /\ \A j, k \in 1 .. Len(used') : used'[j] = used'[k] => j = k
      /\ used' \in Seq(Descs)
  <2>1. /\ Len(used') = Len(used) - 1 /\ used' \in Seq(Descs)
        /\ \A j \in 1 .. Len(used) - 1 : used'[j] = used[j + 1]
    BY <1>0, <1>4
  <2>2. \A i \in 1 .. Len(used) : i = 1 \/ (i - 1 \in 1 .. Len(used) - 1 /\ i = (i - 1) + 1)
    BY <1>0
  <2>3. \A j \in 1 .. Len(used) - 1 : j + 1 \in 1 .. Len(used) /\ j + 1 # 1 /\ 1 \in 1 .. Len(used)
    BY <1>0
  <2>4. ASSUME NEW g \in Finished, g # d PROVE g \in Finished'
    <3>1. PICK i \in 1 .. Len(used) : g = used[i]
      BY DEF Finished
    <3>2. i - 1 \in 1 .. Len(used) - 1 /\ i = (i - 1) + 1
      BY <1>0, <1>1, <2>2, <2>4, <3>1
    <3>3. used'[i - 1] = g
      BY <2>1, <3>1, <3>2
    <3> QED
      BY <2>1, <3>2, <3>3 DEF Finished
  <2>5. ASSUME NEW g \in Finished' PROVE g \in Finished /\ g # d
    <3>1. PICK j \in 1 .. Len(used) - 1 : g = used'[j]
      BY <2>1 DEF Finished
    <3>2. g = used[j + 1] /\ j + 1 \in 1 .. Len(used) /\ j + 1 # 1 /\ 1 \in 1 .. Len(used)
      BY <2>1, <2>3, <3>1
    <3> QED
      BY <1>a, <1>0, <1>1, <3>2 DEF Finished, RingInv
  <2>6. \A j, k \in 1 .. Len(used') : used'[j] = used'[k] => j = k
    <3> TAKE j, k \in 1 .. Len(used')
    <3> HAVE used'[j] = used'[k]
    <3>1. j + 1 = k + 1
      BY <1>a, <2>1, <2>3 DEF RingInv
    <3> QED
      BY <1>0, <2>1, <3>1
  <2> QED
    BY <2>1, <2>4, <2>5, <2>6
<1>7. DiskType'
  BY <1>a, <1>4 DEF DiskType
<1>8. RingType' /\ Descs' = Descs
  <2>1. rw' \in [Procs -> {"out", "alloc", "sleep_desc", "sleep_buf", "woken"}]
    BY <1>a, <1>4 DEF RingType
  <2> QED
    BY <1>a, <1>4, <1>6, <2>1 DEF RingType, Descs
<1>9. CacheType' /\ LockInv' /\ CountInv' /\ \A c \in Bufs : Clean(c)' <=> Clean(c)
  <2>1. \A q \in Procs : rw'[q] = "out" <=> rw[q] = "out"
    BY <1>2, <1>5
  <2> QED
    BY <1>4, <2>1, CacheFrame
<1>10. RingInv'
  <2>1. \A q \in Procs : Of(q)' = Of(q)
    BY <1>4 DEF Of
  <2>2. (Descs = free \cup UNION {Of(q) : q \in Procs})'
    BY <1>a, <1>4, <1>8, <2>1 DEF RingInv
  <2>3. \A q, r \in Procs : Of(q)' \cap free' = {} /\ (q # r => Of(q)' \cap Of(r)' = {})
    BY <1>a, <1>4, <2>1 DEF RingInv
  <2>4. ASSUME NEW q \in Procs
        PROVE  /\ chain'[q] # << >> <=> rw'[q] \in Waiting
               /\ chain'[q] # << >> => /\ info'[chain'[q][1]] = buf'[q]
                                       /\ write'[chain'[q][1]] <=> pc'[q] = "writing"
    BY <1>a, <1>2, <1>4, <1>5 DEF RingInv, Waiting
  <2>5. ASSUME NEW q \in Procs, rw'[q] = "sleep_buf" PROVE chain'[q][1] \in avail' \cup Finished'
    <3>1. q # p /\ rw[q] = "sleep_buf" /\ chain[q] # << >>
      BY <1>a, <1>5, <2>5 DEF RingInv, Waiting
    <3> QED
      BY <1>a, <1>2, <1>4, <1>6, <3>1 DEF RingInv
  <2>6. ASSUME NEW g \in avail' \cup Finished'
        PROVE  \E q \in Procs : rw'[q] = "sleep_buf" /\ chain'[q][1] = g
    <3>1. g \in avail \cup Finished /\ g # d
      BY <1>a, <1>4, <1>6 DEF RingInv
    <3>2. PICK q \in Procs : rw[q] = "sleep_buf" /\ chain[q][1] = g
      BY <1>a, <3>1 DEF RingInv
    <3>3. q # p
      BY <1>2, <3>1, <3>2
    <3> QED
      BY <1>4, <1>5, <3>2, <3>3
  <2>7. avail' \cap Finished' = {}
    BY <1>a, <1>4, <1>6 DEF RingInv
  <2> QED
    BY <1>6, <2>2, <2>3, <2>4, <2>5, <2>6, <2>7 DEF RingInv
<1>11. WakeInv'
  <2>1. ASSUME NEW q \in Procs, rw'[q] = "sleep_buf" PROVE busy'[buf'[q]]
    <3>1. q # p /\ rw[q] = "sleep_buf" /\ chain[q] # << >>
      BY <1>a, <1>5, <2>1 DEF RingInv, Waiting
    <3> QED
      BY <1>a, <1>2, <1>3, <1>4, <3>1 DEF WakeInv, DiskType
  <2>2. ASSUME NEW q \in Procs, rw'[q] = "sleep_desc" PROVE Cardinality(free') < 3
    BY <1>a, <1>4, <1>5, <2>2 DEF WakeInv
  <2> QED
    BY <1>4, <2>1, <2>2 DEF WakeInv
<1>12. DataInv'
  BY <1>a, <1>4, <1>9 DEF DataInv
<1> QED
  BY <1>7, <1>8, <1>9, <1>10, <1>11, <1>12 DEF CacheInv

\* The handler begins and ends; it ends when it has seen every finished request.
LEMMA HandlerStep ==
  ASSUME CacheInv, virtio_disk_intr \/ virtio_disk_intr_end, UNCHANGED bcvars
  PROVE  CacheInv'
<1>a. DiskType /\ RingType /\ RingInv /\ WakeInv /\ DataInv
  BY DEF CacheInv
<1>1. /\ UNCHANGED <<disk, block, data, busy, free, chain, info, write, avail,
                     used, rw>>
      /\ UNCHANGED <<valid, pc, buf>>
      /\ irq' \in BOOLEAN /\ intr' \in BOOLEAN /\ (used # << >> => irq' \/ intr')
  BY <1>a DEF virtio_disk_intr, virtio_disk_intr_end, bcvars, WakeInv, DiskType
<1>2. DiskType' /\ RingType' /\ Descs' = Descs
  BY <1>a, <1>1 DEF DiskType, RingType, Descs
<1>3. CacheType' /\ LockInv' /\ CountInv' /\ \A b \in Bufs : Clean(b)' <=> Clean(b)
  BY <1>1, CacheFrame
<1>4. RingInv'
  BY <1>1, RingFrame DEF DriverAlone
<1>5. WakeInv'
  BY <1>a, <1>1 DEF WakeInv
<1>6. DataInv'
  BY <1>a, <1>1, <1>3 DEF DataInv
<1> QED
  BY <1>2, <1>3, <1>4, <1>5, <1>6 DEF CacheInv
-----------------------------------------------------------------------------
\* CacheInv is inductive.
LEMMA CacheNext == CacheInv /\ [Next]_vars => CacheInv'
<1> SUFFICES ASSUME CacheInv, [Next]_vars PROVE CacheInv'
  OBVIOUS
<1>1. ASSUME NEW p \in Procs, Begin(p) PROVE CacheInv'
  <2>1. PICK k \in Blocks : bget_hit(p, k) \/ bget_recycle(p, k) \/ bget_panic(p, k)
    BY <1>1 DEF Begin
  <2>2. CASE bget_panic(p, k)
    <3>1. UNCHANGED <<vdvars, refcnt, valid, locked, lru, pc, want, buf, dirty, pinned>>
      BY <2>2 DEF bget_panic
    <3>2. DiskType' /\ RingType' /\ CacheType' /\ LockInv'
      BY <3>1 DEF CacheInv, vdvars, DiskType, RingType, Descs, CacheType,
         LruType, LockInv
    <3>3. DriverAlone /\ UNCHANGED <<busy, irq, intr>>
      BY <3>1 DEF DriverAlone, vdvars
    <3>4. CountInv' /\ DataInv'
      BY <3>1 DEF CacheInv, vdvars, CountInv, Users, Pin, DataInv, Clean
    <3> QED
      BY <3>2, <3>3, <3>4, DriverFrame DEF CacheInv
  <2> QED
    BY <2>1, <2>2, HitStep, RecycleStep
<1>2. ASSUME NEW p \in Procs, Kernel(p) PROVE CacheInv'
  <2>1. CASE transfer(p)
    BY <2>1, FullStep, RequestStep DEF transfer
  <2> QED
    BY <1>2, <2>1, AcquireStep, StartStep, DoneStep, BrelseStep DEF Kernel
<1>3. ASSUME NEW p \in Procs, User(p) PROVE CacheInv'
  BY <1>3, StartStep, PinStep, ChangeStep DEF User
<1>4. ASSUME Device PROVE CacheInv'
  BY <1>4, DeviceStep DEF Device
<1>5. ASSUME Interrupt PROVE CacheInv'
  BY <1>5, LoopStep, HandlerStep DEF Interrupt
<1>6. ASSUME UNCHANGED vars PROVE CacheInv'
  <2>1. UNCHANGED vdvars /\ UNCHANGED bcvars
    BY <1>6 DEF vars
  <2>2. DiskType' /\ RingType'
    BY <2>1 DEF CacheInv, vdvars, DiskType, RingType, Descs
  <2>3. CacheType' /\ LockInv' /\ CountInv' /\ \A b \in Bufs : Clean(b)' <=> Clean(b)
    BY <2>1, CacheFrame DEF vdvars
  <2>4. DriverAlone /\ UNCHANGED <<busy, irq, intr>>
    BY <2>1 DEF DriverAlone, vdvars, bcvars
  <2>5. DataInv'
    BY <2>1, <2>3 DEF CacheInv, DataInv, vdvars, bcvars
  <2> QED
    BY <2>2, <2>3, <2>4, <2>5, DriverFrame DEF CacheInv
<1> QED
  BY <1>1, <1>2, <1>3, <1>4, <1>5, <1>6, ReleaseStep DEF Next

\* CacheInv holds in every state.
LEMMA CacheAlways == Spec => []CacheInv
BY CacheInit, CacheNext, PTL DEF Spec

\* virtio_disk.c, for any queue size of at least three and any number of
\* processes: each descriptor is free or in the chain of one process, and what
\* the rings hold are chains of processes that wait (free_desc cannot panic).
THEOREM DescriptorsOwned == Spec => []ChainsOwned
<1>1. CacheInv => ChainsOwned
  <2> SUFFICES ASSUME CacheInv PROVE ChainsOwned
    OBVIOUS
  <2>a. RingInv /\ RingType
    BY DEF CacheInv
  <2>1. DOMAIN used = 1 .. Len(used)
    BY <2>a DEF RingType
  <2>2. \A d \in avail \cup {used[j] : j \in DOMAIN used} :
          \E p \in Procs : chain[p] # << >> /\ chain[p][1] = d
    BY <2>a, <2>1 DEF RingInv, Finished, Waiting
  <2> QED
    BY <2>a, <2>2 DEF ChainsOwned, RingInv, Of
<1> QED
  BY <1>1, CacheAlways, PTL

\* No completion and no wake-up is lost between a reader and its block: not the
\* device's interrupt, not the wake-up on b, on free[0] or on a sleep lock.
THEOREM BlockWakeups == Spec => []SleepersWoken
<1>1. CacheInv => SleepersWoken
  <2> SUFFICES ASSUME CacheInv PROVE SleepersWoken
    OBVIOUS
  <2>a. RingInv /\ WakeInv /\ LockInv
    BY DEF CacheInv
  <2>1. \A p \in Procs : rw[p] = "sleep_buf" => info[chain[p][1]] = buf[p]
    BY <2>a DEF RingInv, Waiting
  <2> QED
    BY <2>a, <2>1 DEF SleepersWoken, DiskNotLost, WakeInv, LockInv
<1> QED
  BY <1>1, CacheAlways, PTL

\* bio.c: whoever has a buffer has the block it asked for, a block is in one
\* buffer only, and refcnt counts users and pins, for any number of buffers.
THEOREM BufferIsRight == Spec => []RightBuffer
<1>1. CacheInv => RightBuffer
  BY DEF CacheInv, RightBuffer, LockInv, CountInv, Users, Pin
<1> QED
  BY <1>1, CacheAlways, PTL
-----------------------------------------------------------------------------
(* The cache implements BlockStore.                                        *)

\* What BufferCache maps content and holder to.
Content ==
  [k \in Blocks |-> IF \E b \in Cached(k) : valid[b]
                      THEN data[CHOOSE b \in Cached(k) : valid[b]] ELSE disk[k]]
HolderOf ==
  [k \in Blocks |-> IF Cached(k) = {} THEN None
                      ELSE locked[CHOOSE b \in Cached(k) : TRUE]]

\* The same without CHOOSE: a block is in one buffer or in none.
View ==
  /\ \A b \in Bufs : block[b] \in Blocks =>
       /\ Content[block[b]] = IF valid[b] THEN data[b] ELSE disk[block[b]]
       /\ HolderOf[block[b]] = locked[b]
  /\ \A k \in Blocks : (\A b \in Bufs : block[b] # k) =>
       Content[k] = disk[k] /\ HolderOf[k] = None
  /\ Content \in [Blocks -> Values]

\* The mapping is what View says it is.
LEMMA Viewed == CacheInv => View
<1> SUFFICES ASSUME CacheInv PROVE View
  OBVIOUS
<1>a. DiskType /\ LockInv
  BY DEF CacheInv
<1>1. ASSUME NEW b \in Bufs, block[b] \in Blocks PROVE Cached(block[b]) = {b}
  BY <1>a, <1>1, NoneAssumption DEF LockInv, Cached
<1>2. ASSUME NEW b \in Bufs, block[b] \in Blocks
      PROVE  /\ Content[block[b]] = IF valid[b] THEN data[b] ELSE disk[block[b]]
             /\ HolderOf[block[b]] = locked[b]
  BY <1>1, <1>2 DEF Content, HolderOf
<1>3. ASSUME NEW k \in Blocks, \A b \in Bufs : block[b] # k
      PROVE  Content[k] = disk[k] /\ HolderOf[k] = None
  BY <1>3 DEF Content, HolderOf, Cached
<1>4. ASSUME NEW k \in Blocks PROVE Content[k] \in Values
  <2>1. CASE \A b \in Bufs : block[b] # k
    BY <1>a, <1>3, <2>1 DEF DiskType
  <2>2. CASE \E b \in Bufs : block[b] = k
    BY <1>a, <1>2, <2>2 DEF DiskType
  <2> QED
    BY <2>1, <2>2
<1>5. Content \in [Blocks -> Values]
  <2>1. Content = [k \in Blocks |-> Content[k]]
    BY DEF Content
  <2> QED
    BY <1>4, <2>1
<1> QED
  BY <1>2, <1>3, <1>5 DEF View

\* HolderOf is a function on Blocks.
LEMMA HolderDomain ==
  /\ HolderOf = [k \in Blocks |-> HolderOf[k]]
  /\ HolderOf' = [k \in Blocks |-> HolderOf'[k]]
BY DEF HolderOf

\* A step that leaves buffers, disk and locks alone is not seen.
LEMMA Hidden ==
  ASSUME UNCHANGED <<disk, block, data, valid, locked>>
  PROVE  UNCHANGED <<Content, HolderOf>>
BY DEF Content, HolderOf, Cached

\* Equal at every block.
LEMMA SameView ==
  ASSUME View, View',
         \A k \in Blocks : Content'[k] = Content[k] /\ HolderOf'[k] = HolderOf[k]
  PROVE  UNCHANGED <<Content, HolderOf>>
<1>1. Content' = Content
  BY DEF View
<1>2. HolderOf' = HolderOf
  BY HolderDomain
<1> QED
  BY <1>1, <1>2

\* Recycling: the victim is clean and unlocked, so its block reads the same.
LEMMA RecycleHidden ==
  ASSUME CacheInv, View, View', NEW p \in Procs, NEW k \in Blocks, bget_recycle(p, k)
  PROVE  UNCHANGED <<Content, HolderOf>>
<1>a. DiskType /\ CacheType /\ LockInv /\ CountInv /\ DataInv
  BY DEF CacheInv
<1>0. PICK b \in Bufs : b = Victim /\ refcnt[b] = 0
  BY <1>a, VictimUnused DEF bget_recycle
<1>1. /\ block' = [block EXCEPT ![b] = k] /\ valid' = [valid EXCEPT ![b] = FALSE]
      /\ UNCHANGED <<disk, data, locked>>
      /\ \A c \in Bufs : block[c] # k
  BY <1>0 DEF bget_recycle, Cached
<1>2. locked[b] = None /\ Clean(b)
  <2>1. Cardinality(Users(b)) \in Nat /\ Pin(b) \in {0, 1}
    BY <1>a, FS_CardinalityType DEF CountInv, Pin
  <2>2. Cardinality(Users(b)) = 0 /\ Pin(b) = 0
    BY <1>a, <1>0, <2>1 DEF CountInv
  <2>3. Users(b) = {}
    BY <1>a, <2>2, FS_EmptySet DEF CountInv
  <2>4. locked[b] = None
    BY <1>a, <2>3 DEF Users, LockInv, CacheType
  <2> QED
    BY <2>2, <2>4, NoneAssumption DEF Pin, Clean
<1>3. /\ block'[b] = k /\ ~valid'[b]
      /\ \A c \in Bufs : c # b => block'[c] = block[c] /\ valid'[c] = valid[c]
  BY <1>a, <1>1 DEF DiskType, CacheType
<1>4. ASSUME NEW j \in Blocks
      PROVE  Content'[j] = Content[j] /\ HolderOf'[j] = HolderOf[j]
  <2>1. CASE j = k
    <3>1. Content[k] = disk[k] /\ HolderOf[k] = None
      BY <1>1 DEF View
    <3>2. Content'[k] = disk'[k] /\ HolderOf'[k] = locked'[b]
      BY <1>3 DEF View
    <3> QED
      BY <1>1, <1>2, <2>1, <3>1, <3>2
  <2>2. CASE j # k /\ j = block[b]
    <3>1. Content[j] = disk[j] /\ HolderOf[j] = None
      BY <1>a, <1>2, <2>2 DEF View, DataInv
    <3>2. \A c \in Bufs : block'[c] # j
      BY <1>a, <1>3, <2>2, NoneAssumption DEF LockInv
    <3>3. Content'[j] = disk'[j] /\ HolderOf'[j] = None
      BY <3>2 DEF View
    <3> QED
      BY <1>1, <3>1, <3>3
  <2>3. CASE j # k /\ j # block[b] /\ \E c \in Bufs : block[c] = j
    <3>1. PICK c \in Bufs : block[c] = j
      BY <2>3
    <3>2. c # b /\ block'[c] = j /\ valid'[c] = valid[c]
      BY <1>3, <2>3, <3>1
    <3>3. /\ Content[j] = IF valid[c] THEN data[c] ELSE disk[j]
          /\ HolderOf[j] = locked[c]
      BY <3>1 DEF View
    <3>4. /\ Content'[j] = IF valid'[c] THEN data'[c] ELSE disk'[j]
          /\ HolderOf'[j] = locked'[c]
      BY <3>2 DEF View
    <3> QED
      BY <1>1, <3>2, <3>3, <3>4
  <2>4. CASE j # k /\ \A c \in Bufs : block[c] # j
    <3>1. \A c \in Bufs : block'[c] # j
      BY <1>3, <2>4
    <3> QED
      BY <1>1, <2>4, <3>1 DEF View
  <2> QED
    BY <2>1, <2>2, <2>3, <2>4
<1> QED
  BY <1>4, SameView

\* The blocks stay where they are, and only one buffer's content, or lock, or
\* block on the disk changes.
LEMMA OneBuffer ==
  ASSUME CacheInv, View, View', block' = block,
         NEW b \in Bufs, NEW k \in Blocks, block[b] = k,
         \A c \in Bufs : c # b =>
           data'[c] = data[c] /\ valid'[c] = valid[c] /\ locked'[c] = locked[c],
         \A j \in Blocks : j # k => disk'[j] = disk[j]
  PROVE  /\ \A j \in Blocks : j # k =>
              Content'[j] = Content[j] /\ HolderOf'[j] = HolderOf[j]
         /\ Content[k] = IF valid[b] THEN data[b] ELSE disk[k]
         /\ Content'[k] = IF valid'[b] THEN data'[b] ELSE disk'[k]
         /\ HolderOf[k] = locked[b] /\ HolderOf'[k] = locked'[b]
<1>1. ASSUME NEW j \in Blocks, j # k
      PROVE  Content'[j] = Content[j] /\ HolderOf'[j] = HolderOf[j]
  <2>1. CASE \E c \in Bufs : block[c] = j
    <3>1. PICK c \in Bufs : block[c] = j
      BY <2>1
    <3>2. /\ Content[j] = IF valid[c] THEN data[c] ELSE disk[j]
          /\ HolderOf[j] = locked[c]
      BY <3>1 DEF View
    <3>3. /\ Content'[j] = IF valid'[c] THEN data'[c] ELSE disk'[j]
          /\ HolderOf'[j] = locked'[c]
      BY <3>1 DEF View
    <3>4. c # b
      BY <1>1, <3>1
    <3> QED
      BY <1>1, <3>2, <3>3, <3>4
  <2>2. CASE \A c \in Bufs : block[c] # j
    BY <1>1, <2>2 DEF View
  <2> QED
    BY <2>1, <2>2
<1> QED
  BY <1>1 DEF View

\* HolderOf with one value changed.
LEMMA HolderExcept ==
  ASSUME NEW k \in Blocks, NEW v, HolderOf'[k] = v,
         \A j \in Blocks : j # k => HolderOf'[j] = HolderOf[j]
  PROVE  HolderOf' = [HolderOf EXCEPT ![k] = v]
<1>1. DOMAIN HolderOf = Blocks /\ DOMAIN HolderOf' = Blocks
  BY DEF HolderOf
<1>2. [HolderOf EXCEPT ![k] = v] = [j \in Blocks |-> IF j = k THEN v ELSE HolderOf[j]]
  BY <1>1
<1>3. HolderOf' = [j \in Blocks |-> HolderOf'[j]]
  BY HolderDomain
<1> QED
  BY <1>2, <1>3

\* Every step is a step of BlockStore, or is not seen there.
LEMMA Simulation ==
  ASSUME CacheInv, CacheInv', View, View', [Next]_vars
  PROVE  Abs!Next \/ UNCHANGED <<Content, HolderOf>>
<1>a. DiskType /\ CacheType /\ LockInv /\ DataInv
  BY DEF CacheInv
<1>1. ASSUME NEW p \in Procs, Begin(p) PROVE UNCHANGED <<Content, HolderOf>>
  <2>1. PICK k \in Blocks : bget_hit(p, k) \/ bget_recycle(p, k) \/ bget_panic(p, k)
    BY <1>1 DEF Begin
  <2>2. CASE bget_hit(p, k) \/ bget_panic(p, k)
    BY <2>2, Hidden DEF bget_hit, bget_panic, vdvars
  <2> QED
    BY <2>1, <2>2, RecycleHidden
<1>2. ASSUME NEW p \in Procs, bread(p) \/ bwrite(p) \/ bpin(p) \/ brelse(p) \/ transfer(p)
      PROVE  UNCHANGED <<Content, HolderOf>>
  <2>1. UNCHANGED <<disk, block, data, valid, locked>>
    BY <1>2 DEF bread, bwrite, start, bpin, brelse, transfer, virtio_disk_rw_full,
                virtio_disk_rw, vdvars, bcvars
  <2> QED
    BY <2>1, Hidden
<1>3. ASSUME NEW p \in Procs, acquiresleep(p)
      PROVE  Abs!Next \/ UNCHANGED <<Content, HolderOf>>
  <2>0. UNCHANGED <<disk, block, data, valid>>
    BY <1>3 DEF acquiresleep, vdvars
  <2>1. CASE UNCHANGED locked
    BY <2>0, <2>1, Hidden
  <2>2. CASE locked[buf[p]] = None /\ locked' = [locked EXCEPT ![buf[p]] = p]
    <3>1. PICK b \in Bufs, k \in Blocks : b = buf[p] /\ k = want[p] /\ block[b] = k
      BY <1>a, <1>3 DEF acquiresleep, LockInv, CacheType
    <3>2. locked'[b] = p /\ \A c \in Bufs : c # b => locked'[c] = locked[c]
      BY <1>a, <2>2, <3>1 DEF CacheType
    <3>3. /\ \A j \in Blocks : j # k => Content'[j] = Content[j] /\ HolderOf'[j] = HolderOf[j]
          /\ Content'[k] = Content[k] /\ HolderOf[k] = None /\ HolderOf'[k] = p
      BY <2>0, <2>2, <3>1, <3>2, OneBuffer
    <3>4. HolderOf' = [HolderOf EXCEPT ![k] = p] /\ Content' = Content
      BY <3>3, HolderExcept DEF View
    <3>5. Abs!Acquire(p, k)
      BY <3>3, <3>4 DEF Abs!Acquire, Content, HolderOf
    <3> QED
      BY <3>5 DEF Abs!Next
  <2> QED
    BY <1>3, <2>1, <2>2 DEF acquiresleep
<1>4. ASSUME NEW p \in Procs, releasesleep(p) PROVE Abs!Next
  <2>0. UNCHANGED <<disk, block, data, valid>>
    BY <1>4 DEF releasesleep, vdvars
  <2>1. PICK b \in Bufs, k \in Blocks : b = buf[p] /\ k = want[p] /\ block[b] = k /\ locked[b] = p
    BY <1>4, Holder DEF releasesleep, Holding
  <2>2. locked'[b] = None /\ \A c \in Bufs : c # b => locked'[c] = locked[c]
    BY <1>a, <1>4, <2>1 DEF CacheType, releasesleep
  <2>3. /\ \A j \in Blocks : j # k => Content'[j] = Content[j] /\ HolderOf'[j] = HolderOf[j]
        /\ Content'[k] = Content[k] /\ HolderOf[k] = p /\ HolderOf'[k] = None
    BY <2>0, <2>1, <2>2, OneBuffer
  <2>4. HolderOf' = [HolderOf EXCEPT ![k] = None] /\ Content' = Content
    BY <2>3, HolderExcept DEF View
  <2>5. Abs!Release(p, k)
    BY <2>3, <2>4 DEF Abs!Release, Content, HolderOf
  <2> QED
    BY <2>5 DEF Abs!Next
<1>5. ASSUME NEW p \in Procs, NEW v \in Values, change(p, v) PROVE Abs!Next
  <2>0. UNCHANGED <<disk, block, valid, locked>>
    BY <1>5 DEF change
  <2>1. PICK b \in Bufs, k \in Blocks : b = buf[p] /\ k = want[p] /\ block[b] = k /\ locked[b] = p
    BY <1>5, Holder DEF change, Holding
  <2>2. valid[b] /\ data'[b] = v /\ \A c \in Bufs : c # b => data'[c] = data[c]
    BY <1>a, <1>5, <2>1 DEF DiskType, change, DataInv
  <2>3. /\ \A j \in Blocks : j # k => Content'[j] = Content[j] /\ HolderOf'[j] = HolderOf[j]
        /\ Content'[k] = v /\ HolderOf[k] = p /\ HolderOf'[k] = p
    BY <2>0, <2>1, <2>2, OneBuffer
  <2>4. Content' = [Content EXCEPT ![k] = v]
    BY <2>3 DEF View
  <2>5. HolderOf' = HolderOf
    BY <2>3, HolderDomain
  <2>6. Abs!Change(p, k, v)
    BY <2>3, <2>4, <2>5 DEF Abs!Change, Content, HolderOf
  <2> QED
    BY <2>6 DEF Abs!Next
<1>6. ASSUME NEW p \in Procs, transfer_done(p) PROVE UNCHANGED <<Content, HolderOf>>
  <2>0. UNCHANGED <<disk, block, data, locked>>
    BY <1>6 DEF transfer_done, virtio_disk_rw_done
  <2>1. chain[p] # << >> /\ rw[p] = "woken"
    BY <1>6 DEF CacheInv, transfer_done, virtio_disk_rw_done, RingInv, Waiting
  <2>2. PICK b \in Bufs, k \in Blocks : b = buf[p] /\ k = want[p] /\ block[b] = k
    BY <2>1, Request
  <2>3. data[b] = disk[k]
    <3>1. chain[p][1] \notin avail
      <4>1. ASSUME chain[p][1] \in avail PROVE FALSE
        <5>1. PICK q \in Procs : rw[q] = "sleep_buf" /\ chain[q] # << >> /\ chain[q][1] = chain[p][1]
          BY <4>1, Owner
        <5> QED
          BY <2>1, <5>1, OneRequest
      <4> QED
        BY <4>1
    <3> QED
      BY <1>a, <2>1, <2>2, <3>1 DEF DataInv
  <2>4. \A c \in Bufs : c # b => valid'[c] = valid[c]
    BY <1>a, <1>6, <2>2 DEF transfer_done, CacheType
  <2>5. \A j \in Blocks : Content'[j] = Content[j] /\ HolderOf'[j] = HolderOf[j]
    BY <2>0, <2>2, <2>3, <2>4, OneBuffer
  <2> QED
    BY <2>5, SameView
<1>7. ASSUME NEW d \in avail, device(d), UNCHANGED bcvars PROVE UNCHANGED <<Content, HolderOf>>
  <2>0. UNCHANGED <<block, valid, locked>>
    BY <1>7 DEF device, bcvars
  <2>1. PICK p \in Procs :
          /\ info[d] = buf[p] /\ buf[p] \in Bufs /\ block[buf[p]] \in Blocks
          /\ pc[p] \in {"reading", "writing"} /\ (write[d] <=> pc[p] = "writing")
    BY Owner
  <2>2. PICK b \in Bufs, k \in Blocks : b = buf[p] /\ block[b] = k
    BY <2>1
  <2>3. \/ valid[b] /\ disk' = [disk EXCEPT ![k] = data[b]] /\ data' = data
        \/ ~valid[b] /\ data' = [data EXCEPT ![b] = disk[k]] /\ disk' = disk
    BY <1>a, <1>7, <2>1, <2>2 DEF device, DataInv
  <2>4. /\ \A c \in Bufs : c # b => data'[c] = data[c]
        /\ \A j \in Blocks : j # k => disk'[j] = disk[j]
    BY <1>a, <2>3 DEF DiskType
  <2>5. \A j \in Blocks : Content'[j] = Content[j] /\ HolderOf'[j] = HolderOf[j]
    BY <2>0, <2>2, <2>3, <2>4, OneBuffer
  <2> QED
    BY <2>5, SameView
<1>8. ASSUME Interrupt \/ UNCHANGED vars PROVE UNCHANGED <<Content, HolderOf>>
  <2>1. UNCHANGED <<disk, block, data, valid, locked>>
    BY <1>8 DEF Interrupt, virtio_disk_intr, virtio_disk_intr_loop,
                virtio_disk_intr_end, bcvars, vars, vdvars
  <2> QED
    BY <2>1, Hidden
<1> QED
  BY <1>1, <1>2, <1>3, <1>4, <1>5, <1>6, <1>7, <1>8
     DEF Next, Kernel, User, Device

\* bio.c on virtio_disk.c and sleeplock.c implements BlockStore: through
\* recycling, write-back and requests that finish in any order, a block has one
\* holder at a time, and the holder sees the last change made to it.
THEOREM CacheIsCoherent == Spec => Coherent
<1>1. Init => Abs!Init
  <2> SUFFICES ASSUME Init PROVE Abs!Init
    OBVIOUS
  <2>1. CacheInv /\ View
    BY CacheInit, Viewed
  <2>2. \A b \in Bufs : block[b] = None
    BY DEF Init, VDInit
  <2>3. \A k \in Blocks : HolderOf[k] = None
    BY <2>1, <2>2, NoneAssumption DEF View
  <2>4. HolderOf = [k \in Blocks |-> None] /\ Content \in [Blocks -> Values]
    BY <2>1, <2>3, HolderDomain DEF View
  <2> QED
    BY <2>4 DEF Abs!Init, Content, HolderOf
<1>2. View /\ View' /\ CacheInv /\ CacheInv' /\ [Next]_vars => [Abs!Next]_(Abs!bsvars)
  BY Simulation DEF Abs!bsvars, Content, HolderOf
<1> QED
  BY <1>1, <1>2, CacheAlways, Viewed, PTL DEF Spec, Coherent, Abs!Spec
=============================================================================

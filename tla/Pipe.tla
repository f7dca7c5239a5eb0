-------------------------------- MODULE Pipe ---------------------------------
(***************************************************************************)
(* One pipe of kernel/pipe.c, used by several processes: pipewrite and     *)
(* piperead one loop iteration at a time under pi->lock, their sleeps, the *)
(* last fileclose of each end (file.c), pipeclose and kill.                *)
(*                                                                         *)
(* pc[p] is the next thing p does:                                         *)
(*   "user"                       nothing with the pipe                    *)
(*   "w_acquire", "r_acquire"     acquire pi->lock; where sleep() returns  *)
(*   "w_test", "w_put"            pipewrite's loop                         *)
(*   "r_test", "r_sleep", "r_get" piperead's two loops                     *)
(*   "w_asleep", "r_asleep"       SLEEPING on &pi->nwrite, &pi->nread      *)
(*   "w_close", "r_close"         pipeclose, for the last user of an end   *)
(* sleep() gives up pi->lock and sleeps in one step, which SemaphoreLocks  *)
(* justifies.                                                              *)
(***************************************************************************)
EXTENDS Integers

CONSTANTS
  Procs, Bytes,
  PIPESIZE,   \* as in pipe.c (512 there)
  Wrap,       \* nread and nwrite are counted modulo Wrap (2^32 there)
  Counts,     \* bound of the model: how many bytes a call asks for
  None        \* nobody holds pi->lock; no byte

ASSUME SizeAssumption ==
  /\ PIPESIZE \in Nat \ {0}
  /\ Wrap \in Nat /\ Wrap > PIPESIZE /\ Wrap % PIPESIZE = 0
ASSUME CountsAssumption == Counts \subseteq Nat
ASSUME NoneAssumption == None \notin Procs

VARIABLES
  data, nread, nwrite, readopen, writeopen, lock,  \* struct pipe
  freed,                                           \* its page was given to kfree
  readers, writers,                                \* who has each end open
  pc, i, n, killed

pipe == <<data, nread, nwrite, readopen, writeopen, freed>>
vars == <<pipe, lock, readers, writers, pc, i, n, killed>>

\* pipealloc; forks and closes may have spread the two ends before anybody
\* reads or writes.
Init ==
  /\ data = [k \in 0 .. PIPESIZE - 1 |-> None]
  /\ nread = 0 /\ nwrite = 0
  /\ readopen = TRUE /\ writeopen = TRUE
  /\ lock = None
  /\ freed = FALSE
  /\ readers \in SUBSET Procs \ {{}}
  /\ writers \in SUBSET Procs \ {{}}
  /\ pc = [p \in Procs |-> "user"]
  /\ i = [p \in Procs |-> 0]
  /\ n = [p \in Procs |-> 0]
  /\ killed = [p \in Procs |-> FALSE]
-----------------------------------------------------------------------------
\* uint arithmetic
plus(k, d) == (k + d) % Wrap

\* Mutant of Full: one byte too many.
Full_Over == nwrite = plus(nread, PIPESIZE + 1)

Full == nwrite = plus(nread, PIPESIZE)
Empty == nread = nwrite

goto(p, l) == pc' = [pc EXCEPT ![p] = l]

\* p leaves the lock and its call.
Return(to, p) ==
  /\ lock' = None
  /\ pc' = [to EXCEPT ![p] = "user"]
  /\ i' = [i EXCEPT ![p] = 0]
  /\ n' = [n EXCEPT ![p] = 0]

\* wakeup() on &pi->nread and on &pi->nwrite.
wake_readers ==
  [q \in Procs |-> IF pc[q] = "r_asleep" THEN "r_acquire" ELSE pc[q]]
wake_writers ==
  [q \in Procs |-> IF pc[q] = "w_asleep" THEN "w_acquire" ELSE pc[q]]

\* fileread and filewrite; a killed process starts no system call.
Call(p, ends, l, k) ==
  /\ pc[p] = "user" /\ ~killed[p] /\ p \in ends
  /\ goto(p, l)
  /\ n' = [n EXCEPT ![p] = k]
  /\ UNCHANGED <<pipe, lock, readers, writers, i, killed>>

acquire(p) ==
  /\ pc[p] \in {"w_acquire", "r_acquire"}
  /\ lock = None /\ lock' = p
  /\ goto(p, IF pc[p] = "w_acquire" THEN "w_test" ELSE "r_test")
  /\ UNCHANGED <<pipe, readers, writers, i, n, killed>>
-----------------------------------------------------------------------------
(* pipewrite                                                               *)

pipewrite_test(p) ==
  /\ pc[p] = "w_test" /\ i[p] < n[p]
  /\ \/ (~readopen \/ killed[p]) /\ Return(pc, p)
     \/ /\ readopen /\ ~killed[p]
        /\ goto(p, "w_put")
        /\ UNCHANGED <<lock, i, n>>
  /\ UNCHANGED <<pipe, readers, writers, killed>>

\* Mutant of pipewrite_full: the readers are only woken at the end.
pipewrite_full_Quiet(p) ==
  /\ pc[p] = "w_put" /\ Full
  /\ goto(p, "w_asleep")
  /\ lock' = None
  /\ UNCHANGED <<pipe, readers, writers, i, n, killed>>

pipewrite_full(p) ==
  /\ pc[p] = "w_put" /\ Full
  /\ pc' = [wake_readers EXCEPT ![p] = "w_asleep"]
  /\ lock' = None
  /\ UNCHANGED <<pipe, readers, writers, i, n, killed>>

pipewrite_put(p, ch) ==
  /\ pc[p] = "w_put" /\ ~Full
  /\ data' = [data EXCEPT ![nwrite % PIPESIZE] = ch]
  /\ nwrite' = plus(nwrite, 1)
  /\ i' = [i EXCEPT ![p] = @ + 1]
  /\ goto(p, "w_test")
  /\ UNCHANGED <<nread, readopen, writeopen, freed, lock, readers, writers, n,
                 killed>>

\* All is written, or copyin failed.
pipewrite_end(p) ==
  /\ \/ pc[p] = "w_test" /\ i[p] = n[p]
     \/ pc[p] = "w_put" /\ ~Full
  /\ Return(wake_readers, p)
  /\ UNCHANGED <<pipe, readers, writers, killed>>
-----------------------------------------------------------------------------
(* piperead                                                                *)

piperead_test(p) ==
  /\ pc[p] = "r_test"
  /\ \/ Empty /\ writeopen /\ killed[p] /\ Return(pc, p)
     \/ /\ Empty /\ writeopen /\ ~killed[p]
        /\ goto(p, "r_sleep")
        /\ UNCHANGED <<lock, i, n>>
     \/ /\ ~Empty \/ ~writeopen
        /\ goto(p, "r_get")
        /\ UNCHANGED <<lock, i, n>>
  /\ UNCHANGED <<pipe, readers, writers, killed>>

\* A kill between the test and this step is not noticed until the next wakeup.
piperead_sleep(p) ==
  /\ pc[p] = "r_sleep"
  /\ goto(p, "r_asleep")
  /\ lock' = None
  /\ UNCHANGED <<pipe, readers, writers, i, n, killed>>

\* The byte is gone even if copyout fails, which ends the loop.  What stays in
\* its place is never read again, and is forgotten here.
piperead_get(p) ==
  /\ pc[p] = "r_get" /\ i[p] < n[p] /\ ~Empty
  /\ nread' = plus(nread, 1)
  /\ data' = [data EXCEPT ![nread % PIPESIZE] = None]
  /\ \/ i' = [i EXCEPT ![p] = @ + 1]
     \/ i' = [i EXCEPT ![p] = n[p]]
  /\ UNCHANGED <<nwrite, readopen, writeopen, freed, lock, readers,
                 writers, pc, n, killed>>

piperead_end(p) ==
  /\ pc[p] = "r_get" /\ (i[p] = n[p] \/ Empty)
  /\ Return(wake_writers, p)
  /\ UNCHANGED <<pipe, readers, writers, killed>>
-----------------------------------------------------------------------------
(* close, also on exit, and kill                                           *)

\* fileclose: f->ref, and pipeclose when it drops to 0.
fileclose_read(p) ==
  /\ pc[p] = "user" /\ p \in readers
  /\ readers' = readers \ {p}
  /\ goto(p, IF readers = {p} THEN "r_close" ELSE "user")
  /\ UNCHANGED <<pipe, lock, writers, i, n, killed>>

fileclose_write(p) ==
  /\ pc[p] = "user" /\ p \in writers
  /\ writers' = writers \ {p}
  /\ goto(p, IF writers = {p} THEN "w_close" ELSE "user")
  /\ UNCHANGED <<pipe, lock, readers, i, n, killed>>

\* Mutant of LastEnd: either end frees the pipe.
LastEnd_Any(r, w) == ~r \/ ~w

LastEnd(r, w) == ~r /\ ~w

\* Mutant of pipeclose: nobody is woken.
pipeclose_Quiet(p) ==
  /\ pc[p] \in {"r_close", "w_close"} /\ lock = None
  /\ readopen' = (readopen /\ pc[p] # "r_close")
  /\ writeopen' = (writeopen /\ pc[p] # "w_close")
  /\ goto(p, "user")
  /\ freed' = (freed \/ LastEnd(readopen', writeopen'))
  /\ UNCHANGED <<data, nread, nwrite, lock, readers, writers, i, n, killed>>

pipeclose(p) ==
  /\ pc[p] \in {"r_close", "w_close"} /\ lock = None
  /\ \/ /\ pc[p] = "w_close"
        /\ writeopen' = FALSE /\ UNCHANGED readopen
        /\ pc' = [wake_readers EXCEPT ![p] = "user"]
     \/ /\ pc[p] = "r_close"
        /\ readopen' = FALSE /\ UNCHANGED writeopen
        /\ pc' = [wake_writers EXCEPT ![p] = "user"]
  /\ freed' = (freed \/ LastEnd(readopen', writeopen'))
  /\ UNCHANGED <<data, nread, nwrite, lock, readers, writers, i, n, killed>>

kill(q) ==
  /\ ~killed[q]
  /\ killed' = [killed EXCEPT ![q] = TRUE]
  /\ pc' = [pc EXCEPT ![q] = CASE @ = "r_asleep" -> "r_acquire"
                               [] @ = "w_asleep" -> "w_acquire"
                               [] OTHER -> @]
  /\ UNCHANGED <<pipe, lock, readers, writers, i, n>>
-----------------------------------------------------------------------------
User(p) ==
  \/ \E k \in Counts :
       Call(p, writers, "w_acquire", k) \/ Call(p, readers, "r_acquire", k)
  \/ fileclose_read(p) \/ fileclose_write(p)

Inside(p) ==
  \/ pipewrite_test(p) \/ pipewrite_full(p) \/ pipewrite_end(p)
  \/ \E ch \in Bytes : pipewrite_put(p, ch)
  \/ piperead_test(p) \/ piperead_sleep(p) \/ piperead_get(p) \/ piperead_end(p)

Next == \E p \in Procs : User(p) \/ acquire(p) \/ Inside(p) \/ pipeclose(p) \/ kill(p)

Spec == Init /\ [][Next]_vars

\* A process in the kernel goes on, and gets a spin lock that is free again and
\* again; nothing is assumed of what programs do.
Fairness ==
  \A p \in Procs : /\ WF_vars(Inside(p))
                    /\ SF_vars(acquire(p)) /\ SF_vars(pipeclose(p))

LiveSpec == Spec /\ Fairness
-----------------------------------------------------------------------------
\* No lost wake-up: while nobody is inside the pipe, a writer sleeps only on a
\* full pipe that has readers and a reader only on an empty one that has
\* writers, unless some process was killed: a killed writer returns in the
\* middle of a write without waking the readers of what it has written.
PipeNotLost ==
  lock = None =>
    \A p \in Procs :
      /\ pc[p] = "r_asleep" => writeopen /\ (Empty \/ \E q \in Procs : killed[q])
      /\ pc[p] = "w_asleep" => Full /\ readopen

\* pipeclose gives the page back only when nobody can reach it any more.
NoUseAfterFree ==
  freed => \A p \in Procs : pc[p] = "user" /\ p \notin readers \cup writers

\* The bytes in the pipe, oldest first.
InPipe ==
  [k \in 1 .. (nwrite - nread) % Wrap |-> data[(nread + k - 1) % PIPESIZE]]

Abs == INSTANCE BoundedQueue WITH Size <- PIPESIZE, q <- InPipe

\* The ring buffer is a bounded queue, across the wrap-around of its indices
\* and of its counters, whatever reads, writes and kills interleave.
Fifo == Abs!Spec

\* Once the write end is closed every read returns, and once the read end is
\* closed every write does.
CallsEnd ==
  \A p \in Procs :
    (\/ ~writeopen /\ pc[p] \in {"r_acquire", "r_test", "r_sleep", "r_get", "r_asleep"}
     \/ ~readopen /\ pc[p] \in {"w_acquire", "w_test", "w_put", "w_asleep"})
    ~> pc[p] = "user"
=============================================================================

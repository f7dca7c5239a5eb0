----------------------------- MODULE PipeProofs ------------------------------
(***************************************************************************)
(* Proofs about Pipe, for any number of processes, any PIPESIZE and any    *)
(* counter width: the page is freed once and only when nobody can reach    *)
(* it, no wake-up is lost, and the ring buffer is a bounded queue.         *)
(***************************************************************************)
EXTENDS Pipe, Sequences, TLAPS

Reading == {"r_acquire", "r_test", "r_sleep", "r_get", "r_asleep"}
Writing == {"w_acquire", "w_test", "w_put", "w_asleep"}
Locked == {"w_test", "w_put", "r_test", "r_sleep", "r_get"}
PCs == Reading \cup Writing \cup {"user", "r_close", "w_close"}

USE NoneAssumption DEF pipe

PipeType ==
  /\ data \in [0 .. PIPESIZE - 1 -> Bytes \cup {None}]
  /\ nread \in 0 .. Wrap - 1 /\ nwrite \in 0 .. Wrap - 1

ProcType ==
  /\ readopen \in BOOLEAN /\ writeopen \in BOOLEAN /\ freed \in BOOLEAN
  /\ lock \in Procs \cup {None}
  /\ readers \subseteq Procs /\ writers \subseteq Procs
  /\ pc \in [Procs -> PCs]
  /\ i \in [Procs -> Nat] /\ n \in [Procs -> Nat]
  /\ killed \in [Procs -> BOOLEAN]

(***************************************************************************)
(* Who may be where.  LockInv: pi->lock is held exactly by the process     *)
(* inside pipewrite or piperead.  EndsInv: a process in a call has its end *)
(* open, and an end whose last user has gone is either closed or being     *)
(* closed by exactly one process; without it pipeclose could run twice, or *)
(* while somebody still reads.                                             *)
(***************************************************************************)
LockInv == \A p \in Procs : lock = p <=> pc[p] \in Locked

EndsInv ==
  /\ \A p \in Procs : /\ pc[p] \in Reading => p \in readers
                      /\ pc[p] \in Writing => p \in writers
                      /\ pc[p] = "r_close" => readopen /\ readers = {}
                      /\ pc[p] = "w_close" => writeopen /\ writers = {}
  /\ \A p, q \in Procs : p # q /\ pc[p] = pc[q] => pc[p] \notin {"r_close", "w_close"}
  /\ ~readopen => readers = {}
  /\ ~writeopen => writers = {}
  /\ freed <=> ~readopen /\ ~writeopen

SafeInv == PipeType /\ ProcType /\ LockInv /\ EndsInv
-----------------------------------------------------------------------------
\* p stays in its call or returns from it; others only wake up.
Moves(p) ==
  /\ \/ pc[p] \in Reading /\ pc'[p] \in Reading \cup {"user"}
     \/ pc[p] \in Writing /\ pc'[p] \in Writing \cup {"user"}
     \/ pc'[p] = pc[p]
  /\ \A q \in Procs \ {p} : \/ pc'[q] = pc[q]
                            \/ pc[q] = "r_asleep" /\ pc'[q] = "r_acquire"
                            \/ pc[q] = "w_asleep" /\ pc'[q] = "w_acquire"

\* The steps inside pipewrite and piperead keep EndsInv.
LEMMA MovesEnds ==
  ASSUME SafeInv, NEW p \in Procs, Moves(p),
         UNCHANGED <<readopen, writeopen, freed, readers, writers>>
  PROVE  EndsInv'
<1>1. ASSUME NEW q \in Procs
      PROVE  /\ pc'[q] \in Reading => q \in readers
             /\ pc'[q] \in Writing => q \in writers
             /\ pc'[q] \in {"r_close", "w_close"} => pc'[q] = pc[q]
  <2>1. CASE q = p
    BY <2>1 DEF SafeInv, EndsInv, Reading, Writing, Moves
  <2>2. CASE q # p
    BY <2>2 DEF SafeInv, EndsInv, Reading, Writing, Moves
  <2> QED
    BY <2>1, <2>2
<1> QED
  BY <1>1 DEF SafeInv, EndsInv, Moves

\* pipealloc establishes SafeInv.
LEMMA SafeInit == Init => SafeInv
<1> SUFFICES ASSUME Init PROVE SafeInv
  OBVIOUS
<1>1. PipeType
  BY SizeAssumption DEF Init, PipeType
<1>2. ProcType
  BY DEF Init, ProcType, PCs
<1>3. LockInv /\ EndsInv
  BY DEF Init, LockInv, EndsInv, Locked, Reading, Writing
<1> QED
  BY <1>1, <1>2, <1>3 DEF SafeInv

\* Every step keeps SafeInv.
LEMMA SafeNext == SafeInv /\ [Next]_vars => SafeInv'
<1> SUFFICES ASSUME SafeInv, [Next]_vars PROVE SafeInv'
  OBVIOUS
<1>a. PipeType /\ ProcType /\ LockInv /\ EndsInv
  BY DEF SafeInv
<1>1. ASSUME NEW p \in Procs, NEW k \in Counts,
             Call(p, writers, "w_acquire", k) \/ Call(p, readers, "r_acquire", k)
      PROVE  SafeInv'
  <2>1. PipeType'
    BY <1>a, <1>1 DEF Call, PipeType
  <2>2. ProcType'
    BY <1>a, <1>1, CountsAssumption
    DEF Call, ProcType, PCs, Reading, Writing, goto
  <2>3. LockInv'
    BY <1>a, <1>1 DEF Call, ProcType, LockInv, Locked, goto
  <2>4. EndsInv'
    BY <1>a, <1>1 DEF Call, ProcType, EndsInv, Reading, Writing, goto
  <2> QED
    BY <2>1, <2>2, <2>3, <2>4 DEF SafeInv
<1>2. ASSUME NEW p \in Procs, acquire(p) PROVE SafeInv'
  <2>1. PipeType'
    BY <1>a, <1>2 DEF acquire, PipeType
  <2>2. ProcType'
    BY <1>a, <1>2 DEF acquire, ProcType, PCs, Reading, Writing, goto
  <2>3. LockInv'
    BY <1>a, <1>2 DEF acquire, ProcType, LockInv, Locked, goto
  <2>4. Moves(p)
    BY <1>a, <1>2 DEF acquire, ProcType, Moves, Reading, Writing, goto
  <2>5. UNCHANGED <<readopen, writeopen, freed, readers, writers>>
    BY <1>2 DEF acquire
  <2> QED
    BY <2>1, <2>2, <2>3, <2>4, <2>5, MovesEnds DEF SafeInv
<1>3. ASSUME NEW p \in Procs, pipewrite_test(p) PROVE SafeInv'
  <2>1. PipeType'
    BY <1>a, <1>3 DEF pipewrite_test, PipeType
  <2>2. ProcType'
    BY <1>a, <1>3
    DEF pipewrite_test, ProcType, PCs, Reading, Writing, goto, Return
  <2>3. LockInv'
    BY <1>a, <1>3 DEF pipewrite_test, ProcType, LockInv, Locked, goto, Return
  <2>4. Moves(p)
    BY <1>a, <1>3
    DEF pipewrite_test, ProcType, Moves, Reading, Writing, goto, Return
  <2>5. UNCHANGED <<readopen, writeopen, freed, readers, writers>>
    BY <1>3 DEF pipewrite_test
  <2> QED
    BY <2>1, <2>2, <2>3, <2>4, <2>5, MovesEnds DEF SafeInv
<1>4. ASSUME NEW p \in Procs, pipewrite_full(p) PROVE SafeInv'
  <2>1. PipeType'
    BY <1>a, <1>4 DEF pipewrite_full, PipeType
  <2>2. ProcType'
    BY <1>a, <1>4
    DEF pipewrite_full, ProcType, PCs, Reading, Writing, wake_readers
  <2>3. LockInv'
    BY <1>a, <1>4 DEF pipewrite_full, ProcType, LockInv, Locked, wake_readers
  <2>4. Moves(p)
    BY <1>a, <1>4
    DEF pipewrite_full, ProcType, Moves, Reading, Writing, wake_readers
  <2>5. UNCHANGED <<readopen, writeopen, freed, readers, writers>>
    BY <1>4 DEF pipewrite_full
  <2> QED
    BY <2>1, <2>2, <2>3, <2>4, <2>5, MovesEnds DEF SafeInv
<1>5. ASSUME NEW p \in Procs, NEW ch \in Bytes, pipewrite_put(p, ch)
      PROVE  SafeInv'
  <2>1. PipeType'
    <3>1. nwrite' \in 0 .. Wrap - 1
      BY <1>a, <1>5, SizeAssumption DEF pipewrite_put, PipeType, plus
    <3> QED
      BY <1>a, <1>5, <3>1 DEF pipewrite_put, PipeType
  <2>2. ProcType'
    BY <1>a, <1>5 DEF pipewrite_put, ProcType, PCs, Reading, Writing, goto
  <2>3. LockInv'
    BY <1>a, <1>5 DEF pipewrite_put, ProcType, LockInv, Locked, goto
  <2>4. Moves(p)
    BY <1>a, <1>5 DEF pipewrite_put, ProcType, Moves, Reading, Writing, goto
  <2>5. UNCHANGED <<readopen, writeopen, freed, readers, writers>>
    BY <1>5 DEF pipewrite_put
  <2> QED
    BY <2>1, <2>2, <2>3, <2>4, <2>5, MovesEnds DEF SafeInv
<1>6. ASSUME NEW p \in Procs, pipewrite_end(p) PROVE SafeInv'
  <2>1. PipeType'
    BY <1>a, <1>6 DEF pipewrite_end, PipeType
  <2>2. ProcType'
    BY <1>a, <1>6
    DEF pipewrite_end, ProcType, PCs, Reading, Writing, Return, wake_readers
  <2>3. LockInv'
    BY <1>a, <1>6
    DEF pipewrite_end, ProcType, LockInv, Locked, Return, wake_readers
  <2>4. Moves(p)
    BY <1>a, <1>6
    DEF pipewrite_end, ProcType, Moves, Reading, Writing, Return, wake_readers
  <2>5. UNCHANGED <<readopen, writeopen, freed, readers, writers>>
    BY <1>6 DEF pipewrite_end
  <2> QED
    BY <2>1, <2>2, <2>3, <2>4, <2>5, MovesEnds DEF SafeInv
<1>7. ASSUME NEW p \in Procs, piperead_test(p) PROVE SafeInv'
  <2>1. PipeType'
    BY <1>a, <1>7 DEF piperead_test, PipeType
  <2>2. ProcType'
    BY <1>a, <1>7
    DEF piperead_test, ProcType, PCs, Reading, Writing, goto, Return
  <2>3. LockInv'
    BY <1>a, <1>7 DEF piperead_test, ProcType, LockInv, Locked, goto, Return
  <2>4. Moves(p)
    BY <1>a, <1>7
    DEF piperead_test, ProcType, Moves, Reading, Writing, goto, Return
  <2>5. UNCHANGED <<readopen, writeopen, freed, readers, writers>>
    BY <1>7 DEF piperead_test
  <2> QED
    BY <2>1, <2>2, <2>3, <2>4, <2>5, MovesEnds DEF SafeInv
<1>8. ASSUME NEW p \in Procs, piperead_sleep(p) PROVE SafeInv'
  <2>1. PipeType'
    BY <1>a, <1>8 DEF piperead_sleep, PipeType
  <2>2. ProcType'
    BY <1>a, <1>8 DEF piperead_sleep, ProcType, PCs, Reading, Writing, goto
  <2>3. LockInv'
    BY <1>a, <1>8 DEF piperead_sleep, ProcType, LockInv, Locked, goto
  <2>4. Moves(p)
    BY <1>a, <1>8 DEF piperead_sleep, ProcType, Moves, Reading, Writing, goto
  <2>5. UNCHANGED <<readopen, writeopen, freed, readers, writers>>
    BY <1>8 DEF piperead_sleep
  <2> QED
    BY <2>1, <2>2, <2>3, <2>4, <2>5, MovesEnds DEF SafeInv
<1>9. ASSUME NEW p \in Procs, piperead_get(p)
      PROVE  SafeInv'
  <2>1. PipeType'
    <3>1. nread' \in 0 .. Wrap - 1
      BY <1>a, <1>9, SizeAssumption DEF piperead_get, PipeType, plus
    <3> QED
      BY <1>a, <1>9, <3>1 DEF piperead_get, PipeType
  <2>2. ProcType'
    BY <1>a, <1>9 DEF piperead_get, ProcType, PCs, Reading, Writing, goto
  <2>3. LockInv'
    BY <1>a, <1>9 DEF piperead_get, ProcType, LockInv, Locked, goto
  <2>4. Moves(p)
    BY <1>a, <1>9 DEF piperead_get, ProcType, Moves, Reading, Writing, goto
  <2>5. UNCHANGED <<readopen, writeopen, freed, readers, writers>>
    BY <1>9 DEF piperead_get
  <2> QED
    BY <2>1, <2>2, <2>3, <2>4, <2>5, MovesEnds DEF SafeInv
<1>10. ASSUME NEW p \in Procs, piperead_end(p) PROVE SafeInv'
  <2>1. PipeType'
    BY <1>a, <1>10 DEF piperead_end, PipeType
  <2>2. ProcType'
    BY <1>a, <1>10
    DEF piperead_end, ProcType, PCs, Reading, Writing, Return, wake_writers
  <2>3. LockInv'
    BY <1>a, <1>10
    DEF piperead_end, ProcType, LockInv, Locked, Return, wake_writers
  <2>4. Moves(p)
    BY <1>a, <1>10
    DEF piperead_end, ProcType, Moves, Reading, Writing, Return, wake_writers
  <2>5. UNCHANGED <<readopen, writeopen, freed, readers, writers>>
    BY <1>10 DEF piperead_end
  <2> QED
    BY <2>1, <2>2, <2>3, <2>4, <2>5, MovesEnds DEF SafeInv
<1>11. ASSUME NEW p \in Procs, fileclose_read(p)
      PROVE  SafeInv'
  <2>1. PipeType'
    BY <1>a, <1>11 DEF fileclose_read, PipeType
  <2>2. ProcType'
    BY <1>a, <1>11 DEF fileclose_read, ProcType, PCs, Reading, Writing, goto
  <2>3. LockInv'
    BY <1>a, <1>11 DEF fileclose_read, ProcType, LockInv, Locked, goto
  <2>4. EndsInv'
    BY <1>a, <1>11 DEF fileclose_read, ProcType, EndsInv, Reading, Writing, goto
  <2> QED
    BY <2>1, <2>2, <2>3, <2>4 DEF SafeInv
<1>12. ASSUME NEW p \in Procs, fileclose_write(p)
      PROVE  SafeInv'
  <2>1. PipeType'
    BY <1>a, <1>12 DEF fileclose_write, PipeType
  <2>2. ProcType'
    BY <1>a, <1>12 DEF fileclose_write, ProcType, PCs, Reading, Writing, goto
  <2>3. LockInv'
    BY <1>a, <1>12 DEF fileclose_write, ProcType, LockInv, Locked, goto
  <2>4. EndsInv'
    BY <1>a, <1>12
    DEF fileclose_write, ProcType, EndsInv, Reading, Writing, goto
  <2> QED
    BY <2>1, <2>2, <2>3, <2>4 DEF SafeInv
<1>13. ASSUME NEW p \in Procs, pipeclose(p)
      PROVE  SafeInv'
  <2>1. PipeType'
    BY <1>a, <1>13 DEF pipeclose, PipeType
  <2>2. ProcType'
    BY <1>a, <1>13
    DEF pipeclose, ProcType, PCs, Reading, Writing, wake_readers,
        wake_writers, LastEnd
  <2>3. LockInv'
    BY <1>a, <1>13
    DEF pipeclose, ProcType, LockInv, Locked, wake_readers, wake_writers,
        LastEnd
  <2>4. EndsInv'
    <3>1. \A q \in Procs \ {p} :
            \/ pc'[q] = pc[q]
            \/ pc[q] = "r_asleep" /\ pc'[q] = "r_acquire"
            \/ pc[q] = "w_asleep" /\ pc'[q] = "w_acquire"
      BY <1>a, <1>13 DEF pipeclose, ProcType, wake_readers, wake_writers
    <3>2. pc'[p] = "user" /\ UNCHANGED <<readers, writers>>
      BY <1>a, <1>13 DEF pipeclose, ProcType, wake_readers, wake_writers
    <3>3. CASE pc[p] = "r_close"
      <4>1. readopen' = FALSE /\ writeopen' = writeopen /\ readers = {} /\ readopen
        BY <1>a, <1>13, <3>3 DEF pipeclose, EndsInv
      <4>2. freed' <=> ~readopen' /\ ~writeopen'
        BY <1>a, <1>13, <4>1 DEF pipeclose, EndsInv, LastEnd, ProcType
      <4>3. \A q \in Procs : pc'[q] # "r_close"
        BY <1>a, <3>1, <3>2, <3>3 DEF EndsInv
      <4> QED
        BY <1>a, <3>1, <3>2, <4>1, <4>2, <4>3 DEF EndsInv, Reading, Writing
    <3>4. CASE pc[p] = "w_close"
      <4>1. writeopen' = FALSE /\ readopen' = readopen /\ writers = {} /\ writeopen
        BY <1>a, <1>13, <3>4 DEF pipeclose, EndsInv
      <4>2. freed' <=> ~readopen' /\ ~writeopen'
        BY <1>a, <1>13, <4>1 DEF pipeclose, EndsInv, LastEnd, ProcType
      <4>3. \A q \in Procs : pc'[q] # "w_close"
        BY <1>a, <3>1, <3>2, <3>4 DEF EndsInv
      <4> QED
        BY <1>a, <3>1, <3>2, <4>1, <4>2, <4>3 DEF EndsInv, Reading, Writing
    <3> QED
      BY <1>13, <3>3, <3>4 DEF pipeclose
  <2> QED
    BY <2>1, <2>2, <2>3, <2>4 DEF SafeInv
<1>14. ASSUME NEW p \in Procs, kill(p) PROVE SafeInv'
  <2>0. PICK l \in PCs : /\ pc' = [pc EXCEPT ![p] = l]
                        /\ \/ l = pc[p]
                           \/ pc[p] = "r_asleep" /\ l = "r_acquire"
                           \/ pc[p] = "w_asleep" /\ l = "w_acquire"
    BY <1>a, <1>14 DEF kill, ProcType, PCs, Reading, Writing
  <2>1. PipeType'
    BY <1>a, <1>14 DEF kill, PipeType
  <2>2. ProcType'
    BY <1>a, <1>14, <2>0 DEF kill, ProcType
  <2>3. LockInv'
    BY <1>a, <1>14, <2>0 DEF kill, ProcType, LockInv, Locked
  <2>4. Moves(p)
    BY <1>a, <1>14, <2>0 DEF kill, ProcType, Moves, Reading, Writing
  <2>5. UNCHANGED <<readopen, writeopen, freed, readers, writers>>
    BY <1>14 DEF kill
  <2> QED
    BY <2>1, <2>2, <2>3, <2>4, <2>5, MovesEnds DEF SafeInv
<1>15. CASE UNCHANGED vars
  BY <1>a, <1>15 DEF vars, SafeInv, PipeType, ProcType, LockInv, EndsInv
<1> QED
  BY <1>1, <1>2, <1>3, <1>4, <1>5, <1>6, <1>7, <1>8, <1>9, <1>10, <1>11, <1>12,
     <1>13, <1>14, <1>15
  DEF Next, User, Inside

\* pipeclose gives the page back once, and only when no process has an end
\* open or is still in a call: fileclose lets only the last user of an end
\* come to pipeclose, and a call keeps its end open until it returns.
THEOREM FreedUnused == Spec => []NoUseAfterFree
<1>1. SafeInv => NoUseAfterFree
  BY DEF SafeInv, ProcType, EndsInv, NoUseAfterFree, PCs, Reading, Writing
<1> QED
  BY <1>1, SafeInit, SafeNext, PTL DEF Spec
-----------------------------------------------------------------------------
(***************************************************************************)
(* No lost wake-up.  Between a byte written and the wakeup() that tells    *)
(* the readers, pi->lock is held by the writer, in w_test or w_put;        *)
(* between a byte read and the wakeup() for the writers, by the reader in  *)
(* r_get.  What a process tested still holds when it sleeps, since it has  *)
(* kept the lock.                                                          *)
(***************************************************************************)
SleepInv ==
  \A p \in Procs :
    /\ pc[p] = "r_asleep" =>
         /\ writeopen
         /\ \/ Empty \/ \E q \in Procs : killed[q]
            \/ \E q \in Procs : lock = q /\ pc[q] \in {"w_test", "w_put"}
    /\ pc[p] = "w_asleep" =>
         readopen /\ (Full \/ \E q \in Procs : lock = q /\ pc[q] = "r_get")
    /\ pc[p] = "r_sleep" => Empty /\ writeopen
    /\ pc[p] = "w_put" => readopen

\* Every step keeps SleepInv.
LEMMA SleepNext == SafeInv /\ SleepInv /\ [Next]_vars => SleepInv'
<1> SUFFICES ASSUME SafeInv, SleepInv, [Next]_vars PROVE SleepInv'
  OBVIOUS
<1>a. ProcType /\ LockInv /\ EndsInv
  BY DEF SafeInv
<1> USE DEF Empty, Full
<1>1. ASSUME NEW p \in Procs, NEW k \in Counts,
             Call(p, writers, "w_acquire", k) \/ Call(p, readers, "r_acquire", k)
      PROVE  SleepInv'
  BY <1>a, <1>1 DEF Call, goto, ProcType, SleepInv
<1>2. ASSUME NEW p \in Procs, acquire(p) PROVE SleepInv'
  BY <1>a, <1>2 DEF acquire, goto, ProcType, SleepInv
<1>3. ASSUME NEW p \in Procs, pipewrite_test(p) PROVE SleepInv'
  BY <1>a, <1>3
  DEF pipewrite_test, goto, Return, ProcType, LockInv, Locked, EndsInv,
      Reading, SleepInv
<1>4. ASSUME NEW p \in Procs, pipewrite_full(p) PROVE SleepInv'
  BY <1>a, <1>4
  DEF pipewrite_full, wake_readers, ProcType, LockInv, Locked, SleepInv
<1>5. ASSUME NEW p \in Procs, NEW ch \in Bytes, pipewrite_put(p, ch)
      PROVE  SleepInv'
  BY <1>a, <1>5 DEF pipewrite_put, goto, ProcType, LockInv, Locked, SleepInv
<1>6. ASSUME NEW p \in Procs, pipewrite_end(p) PROVE SleepInv'
  BY <1>a, <1>6
  DEF pipewrite_end, Return, wake_readers, ProcType, LockInv, Locked, SleepInv
<1>7. ASSUME NEW p \in Procs, piperead_test(p) PROVE SleepInv'
  BY <1>a, <1>7
  DEF piperead_test, goto, Return, ProcType, LockInv, Locked, SleepInv
<1>8. ASSUME NEW p \in Procs, piperead_sleep(p) PROVE SleepInv'
  BY <1>a, <1>8 DEF piperead_sleep, goto, ProcType, LockInv, Locked, SleepInv
<1>9. ASSUME NEW p \in Procs, piperead_get(p) PROVE SleepInv'
  BY <1>a, <1>9 DEF piperead_get, ProcType, LockInv, Locked, SleepInv
<1>10. ASSUME NEW p \in Procs, piperead_end(p) PROVE SleepInv'
  BY <1>a, <1>10
  DEF piperead_end, Return, wake_writers, ProcType, LockInv, Locked, SleepInv
<1>11. ASSUME NEW p \in Procs, fileclose_read(p) \/ fileclose_write(p) PROVE SleepInv'
  BY <1>a, <1>11 DEF fileclose_read, fileclose_write, goto, ProcType, SleepInv
<1>12. ASSUME NEW p \in Procs, pipeclose(p) PROVE SleepInv'
  <2>1. lock = None /\ \A q \in Procs : pc[q] \notin Locked /\ lock # q
    BY <1>a, <1>12 DEF pipeclose, LockInv
  <2>2. CASE pc[p] = "w_close"
    <3>1. pc' = [wake_readers EXCEPT ![p] = "user"] /\ readopen' = readopen
      BY <1>12, <2>2 DEF pipeclose
    <3>2. \A q \in Procs : /\ pc'[q] \notin Locked \cup {"r_asleep"}
                           /\ pc'[q] = "w_asleep" => pc[q] = "w_asleep"
      BY <1>a, <2>1, <3>1 DEF wake_readers, ProcType, Locked
    <3>3. UNCHANGED <<nread, nwrite>>
      BY <1>12 DEF pipeclose
    <3> QED
      BY <2>1, <3>1, <3>2, <3>3 DEF SleepInv, Locked
  <2>3. CASE pc[p] = "r_close"
    <3>1. pc' = [wake_writers EXCEPT ![p] = "user"] /\ writeopen' = writeopen
      BY <1>12, <2>3 DEF pipeclose
    <3>2. \A q \in Procs : /\ pc'[q] \notin Locked \cup {"w_asleep"}
                           /\ pc'[q] = "r_asleep" => pc[q] = "r_asleep"
      BY <1>a, <2>1, <3>1 DEF wake_writers, ProcType, Locked
    <3>3. UNCHANGED <<nread, nwrite, killed>>
      BY <1>12 DEF pipeclose
    <3> QED
      BY <2>1, <3>1, <3>2, <3>3 DEF SleepInv, Locked
  <2> QED
    BY <1>12, <2>2, <2>3 DEF pipeclose
<1>13. ASSUME NEW p \in Procs, kill(p) PROVE SleepInv'
  BY <1>a, <1>13 DEF kill, ProcType, SleepInv
<1>14. CASE UNCHANGED vars
  BY <1>14 DEF vars, SleepInv
<1> QED
  BY <1>1, <1>2, <1>3, <1>4, <1>5, <1>6, <1>7, <1>8, <1>9, <1>10, <1>11, <1>12,
     <1>13, <1>14
  DEF Next, User, Inside

\* No wake-up of pipewrite, piperead or pipeclose is lost, whatever reads,
\* writes, closes and kills interleave.
THEOREM PipeWakeups == Spec => []PipeNotLost
<1>1. Init => SleepInv
  BY DEF Init, SleepInv
<1>2. SafeInv /\ SleepInv => PipeNotLost
  BY DEF SafeInv, ProcType, LockInv, SleepInv, PipeNotLost
<1> QED
  BY <1>1, <1>2, SafeInit, SafeNext, SleepNext, PTL DEF Spec
-----------------------------------------------------------------------------
(***************************************************************************)
(* Remainders: what the ring buffer needs of counters that wrap around.    *)
(***************************************************************************)
\* a is a multiple of b and its remainder.
LEMMA DivMod ==
  ASSUME NEW a \in Int, NEW b \in Nat \ {0}
  PROVE  \E k \in Int : \E r \in 0 .. b - 1 : a = b * k + r /\ a % b = r
<1>1. a = b * (a \div b) + (a % b) /\ a \div b \in Int /\ a % b \in 0 .. b - 1
  OBVIOUS
<1> QED
  BY <1>1

\* There is only one way to divide with remainder.
LEMMA RemainderUnique ==
  ASSUME NEW b \in Nat \ {0}, NEW k \in Int, NEW l \in Int,
         NEW r \in 0 .. b - 1, NEW s \in 0 .. b - 1, b * k + r = b * l + s
  PROVE  k = l /\ r = s
<1>1. b * (k - l) = s - r
  OBVIOUS
<1>2. CASE k - l >= 1
  <2>1. b * (k - l) >= b
    BY <1>2
  <2> QED
    BY <1>1, <2>1
<1>3. CASE k - l <= -1
  <2>1. b * (k - l) <= -b
    BY <1>3
  <2> QED
    BY <1>1, <2>1
<1> QED
  BY <1>2, <1>3

\* So the remainder is what the form b * k + r shows.
LEMMA RemainderIs ==
  ASSUME NEW b \in Nat \ {0}, NEW k \in Int, NEW r \in 0 .. b - 1
  PROVE  (b * k + r) % b = r
<1>1. b * k + r \in Int
  OBVIOUS
<1>2. PICK l \in Int, s \in 0 .. b - 1 :
        b * k + r = b * l + s /\ (b * k + r) % b = s
  BY <1>1, DivMod
<1> QED
  BY <1>2, RemainderUnique

\* Adding or removing a multiple of b does not change the remainder.
LEMMA Multiple ==
  ASSUME NEW b \in Nat \ {0}, NEW W \in Nat, W % b = 0, NEW a \in Int
  PROVE  (a + W) % b = a % b /\ (a - W) % b = a % b
<1>1. PICK w \in Int : W = b * w
  BY DivMod
<1>2. PICK k \in Int, r \in 0 .. b - 1 : a = b * k + r /\ a % b = r
  BY DivMod
<1>3. /\ a + W = b * (k + w) + r /\ a - W = b * (k - w) + r
      /\ k + w \in Int /\ k - w \in Int
  BY <1>1, <1>2
<1>4. (a + W) % b = r
  BY <1>3, RemainderIs
<1>5. (a - W) % b = r
  BY <1>3, RemainderIs
<1> QED
  BY <1>2, <1>4, <1>5

\* Numbers less than b apart have different remainders.
LEMMA Apart ==
  ASSUME NEW b \in Nat \ {0}, NEW a \in Int, NEW d \in 1 .. b - 1
  PROVE  (a + d) % b # a % b
<1> SUFFICES ASSUME (a + d) % b = a % b PROVE FALSE
  OBVIOUS
<1>1. PICK k \in Int, r \in 0 .. b - 1 : a = b * k + r /\ a % b = r
  BY DivMod
<1>2. PICK l \in Int, s \in 0 .. b - 1 : a + d = b * l + s /\ (a + d) % b = s
  <2>1. a + d \in Int
    OBVIOUS
  <2> QED
    BY <2>1, DivMod
<1>3. b * l + 0 = b * k + d /\ d \in 0 .. b - 1 /\ 0 \in 0 .. b - 1
  BY <1>1, <1>2
<1> QED
  BY <1>3, RemainderUnique
-----------------------------------------------------------------------------
(***************************************************************************)
(* The ring buffer is a bounded queue.  Used counts the bytes in it; that  *)
(* it never exceeds PIPESIZE is the invariant the mapping needs, since     *)
(* otherwise a byte put would overwrite one not yet read.                  *)
(***************************************************************************)
Used == (nwrite - nread) % Wrap
RingInv == Used <= PIPESIZE

\* What Used says of the two counters, on either side of the wrap-around.
LEMMA UsedIs ==
  ASSUME PipeType
  PROVE  /\ Used \in 0 .. Wrap - 1
         /\ nread + Used = nwrite \/ nread + Used = nwrite + Wrap
  BY SizeAssumption DEF PipeType, Used

\* The tests of pipewrite and piperead compare what they mean to.
LEMMA FullEmpty ==
  ASSUME PipeType
  PROVE  /\ Full <=> Used = PIPESIZE
         /\ Empty <=> Used = 0
<1>1. Empty <=> Used = 0
  BY UsedIs, SizeAssumption DEF PipeType, Empty
<1>2. Full <=> Used = PIPESIZE
  <2>1. /\ nread \in 0 .. Wrap - 1 /\ nwrite \in 0 .. Wrap - 1 /\ Wrap \in Nat
        /\ PIPESIZE \in Nat \ {0} /\ Wrap > PIPESIZE
    BY SizeAssumption DEF PipeType
  <2>2. plus(nread, PIPESIZE) = IF nread + PIPESIZE < Wrap THEN nread + PIPESIZE
                                ELSE nread + PIPESIZE - Wrap
    BY <2>1 DEF plus
  <2> QED
    BY <2>1, <2>2, UsedIs DEF Full
<1> QED
  BY <1>1, <1>2

\* Counting one byte written, or one read.
LEMMA CountUp ==
  ASSUME PipeType, Used < PIPESIZE, nwrite' = plus(nwrite, 1), nread' = nread
  PROVE  Used' = Used + 1
  BY UsedIs, SizeAssumption DEF PipeType, Used, plus

\* See CountUp.
LEMMA CountDown ==
  ASSUME PipeType, Used > 0, nread' = plus(nread, 1), nwrite' = nwrite
  PROVE  Used' = Used - 1
  BY UsedIs, SizeAssumption DEF PipeType, Used, plus

\* Sequences as functions: one more element at the end, one less in front.
LEMMA FunAppend ==
  ASSUME NEW S, NEW m \in Nat, NEW f \in [1 .. m -> S], NEW g \in [1 .. m + 1 -> S],
         \A k \in 1 .. m : g[k] = f[k]
  PROVE  g = Append(f, g[m + 1]) /\ Len(f) = m
  OBVIOUS

\* See FunAppend.
LEMMA FunTail ==
  ASSUME NEW S, NEW m \in Nat \ {0}, NEW f \in [1 .. m -> S],
         NEW g \in [1 .. m - 1 -> S], \A k \in 1 .. m - 1 : g[k] = f[k + 1]
  PROVE  g = Tail(f) /\ f # << >>
  OBVIOUS

\* Positions in data[]: the same one a whole turn of the counters away, and
\* different ones less than PIPESIZE apart.
LEMMA RingWrap ==
  \A a \in Int : /\ (a + Wrap) % PIPESIZE = a % PIPESIZE
                 /\ (a - Wrap) % PIPESIZE = a % PIPESIZE
                 /\ a % PIPESIZE \in 0 .. PIPESIZE - 1
<1> TAKE a \in Int
<1>0. PIPESIZE \in Nat \ {0} /\ Wrap \in Nat /\ Wrap % PIPESIZE = 0
  BY SizeAssumption
<1>1. (a + Wrap) % PIPESIZE = a % PIPESIZE /\ (a - Wrap) % PIPESIZE = a % PIPESIZE
  BY <1>0, Multiple
<1>2. a % PIPESIZE \in 0 .. PIPESIZE - 1
  BY <1>0, DivMod
<1> QED
  BY <1>1, <1>2

\* See RingWrap.
LEMMA RingApart ==
  \A a \in Int : \A d \in 1 .. PIPESIZE - 1 : (a + d) % PIPESIZE # a % PIPESIZE
  BY Apart, SizeAssumption

\* A byte put at nwrite % PIPESIZE becomes the last one, and leaves the others.
LEMMA PutLast ==
  ASSUME PipeType, PipeType', Used < PIPESIZE, NEW ch \in Bytes,
         data' = [data EXCEPT ![nwrite % PIPESIZE] = ch],
         nwrite' = plus(nwrite, 1), nread' = nread
  PROVE  Len(InPipe) < PIPESIZE /\ InPipe' = Append(InPipe, ch)
<1> DEFINE S == Bytes \cup {None}
<1>1. Used \in Nat /\ Used' = Used + 1
  BY UsedIs, CountUp
<1>2. nread \in Nat /\ nwrite \in Nat
  BY SizeAssumption DEF PipeType
<1>3. ASSUME NEW k \in Int PROVE data[k % PIPESIZE] \in S /\ data'[k % PIPESIZE] \in S
  BY RingWrap DEF PipeType
<1>4. InPipe \in [1 .. Used -> S]
  <2>1. \A k \in 1 .. Used : data[(nread + k - 1) % PIPESIZE] \in S
    BY <1>1, <1>2, <1>3
  <2> QED
    BY <2>1 DEF InPipe, Used
<1>5. InPipe' \in [1 .. Used + 1 -> S]
  <2>1. InPipe' = [k \in 1 .. Used + 1 |-> data'[(nread + k - 1) % PIPESIZE]]
    BY <1>1 DEF InPipe, Used
  <2>2. \A k \in 1 .. Used + 1 : data'[(nread + k - 1) % PIPESIZE] \in S
    BY <1>1, <1>2, <1>3
  <2> QED
    BY <2>1, <2>2
<1>6. (nread + Used) % PIPESIZE = nwrite % PIPESIZE
  BY <1>2, UsedIs, RingWrap
<1>7. InPipe'[Used + 1] = ch
  <2>1. InPipe'[Used + 1] = data'[(nread + (Used + 1) - 1) % PIPESIZE]
    BY <1>1 DEF InPipe, Used
  <2>2. nread + (Used + 1) - 1 = nread + Used
    BY <1>1, <1>2
  <2> QED
    BY <1>2, <1>6, <2>1, <2>2, RingWrap DEF PipeType
<1>8. ASSUME NEW k \in 1 .. Used PROVE InPipe'[k] = InPipe[k]
  <2>1. (nread + k - 1) % PIPESIZE # nwrite % PIPESIZE
    <3>1. PICK d \in 1 .. PIPESIZE - 1 : nread + Used = (nread + k - 1) + d
      BY <1>1, <1>2, SizeAssumption
    <3>2. nread + k - 1 \in Int
      BY <1>1, <1>2
    <3> QED
      BY <1>6, <3>1, <3>2, RingApart
  <2>2. (nread + k - 1) % PIPESIZE \in 0 .. PIPESIZE - 1
    BY <1>1, <1>2, RingWrap
  <2>3. data'[(nread + k - 1) % PIPESIZE] = data[(nread + k - 1) % PIPESIZE]
    BY <2>1, <2>2 DEF PipeType
  <2> QED
    BY <1>1, <2>3 DEF InPipe, Used
<1> HIDE DEF S
<1> QED
  BY <1>1, <1>4, <1>5, <1>7, <1>8, FunAppend

\* A byte read from nread % PIPESIZE was the first, and leaves the others.
LEMMA GetFirst ==
  ASSUME PipeType, PipeType', Used > 0, Used <= PIPESIZE,
         data' = [data EXCEPT ![nread % PIPESIZE] = None],
         nread' = plus(nread, 1), nwrite' = nwrite
  PROVE  InPipe # << >> /\ InPipe' = Tail(InPipe)
<1> DEFINE S == Bytes \cup {None}
<1>1. Used \in Nat \ {0} /\ Used' = Used - 1
  BY UsedIs, CountDown
<1>2. nread \in Nat /\ nwrite \in Nat /\ nread' \in Nat
  BY SizeAssumption DEF PipeType
<1>3. ASSUME NEW k \in Int PROVE data[k % PIPESIZE] \in S /\ data'[k % PIPESIZE] \in S
  BY RingWrap DEF PipeType
<1>4. InPipe \in [1 .. Used -> S]
  <2>1. \A k \in 1 .. Used : data[(nread + k - 1) % PIPESIZE] \in S
    BY <1>1, <1>2, <1>3
  <2> QED
    BY <2>1 DEF InPipe, Used
<1>5. InPipe' = [k \in 1 .. Used - 1 |-> data'[(nread' + k - 1) % PIPESIZE]]
  BY <1>1 DEF InPipe, Used
<1>6. InPipe' \in [1 .. Used - 1 -> S]
  <2>1. \A k \in 1 .. Used - 1 : data'[(nread' + k - 1) % PIPESIZE] \in S
    BY <1>1, <1>2, <1>3
  <2> QED
    BY <1>5, <2>1
<1>7. ASSUME NEW k \in 1 .. Used - 1 PROVE InPipe'[k] = InPipe[k + 1]
  <2>1. (nread' + k - 1) % PIPESIZE = (nread + k) % PIPESIZE
    <3>1. nread' = nread + 1 \/ nread' = nread + 1 - Wrap
      BY SizeAssumption DEF PipeType, plus
    <3>2. nread' + k - 1 = nread + k \/ nread' + k - 1 = (nread + k) - Wrap
      BY <1>1, <1>2, <3>1, SizeAssumption
    <3>3. ((nread + k) - Wrap) % PIPESIZE = (nread + k) % PIPESIZE
      BY <1>1, <1>2, RingWrap
    <3> QED
      BY <3>2, <3>3
  <2>2. (nread + k) % PIPESIZE # nread % PIPESIZE
    <3>1. k \in 1 .. PIPESIZE - 1
      BY <1>1, SizeAssumption
    <3> QED
      BY <1>2, <3>1, RingApart
  <2>3. (nread + k) % PIPESIZE \in 0 .. PIPESIZE - 1
    BY <1>1, <1>2, RingWrap
  <2>4. data'[(nread + k) % PIPESIZE] = data[(nread + k) % PIPESIZE]
    BY <2>2, <2>3 DEF PipeType
  <2>5. InPipe[k + 1] = data[(nread + (k + 1) - 1) % PIPESIZE]
    BY <1>1 DEF InPipe, Used
  <2>6. nread + (k + 1) - 1 = nread + k
    BY <1>1, <1>2
  <2> QED
    BY <1>5, <2>1, <2>4, <2>5, <2>6
<1> HIDE DEF S
<1> QED
  BY <1>1, <1>4, <1>6, <1>7, FunTail

\* Every step puts one byte at the end, takes one from the front, or leaves
\* what is in the pipe alone.
LEMMA QueueStep ==
  ASSUME SafeInv, SafeInv', RingInv, [Next]_vars
  PROVE  RingInv' /\ [Abs!Next]_InPipe
<1>a. PipeType /\ PipeType'
  BY DEF SafeInv
<1>1. ASSUME UNCHANGED <<data, nread, nwrite>>
      PROVE  RingInv' /\ [Abs!Next]_InPipe
  BY <1>1 DEF RingInv, Used, InPipe
<1>2. ASSUME NEW p \in Procs, NEW ch \in Bytes, pipewrite_put(p, ch)
      PROVE  RingInv' /\ [Abs!Next]_InPipe
  <2>1. Used < PIPESIZE
    BY <1>a, <1>2, FullEmpty, UsedIs, SizeAssumption DEF RingInv, pipewrite_put
  <2>2. RingInv'
    BY <1>a, <1>2, <2>1, CountUp, UsedIs, SizeAssumption
    DEF RingInv, pipewrite_put
  <2>3. Abs!Put(ch)
    BY <1>a, <1>2, <2>1, PutLast DEF pipewrite_put, Abs!Put
  <2> QED
    BY <2>2, <2>3 DEF Abs!Next
<1>3. ASSUME NEW p \in Procs, piperead_get(p)
      PROVE  RingInv' /\ [Abs!Next]_InPipe
  <2>1. Used > 0
    BY <1>a, <1>3, FullEmpty, UsedIs DEF piperead_get
  <2>2. RingInv'
    BY <1>a, <1>3, <2>1, CountDown, UsedIs, SizeAssumption
    DEF RingInv, piperead_get
  <2>3. Abs!Get
    BY <1>a, <1>3, <2>1, GetFirst DEF piperead_get, Abs!Get, RingInv
  <2> QED
    BY <2>2, <2>3 DEF Abs!Next
<1> QED
  BY <1>1, <1>2, <1>3
  DEF Next, User, Inside, vars, Call, acquire, pipewrite_test, pipewrite_full,
      pipewrite_end, piperead_test, piperead_sleep, piperead_end,
      fileclose_read, fileclose_write, pipeclose, kill

\* The pipe implements the bounded queue, for every PIPESIZE and every counter
\* width that is a multiple of it (512 and 2^32 in pipe.c), across the
\* wrap-around of the indices and of the counters.
THEOREM PipeIsQueue == Spec => Fifo
<1>1. Init => RingInv /\ Abs!Init
  BY SizeAssumption DEF Init, RingInv, Used, InPipe, Abs!Init
<1>2. SafeInv /\ SafeInv' /\ RingInv /\ [Next]_vars => RingInv' /\ [Abs!Next]_InPipe
  BY QueueStep
<1> QED
  BY <1>1, <1>2, SafeInit, SafeNext, PTL DEF Spec, Fifo, Abs!Spec
=============================================================================

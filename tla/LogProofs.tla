------------------------------ MODULE LogProofs ------------------------------
(***************************************************************************)
(* Proofs about Log, for any number of processes and blocks and any log    *)
(* size: nobody sleeps in begin_op who could go on, what is over is        *)
(* durable, and the log implements AtomicDisk with a crash before any of   *)
(* the disk writes of a commit or of a recovery.                           *)
(***************************************************************************)
EXTENDS Log, FiniteSetTheorems, TLAPS

Active == {p \in Procs : pc[p] = "op"}

NoDup(s) == \A j, k \in 1 .. Len(s) : s[j] = s[k] => j = k

LogType ==
  /\ home \in Contents /\ cache \in Contents
  /\ logdata \in [1 .. LOGSIZE -> Values]
  /\ head \in Seq(Blocks) /\ Len(head) <= LOGSIZE /\ NoDup(head)
  /\ lh \in Seq(Blocks) /\ Len(lh) <= LOGSIZE /\ NoDup(lh)
  /\ tail \in 0 .. Len(lh)

ProcType ==
  /\ committing \in BOOLEAN /\ panicked \in BOOLEAN
  /\ pc \in [Procs -> {"out", "asleep", "woken", "op", "commit"}]
  /\ phase \in {"idle", "write_log", "install", "committed", "read_head", "reinstall"}

\* log.outstanding counts the operations in progress, which is why the last
\* end_op knows that it is the last.
CountInv == IsFiniteSet(Active) /\ outstanding = Cardinality(Active)

(***************************************************************************)
(* Which phase goes with what: the commit runs when no operation does, the *)
(* header on disk is not empty only between write_head and clear or in a   *)
(* recovery, and then it is the header in memory.                          *)
(***************************************************************************)
ControlInv ==
  /\ committing <=> phase \in {"write_log", "install", "committed"}
  /\ phase # "idle" => Active = {} /\ ~panicked
  /\ phase = "idle" /\ Active = {} => lh = << >>
  /\ recovering => \A p \in Procs : pc[p] = "out"
  /\ phase \in {"committed", "read_head"} => lh = << >>
  /\ phase \in {"idle", "committed", "write_log"} => head = << >>
  /\ phase \in {"install", "reinstall"} => head = lh
  /\ phase \in {"idle", "committed", "read_head"} => tail = 0

\* What the k first blocks of the log hold, and what has been copied home.
Saved(k) == \A j \in 1 .. k : logdata[j] = cache[lh[j]]
Installed(k) == \A j \in 1 .. k : home[lh[j]] = logdata[j]

DataInv ==
  /\ ~panicked => \A b \in Blocks \ Logged : home[b] = cache[b]
  /\ recovering => cache = home
  /\ phase = "write_log" => Saved(tail)
  /\ phase = "install" => Saved(Len(lh))
  /\ phase \in {"install", "reinstall"} => Installed(tail)

LogInv == LogType /\ ProcType /\ CountInv /\ ControlInv /\ DataInv
-----------------------------------------------------------------------------
\* mkfs's disk at boot.
LEMMA LogInit == Init => LogInv
<1> SUFFICES ASSUME Init PROVE LogInv
  OBVIOUS
<1>1. LogType
  BY ValuesAssumption, SizesAssumption DEF Init, LogType, NoDup, Contents
<1>2. ProcType
  BY DEF Init, ProcType
<1>3. Active = {}
  BY DEF Init, Active
<1>4. CountInv
  BY <1>3, FS_EmptySet DEF Init, CountInv
<1>5. ControlInv /\ DataInv
  BY <1>3 DEF Init, ControlInv, DataInv, recovering
<1> QED
  BY <1>1, <1>2, <1>4, <1>5 DEF LogInv

\* What the header in memory names: a block appended to it is new there.
LEMMA Append_lh ==
  ASSUME LogType, NEW b \in Blocks, ~Absorbed(b), Len(lh) < LOGSIZE
  PROVE  /\ Append(lh, b) \in Seq(Blocks)
         /\ Len(Append(lh, b)) = Len(lh) + 1
         /\ NoDup(Append(lh, b))
         /\ {Append(lh, b)[j] : j \in DOMAIN Append(lh, b)} = Logged \cup {b}
<1>1. /\ Append(lh, b) \in Seq(Blocks) /\ Len(Append(lh, b)) = Len(lh) + 1
      /\ DOMAIN lh = 1 .. Len(lh) /\ Len(lh) \in Nat
      /\ DOMAIN Append(lh, b) = 1 .. Len(lh) + 1
  BY DEF LogType
<1>2. /\ Append(lh, b)[Len(lh) + 1] = b
      /\ \A j \in 1 .. Len(lh) : Append(lh, b)[j] = lh[j]
  BY DEF LogType
<1>3. \A j \in 1 .. Len(lh) : lh[j] # b
  BY <1>1 DEF Absorbed, Logged
<1>4. NoDup(Append(lh, b))
  BY <1>1, <1>2, <1>3 DEF NoDup, LogType
<1>5. {Append(lh, b)[j] : j \in 1 .. Len(lh) + 1} = {lh[j] : j \in 1 .. Len(lh)} \cup {b}
  BY <1>1, <1>2
<1> QED
  BY <1>1, <1>4, <1>5 DEF Logged

\* Only operations in the idle phase are in progress; everything else keeps
\* CountInv by leaving Active alone.
LEMMA SameCount ==
  ASSUME CountInv, Active' = Active, outstanding' = outstanding
  PROVE  CountInv'
  BY DEF CountInv

\* The counter's values that end_op tests, and what they say.
LEMMA NoneActive ==
  ASSUME CountInv
  PROVE  /\ outstanding \in Nat
         /\ outstanding = 0 <=> Active = {}
         /\ outstanding = 1 => \A p, q \in Active : p = q
<1>1. outstanding \in Nat /\ (outstanding = 0 <=> Active = {})
  BY FS_CardinalityType, FS_EmptySet DEF CountInv
<1>2. ASSUME outstanding = 1 PROVE \A p, q \in Active : p = q
  <2>1. PICK x : Active = {x}
    BY <1>2, FS_Singleton DEF CountInv
  <2> QED
    BY <2>1
<1> QED
  BY <1>1, <1>2

\* Every step keeps LogInv.
LEMMA LogNext == LogInv /\ [Next]_vars => LogInv'
<1> SUFFICES ASSUME LogInv, [Next]_vars PROVE LogInv'
  OBVIOUS
<1>a. LogType /\ ProcType /\ CountInv /\ ControlInv /\ DataInv
  BY DEF LogInv
<1> USE DEF disk, mem
<1>1. ASSUME NEW p \in Procs, begin_op(p) PROVE LogInv'
  <2>1. LogType' /\ DataInv'
    BY <1>a, <1>1 DEF begin_op, LogType, DataInv, Saved, Installed, Logged,
       recovering
  <2>2. ProcType'
    BY <1>a, <1>1 DEF begin_op, ProcType
  <2>3. CASE CanBegin /\ outstanding' = outstanding + 1 /\ pc' = [pc EXCEPT ![p] = "op"]
    <3>1. Active' = Active \cup {p} /\ p \notin Active
      BY <1>a, <1>1, <2>3 DEF begin_op, ProcType, Active
    <3>2. CountInv'
      BY <1>a, <2>3, <3>1, FS_AddElement DEF CountInv
    <3>3. phase = "idle" /\ ~panicked
      BY <1>a, <1>1, <2>3 DEF begin_op, up, CanBegin, ControlInv, ProcType,
         recovering
    <3>4. ControlInv'
      BY <1>a, <1>1, <3>1, <3>3 DEF begin_op, ControlInv, recovering
    <3> QED
      BY <2>1, <2>2, <3>2, <3>4 DEF LogInv
  <2>4. CASE outstanding' = outstanding /\ pc' = [pc EXCEPT ![p] = "asleep"]
    <3>1. Active' = Active
      BY <1>a, <1>1, <2>4 DEF begin_op, ProcType, Active
    <3>2. CountInv'
      BY <1>a, <2>4, <3>1, SameCount
    <3>3. ControlInv'
      BY <1>a, <1>1, <3>1 DEF begin_op, ControlInv, recovering, up
    <3> QED
      BY <2>1, <2>2, <3>2, <3>3 DEF LogInv
  <2> QED
    BY <1>1, <2>3, <2>4 DEF begin_op
<1>2. ASSUME NEW p \in Procs, NEW b \in Blocks, NEW v \in Values, log_write(p, b, v)
      PROVE  LogInv'
  <2>1. p \in Active /\ phase = "idle" /\ ~panicked
    BY <1>a, <1>2 DEF log_write, up, Active, ControlInv
  <2>2. ProcType'
    BY <1>a, <1>2 DEF log_write, ProcType
  <2>3. Active' = Active /\ CountInv'
    BY <1>a, <1>2, SameCount DEF log_write, Active
  <2>4. ControlInv'
    BY <1>a, <1>2, <2>1, <2>3 DEF log_write, ControlInv, recovering
  <2>5. cache' = [cache EXCEPT ![b] = v] /\ cache' \in Contents
        /\ UNCHANGED <<home, logdata, head, tail, phase>>
    BY <1>a, <1>2 DEF log_write, LogType, Contents
  <2>6. CASE panicked' = TRUE /\ UNCHANGED lh
    BY <1>a, <2>1, <2>2, <2>3, <2>4, <2>5, <2>6
    DEF LogInv, LogType, DataInv, recovering
  <2>7. CASE ~TooBig /\ lh' = (IF Absorbed(b) THEN lh ELSE Append(lh, b)) /\ UNCHANGED panicked
    <3>1. /\ lh' \in Seq(Blocks) /\ Len(lh') <= LOGSIZE /\ NoDup(lh')
          /\ Len(lh') >= Len(lh) /\ Logged' = Logged \cup {b}
      <4>1. CASE Absorbed(b)
        BY <1>a, <2>7, <4>1 DEF LogType, Absorbed, Logged
      <4>2. CASE ~Absorbed(b)
        <5>1. Len(lh) < LOGSIZE /\ lh' = Append(lh, b)
          BY <1>a, <2>7, <4>2, SizesAssumption DEF TooBig, LogType
        <5>2. Logged' = {lh'[j] : j \in DOMAIN lh'}
          BY DEF Logged
        <5> QED
          BY <1>a, <4>2, <5>1, <5>2, Append_lh, SizesAssumption DEF LogType
      <4> QED
        BY <4>1, <4>2
    <3>2. LogType'
      BY <1>a, <2>5, <3>1 DEF LogType
    <3>3. DataInv'
      BY <1>a, <2>1, <2>5, <3>1 DEF LogType, DataInv, recovering, Contents
    <3> QED
      BY <2>2, <2>3, <2>4, <3>2, <3>3 DEF LogInv
  <2> QED
    BY <1>2, <2>6, <2>7 DEF log_write
<1>3. ASSUME NEW p \in Procs, end_op(p) PROVE LogInv'
  <2>1. p \in Active /\ phase = "idle" /\ ~panicked /\ ~committing
    BY <1>a, <1>3 DEF end_op, up, Active, ControlInv
  <2>2. Active' = Active \ {p}
    BY <1>a, <1>3 DEF end_op, end_op_wakeup, wakeup, Active, ProcType
  <2>3. ProcType'
    BY <1>a, <1>3 DEF end_op, end_op_wakeup, wakeup, ProcType
  <2>4. CountInv'
    BY <1>a, <1>3, <2>1, <2>2, FS_RemoveElement DEF CountInv, end_op
  <2>5. LogType' /\ DataInv'
    BY <1>a, <1>3, <2>1 DEF end_op, LogType, DataInv, recovering, Saved,
       Installed, Logged, ControlInv
  <2>6. CASE LastOp /\ committing' = TRUE
             /\ phase' = IF NeedsCommit THEN "write_log" ELSE "committed"
    <3>1. Active' = {}
      BY <1>a, <2>1, <2>2, <2>6, NoneActive DEF LastOp
    <3>2. phase' = "committed" => lh = << >>
      BY <1>a, <2>6 DEF NeedsCommit, LogType
    <3>3. UNCHANGED <<head, lh, tail, panicked>>
      BY <1>3 DEF end_op
    <3> QED
      BY <1>a, <2>1, <2>3, <2>4, <2>5, <2>6, <3>1, <3>2, <3>3
      DEF LogInv, ControlInv, recovering
  <2>7. CASE ~LastOp /\ UNCHANGED <<committing, phase>>
    <3>1. Active' # {}
      BY <1>a, <1>3, <2>1, <2>4, <2>7, NoneActive, FS_EmptySet
      DEF LastOp, CountInv, end_op
    <3>2. UNCHANGED <<head, lh, tail, panicked>>
      BY <1>3 DEF end_op
    <3> QED
      BY <1>a, <2>1, <2>3, <2>4, <2>5, <2>7, <3>1, <3>2
      DEF LogInv, ControlInv, recovering
  <2> QED
    BY <1>3, <2>6, <2>7 DEF end_op
<1>4. ASSUME write_log PROVE LogInv'
  <2>1. ProcType' /\ CountInv' /\ Active' = Active
    BY <1>a, <1>4, SameCount DEF write_log, ProcType, Active
  <2>2. tail + 1 \in 1 .. LOGSIZE /\ tail + 1 \in 1 .. Len(lh) /\ lh[tail + 1] \in Blocks
    BY <1>a, <1>4, SizesAssumption DEF write_log, LogType
  <2>3. LogType'
    BY <1>a, <1>4, <2>2 DEF write_log, LogType, Contents
  <2>4. ControlInv'
    BY <1>a, <1>4, <2>1 DEF write_log, ControlInv, recovering
  <2>5. Saved(tail)'
    BY <1>a, <1>4, <2>2 DEF write_log, LogType, DataInv, Saved
  <2>6. DataInv'
    BY <1>a, <1>4, <2>5 DEF write_log, DataInv, recovering, Logged, Saved
  <2> QED
    BY <2>1, <2>3, <2>4, <2>6 DEF LogInv
<1>5. ASSUME write_head PROVE LogInv'
  <2>1. ProcType' /\ CountInv' /\ Active' = Active
    BY <1>a, <1>5, SameCount DEF write_head, ProcType, Active
  <2>2. LogType'
    BY <1>a, <1>5 DEF write_head, LogType
  <2>3. ControlInv'
    BY <1>a, <1>5, <2>1 DEF write_head, ControlInv, recovering
  <2>4. DataInv'
    BY <1>a, <1>5 DEF write_head, LogType, DataInv, recovering, Logged, Saved,
       Installed
  <2> QED
    BY <2>1, <2>2, <2>3, <2>4 DEF LogInv
<1>6. ASSUME install_trans PROVE LogInv'
  <2>1. ProcType' /\ CountInv' /\ Active' = Active
    BY <1>a, <1>6, SameCount DEF install_trans, ProcType, Active
  <2>2. /\ tail \in Nat /\ tail + 1 \in 1 .. LOGSIZE /\ tail + 1 \in 1 .. Len(lh)
        /\ lh[tail + 1] \in Blocks /\ logdata[tail + 1] \in Values
    BY <1>a, <1>6, SizesAssumption DEF install_trans, LogType
  <2>3. LogType'
    BY <1>a, <1>6, <2>2 DEF install_trans, LogType, Contents
  <2>4. ControlInv'
    BY <1>a, <1>6, <2>1 DEF install_trans, ControlInv, recovering
  <2>5. lh[tail + 1] \in Logged
    BY <1>a, <2>2 DEF Logged, LogType
  <2>6. phase = "install" => cache' = cache
    BY <1>a, <1>6, <2>2 DEF install_trans, DataInv, Saved, LogType, Contents
  <2>7. recovering => cache' = home'
    BY <1>a, <1>6, <2>2 DEF install_trans, DataInv
  <2>8. Installed(tail)'
    BY <1>a, <1>6, <2>2 DEF install_trans, DataInv, Installed, LogType, NoDup,
       Contents
  <2>9. \A b \in Blocks \ Logged : home'[b] = home[b] /\ cache'[b] = cache[b]
    BY <1>a, <1>6, <2>5 DEF install_trans, LogType, Contents
  <2>10. DataInv'
    BY <1>a, <1>6, <2>6, <2>7, <2>8, <2>9
    DEF install_trans, DataInv, recovering, Logged, Saved, Installed
  <2> QED
    BY <2>1, <2>3, <2>4, <2>10 DEF LogInv
<1>7. ASSUME clear PROVE LogInv'
  <2>1. ProcType' /\ CountInv' /\ Active' = Active
    BY <1>a, <1>7, SameCount DEF clear, ProcType, Active
  <2>2. LogType'
    BY <1>a, <1>7, SizesAssumption DEF clear, LogType, NoDup
  <2>3. ControlInv'
    BY <1>a, <1>7, <2>1 DEF clear, ControlInv, recovering
  <2>4. home = cache
    <3>1. CASE phase = "install"
      <4>1. \A j \in DOMAIN lh : home[lh[j]] = cache[lh[j]]
        BY <1>a, <1>7, <3>1 DEF clear, LogType, DataInv, Saved, Installed
      <4>2. \A b \in Blocks : home[b] = cache[b]
        BY <1>a, <3>1, <4>1 DEF DataInv, Logged, ControlInv
      <4> QED
        BY <1>a, <4>2 DEF LogType, Contents
    <3>2. CASE phase = "reinstall"
      BY <1>a, <3>2 DEF DataInv, recovering
    <3> QED
      BY <1>7, <3>1, <3>2 DEF clear
  <2>5. DataInv'
    BY <1>a, <1>7, <2>4 DEF clear, DataInv, recovering, Logged
  <2> QED
    BY <2>1, <2>2, <2>3, <2>5 DEF LogInv
<1>8. ASSUME end_op_done PROVE LogInv'
  <2>1. Active' = Active
    BY <1>a, <1>8 DEF end_op_done, wakeup, Active, ProcType
  <2>2. ProcType' /\ CountInv'
    BY <1>a, <1>8, <2>1, SameCount DEF end_op_done, wakeup, ProcType
  <2>3. LogType'
    BY <1>a, <1>8 DEF end_op_done, LogType
  <2>4. ControlInv'
    BY <1>a, <1>8, <2>1 DEF end_op_done, ControlInv, recovering
  <2>5. DataInv'
    BY <1>a, <1>8 DEF end_op_done, DataInv, recovering, Logged
  <2> QED
    BY <2>2, <2>3, <2>4, <2>5 DEF LogInv
<1>9. ASSUME read_head PROVE LogInv'
  <2>1. ProcType' /\ CountInv' /\ Active' = Active
    BY <1>a, <1>9, SameCount DEF read_head, ProcType, Active
  <2>2. LogType'
    BY <1>a, <1>9 DEF read_head, LogType, ControlInv
  <2>3. ControlInv'
    BY <1>a, <1>9, <2>1 DEF read_head, ControlInv, recovering
  <2>4. DataInv'
    BY <1>a, <1>9 DEF read_head, DataInv, recovering, Installed, ControlInv
  <2> QED
    BY <2>1, <2>2, <2>3, <2>4 DEF LogInv
<1>10. ASSUME Crash PROVE LogInv'
  <2>1. Active' = {}
    BY <1>10 DEF Crash, Active
  <2>2. ProcType' /\ CountInv'
    BY <1>a, <1>10, <2>1, FS_EmptySet DEF Crash, ProcType, CountInv
  <2>3. LogType'
    BY <1>a, <1>10, SizesAssumption DEF Crash, LogType, NoDup
  <2>4. ControlInv'
    BY <1>a, <1>10, <2>1 DEF Crash, ControlInv, recovering
  <2>5. DataInv'
    BY <1>a, <1>10 DEF Crash, DataInv, recovering
  <2> QED
    BY <2>2, <2>3, <2>4, <2>5 DEF LogInv
<1>11. CASE UNCHANGED vars
  <2>1. Active' = Active /\ CountInv'
    BY <1>a, <1>11, SameCount DEF vars, Active
  <2> QED
    BY <1>a, <1>11, <2>1 DEF vars, LogInv, LogType, ProcType, ControlInv, DataInv,
       recovering, Logged, Saved, Installed
<1> QED
  BY <1>1, <1>2, <1>3, <1>4, <1>5, <1>6, <1>7, <1>8, <1>9, <1>10, <1>11
  DEF Next, Commit
-----------------------------------------------------------------------------
\* What a recovery finds with header hd, log blocks ld and home blocks hm.
Found(hd, ld, hm) ==
  [b \in Blocks |->
     IF \E j \in DOMAIN hd : hd[j] = b
       THEN ld[CHOOSE j \in DOMAIN hd : hd[j] = b] ELSE hm[b]]

\* Block by block: a header without duplicates says where each block it names
\* is found, and the others are at home.
LEMMA FoundAt ==
  ASSUME NEW hd \in Seq(Blocks), NoDup(hd), Len(hd) <= LOGSIZE,
         NEW ld \in [1 .. LOGSIZE -> Values], NEW hm \in Contents
  PROVE  /\ Found(hd, ld, hm) \in Contents
         /\ \A j \in 1 .. Len(hd) : Found(hd, ld, hm)[hd[j]] = ld[j]
         /\ \A b \in Blocks : (\A j \in 1 .. Len(hd) : hd[j] # b)
                                => Found(hd, ld, hm)[b] = hm[b]
<1>1. DOMAIN hd = 1 .. Len(hd) /\ \A j \in 1 .. Len(hd) : hd[j] \in Blocks
  OBVIOUS
<1>2. ASSUME NEW j \in 1 .. Len(hd)
      PROVE  (CHOOSE k \in DOMAIN hd : hd[k] = hd[j]) = j
  BY <1>1 DEF NoDup
<1>3. \A j \in 1 .. Len(hd) : Found(hd, ld, hm)[hd[j]] = ld[j]
  BY <1>1, <1>2 DEF Found
<1>4. \A b \in Blocks : (\A j \in 1 .. Len(hd) : hd[j] # b)
                          => Found(hd, ld, hm)[b] = hm[b]
  BY <1>1 DEF Found
<1>5. ASSUME NEW b \in Blocks PROVE Found(hd, ld, hm)[b] \in Values
  <2>1. CASE \E j \in 1 .. Len(hd) : hd[j] = b
    <3>1. PICK j \in 1 .. Len(hd) : hd[j] = b
      BY <2>1
    <3>2. j \in 1 .. LOGSIZE
      BY SizesAssumption
    <3> QED
      BY <1>3, <3>1, <3>2
  <2>2. CASE \A j \in 1 .. Len(hd) : hd[j] # b
    BY <1>4, <2>2 DEF Contents
  <2> QED
    BY <2>1, <2>2
<1>6. Found(hd, ld, hm) \in Contents
  BY <1>5 DEF Found, Contents
<1> QED
  BY <1>3, <1>4, <1>6

\* Once the header is empty everything is at home.
LEMMA FoundHome ==
  ASSUME NEW ld \in [1 .. LOGSIZE -> Values], NEW hm \in Contents
  PROVE  Found(<< >>, ld, hm) = hm
<1>1. Found(<< >>, ld, hm) = [b \in Blocks |-> hm[b]]
  BY DEF Found
<1> QED
  BY <1>1 DEF Contents

\* An operation whose end_op has returned, with none left in progress, is on
\* disk: every path out of the commit, the one that had nothing to write
\* included, leaves the home blocks and an empty header.
THEOREM DurableOnceIdle == Spec => []DurableWhenIdle
<1>1. LogInv => DurableWhenIdle
  <2> SUFFICES ASSUME LogInv, up, outstanding = 0, ~committing
               PROVE  Recovered = cache
    BY DEF DurableWhenIdle
  <2>a. LogType /\ ProcType /\ CountInv /\ ControlInv /\ DataInv
    BY DEF LogInv
  <2>1. phase = "idle" /\ Active = {} /\ ~panicked
    BY <2>a, NoneActive DEF up, recovering, ControlInv, ProcType
  <2>2. lh = << >> /\ head = << >>
    BY <2>a, <2>1 DEF ControlInv
  <2>3. \A b \in Blocks : home[b] = cache[b]
    BY <2>a, <2>1, <2>2 DEF DataInv, Logged
  <2>4. home = cache
    BY <2>a, <2>3 DEF LogType, Contents
  <2> QED
    BY <2>a, <2>2, <2>4, FoundHome DEF LogType, Recovered, Found
<1> QED
  BY <1>1, LogInit, LogNext, PTL DEF Spec
-----------------------------------------------------------------------------
\* BeginNotLost is inductive once it is known that a recovery begins with
\* nobody asleep and that the commit excludes beginning.
LEMMA BeginNext ==
  ASSUME LogInv, BeginNotLost, [Next]_vars
  PROVE  BeginNotLost'
<1>a. LogType /\ ProcType /\ CountInv /\ ControlInv
  BY DEF LogInv
<1> USE DEF disk, mem
<1>1. ASSUME NEW p \in Procs, begin_op(p) PROVE BeginNotLost'
  BY <1>a, <1>1 DEF begin_op, BeginNotLost, up, recovering, CanBegin, ProcType
<1>2. ASSUME NEW p \in Procs, NEW b \in Blocks, NEW v \in Values, log_write(p, b, v)
      PROVE  BeginNotLost'
  <2>1. panicked' \/ (Len(lh') \in Nat /\ Len(lh') >= Len(lh))
    BY <1>a, <1>2 DEF log_write, LogType
  <2>2. (outstanding + 1) * MAXOPBLOCKS \in Nat /\ Len(lh) \in Nat
    BY <1>a, NoneActive, SizesAssumption DEF LogType
  <2>3. UNCHANGED <<outstanding, committing, pc, phase>> /\ up
    BY <1>2 DEF log_write
  <2>4. ASSUME CanBegin', ~panicked' PROVE CanBegin
    BY <2>1, <2>2, <2>3, <2>4, SizesAssumption DEF CanBegin
  <2> QED
    BY <2>3, <2>4 DEF BeginNotLost, up, recovering
<1>3. ASSUME NEW p \in Procs, end_op(p) PROVE BeginNotLost'
  <2>1. CASE committing'
    BY <2>1 DEF BeginNotLost, CanBegin
  <2>2. CASE end_op_wakeup(p)
    BY <1>a, <2>2 DEF end_op_wakeup, wakeup, BeginNotLost, ProcType
  <2> QED
    BY <1>3, <2>1, <2>2 DEF end_op
<1>4. ASSUME write_log \/ write_head \/ install_trans \/ clear PROVE BeginNotLost'
  <2>1. phase \in {"write_log", "install"} => committing'
    BY <1>a, <1>4 DEF ControlInv, write_log, write_head, install_trans, clear
  <2>2. phase = "reinstall" => \A p \in Procs : pc'[p] = "out"
    BY <1>a, <1>4 DEF ControlInv, recovering, install_trans, clear, write_log,
       write_head
  <2> QED
    BY <1>4, <2>1, <2>2 DEF BeginNotLost, CanBegin, write_log, write_head,
       install_trans, clear
<1>5. ASSUME end_op_done PROVE BeginNotLost'
  BY <1>a, <1>5 DEF end_op_done, wakeup, BeginNotLost, ProcType
<1>6. ASSUME read_head \/ Crash PROVE BeginNotLost'
  BY <1>6 DEF read_head, Crash, BeginNotLost, up, recovering
<1>7. CASE UNCHANGED vars
  BY <1>7 DEF vars, BeginNotLost, up, recovering, CanBegin
<1> QED
  BY <1>1, <1>2, <1>3, <1>4, <1>5, <1>6, <1>7 DEF Next, Commit

\* No process sleeps in begin_op while there is room and no commit: each
\* change that makes room, by any other operation's end or by the commit, is
\* followed by a wakeup() in the same critical section.
THEOREM BeginWoken == Spec => []BeginNotLost
<1>1. Init => BeginNotLost
  BY DEF Init, BeginNotLost
<1>2. LogInv /\ BeginNotLost /\ [Next]_vars => BeginNotLost'
  BY BeginNext
<1> QED
  BY <1>1, <1>2, LogInit, LogNext, PTL DEF Spec
-----------------------------------------------------------------------------
(***************************************************************************)
(* The refinement.  write_head is the one step that makes anything         *)
(* durable; installing and clearing do not change what a recovery would    *)
(* find, because the header names every block they touch until it is       *)
(* cleared, and by then all of them are at home.                           *)
(***************************************************************************)
View == IF recovering THEN Recovered ELSE cache

\* Steps that leave the disk alone leave what a recovery would find alone.
LEMMA SameStable ==
  ASSUME UNCHANGED disk
  PROVE  Recovered' = Recovered
  BY DEF disk, Recovered

\* write_log before write_head: nothing refers to the log's blocks yet.
LEMMA WriteLogStable ==
  ASSUME LogInv, LogInv', write_log
  PROVE  Recovered' = Recovered
<1>1. head = << >> /\ head' = << >> /\ home' = home
  BY DEF LogInv, ControlInv, write_log
<1>2. Recovered = home /\ Recovered' = home'
  BY <1>1, FoundHome DEF LogInv, LogType, Recovered, Found
<1> QED
  BY <1>1, <1>2

\* "the real commit": a recovery now finds what the operations wrote.
LEMMA WriteHeadCommits ==
  ASSUME LogInv, write_head
  PROVE  Recovered' = cache
<1>a. LogType /\ DataInv /\ ControlInv
  BY DEF LogInv
<1>1. Recovered' = Found(lh, logdata, home)
  BY DEF write_head, Recovered, Found
<1>2. /\ Found(lh, logdata, home) \in Contents
      /\ \A j \in 1 .. Len(lh) : Found(lh, logdata, home)[lh[j]] = logdata[j]
      /\ \A b \in Blocks : (\A j \in 1 .. Len(lh) : lh[j] # b)
                             => Found(lh, logdata, home)[b] = home[b]
  BY <1>a, FoundAt DEF LogType
<1>3. ASSUME NEW b \in Blocks PROVE Found(lh, logdata, home)[b] = cache[b]
  <2>1. CASE \E j \in 1 .. Len(lh) : lh[j] = b
    BY <1>a, <1>2, <2>1 DEF write_head, DataInv, Saved
  <2>2. CASE \A j \in 1 .. Len(lh) : lh[j] # b
    <3>1. home[b] = cache[b]
      BY <1>a, <2>2 DEF write_head, DataInv, ControlInv, Logged, LogType
    <3> QED
      BY <1>2, <2>2, <3>1
  <2> QED
    BY <2>1, <2>2
<1> QED
  BY <1>a, <1>1, <1>2, <1>3 DEF LogType, Contents

\* Installing a block, in a commit or in a recovery, writes home what a
\* recovery would find anyway, and leaves the cache as it was.
LEMMA InstallStable ==
  ASSUME LogInv, LogInv', install_trans
  PROVE  Recovered' = Recovered /\ View' = View
<1>a. LogType /\ LogType' /\ ControlInv /\ DataInv
  BY DEF LogInv
<1>1. head = lh /\ UNCHANGED <<head, logdata, phase>> /\ tail + 1 \in 1 .. Len(lh)
  BY <1>a DEF install_trans, ControlInv, LogType
<1>2. home' = [home EXCEPT ![lh[tail + 1]] = logdata[tail + 1]]
  BY DEF install_trans
<1> DEFINE F == Found(head, logdata, home)
           G == Found(head, logdata, home')
<1>3. /\ F \in Contents /\ G \in Contents
      /\ \A j \in 1 .. Len(head) : F[head[j]] = G[head[j]]
      /\ \A b \in Blocks : (\A j \in 1 .. Len(head) : head[j] # b)
                             => F[b] = home[b] /\ G[b] = home'[b]
  <2>1. /\ head \in Seq(Blocks) /\ NoDup(head) /\ Len(head) <= LOGSIZE
        /\ logdata \in [1 .. LOGSIZE -> Values] /\ home \in Contents /\ home' \in Contents
    BY <1>a DEF LogType
  <2>2. /\ F \in Contents /\ \A j \in 1 .. Len(head) : F[head[j]] = logdata[j]
        /\ \A b \in Blocks : (\A j \in 1 .. Len(head) : head[j] # b) => F[b] = home[b]
    BY <2>1, FoundAt
  <2>3. /\ G \in Contents /\ \A j \in 1 .. Len(head) : G[head[j]] = logdata[j]
        /\ \A b \in Blocks : (\A j \in 1 .. Len(head) : head[j] # b) => G[b] = home'[b]
    BY <2>1, FoundAt
  <2> QED
    BY <2>2, <2>3
<1>4. ASSUME NEW b \in Blocks PROVE F[b] = G[b]
  <2>1. CASE \E j \in 1 .. Len(head) : head[j] = b
    BY <1>3, <2>1
  <2>2. CASE \A j \in 1 .. Len(head) : head[j] # b
    <3>1. home'[b] = home[b]
      BY <1>a, <1>1, <1>2, <2>2 DEF LogType, Contents
    <3> QED
      BY <1>3, <2>2, <3>1
  <2> QED
    BY <2>1, <2>2
<1>5. F = G
  BY <1>3, <1>4 DEF Contents
<1>6. Recovered' = Recovered
  BY <1>1, <1>5 DEF Recovered, Found
<1>7. phase = "install" => cache' = cache
  BY <1>a, <1>1 DEF install_trans, DataInv, Saved, LogType, Contents
<1> QED
  BY <1>1, <1>6, <1>7 DEF View, recovering, install_trans

\* Clearing the header, once everything is installed.
LEMMA ClearStable ==
  ASSUME LogInv, LogInv', clear
  PROVE  Recovered' = Recovered /\ View' = View
<1>a. LogType /\ LogType' /\ ControlInv /\ DataInv
  BY DEF LogInv
<1>1. head = lh /\ head' = << >> /\ home' = home /\ tail = Len(lh) /\ cache' = cache
  BY <1>a DEF clear, ControlInv
<1>2. Recovered' = home
  BY <1>a, <1>1, FoundHome DEF Recovered, Found, LogType
<1>3. /\ Found(head, logdata, home) \in Contents
      /\ \A j \in 1 .. Len(head) : Found(head, logdata, home)[head[j]] = logdata[j]
      /\ \A b \in Blocks : (\A j \in 1 .. Len(head) : head[j] # b)
                             => Found(head, logdata, home)[b] = home[b]
  <2>1. /\ head \in Seq(Blocks) /\ NoDup(head) /\ Len(head) <= LOGSIZE
        /\ logdata \in [1 .. LOGSIZE -> Values] /\ home \in Contents
    BY <1>a DEF LogType
  <2> QED
    BY <2>1, FoundAt
<1>4. \A j \in 1 .. Len(head) : home[head[j]] = logdata[j]
  BY <1>a, <1>1 DEF clear, DataInv, Installed
<1>5. \A b \in Blocks : Found(head, logdata, home)[b] = home[b]
  BY <1>3, <1>4
<1>6. Recovered = home
  BY <1>a, <1>3, <1>5 DEF Recovered, Found, LogType, Contents
<1>7. phase = "reinstall" => cache = home
  BY <1>a DEF DataInv, recovering
<1> QED
  BY <1>1, <1>2, <1>6, <1>7 DEF View, recovering, clear

\* Every step of the log is a step of AtomicDisk or changes nothing there.
LEMMA AtomicStep ==
  ASSUME LogInv, LogInv', [Next]_vars
  PROVE  [Abs!Next]_<<View, Recovered, Active>>
<1>a. LogType /\ ProcType /\ CountInv /\ ControlInv /\ DataInv
  BY DEF LogInv
<1> USE DEF disk, mem
<1>1. ASSUME NEW p \in Procs, begin_op(p) PROVE [Abs!Next]_<<View, Recovered, Active>>
  <2>1. View' = View /\ Recovered' = Recovered
    BY <1>1, SameStable DEF begin_op, View, recovering
  <2>2. p \notin Active /\ (Active' = Active \/ Active' = Active \cup {p})
    BY <1>a, <1>1 DEF begin_op, Active, ProcType
  <2> QED
    BY <2>1, <2>2 DEF Abs!Next, Abs!Begin, View, Active
<1>2. ASSUME NEW p \in Procs, NEW b \in Blocks, NEW v \in Values, log_write(p, b, v)
      PROVE  [Abs!Next]_<<View, Recovered, Active>>
  <2>1. Recovered' = Recovered /\ Active' = Active /\ p \in Active
    BY <1>2, SameStable DEF log_write, Active
  <2>2. View' = [View EXCEPT ![b] = v]
    BY <1>2 DEF log_write, View, up, recovering
  <2>3. Abs!Write(p, b, v)
    BY <2>1, <2>2 DEF Abs!Write, View, Active
  <2> QED
    BY <2>3 DEF Abs!Next
<1>3. ASSUME NEW p \in Procs, end_op(p) PROVE [Abs!Next]_<<View, Recovered, Active>>
  <2>1. Recovered' = Recovered /\ p \in Active
    BY <1>3, SameStable DEF end_op, Active
  <2>2. Active' = Active \ {p}
    BY <1>a, <1>3 DEF end_op, end_op_wakeup, wakeup, Active, ProcType
  <2>3. View' = View
    BY <1>3 DEF end_op, View, up, recovering
  <2>4. Abs!End(p)
    BY <2>1, <2>2, <2>3 DEF Abs!End, View, Active
  <2> QED
    BY <2>4 DEF Abs!Next
<1>4. ASSUME write_log PROVE UNCHANGED <<View, Recovered, Active>>
  BY <1>4, WriteLogStable DEF write_log, View, recovering, Active
<1>5. ASSUME write_head PROVE Abs!Next
  <2>1. Recovered' = cache /\ Active = {} /\ Active' = {} /\ View = cache /\ View' = cache
    BY <1>a, <1>5, WriteHeadCommits DEF write_head, View, recovering, Active,
       ControlInv
  <2>2. Abs!Commit
    BY <2>1 DEF Abs!Commit, View, Active
  <2> QED
    BY <2>2 DEF Abs!Next
<1>6. ASSUME install_trans PROVE UNCHANGED <<View, Recovered, Active>>
  BY <1>6, InstallStable DEF install_trans, Active
<1>7. ASSUME clear PROVE UNCHANGED <<View, Recovered, Active>>
  BY <1>7, ClearStable DEF clear, Active
<1>8. ASSUME end_op_done PROVE UNCHANGED <<View, Recovered, Active>>
  <2>1. Active' = Active
    BY <1>a, <1>8 DEF end_op_done, wakeup, Active, ProcType
  <2> QED
    BY <1>8, <2>1, SameStable DEF end_op_done, View, recovering
<1>9. ASSUME read_head PROVE UNCHANGED <<View, Recovered, Active>>
  BY <1>9, SameStable DEF read_head, View, recovering, Active
<1>10. ASSUME Crash PROVE Abs!Next
  <2>1. Recovered' = Recovered /\ View' = Recovered' /\ Active' = {}
    BY <1>10, SameStable DEF Crash, View, recovering, Active
  <2>2. Abs!Crash
    BY <2>1 DEF Abs!Crash, View, Active
  <2> QED
    BY <2>2 DEF Abs!Next
<1>11. CASE UNCHANGED vars
  BY <1>11, SameStable DEF vars, View, recovering, Active
<1> QED
  BY <1>1, <1>2, <1>3, <1>4, <1>5, <1>6, <1>7, <1>8, <1>9, <1>10, <1>11
  DEF Next, Commit

\* The log implements AtomicDisk: groups of whole operations become durable in
\* one step, and a crash before any disk write of write_log, write_head,
\* install_trans or the recovery loses what is not durable and nothing else.
THEOREM LogIsAtomic == Spec => CrashAtomic
<1>1. Init => Abs!Init
  <2> SUFFICES ASSUME Init PROVE Abs!Init
    OBVIOUS
  <2>1. home \in Contents /\ head = << >> /\ logdata \in [1 .. LOGSIZE -> Values]
    BY ValuesAssumption DEF Init
  <2>2. Recovered = home
    BY <2>1, FoundHome DEF Recovered, Found
  <2> QED
    BY <2>1, <2>2 DEF Init, Abs!Init, recovering, Contents
<1>2. LogInv /\ LogInv' /\ [Next]_vars => [Abs!Next]_(Abs!advars)
  BY AtomicStep DEF Abs!advars, View, Active
<1> QED
  BY <1>1, <1>2, LogInit, LogNext, PTL DEF Spec, CrashAtomic, Abs!Spec
=============================================================================

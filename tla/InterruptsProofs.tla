-------------------------- MODULE InterruptsProofs ---------------------------
(***************************************************************************)
(* Proofs about module Interrupts, for any number of harts and processes,  *)
(* any programs and any typing: no hart panics, the uart loses no          *)
(* character of a write(), and the console is a line discipline.           *)
(***************************************************************************)
EXTENDS Interrupts, TLAPS, FiniteSetTheorems, SequenceTheorems

(***************************************************************************)
(* Types.  A frame is what code[f] says of a hart's handler or a process.  *)
(***************************************************************************)
Keys == Letters \cup Enders \cup Editors
Chars == Procs \X Nat \X Int
Contents == Keys \cup Chars \cup {Echo, None}

Cpu == [intr : BOOLEAN, noff : Nat, intena : BOOLEAN, run : Procs \cup {None},
        stvec : {"kernelvec", "uservec"}, user : BOOLEAN, ssip : BOOLEAN,
        panic : BOOLEAN, timers : Nat]

PCs == {"none", "claim", "clock", "tick", "sip", "eoi", "rx", "complete", "cons", "edit",
        "print", "printed", "printed_edit", "sync", "sync_thr", "start", "thr",
        "new", "ret", "sret", "user", "sysret", "write", "putc", "woken", "doze",
        "read", "rd", "sleep", "slp0", "slp", "kill", "helloworld"}

Frame == [pc : PCs, spin : Locks \cup {None}, n : Int,
          ch : Contents, then : PCs]

Chans == {None, "cons.r", "ticks", "uart_tx_r"}

Proc == [state : {"sleeping", "runnable", "running", "zombie"},
         chan : Chans, killed : BOOLEAN,
         intena : BOOLEAN, trapped : BOOLEAN, prog : Seq(Calls) \cup {None}]

CodeType == cpu \in [Harts -> Cpu] /\ code \in [Harts \cup Procs -> Frame]
LockType == lock \in [Locks -> Harts \cup {None}]
ProcType == proc \in [Procs -> Proc]

(***************************************************************************)
(* What a frame's point in the code says: which lock it has or spins for,  *)
(* and how often its hart has called push_off for it.                      *)
(***************************************************************************)
InSync(g) == g.pc \in {"sync", "sync_thr"}

\* The frame has the lock or spins for it.
In(g, lk) ==
  CASE lk = "time" -> \/ g.pc \in {"tick", "slp0", "slp"}
                      \/ g.pc = "doze" /\ g.then = "slp"
    [] lk = "uart" -> g.pc \in {"putc", "start", "thr"}
    [] lk = "pr"   -> \/ g.pc \in {"print", "printed", "printed_edit"}
                      \/ InSync(g) /\ g.then \in {"printed", "printed_edit"}
    [] lk = "cons" -> \/ g.pc \in {"cons", "edit", "rd", "printed_edit"}
                      \/ g.pc = "doze" /\ g.then = "rd"
                      \/ g.pc = "print" /\ g.then = "edit"
                      \/ InSync(g) /\ g.then \in {"edit", "printed_edit"}

One(b) == IF b THEN 1 ELSE 0

\* push_off calls: one for each lock, one in uartputc_sync().
Depth(g) == One(In(g, "time")) + One(In(g, "uart")) + One(In(g, "pr"))
            + One(In(g, "cons")) + One(g.pc = "sync_thr")

\* Where a handler and a process may be.
HandlerAt(g) ==
  /\ g.pc \in {"none", "claim", "clock", "tick", "sip", "eoi", "rx", "complete", "cons",
               "edit", "print", "printed_edit", "sync", "sync_thr", "start", "thr"}
  /\ g.pc \in {"start", "thr"} => g.then = "complete"
  /\ g.pc = "print" => g.then = "edit"
  /\ InSync(g) => g.then \in {"edit", "printed_edit"}
  /\ g.pc \in {"cons", "edit", "print", "printed_edit"} \/ InSync(g) => g.ch \in Keys

\* Inside a system call.
SysCall == {"write", "putc", "read", "rd", "sleep", "slp0", "slp", "kill", "helloworld",
            "woken", "doze", "print", "printed", "sync", "sync_thr", "start", "thr", "sysret"}

ProgramAt(p, g) ==
  /\ g.pc \in SysCall \cup {"none", "new", "ret", "sret", "user"}
  /\ g.pc \in {"start", "thr"} => g.then = "write"
  /\ g.pc = "woken" => g.then \in {"rd", "putc", "slp"}
  /\ g.pc = "doze" => g.then \in {"rd", "slp"}
  /\ g.pc = "print" => g.then = "sysret"
  /\ InSync(g) => g.then = "printed"
  /\ g.pc \in SysCall => proc[p].prog # <<>>
  /\ proc[p].state # "zombie" => proc[p].prog \in Seq(Calls)

\* What is known of a frame: it only spins for a lock that it takes.
FrameInv(f) ==
  /\ code[f].spin # None => In(code[f], code[f].spin)
  /\ f \in Harts => HandlerAt(code[f])
  /\ f \in Procs => ProgramAt(f, code[f])

\* Who runs where, and what the others wait at.
RunInv ==
  /\ \A p \in Procs : proc[p].state = "running" <=> \E c \in Harts : cpu[c].run = p
  /\ \A c, d \in Harts : cpu[c].run = cpu[d].run /\ cpu[c].run # None => c = d

\* A process that does not run has called push_off for nothing.
WaitInv(p) == proc[p].state # "running" =>
                Depth(code[p]) = 0 /\ code[p].pc \notin {"user", "sret"}

\* The frame that hart c executes: noFrame in the scheduler.
Top(c) == IF InHandler(c) \/ cpu[c].run = None THEN code[c] ELSE code[cpu[c].run]

(***************************************************************************)
(* What hart c relies on.  Interrupts are off while it has a lock, spins   *)
(* for one or polls the uart; an interrupted frame has none of these.      *)
(***************************************************************************)
HartInv(c) ==
  LET k == cpu[c]
      at == IF k.run = None THEN "none" ELSE code[k.run].pc
  IN /\ ~k.panic
     /\ k.noff = Depth(Top(c))
     /\ k.noff > 0 \/ InHandler(c) => ~k.intr
     /\ InHandler(c) \/ k.noff = 0 => ~k.intena
     /\ InHandler(c) /\ k.run # None => Depth(code[k.run]) = 0
     /\ \A lk \in Locks : lock[lk] = c <=> In(Top(c), lk) /\ Top(c).spin # lk
     /\ k.user <=> at = "user"
     /\ k.stvec = IF at = "sret" \/ (k.user /\ ~InHandler(c)) THEN "uservec" ELSE "kernelvec"
     /\ at = "sret" => ~k.intr /\ ~InHandler(c)

(***************************************************************************)
(* The devices and the console's buffer: cons.r, w and e are uints that    *)
(* wrap around, and no line ends in the part that is being edited.         *)
(***************************************************************************)
DevInv == dev \in [fifo : Seq(Chars \cup {Echo}), rx : Seq(Keys), typed : Seq(Keys),
                  depth : {Fifo}, pending : BOOLEAN, claimed : BOOLEAN]

\* The ring never holds more than it has places for.
TxInv ==
  /\ tx \in [buf : [0 .. TxSize - 1 -> Chars \cup {None}], r : Nat, w : Nat]
  /\ tx.r <= tx.w /\ tx.w <= tx.r + TxSize
  /\ \A i \in tx.r .. tx.w - 1 : tx.buf[i % TxSize] \in Chars

\* A frame on its way from the ring to the uart has its lock and a character.
ThrInv == \A f \in Harts \cup Procs :
            code[f].pc = "thr" => code[f].spin = None /\ code[f].ch \in Chars

DeviceType == DevInv /\ TxInv /\ ThrInv /\ ticks \in Nat

ConsType == cons \in [buf : [0 .. Size - 1 -> Keys \cup {None}],
                      r : 0 .. Width - 1, w : 0 .. Width - 1, e : 0 .. Width - 1]

\* w is between r and e, and e at most a buffer ahead of r.
ConsInv ==
  /\ ConsType
  /\ Minus(cons.w, cons.r) <= Minus(cons.e, cons.r) /\ Minus(cons.e, cons.r) <= Size
  /\ \A i \in 0 .. Minus(cons.e, cons.w) - 1 :
       cons.buf[((cons.w + i) % Width) % Size] \notin Enders

(***************************************************************************)
(* The uart.  Writing: the frames that have seen the fifo empty and are    *)
(* about to write to it.  There is room for all of them, and only one of   *)
(* them, the one with uart_tx_lock, has a character of a write().          *)
(***************************************************************************)
\* The points from which a frame writes to the uart.
WP == {"thr", "sync_thr"}

Writing == {f \in Harts \cup Procs : code[f].pc \in WP}

\* A frame that carries a character finds only echoed ones in the fifo.
UartInv ==
  /\ written \in Seq(Chars) /\ sent \in Seq(Chars)
  /\ Len(dev.fifo) + Cardinality(Writing) <= Cardinality(Harts)
  /\ \A f \in Harts \cup Procs : code[f].pc = "thr" =>
       \A i \in 1 .. Len(dev.fifo) : dev.fifo[i] = Echo
  /\ NothingLost

\* Locks, frames and harts; and with the devices and the buffers.
KernelInv == /\ CodeType /\ LockType /\ ProcType
             /\ \A f \in Harts \cup Procs : FrameInv(f)
             /\ RunInv /\ \A p \in Procs : WaitInv(p)
             /\ \A c \in Harts : HartInv(c)

IInv == KernelInv /\ DeviceType /\ ConsInv /\ UartInv

(***************************************************************************)
(* A step of hart c, about process p if it is about one: the others keep   *)
(* what they rely on.                                                      *)
(***************************************************************************)
ProcKept(q) == /\ proc'[q].prog = proc[q].prog
               /\ \/ proc'[q].state = proc[q].state
                  \/ proc[q].state = "sleeping" /\ proc'[q].state = "runnable"

\* What a hart does to the locks.
LocksKept(c) == \A lk \in Locks : \/ lock'[lk] = lock[lk]
                                  \/ lock[lk] = None /\ lock'[lk] = c
                                  \/ lock[lk] = c /\ lock'[lk] = None

\* A frame that goes on at r has the locks of r.
LEMMA FrameNext ==
  ASSUME NEW f, NEW r, code'[f] = r
  PROVE  Depth(code[f])' = Depth(r) /\ (In(code[f], code[f].spin)' <=> In(r, r.spin))
<1>1. \A lk \in {"time", "uart", "pr", "cons"} : In(code[f], lk)' <=> In(r, lk)
  BY DEF In, InSync
<1>2. Depth(code[f])' = Depth(r)
  BY <1>1 DEF Depth
<1>3. In(code[f], code[f].spin)' <=> In(r, r.spin)
  BY DEF In, InSync
<1> QED
  BY <1>2, <1>3

\* What is known of a frame stays true while the frame does.
LEMMA FrameStays ==
  ASSUME NEW f, FrameInv(f), code'[f] = code[f], f \in Procs => ProcKept(f)
  PROVE  FrameInv(f)' /\ (f \in Procs /\ WaitInv(f) => WaitInv(f)')
<1>1. f \in Procs => ProgramAt(f, code[f])'
  <2> SUFFICES ASSUME f \in Procs PROVE ProgramAt(f, code[f])'
    OBVIOUS
  <2>1. ProcKept(f) /\ ProgramAt(f, code[f])
    BY DEF FrameInv
  <2> QED
    BY <2>1 DEF ProgramAt, ProcKept, InSync
<1>2. f \in Harts => HandlerAt(code[f])'
  BY DEF FrameInv, HandlerAt, InSync
<1>3. code'[f].spin # None => In(code[f], code[f].spin)'
  BY FrameNext DEF FrameInv
<1>4. f \in Procs /\ WaitInv(f) => WaitInv(f)'
  BY FrameNext DEF WaitInv, ProcKept
<1> QED
  BY <1>1, <1>2, <1>3, <1>4 DEF FrameInv

\* The frames and the harts that a step of hart c is not about.
LEMMA OthersKept ==
  ASSUME KernelInv, NEW c \in Harts, NEW p \in Procs \cup {None},
         LocksKept(c),
         \A f \in (Harts \cup Procs) \ {c, p} : code'[f] = code[f],
         \A d \in Harts \ {c} : cpu'[d] = cpu[d] /\ (p # None => cpu[d].run # p),
         \A q \in Procs \ {p} : ProcKept(q)
  PROVE  /\ \A f \in (Harts \cup Procs) \ {c, p} : FrameInv(f)'
         /\ \A d \in Harts \ {c} : HartInv(d)'
         /\ \A q \in Procs \ {p} : WaitInv(q)'
<1>0. /\ Harts \cap Procs = {} /\ None \notin Harts \cup Procs
      /\ CodeType /\ LockType /\ ProcType
  BY NamesAssumption DEF KernelInv
<1>1. ASSUME NEW f \in (Harts \cup Procs) \ {c, p} PROVE FrameInv(f)'
  <2>1. FrameInv(f) /\ code'[f] = code[f] /\ (f \in Procs => ProcKept(f))
    BY DEF KernelInv
  <2> QED
    BY <2>1, FrameStays
<1>2. ASSUME NEW d \in Harts \ {c} PROVE HartInv(d)'
  <2>1. HartInv(d) /\ cpu'[d] = cpu[d] /\ code'[d] = code[d]
    BY <1>0 DEF KernelInv
  <2>2. cpu[d].run # None => code'[cpu[d].run] = code[cpu[d].run]
    <3> SUFFICES ASSUME cpu[d].run # None PROVE code'[cpu[d].run] = code[cpu[d].run]
      OBVIOUS
    <3>1. cpu[d].run \in Procs \ {c, p}
      BY <1>0 DEF CodeType, Cpu
    <3> QED
      BY <3>1
  <2>3. \A lk \in Locks : lock'[lk] = d <=> lock[lk] = d
    BY <1>0 DEF LocksKept
  <2>4. Top(d)' = Top(d) /\ InHandler(d)' = InHandler(d)
    BY <2>1, <2>2 DEF Top, InHandler
  <2> QED
    BY <2>1, <2>2, <2>3, <2>4 DEF HartInv
<1>3. ASSUME NEW q \in Procs \ {p} PROVE WaitInv(q)'
  <2>1. FrameInv(q) /\ WaitInv(q) /\ code'[q] = code[q] /\ ProcKept(q)
    BY <1>0 DEF KernelInv
  <2> QED
    BY <2>1, FrameStays
<1> QED
  BY <1>1, <1>2, <1>3

\* A step of hart c about process p, or about none of them.
LEMMA KernelKept ==
  ASSUME KernelInv, NEW c \in Harts, NEW p \in Procs \cup {None},
         CodeType', LockType', ProcType', LocksKept(c),
         \A f \in (Harts \cup Procs) \ {c, p} : code'[f] = code[f],
         \A d \in Harts \ {c} : cpu'[d] = cpu[d],
         \A q \in Procs \ {p} : ProcKept(q),
         cpu[c].run \in {p, None}, cpu'[c].run \in {p, None},
         cpu[c].run = None /\ p # None => proc[p].state # "running",
         p # None => /\ proc'[p].state = "running" <=> cpu'[c].run = p
                     /\ FrameInv(p)' /\ WaitInv(p)',
         FrameInv(c)', HartInv(c)'
  PROVE  KernelInv'
<1>0. /\ Harts \cap Procs = {} /\ None \notin Harts \cup Procs
      /\ CodeType /\ LockType /\ ProcType /\ RunInv
  BY NamesAssumption DEF KernelInv
<1>1. ASSUME NEW d \in Harts \ {c} PROVE p # None => cpu[d].run # p
  BY <1>0, <1>1 DEF RunInv
<1>2. /\ \A f \in (Harts \cup Procs) \ {c, p} : FrameInv(f)'
      /\ \A d \in Harts \ {c} : HartInv(d)'
      /\ \A q \in Procs \ {p} : WaitInv(q)'
  BY <1>1, OthersKept
<1>3. RunInv'
  <2>1. ASSUME NEW q \in Procs
        PROVE  proc'[q].state = "running" <=> \E d \in Harts : cpu'[d].run = q
    <3>1. CASE q = p
      BY <1>0, <1>1, <3>1
    <3>2. CASE q # p
      <4>1. proc'[q].state = "running" <=> proc[q].state = "running"
        BY <3>2 DEF ProcKept
      <4>2. \A d \in Harts : cpu'[d].run = q <=> cpu[d].run = q
        BY <1>0, <3>2
      <4> QED
        BY <1>0, <4>1, <4>2 DEF RunInv
    <3> QED
      BY <3>1, <3>2
  <2>2. ASSUME NEW d \in Harts, NEW e \in Harts, cpu'[d].run = cpu'[e].run,
               cpu'[d].run # None
        PROVE  d = e
    BY <1>0, <1>1, <2>2 DEF RunInv
  <2> QED
    BY <2>1, <2>2 DEF RunInv
<1>4. \A f \in Harts \cup Procs : FrameInv(f)'
  BY <1>0, <1>2
<1>5. \A q \in Procs : WaitInv(q)'
  BY <1>0, <1>2
<1>6. \A d \in Harts : HartInv(d)'
  BY <1>2
<1> QED
  BY <1>3, <1>4, <1>5, <1>6 DEF KernelInv

(***************************************************************************)
(* The steps of the frame that a hart executes, f: it goes on at r.        *)
(***************************************************************************)
Runs(c, f) == \/ InHandler(c) /\ f = c
              \/ ~InHandler(c) /\ f \in Procs /\ cpu[c].run = f

\* The executing frame is the top one.
LEMMA RunsTop ==
  ASSUME KernelInv, NEW c \in Harts, NEW f, Runs(c, f)
  PROVE  /\ f \in Harts \cup Procs /\ Top(c) = code[f] /\ code[f] \in Frame
         /\ cpu[c] \in Cpu /\ HartInv(c) /\ FrameInv(f)
         /\ f \in Procs => cpu[c].run = f /\ proc[f].state = "running" /\ ~InHandler(c)
         /\ f \in Harts => f = c /\ InHandler(c)
         /\ f \in Procs <=> f \notin Harts
<1>0. /\ Harts \cap Procs = {} /\ None \notin Harts \cup Procs /\ CodeType /\ RunInv
  BY NamesAssumption DEF KernelInv
<1>1. f \in Harts \cup Procs /\ Top(c) = code[f]
  BY <1>0 DEF Runs, Top
<1>2. f \in Procs => cpu[c].run = f /\ proc[f].state = "running" /\ ~InHandler(c)
  BY <1>0 DEF Runs, RunInv
<1>3. f \in Harts => f = c /\ InHandler(c)
  BY <1>0 DEF Runs
<1> QED
  BY <1>0, <1>1, <1>2, <1>3 DEF KernelInv, CodeType

\* Where a frame that goes on at r has to be.
GoesTo(f, r) == /\ r \in Frame /\ r.pc \notin {"user", "sret"}
                /\ f \in Harts => HandlerAt(r) /\ r.pc # "none"
                /\ f \in Procs => ProgramAt(f, r)

\* What its step does to hart c, which goes on as k.
Moves(c, f, r, k) ==
  /\ GoesTo(f, r) /\ k \in Cpu
  /\ code' = [code EXCEPT ![f] = r] /\ cpu' = [cpu EXCEPT ![c] = k]
  /\ code[f].pc \notin {"user", "sret"}
  /\ r.spin # None => In(r, r.spin)
  /\ k.run = cpu[c].run /\ k.stvec = cpu[c].stvec /\ k.user = cpu[c].user
  /\ ~k.panic /\ k.noff = Depth(r)
  /\ k.noff > 0 \/ f = c => ~k.intr
  /\ k.noff = 0 \/ f = c => ~k.intena
  /\ \A lk \in Locks : lock'[lk] = c <=> In(r, lk) /\ r.spin # lk

\* Most steps do not lead to a point from which a frame writes to the uart, or away
\* from one.
Quiet == \A f \in Harts \cup Procs :
           \/ /\ code'[f].pc = code[f].pc /\ code'[f].ch = code[f].ch
              /\ code'[f].spin \in {code[f].spin, None}
           \/ code[f].pc \notin WP /\ code'[f].pc \notin WP

\* A step of the executing frame.
LEMMA FrameMoves ==
  ASSUME KernelInv, NEW c \in Harts, NEW f, Runs(c, f), NEW r, NEW k, Moves(c, f, r, k),
         LockType', LocksKept(c), ProcType', \A q \in Procs : ProcKept(q)
  PROVE  KernelInv' /\ (code[f].pc \notin WP /\ r.pc \notin WP => Quiet)
<1> USE DEF Moves
<1>0. /\ Harts \cap Procs = {} /\ None \notin Harts \cup Procs
      /\ CodeType /\ LockType /\ ProcType /\ RunInv
  BY NamesAssumption DEF KernelInv
<1>1. /\ f \in Harts \cup Procs /\ HartInv(c) /\ FrameInv(f)
      /\ f \in Procs => cpu[c].run = f /\ proc[f].state = "running" /\ ~InHandler(c)
      /\ f \in Harts => f = c /\ InHandler(c)
      /\ f \in Procs <=> f \notin Harts
  BY RunsTop
<1>2. PICK p \in Procs \cup {None} : p = cpu[c].run
  BY <1>0 DEF CodeType, Cpu
<1>3. CodeType' /\ cpu'[c] = k /\ code'[f] = r
      /\ \A g \in (Harts \cup Procs) \ {f} : code'[g] = code[g]
      /\ \A d \in Harts \ {c} : cpu'[d] = cpu[d]
  BY <1>0, <1>1 DEF CodeType, GoesTo
<1>4. p # None => proc'[p].state = "running"
  <2>1. p # None => proc[p].state = "running" /\ ProcKept(p)
    BY <1>0, <1>2 DEF RunInv
  <2> QED
    BY <2>1 DEF ProcKept
<1>5. ASSUME NEW g \in {c, p}, g # None, g # f PROVE FrameInv(g)'
  <2>1. /\ g \in Harts \cup Procs /\ FrameInv(g) /\ code'[g] = code[g]
        /\ g \in Procs => ProcKept(g)
    BY <1>0, <1>3, <1>5 DEF KernelInv
  <2> QED
    BY <2>1, FrameStays
<1>6. FrameInv(f)'
  <2>1. f \in Procs => ProgramAt(f, code[f])'
    <3> SUFFICES ASSUME f \in Procs PROVE ProgramAt(f, code[f])'
      OBVIOUS
    <3>1. ProcKept(f) /\ ProgramAt(f, r)
      BY DEF GoesTo
    <3> QED
      BY <1>3, <3>1 DEF ProgramAt, ProcKept, InSync
  <2>2. f \in Harts => HandlerAt(code[f])'
    BY <1>3 DEF GoesTo, HandlerAt, InSync
  <2>3. code'[f].spin # None => In(code[f], code[f].spin)'
    BY <1>3, FrameNext
  <2> QED
    BY <2>1, <2>2, <2>3 DEF FrameInv
<1>7. HartInv(c)'
  <2>1. Top(c)' = r /\ (InHandler(c)' <=> InHandler(c))
    BY <1>0, <1>1, <1>2, <1>3 DEF Top, InHandler, GoesTo
  <2>2. CASE f \in Procs
    <3>1. f # c /\ cpu'[c].run = f
      BY <1>0, <1>1, <1>3, <2>2
    <3>2. cpu[c].stvec = "kernelvec" /\ ~cpu[c].user
      BY <1>0, <1>1, <2>2 DEF HartInv
    <3> QED
      BY <1>0, <1>1, <1>3, <2>1, <2>2, <3>1, <3>2 DEF HartInv, GoesTo
  <2>3. CASE f = c
    <3>1. p # None => code'[p] = code[p]
      BY <1>0, <1>3, <2>3
    <3> QED
      BY <1>0, <1>1, <1>2, <1>3, <2>1, <2>3, <3>1 DEF HartInv
  <2> QED
    BY <1>1, <2>2, <2>3
<1>8. \A g \in (Harts \cup Procs) \ {c, p} : code'[g] = code[g]
  BY <1>0, <1>1, <1>2, <1>3
<1>9. /\ FrameInv(c)'
      /\ p # None => FrameInv(p)' /\ WaitInv(p)'
  BY <1>0, <1>4, <1>5, <1>6 DEF WaitInv
<1>10. code[f].pc \notin WP /\ r.pc \notin WP => Quiet
  BY <1>3 DEF Quiet
<1>11. KernelInv'
  BY <1>0, <1>2, <1>3, <1>4, <1>7, <1>8, <1>9, KernelKept
<1> QED
  BY <1>10, <1>11

\* How the depth follows from the locks.
LEMMA DepthOf ==
  ASSUME NEW g, NEW r, r.pc = "sync_thr" <=> g.pc = "sync_thr"
  PROVE  /\ (\A m \in Locks : In(r, m) <=> In(g, m)) => Depth(r) = Depth(g)
         /\ \A lk \in Locks :
              ~In(g, lk) /\ (\A m \in Locks : In(r, m) <=> In(g, m) \/ m = lk)
                => Depth(r) = Depth(g) + 1
<1>1. \A m \in {"time", "uart", "pr", "cons"} : m \in Locks
  BY DEF Locks
<1>2. ASSUME \A m \in Locks : In(r, m) <=> In(g, m) PROVE Depth(r) = Depth(g)
  BY <1>1, <1>2 DEF Depth, One
<1>3. ASSUME NEW lk \in Locks, ~In(g, lk), \A m \in Locks : In(r, m) <=> In(g, m) \/ m = lk
      PROVE  Depth(r) = Depth(g) + 1
  <2>1. lk \in {"time", "uart", "pr", "cons"}
    BY DEF Locks
  <2> QED
    BY <1>1, <1>3, <2>1 DEF Depth, One
<1> QED
  BY <1>2, <1>3

\* The depth is a number, 0 without locks.
LEMMA DepthNat ==
  ASSUME NEW g
  PROVE  /\ Depth(g) \in Nat
         /\ (\E m \in Locks : In(g, m)) => Depth(g) > 0
         /\ g.pc = "sync_thr" => Depth(g) > 0
<1>1. \A m \in Locks : m \in {"time", "uart", "pr", "cons"}
  BY DEF Locks
<1> QED
  BY <1>1 DEF Depth, One

\* spin says nothing about the point in the code.
LEMMA SpinOnly ==
  ASSUME NEW f, NEW r \in Frame, NEW x \in Locks \cup {None}
  PROVE  LET s == [r EXCEPT !.spin = x]
         IN /\ s \in Frame /\ s.pc = r.pc /\ s.spin = x /\ s.n = r.n /\ s.ch = r.ch
            /\ Depth(s) = Depth(r) /\ \A m : In(s, m) <=> In(r, m)
            /\ GoesTo(f, r) => GoesTo(f, s)
<1> DEFINE s == [r EXCEPT !.spin = x]
<1>1. /\ s \in Frame /\ s.pc = r.pc /\ s.spin = x /\ s.n = r.n /\ s.ch = r.ch
      /\ s.then = r.then
  BY DEF Frame
<1> HIDE DEF s
<1>2. \A m : In(s, m) <=> In(r, m)
  BY <1>1 DEF In, InSync
<1>3. Depth(s) = Depth(r)
  BY <1>1, <1>2, DepthOf
<1>4. GoesTo(f, r) => GoesTo(f, s)
  BY <1>1 DEF GoesTo, HandlerAt, ProgramAt, InSync
<1> QED
  BY <1>1, <1>2, <1>3, <1>4 DEF s

\* The interrupt state of a hart.
LEMMA CpuSet ==
  ASSUME NEW x \in Cpu, NEW a \in BOOLEAN, NEW b \in BOOLEAN, NEW n \in Nat,
         NEW k, k = [x EXCEPT !.intr = a, !.noff = n, !.intena = b]
  PROVE  k \in Cpu
<1>1. [x EXCEPT !.intr = a] \in Cpu
  BY DEF Cpu
<1>2. \A y \in Cpu : [y EXCEPT !.noff = n] \in Cpu /\ [y EXCEPT !.intena = b] \in Cpu
  BY DEF Cpu
<1>3. k = [[[x EXCEPT !.intr = a] EXCEPT !.noff = n] EXCEPT !.intena = b]
  BY DEF Cpu
<1> QED
  BY <1>1, <1>2, <1>3

\* push_off() and pop_off().
LEMMA PushOff ==
  ASSUME NEW x \in Cpu
  PROVE  LET k == push_off(x)
         IN /\ k \in Cpu /\ k.run = x.run /\ k.stvec = x.stvec /\ k.user = x.user
            /\ k.panic = x.panic /\ ~k.intr /\ k.noff = x.noff + 1
            /\ ~x.intr /\ ~x.intena => ~k.intena
<1>1. PICK b \in BOOLEAN : b = IF x.noff = 0 THEN x.intr ELSE x.intena
  BY DEF Cpu
<1>2. push_off(x) \in Cpu
  <2>0. PICK a \in BOOLEAN : a = FALSE
    OBVIOUS
  <2>1. push_off(x) = [x EXCEPT !.intr = a, !.noff = x.noff + 1, !.intena = b]
    BY <1>1, <2>0 DEF push_off, Cpu
  <2>2. x.noff + 1 \in Nat
    BY DEF Cpu
  <2> QED
    BY <2>1, <2>2, CpuSet, Zenon
<1>3. /\ push_off(x).run = x.run /\ push_off(x).stvec = x.stvec /\ push_off(x).user = x.user
      /\ push_off(x).panic = x.panic /\ ~push_off(x).intr /\ push_off(x).noff = x.noff + 1
  BY DEF push_off, Cpu
<1>4. push_off(x).intena = IF x.noff = 0 THEN x.intr ELSE x.intena
  BY DEF push_off, Cpu
<1> QED
  BY <1>2, <1>3, <1>4

\* See PushOff.
LEMMA PopOff ==
  ASSUME NEW x \in Cpu, ~x.intr, x.noff > 0
  PROVE  LET k == pop_off(x)
         IN /\ k \in Cpu /\ k.run = x.run /\ k.stvec = x.stvec /\ k.user = x.user
            /\ k.panic = x.panic /\ k.noff = x.noff - 1
            /\ k.noff > 0 \/ ~x.intena => ~k.intr
            /\ k.noff = 0 \/ ~x.intena => ~k.intena
<1>1. pop_off(x) = [x EXCEPT !.noff = x.noff - 1, !.intr = (x.noff = 1 /\ x.intena),
                            !.intena = (x.noff > 1 /\ x.intena)]
  BY DEF pop_off, Cpu
<1>2. pop_off(x) \in Cpu
  <2>1. PICK a \in BOOLEAN, b \in BOOLEAN :
          a = (x.noff = 1 /\ x.intena) /\ b = (x.noff > 1 /\ x.intena)
    OBVIOUS
  <2>2. x.noff - 1 \in Nat
    BY DEF Cpu
  <2>3. pop_off(x) = [x EXCEPT !.intr = a, !.noff = x.noff - 1, !.intena = b]
    BY <1>1, <2>1 DEF Cpu
  <2> QED
    BY <2>2, <2>3, CpuSet, Zenon
<1>3. /\ pop_off(x).run = x.run /\ pop_off(x).stvec = x.stvec /\ pop_off(x).user = x.user
      /\ pop_off(x).panic = x.panic /\ pop_off(x).noff = x.noff - 1
  BY <1>1 DEF Cpu
<1>4. pop_off(x).intr => x.noff = 1 /\ x.intena
  BY <1>1 DEF Cpu
<1>5. pop_off(x).intena => x.noff > 1 /\ x.intena
  BY <1>1 DEF Cpu
<1> QED
  BY <1>2, <1>3, <1>4, <1>5 DEF Cpu

\* acquire().
LEMMA AcquireMoves ==
  ASSUME KernelInv, NEW c \in Harts, NEW f, Runs(c, f), NEW r, GoesTo(f, r),
         NEW lk \in Locks, acquire(c, f, lk, r),
         code[f].spin = None, ~In(code[f], lk),
         \A m \in Locks : In(r, m) <=> In(code[f], m) \/ m = lk,
         code[f].pc \notin {"user", "sret", "sync_thr"}, r.pc # "sync_thr",
         ProcType', \A q \in Procs : ProcKept(q)
  PROVE  KernelInv' /\ (code[f].pc \notin WP /\ r.pc \notin WP => Quiet)
<1>0. /\ None \notin Harts \cup Procs \cup Locks
      /\ CodeType /\ LockType /\ r \in Frame
  BY NamesAssumption DEF KernelInv, GoesTo, Locks
<1>1. /\ Top(c) = code[f] /\ code[f] \in Frame /\ cpu[c] \in Cpu /\ HartInv(c)
      /\ f \in Procs => ~InHandler(c) /\ f # c
      /\ f \in Harts => InHandler(c)
  BY NamesAssumption, RunsTop
<1>2. lock[lk] # c /\ \A m \in Locks : lock[m] = c <=> In(code[f], m)
  BY <1>0, <1>1 DEF HartInv
<1> DEFINE k == push_off(cpu[c])
           x == IF lock[lk] = None THEN None ELSE lk
           s == [r EXCEPT !.spin = x]
<1>3. /\ cpu' = [cpu EXCEPT ![c] = k] /\ code' = [code EXCEPT ![f] = s]
      /\ lock' = [lock EXCEPT ![lk] = IF lock[lk] = None THEN c ELSE @]
  BY <1>2 DEF acquire, holding
<1>4. /\ k \in Cpu /\ k.run = cpu[c].run /\ k.stvec = cpu[c].stvec /\ k.user = cpu[c].user
      /\ k.panic = cpu[c].panic /\ ~k.intr /\ k.noff = cpu[c].noff + 1
      /\ ~cpu[c].intr /\ ~cpu[c].intena => ~k.intena
  BY <1>1, PushOff
<1>5. /\ s \in Frame /\ s.pc = r.pc /\ s.spin = x /\ Depth(s) = Depth(r)
      /\ \A m : In(s, m) <=> In(r, m)
      /\ GoesTo(f, s)
  BY <1>0, SpinOnly
<1> HIDE DEF k, s
<1>6. Depth(s) = Depth(code[f]) + 1 /\ Depth(code[f]) \in Nat
  BY <1>5, DepthOf, DepthNat
<1>7. k.noff = Depth(s) /\ k.noff > 0 /\ ~k.panic /\ (InHandler(c) => ~k.intena)
  BY <1>1, <1>4, <1>6 DEF HartInv
<1>8. LockType' /\ LocksKept(c)
  BY <1>0, <1>3 DEF LockType, LocksKept
<1>9. \A m \in Locks : lock'[m] = c <=> In(s, m) /\ s.spin # m
  <2> TAKE m \in Locks
  <2>1. CASE m = lk
    BY <1>0, <1>2, <1>3, <1>5, <2>1 DEF LockType
  <2>2. CASE m # lk
    BY <1>0, <1>2, <1>3, <1>5, <2>2 DEF LockType
  <2> QED
    BY <2>1, <2>2
<1>10. s.spin # None => In(s, s.spin)
  BY <1>5
<1>11. /\ k.noff > 0 \/ f = c => ~k.intr
       /\ k.noff = 0 \/ f = c => ~k.intena
       /\ code[f].pc \notin {"user", "sret"}
  BY <1>1, <1>4, <1>7
<1>12. Moves(c, f, s, k)
  BY <1>3, <1>4, <1>5, <1>7, <1>9, <1>10, <1>11 DEF Moves
<1> QED
  BY <1>5, <1>8, <1>12, FrameMoves

\* release().
LEMMA ReleaseMoves ==
  ASSUME KernelInv, NEW c \in Harts, NEW f, Runs(c, f), NEW r, GoesTo(f, r),
         NEW lk \in Locks, release(c, f, lk, r),
         code[f].spin = None, r.spin = None, In(code[f], lk), ~In(r, lk),
         \A m \in Locks : In(code[f], m) <=> In(r, m) \/ m = lk,
         code[f].pc \notin {"user", "sret", "sync_thr"}, r.pc # "sync_thr",
         ProcType', \A q \in Procs : ProcKept(q)
  PROVE  KernelInv' /\ (code[f].pc \notin WP /\ r.pc \notin WP => Quiet)
<1>0. /\ None \notin Harts \cup Procs \cup Locks
      /\ CodeType /\ LockType /\ r \in Frame
  BY NamesAssumption DEF KernelInv, GoesTo, Locks
<1>1. /\ Top(c) = code[f] /\ code[f] \in Frame /\ cpu[c] \in Cpu /\ HartInv(c)
      /\ f \in Procs => ~InHandler(c) /\ f # c
      /\ f \in Harts => InHandler(c)
  BY NamesAssumption, RunsTop
<1>2. lock[lk] = c /\ \A m \in Locks : lock[m] = c <=> In(code[f], m)
  BY <1>0, <1>1 DEF HartInv
<1>3. Depth(code[f]) = Depth(r) + 1 /\ Depth(r) \in Nat
  BY DepthOf, DepthNat
<1> DEFINE k == pop_off(cpu[c])
<1>4. /\ cpu' = [cpu EXCEPT ![c] = k] /\ code' = [code EXCEPT ![f] = r]
      /\ lock' = [lock EXCEPT ![lk] = None]
  BY <1>2 DEF release, holding
<1>5. ~cpu[c].intr /\ cpu[c].noff = Depth(r) + 1 /\ ~cpu[c].panic
  BY <1>1, <1>3 DEF HartInv
<1>6. /\ k \in Cpu /\ k.run = cpu[c].run /\ k.stvec = cpu[c].stvec /\ k.user = cpu[c].user
      /\ k.panic = cpu[c].panic /\ k.noff = Depth(r)
      /\ k.noff > 0 \/ ~cpu[c].intena => ~k.intr
      /\ k.noff = 0 \/ ~cpu[c].intena => ~k.intena
  BY <1>1, <1>3, <1>5, PopOff
<1> HIDE DEF k
<1>7. /\ ~k.panic /\ code[f].pc \notin {"user", "sret"}
      /\ k.noff > 0 \/ f = c => ~k.intr
      /\ k.noff = 0 \/ f = c => ~k.intena
  BY <1>1, <1>5, <1>6 DEF HartInv
<1>10. r.spin # None => In(r, r.spin)
  OBVIOUS
<1>8. LockType' /\ LocksKept(c)
  BY <1>0, <1>2, <1>4 DEF LockType, LocksKept
<1>9. \A m \in Locks : lock'[m] = c <=> In(r, m) /\ r.spin # m
  BY <1>0, <1>2, <1>4 DEF LockType
<1>11. Moves(c, f, r, k)
  BY <1>4, <1>6, <1>7, <1>9, <1>10 DEF Moves
<1> QED
  BY <1>8, <1>11, FrameMoves

\* Neither; sip may be written.
LEMMA SipMoves ==
  ASSUME KernelInv, NEW c \in Harts, NEW f, Runs(c, f), NEW r, GoesTo(f, r), NEW b \in BOOLEAN,
         code' = [code EXCEPT ![f] = r], cpu' = [cpu EXCEPT ![c].ssip = b], lock' = lock,
         code[f].spin = r.spin,
         \A m \in Locks : In(r, m) <=> In(code[f], m),
         code[f].pc \notin {"user", "sret"}, r.pc = "sync_thr" <=> code[f].pc = "sync_thr",
         ProcType', \A q \in Procs : ProcKept(q)
  PROVE  KernelInv' /\ (code[f].pc \notin WP /\ r.pc \notin WP => Quiet)
<1>0. CodeType /\ LockType
  BY DEF KernelInv
<1>1. /\ Top(c) = code[f] /\ code[f] \in Frame /\ cpu[c] \in Cpu /\ HartInv(c) /\ FrameInv(f)
      /\ f \in Procs => ~InHandler(c) /\ f # c
      /\ f \in Harts => InHandler(c)
  BY NamesAssumption, RunsTop
<1>2. Depth(r) = Depth(code[f])
  BY DepthOf
<1> DEFINE k == [cpu[c] EXCEPT !.ssip = b]
<1>3. cpu' = [cpu EXCEPT ![c] = k]
  OBVIOUS
<1>4. LockType' /\ LocksKept(c)
  BY <1>0 DEF LockType, LocksKept
<1>5. /\ k \in Cpu /\ k.run = cpu[c].run /\ k.stvec = cpu[c].stvec /\ k.user = cpu[c].user
      /\ k.panic = cpu[c].panic /\ k.noff = cpu[c].noff /\ k.intr = cpu[c].intr
      /\ k.intena = cpu[c].intena
  BY <1>1 DEF Cpu
<1> HIDE DEF k
<1>6. /\ k.noff = Depth(r) /\ ~k.panic
      /\ (k.noff > 0 \/ f = c => ~k.intr)
      /\ (k.noff = 0 \/ f = c => ~k.intena)
  BY <1>1, <1>2, <1>5 DEF HartInv
<1>7. r.spin # None => In(r, r.spin)
  BY <1>1 DEF FrameInv, Frame
<1>8. \A m \in Locks : lock'[m] = c <=> In(r, m) /\ r.spin # m
  BY <1>1 DEF HartInv
<1>9. Moves(c, f, r, k)
  BY <1>3, <1>5, <1>6, <1>7, <1>8 DEF Moves
<1> QED
  BY <1>4, <1>9, FrameMoves

\* See SipMoves.
LEMMA PlainMoves ==
  ASSUME KernelInv, NEW c \in Harts, NEW f, Runs(c, f), NEW r, GoesTo(f, r),
         code' = [code EXCEPT ![f] = r], UNCHANGED <<cpu, lock>>,
         code[f].spin = r.spin,
         \A m \in Locks : In(r, m) <=> In(code[f], m),
         code[f].pc \notin {"user", "sret", "sync_thr"}, r.pc # "sync_thr",
         ProcType', \A q \in Procs : ProcKept(q)
  PROVE  KernelInv' /\ (code[f].pc \notin WP /\ r.pc \notin WP => Quiet)
<1>1. PICK b \in BOOLEAN : b = cpu[c].ssip
  BY DEF KernelInv, CodeType, Cpu
<1>2. cpu' = [cpu EXCEPT ![c].ssip = b]
  BY <1>1 DEF KernelInv, CodeType, Cpu
<1> QED
  BY <1>2, SipMoves

\* At last the lock is free.
LEMMA SpinMoves ==
  ASSUME KernelInv, NEW c \in Harts, NEW f, Runs(c, f), acquire_spin(c, f)
  PROVE  KernelInv' /\ Quiet
<1>0. /\ None \notin Harts \cup Procs \cup Locks
      /\ CodeType /\ LockType /\ ProcType
  BY NamesAssumption DEF KernelInv, Locks
<1>1. /\ Top(c) = code[f] /\ code[f] \in Frame /\ cpu[c] \in Cpu /\ HartInv(c) /\ FrameInv(f)
      /\ f \in Procs => ~InHandler(c) /\ f # c
      /\ f \in Harts => InHandler(c) /\ f = c
      /\ f \in Harts \cup Procs
  BY NamesAssumption, RunsTop
<1>2. PICK lk \in Locks : lk = code[f].spin
  BY <1>1 DEF acquire_spin, Frame
<1> DEFINE s == [code[f] EXCEPT !.spin = None]
<1>3. /\ In(code[f], lk) /\ lock[lk] = None
      /\ cpu' = [cpu EXCEPT ![c] = cpu[c]] /\ code' = [code EXCEPT ![f] = s]
      /\ lock' = [lock EXCEPT ![lk] = c] /\ proc' = proc
  BY <1>0, <1>1, <1>2 DEF acquire_spin, FrameInv, CodeType
<1>4. code[f].pc \notin {"user", "sret", "none"}
  BY <1>3 DEF In, InSync, Locks
<1>5. GoesTo(f, code[f])
  BY <1>1, <1>4 DEF GoesTo, FrameInv, InHandler
<1>6. /\ s.pc = code[f].pc /\ s.ch = code[f].ch /\ s.spin = None /\ Depth(s) = Depth(code[f])
      /\ GoesTo(f, s) /\ \A m : In(s, m) <=> In(code[f], m)
  BY <1>1, <1>5, SpinOnly
<1> HIDE DEF s
<1>11. Quiet
  BY <1>0, <1>1, <1>3, <1>6 DEF Quiet, CodeType
<1>7. LockType' /\ LocksKept(c)
  BY <1>0, <1>3 DEF LockType, LocksKept
<1>8. \A m \in Locks : lock'[m] = c <=> In(s, m) /\ s.spin # m
  BY <1>0, <1>1, <1>2, <1>3, <1>6 DEF HartInv, LockType
<1>9. ProcType' /\ \A q \in Procs : ProcKept(q)
  BY <1>0, <1>3 DEF ProcType, ProcKept
<1>10. /\ cpu[c].noff = Depth(s) /\ ~cpu[c].panic
       /\ (cpu[c].noff > 0 \/ f = c => ~cpu[c].intr)
       /\ (cpu[c].noff = 0 \/ f = c => ~cpu[c].intena)
  BY <1>1, <1>6 DEF HartInv
<1> QED
  <2>1. Moves(c, f, s, cpu[c])
    BY <1>1, <1>3, <1>4, <1>6, <1>8, <1>10 DEF Moves
  <2> QED
    BY <1>7, <1>9, <1>11, <2>1, FrameMoves

(***************************************************************************)
(* uints.                                                                  *)
(***************************************************************************)
\* Differences and successors of uints.
LEMMA Uints ==
  ASSUME NEW a \in 0 .. Width - 1, NEW b \in 0 .. Width - 1
  PROVE  /\ Minus(a, b) = IF a >= b THEN a - b ELSE a - b + Width
         /\ Plus(a) = IF a = Width - 1 THEN 0 ELSE a + 1
         /\ (a + b) % Width = IF a + b < Width THEN a + b ELSE a + b - Width
<1>0. Width \in Nat /\ Width > 1
  BY SizesAssumption
<1>a. \A x \in 0 .. Width - 1, y \in Int :
         y \in {x, x + Width, x - Width} => y % Width = x
  BY <1>0
<1>1. Minus(a, b) = IF a >= b THEN a - b ELSE a - b + Width
  <2> DEFINE x == IF a >= b THEN a - b ELSE a - b + Width
  <2>1. x \in 0 .. Width - 1 /\ a - b \in Int /\ a - b \in {x, x + Width, x - Width}
    BY <1>0
  <2> HIDE DEF x
  <2>2. (a - b) % Width = x
    BY <1>a, <2>1
  <2> QED
    BY <2>2 DEF Minus, x
<1>2. ASSUME NEW i \in 0 .. Width - 1
      PROVE  (a + i) % Width = IF a + i < Width THEN a + i ELSE a + i - Width
  <2> DEFINE x == IF a + i < Width THEN a + i ELSE a + i - Width
  <2>1. x \in 0 .. Width - 1 /\ a + i \in Int /\ a + i \in {x, x + Width, x - Width}
    BY <1>0
  <2> HIDE DEF x
  <2>2. (a + i) % Width = x
    BY <1>a, <2>1
  <2> QED
    BY <2>2 DEF x
<1>3. Plus(a) = IF a = Width - 1 THEN 0 ELSE a + 1
  <2>1. 1 \in 0 .. Width - 1
    BY <1>0
  <2>2. (a + 1) % Width = IF a + 1 < Width THEN a + 1 ELSE a + 1 - Width
    BY <1>2, <2>1
  <2> QED
    BY <1>0, <2>2 DEF Plus
<1> QED
  BY <1>1, <1>2, <1>3

\* ^U takes back the whole line: no newline is in it.
LEMMA KilledLine ==
  ASSUME ConsInv
  PROVE  killed_line = Minus(cons.e, cons.w) /\ killed_line \in 0 .. Width - 1
<1> DEFINE e == cons.e
           w == cons.w
           n == Minus(e, w)
<1>0. Width \in Nat \ {0} /\ e \in 0 .. Width - 1 /\ w \in 0 .. Width - 1
  BY SizesAssumption DEF ConsInv, ConsType
<1>1. n = (IF e >= w THEN e - w ELSE e - w + Width) /\ n \in 0 .. Width - 1
  <2>1. Minus(e, w) = IF e >= w THEN e - w ELSE e - w + Width
    BY <1>0, Uints
  <2> QED
    BY <1>0, <2>1
<1>2. ASSUME NEW i \in 1 .. n PROVE cons.buf[Minus(e, i) % Size] # "newline"
  <2>1. i \in 0 .. Width - 1 /\ n - i \in 0 .. n - 1 /\ n - i \in 0 .. Width - 1
    BY <1>0, <1>1
  <2>2. Minus(e, i) = (w + (n - i)) % Width
    <3>1. Minus(e, i) = IF e >= i THEN e - i ELSE e - i + Width
      BY <1>0, <2>1, Uints
    <3>2. (w + (n - i)) % Width =
             IF w + (n - i) < Width THEN w + (n - i) ELSE w + (n - i) - Width
      BY <1>0, <2>1, Uints
    <3> QED
      BY <1>0, <1>1, <2>1, <3>1, <3>2
  <2>3. cons.buf[((w + (n - i)) % Width) % Size] \notin Enders
    BY <2>1 DEF ConsInv, ConsType
  <2> QED
    BY <2>2, <2>3 DEF Enders
<1>3. {i \in 1 .. n : cons.buf[Minus(e, i) % Size] = "newline"} = {}
  BY <1>2
<1>4. killed_line = n
  BY <1>3 DEF killed_line
<1> QED
  BY <1>1, <1>4

(***************************************************************************)
(* Frames.  Goes: frame r is g gone on at pc, with n, ch and then.         *)
(***************************************************************************)
Goes(r, g, pc, n, ch, th) ==
  r \in Frame /\ r.pc = pc /\ r.spin = g.spin /\ r.n = n /\ r.ch = ch /\ r.then = th

\* The shapes of the updates.
LEMMA SetPc ==
  ASSUME NEW g \in Frame, NEW pc \in PCs
  PROVE  Goes([g EXCEPT !.pc = pc], g, pc, g.n, g.ch, g.then)
  BY DEF Goes, Frame

\* See SetPc.
LEMMA SetPcN ==
  ASSUME NEW g \in Frame, NEW pc \in PCs, NEW n \in Int
  PROVE  Goes([g EXCEPT !.pc = pc, !.n = n], g, pc, n, g.ch, g.then)
  BY DEF Goes, Frame

\* See SetPc.
LEMMA SetPcCh ==
  ASSUME NEW g \in Frame, NEW pc \in PCs, NEW ch \in Contents
  PROVE  Goes([g EXCEPT !.pc = pc, !.ch = ch], g, pc, g.n, ch, g.then)
  BY DEF Goes, Frame

\* See SetPc.
LEMMA SetPcThen ==
  ASSUME NEW g \in Frame, NEW pc \in PCs, NEW th \in PCs
  PROVE  Goes([g EXCEPT !.pc = pc, !.then = th], g, pc, g.n, g.ch, th)
  BY DEF Goes, Frame

\* See SetPc.
LEMMA SetPcNThen ==
  ASSUME NEW g \in Frame, NEW pc \in PCs, NEW n \in Int, NEW th \in PCs
  PROVE  Goes([g EXCEPT !.pc = pc, !.n = n, !.then = th], g, pc, n, g.ch, th)
  BY DEF Goes, Frame

\* See SetPc.
LEMMA SetN ==
  ASSUME NEW g \in Frame, NEW n \in Int
  PROVE  Goes([g EXCEPT !.n = n], g, g.pc, n, g.ch, g.then)
  BY DEF Goes, Frame

(***************************************************************************)
(* The steps of interrupt handlers.                                        *)
(***************************************************************************)
\* Nobody else is concerned.
LEMMA ProcsKept ==
  ASSUME KernelInv, UNCHANGED proc
  PROVE  ProcType' /\ \A q \in Procs : ProcKept(q)
  BY DEF KernelInv, ProcType, ProcKept

\* wakeup().
LEMMA WakeupKeeps ==
  ASSUME KernelInv, NEW ch, proc' = wakeup(proc, ch)
  PROVE  ProcType' /\ \A q \in Procs : ProcKept(q)
<1>1. \A q \in Procs : proc[q] \in Proc
  BY DEF KernelInv, ProcType
<1>2. ASSUME NEW q \in Procs PROVE proc'[q] \in Proc /\ ProcKept(q)
  <2>1. proc'[q] = IF proc[q].state = "sleeping" /\ proc[q].chan = ch
                     THEN [proc[q] EXCEPT !.state = "runnable"] ELSE proc[q]
    BY DEF wakeup
  <2> QED
    BY <1>1, <2>1 DEF Proc, ProcKept
<1>3. proc' = [q \in Procs |-> proc'[q]]
  BY DEF wakeup
<1> QED
  BY <1>2, <1>3 DEF ProcType

\* Where the handler of hart c is.
LEMMA HandlerRuns ==
  ASSUME KernelInv, NEW c \in Harts, InHandler(c)
  PROVE  /\ Runs(c, c) /\ code[c] \in Frame /\ HandlerAt(code[c]) /\ c \notin Procs
         /\ code[c].spin # None => In(code[c], code[c].spin)
  BY NamesAssumption DEF KernelInv, CodeType, Runs, FrameInv

\* clockintr().
LEMMA ClockSteps ==
  ASSUME IInv, NEW c \in Harts, InHandler(c), code[c].spin = None, clockintr(c)
  PROVE  KernelInv' /\ Quiet
<1>0. /\ Runs(c, c) /\ code[c] \in Frame /\ HandlerAt(code[c]) /\ c \notin Procs /\ KernelInv
  BY HandlerRuns DEF IInv
<1>1. ASSUME code[c].pc = "clock",
             acquire(c, c, "time", [code[c] EXCEPT !.pc = "tick"]), UNCHANGED proc
      PROVE  KernelInv' /\ Quiet
  <2> DEFINE r == [code[c] EXCEPT !.pc = "tick"]
  <2>1. r \in Frame /\ r.pc = "tick"
    BY <1>0 DEF Frame, PCs
  <2>2. GoesTo(c, r)
    BY <1>0, <2>1 DEF GoesTo, HandlerAt, InSync
  <2>3. "time" \in Locks /\ ~In(code[c], "time")
        /\ \A m \in Locks : In(r, m) <=> In(code[c], m) \/ m = "time"
    BY <1>1, <2>1 DEF In, InSync, Locks
  <2>4. code[c].pc \notin WP /\ r.pc \notin WP
    BY <1>1, <2>1 DEF WP
  <2> QED
    BY <1>0, <1>1, <2>1, <2>2, <2>3, <2>4, ProcsKept, AcquireMoves
<1>2. ASSUME code[c].pc \in {"clock", "sip"}, cpu' = [cpu EXCEPT ![c].ssip = FALSE],
             code' = [code EXCEPT ![c] = [code[c] EXCEPT !.pc = "eoi", !.n = 2]],
             UNCHANGED <<lock, proc>>
      PROVE  KernelInv' /\ Quiet
  <2> DEFINE r == [code[c] EXCEPT !.pc = "eoi", !.n = 2]
  <2>1. Goes(r, code[c], "eoi", 2, code[c].ch, code[c].then)
    <3>1. 2 \in Int /\ "eoi" \in PCs
      BY DEF PCs
    <3> QED
      BY <1>0, <3>1, SetPcN, Zenon
  <2>2. GoesTo(c, r)
    BY <1>0, <2>1 DEF GoesTo, HandlerAt, InSync, Goes
  <2>3. \A m \in Locks : In(r, m) <=> In(code[c], m)
    BY <1>2, <2>1 DEF In, InSync, Locks, Goes
  <2>4. PICK b \in BOOLEAN : b = FALSE
    OBVIOUS
  <2>5. code[c].pc \notin WP /\ r.pc \notin WP
    BY <1>2, <2>1 DEF WP, Goes
  <2> QED
    BY <1>0, <1>2, <2>1, <2>2, <2>3, <2>4, <2>5, ProcsKept, SipMoves DEF Goes
<1>3. ASSUME code[c].pc = "tick", proc' = wakeup(proc, "ticks"),
             release(c, c, "time", [code[c] EXCEPT !.pc = "sip"])
      PROVE  KernelInv' /\ Quiet
  <2> DEFINE r == [code[c] EXCEPT !.pc = "sip"]
  <2>1. r \in Frame /\ r.pc = "sip" /\ r.spin = None
    BY <1>0 DEF Frame, PCs
  <2>2. GoesTo(c, r)
    BY <1>0, <2>1 DEF GoesTo, HandlerAt, InSync
  <2>3. "time" \in Locks /\ In(code[c], "time") /\ ~In(r, "time")
        /\ \A m \in Locks : In(code[c], m) <=> In(r, m) \/ m = "time"
    BY <1>3, <2>1 DEF In, InSync, Locks
  <2>4. code[c].pc \notin WP /\ r.pc \notin WP
    BY <1>3, <2>1 DEF WP
  <2> QED
    BY <1>0, <1>3, <2>1, <2>2, <2>3, <2>4, WakeupKeeps, ReleaseMoves
<1> QED
  BY <1>1, <1>2, <1>3 DEF clockintr

\* plic_claim() and plic_complete().
LEMMA PlicSteps ==
  ASSUME IInv, NEW c \in Harts, InHandler(c), code[c].spin = None, plic_claim(c) \/ plic_complete(c)
  PROVE  KernelInv' /\ Quiet
<1>0. /\ Runs(c, c) /\ code[c] \in Frame /\ HandlerAt(code[c]) /\ c \notin Procs /\ c \in Harts
      /\ KernelInv /\ code[c].spin = None
  BY HandlerRuns DEF IInv
<1>1. ASSUME code[c].pc = "claim",
            code' = [code EXCEPT ![c].pc = "rx"],
            UNCHANGED <<cpu, lock, proc>>
      PROVE  KernelInv' /\ Quiet
  <2> DEFINE r == [code[c] EXCEPT !.pc = "rx"]
  <2>1. Goes(r, code[c], "rx", code[c].n, code[c].ch, code[c].then)
    <3>1. "rx" \in PCs
      BY DEF PCs
    <3> QED
      BY <1>0, <3>1, SetPc, Zenon
  <2>2. GoesTo(c, r)
    BY <1>0, <1>1, <2>1 DEF Goes, GoesTo, HandlerAt, InSync
  <2>3. \A m \in Locks : In(r, m) <=> In(code[c], m)
    BY <1>0, <1>1, <2>1 DEF Goes, In, InSync, Locks, HandlerAt
  <2>4. /\ code[c].pc \notin {"user", "sret", "sync_thr"}
        /\ r.pc # "sync_thr" /\ r.spin = code[c].spin
        /\ code[c].pc \notin WP /\ r.pc \notin WP
    BY <1>0, <1>1, <2>1 DEF Goes, WP, HandlerAt, InSync
  <2> HIDE DEF r
  <2> QED
    BY <1>0, <1>1, <2>2, <2>3, <2>4, ProcsKept, PlainMoves DEF r
<1>2. ASSUME code[c].pc \in {"claim", "complete"},
            code' = [code EXCEPT ![c] = [code[c] EXCEPT !.pc = "eoi", !.n = 1]],
            UNCHANGED <<cpu, lock, proc>>
      PROVE  KernelInv' /\ Quiet
  <2> DEFINE r == [code[c] EXCEPT !.pc = "eoi", !.n = 1]
  <2>1. Goes(r, code[c], "eoi", 1, code[c].ch, code[c].then)
    <3>1. "eoi" \in PCs /\ 1 \in Int
      BY DEF PCs
    <3> QED
      BY <1>0, <3>1, SetPcN, Zenon
  <2>2. GoesTo(c, r)
    BY <1>0, <1>2, <2>1 DEF Goes, GoesTo, HandlerAt, InSync
  <2>3. \A m \in Locks : In(r, m) <=> In(code[c], m)
    BY <1>0, <1>2, <2>1 DEF Goes, In, InSync, Locks, HandlerAt
  <2>4. /\ code[c].pc \notin {"user", "sret", "sync_thr"}
        /\ r.pc # "sync_thr" /\ r.spin = code[c].spin
        /\ code[c].pc \notin WP /\ r.pc \notin WP
    BY <1>0, <1>2, <2>1 DEF Goes, WP, HandlerAt, InSync
  <2> HIDE DEF r
  <2> QED
    BY <1>0, <1>2, <2>2, <2>3, <2>4, ProcsKept, PlainMoves DEF r
<1> QED
  BY <1>1, <1>2 DEF plic_claim, plic_complete

\* uartintr().
LEMMA UartintrSteps ==
  ASSUME IInv, NEW c \in Harts, InHandler(c), code[c].spin = None, uartintr(c)
  PROVE  KernelInv' /\ Quiet
<1>0. /\ Runs(c, c) /\ code[c] \in Frame /\ HandlerAt(code[c]) /\ c \notin Procs /\ c \in Harts
      /\ KernelInv /\ code[c].spin = None
  BY HandlerRuns DEF IInv
<1>a. dev.rx # <<>> => Head(dev.rx) \in Keys
  BY DEF IInv, DeviceType, DevInv, TxInv
<1>1. ASSUME code[c].pc = "rx",
            dev.rx # <<>>,
            acquire(c, c, "cons", [code[c] EXCEPT !.pc = "cons", !.ch = Head(dev.rx)]),
            UNCHANGED proc
      PROVE  KernelInv' /\ Quiet
  <2> DEFINE r == [code[c] EXCEPT !.pc = "cons", !.ch = Head(dev.rx)]
  <2>1. Goes(r, code[c], "cons", code[c].n, Head(dev.rx), code[c].then)
    <3>1. "cons" \in PCs /\ Head(dev.rx) \in Contents
      BY <1>a, <1>1 DEF PCs, Contents
    <3> QED
      BY <1>0, <3>1, SetPcCh, Zenon
  <2>2. GoesTo(c, r)
    BY <1>0, <1>a, <1>1, <2>1 DEF Goes, GoesTo, HandlerAt, InSync
  <2>3. "cons" \in Locks /\ ~In(code[c], "cons")
        /\ \A m \in Locks : In(r, m) <=> In(code[c], m) \/ m = "cons"
    BY <1>0, <1>1, <2>1 DEF Goes, In, InSync, Locks, HandlerAt
  <2>4. /\ code[c].pc \notin {"user", "sret", "sync_thr"}
        /\ r.pc # "sync_thr" /\ r.spin = code[c].spin
        /\ code[c].pc \notin WP /\ r.pc \notin WP
    BY <1>0, <1>1, <2>1 DEF Goes, WP, HandlerAt, InSync
  <2> HIDE DEF r
  <2> QED
    BY <1>0, <1>1, <2>2, <2>3, <2>4, ProcsKept, AcquireMoves DEF r
<1>2. ASSUME code[c].pc = "rx",
            acquire(c, c, "uart", [code[c] EXCEPT !.pc = "start", !.then = "complete"]),
            UNCHANGED proc
      PROVE  KernelInv' /\ Quiet
  <2> DEFINE r == [code[c] EXCEPT !.pc = "start", !.then = "complete"]
  <2>1. Goes(r, code[c], "start", code[c].n, code[c].ch, "complete")
    <3>1. "start" \in PCs /\ "complete" \in PCs
      BY DEF PCs
    <3> QED
      BY <1>0, <3>1, SetPcThen, Zenon
  <2>2. GoesTo(c, r)
    BY <1>0, <1>2, <2>1 DEF Goes, GoesTo, HandlerAt, InSync
  <2>3. "uart" \in Locks /\ ~In(code[c], "uart")
        /\ \A m \in Locks : In(r, m) <=> In(code[c], m) \/ m = "uart"
    BY <1>0, <1>2, <2>1 DEF Goes, In, InSync, Locks, HandlerAt
  <2>4. /\ code[c].pc \notin {"user", "sret", "sync_thr"}
        /\ r.pc # "sync_thr" /\ r.spin = code[c].spin
        /\ code[c].pc \notin WP /\ r.pc \notin WP
    BY <1>0, <1>2, <2>1 DEF Goes, WP, HandlerAt, InSync
  <2> HIDE DEF r
  <2> QED
    BY <1>0, <1>2, <2>2, <2>3, <2>4, ProcsKept, AcquireMoves DEF r
<1> QED
  BY <1>1, <1>2 DEF uartintr

\* consoleintr() up to its echo.
LEMMA ConsoleintrSteps ==
  ASSUME IInv, NEW c \in Harts, InHandler(c), code[c].spin = None, consoleintr(c)
  PROVE  KernelInv' /\ Quiet
<1>0. /\ Runs(c, c) /\ code[c] \in Frame /\ HandlerAt(code[c]) /\ c \notin Procs /\ c \in Harts
      /\ KernelInv /\ code[c].spin = None
  BY HandlerRuns DEF IInv
<1> DEFINE echo == CASE code[c].ch = "^U" -> killed_line
                    [] code[c].ch = "^H" -> IF cons.e # cons.w THEN 1 ELSE 0
                    [] OTHER -> IF Room THEN 1 ELSE 0
<1>a. echo \in Int
  <2>1. killed_line \in Int
    BY KilledLine DEF IInv
  <2> QED
    BY <2>1
<1> HIDE DEF echo
<1>1. ASSUME code[c].pc = "cons",
            acquire(c, c, "pr", [code[c] EXCEPT !.pc = "print", !.then = "edit"]),
            UNCHANGED proc
      PROVE  KernelInv' /\ Quiet
  <2> DEFINE r == [code[c] EXCEPT !.pc = "print", !.then = "edit"]
  <2>1. Goes(r, code[c], "print", code[c].n, code[c].ch, "edit")
    <3>1. "print" \in PCs /\ "edit" \in PCs
      BY DEF PCs
    <3> QED
      BY <1>0, <3>1, SetPcThen, Zenon
  <2>2. GoesTo(c, r)
    BY <1>0, <1>1, <2>1 DEF Goes, GoesTo, HandlerAt, InSync
  <2>3. "pr" \in Locks /\ ~In(code[c], "pr")
        /\ \A m \in Locks : In(r, m) <=> In(code[c], m) \/ m = "pr"
    BY <1>0, <1>1, <2>1 DEF Goes, In, InSync, Locks, HandlerAt
  <2>4. /\ code[c].pc \notin {"user", "sret", "sync_thr"}
        /\ r.pc # "sync_thr" /\ r.spin = code[c].spin
        /\ code[c].pc \notin WP /\ r.pc \notin WP
    BY <1>0, <1>1, <2>1 DEF Goes, WP, HandlerAt, InSync
  <2>5. acquire(c, c, "pr", r)
    BY <1>1 DEF r
  <2> HIDE DEF r
  <2> QED
    BY <1>0, <1>1, <2>2, <2>3, <2>4, <2>5, ProcsKept, AcquireMoves
<1>2. ASSUME code[c].pc = "cons",
            code' = [code EXCEPT ![c] = consputc(c, echo, "edit")],
            UNCHANGED <<cpu, lock, proc>>
      PROVE  KernelInv' /\ Quiet
  <2> DEFINE r == [code[c] EXCEPT !.pc = "sync", !.n = echo, !.then = "edit"]
  <2>1. Goes(r, code[c], "sync", echo, code[c].ch, "edit")
    <3>1. "sync" \in PCs /\ echo \in Int /\ "edit" \in PCs
      BY <1>a DEF PCs
    <3> QED
      BY <1>0, <3>1, SetPcNThen, Zenon
  <2>2. GoesTo(c, r)
    BY <1>0, <1>2, <2>1 DEF Goes, GoesTo, HandlerAt, InSync
  <2>3. \A m \in Locks : In(r, m) <=> In(code[c], m)
    BY <1>0, <1>2, <2>1 DEF Goes, In, InSync, Locks, HandlerAt
  <2>4. /\ code[c].pc \notin {"user", "sret", "sync_thr"}
        /\ r.pc # "sync_thr" /\ r.spin = code[c].spin
        /\ code[c].pc \notin WP /\ r.pc \notin WP
    BY <1>0, <1>2, <2>1 DEF Goes, WP, HandlerAt, InSync
  <2>5. code' = [code EXCEPT ![c] = r]
    BY <1>2 DEF r, consputc
  <2> HIDE DEF r
  <2> QED
    BY <1>0, <1>2, <2>2, <2>3, <2>4, <2>5, ProcsKept, PlainMoves
<1> QED
  BY <1>1, <1>2 DEF consoleintr, echo

\* The end of consoleintr().
LEMMA ConsoleintrEnds ==
  ASSUME IInv, NEW c \in Harts, InHandler(c), code[c].spin = None, consoleintr_end(c)
  PROVE  KernelInv' /\ Quiet
<1>0. /\ Runs(c, c) /\ code[c] \in Frame /\ HandlerAt(code[c]) /\ c \notin Procs /\ c \in Harts
      /\ KernelInv /\ code[c].spin = None
  BY HandlerRuns DEF IInv
<1>a. ProcType' /\ \A q \in Procs : ProcKept(q)
  <2>1. proc' = proc \/ proc' = wakeup(proc, "cons.r")
    BY DEF consoleintr_end
  <2> QED
    BY <1>0, <2>1, ProcsKept, WakeupKeeps
<1>1. ASSUME code[c].pc = "edit",
            release(c, c, "cons", [code[c] EXCEPT !.pc = "rx", !.ch = None])
      PROVE  KernelInv' /\ Quiet
  <2> DEFINE r == [code[c] EXCEPT !.pc = "rx", !.ch = None]
  <2>1. Goes(r, code[c], "rx", code[c].n, None, code[c].then)
    <3>1. "rx" \in PCs /\ None \in Contents
      BY DEF PCs, Contents
    <3> QED
      BY <1>0, <3>1, SetPcCh, Zenon
  <2>2. GoesTo(c, r)
    BY <1>0, <1>1, <2>1 DEF Goes, GoesTo, HandlerAt, InSync
  <2>3. "cons" \in Locks /\ In(code[c], "cons") /\ ~In(r, "cons")
        /\ \A m \in Locks : In(code[c], m) <=> In(r, m) \/ m = "cons"
    BY <1>0, <1>1, <2>1 DEF Goes, In, InSync, Locks, HandlerAt
  <2>4. /\ code[c].pc \notin {"user", "sret", "sync_thr"}
        /\ r.pc # "sync_thr" /\ r.spin = code[c].spin
        /\ code[c].pc \notin WP /\ r.pc \notin WP
    BY <1>0, <1>1, <2>1 DEF Goes, WP, HandlerAt, InSync
  <2>5. release(c, c, "cons", r)
    BY <1>1 DEF r
  <2> HIDE DEF r
  <2> QED
    BY <1>0, <2>2, <2>3, <2>4, <2>5, <1>a, ReleaseMoves
<1> QED
  BY <1>1 DEF consoleintr_end

(***************************************************************************)
(* The steps that handlers and processes have in common.                   *)
(***************************************************************************)
\* Where the executing frame of hart c is.
LEMMA FrameRuns ==
  ASSUME KernelInv, NEW c \in Harts, NEW f, Runs(c, f)
  PROVE  /\ code[f] \in Frame
         /\ f \in Harts => HandlerAt(code[f])
         /\ f \in Procs => ProgramAt(f, code[f])
         /\ (f \in Harts /\ f \notin Procs) \/ (f \in Procs /\ f \notin Harts)
  BY RunsTop DEF FrameInv

\* uartstart().
LEMMA UartstartSteps ==
  ASSUME IInv, NEW c \in Harts, NEW f, Runs(c, f), code[f].spin = None, uartstart(c, f)
  PROVE  KernelInv'
<1>0. /\ Runs(c, f) /\ code[f] \in Frame /\ c \in Harts /\ KernelInv /\ code[f].spin = None
      /\ f \in Harts => HandlerAt(code[f])
      /\ f \in Procs => ProgramAt(f, code[f])
      /\ (f \in Harts /\ f \notin Procs) \/ (f \in Procs /\ f \notin Harts)
  BY FrameRuns DEF IInv
<1>1. ASSUME code[f].pc = "start",
            release(c, f, "uart", [code[f] EXCEPT !.pc = code[f].then]),
            UNCHANGED proc
      PROVE  KernelInv'
  <2> DEFINE r == [code[f] EXCEPT !.pc = code[f].then]
  <2>1. Goes(r, code[f], code[f].then, code[f].n, code[f].ch, code[f].then)
    <3>1. code[f].then \in PCs
      BY <1>0 DEF Frame
    <3> QED
      BY <1>0, <3>1, SetPc, Zenon
  <2>2. GoesTo(f, r)
    BY <1>0, <1>1, <2>1 DEF Goes, GoesTo, HandlerAt, ProgramAt, SysCall, InSync
  <2>3. "uart" \in Locks /\ In(code[f], "uart") /\ ~In(r, "uart")
        /\ \A m \in Locks : In(code[f], m) <=> In(r, m) \/ m = "uart"
    BY <1>0, <1>1, <2>1 DEF Goes, In, InSync, Locks, HandlerAt, ProgramAt, SysCall
  <2>4. code[f].pc \notin {"user", "sret", "sync_thr"} /\ r.pc # "sync_thr" /\ r.spin = code[f].spin
    BY <1>0, <1>1, <2>1 DEF Goes, HandlerAt, ProgramAt, SysCall, InSync
  <2>5. release(c, f, "uart", r)
    BY <1>1 DEF r
  <2> HIDE DEF r
  <2> QED
    BY <1>0, <1>1, <2>2, <2>3, <2>4, <2>5, ProcsKept, ReleaseMoves
<1>2. ASSUME code[f].pc = "start",
            tx.w # tx.r,
            proc' = wakeup(proc, "uart_tx_r"),
            code' = [code EXCEPT ![f] = [code[f] EXCEPT !.pc = "thr",
                                                     !.ch = tx.buf[tx.r % TxSize]]],
            UNCHANGED <<cpu, lock>>
      PROVE  KernelInv'
  <2> DEFINE r == [code[f] EXCEPT !.pc = "thr", !.ch = tx.buf[tx.r % TxSize]]
  <2>1. Goes(r, code[f], "thr", code[f].n, tx.buf[tx.r % TxSize], code[f].then)
    <3>1. "thr" \in PCs /\ tx.buf[tx.r % TxSize] \in Contents
      BY <1>2 DEF IInv, DeviceType, DevInv, TxInv, PCs, Contents
    <3> QED
      BY <1>0, <3>1, SetPcCh, Zenon
  <2>2. GoesTo(f, r)
    BY <1>0, <1>2, <2>1 DEF Goes, GoesTo, HandlerAt, ProgramAt, SysCall, InSync
  <2>3. \A m \in Locks : In(r, m) <=> In(code[f], m)
    BY <1>0, <1>2, <2>1 DEF Goes, In, InSync, Locks, HandlerAt, ProgramAt, SysCall
  <2>4. code[f].pc \notin {"user", "sret", "sync_thr"} /\ r.pc # "sync_thr" /\ r.spin = code[f].spin
    BY <1>0, <1>2, <2>1 DEF Goes, HandlerAt, ProgramAt, SysCall, InSync
  <2>5. code' = [code EXCEPT ![f] = r]
    BY <1>2 DEF r
  <2> HIDE DEF r
  <2> QED
    BY <1>0, <1>2, <2>2, <2>3, <2>4, <2>5, WakeupKeeps, PlainMoves
<1>3. ASSUME code[f].pc = "thr",
            code' = [code EXCEPT ![f] = [code[f] EXCEPT !.pc = "start", !.ch = None]],
            UNCHANGED <<cpu, lock, proc>>
      PROVE  KernelInv'
  <2> DEFINE r == [code[f] EXCEPT !.pc = "start", !.ch = None]
  <2>1. Goes(r, code[f], "start", code[f].n, None, code[f].then)
    <3>1. "start" \in PCs /\ None \in Contents
      BY DEF PCs, Contents
    <3> QED
      BY <1>0, <3>1, SetPcCh, Zenon
  <2>2. GoesTo(f, r)
    BY <1>0, <1>3, <2>1 DEF Goes, GoesTo, HandlerAt, ProgramAt, SysCall, InSync
  <2>3. \A m \in Locks : In(r, m) <=> In(code[f], m)
    BY <1>0, <1>3, <2>1 DEF Goes, In, InSync, Locks, HandlerAt, ProgramAt, SysCall
  <2>4. code[f].pc \notin {"user", "sret", "sync_thr"} /\ r.pc # "sync_thr" /\ r.spin = code[f].spin
    BY <1>0, <1>3, <2>1 DEF Goes, HandlerAt, ProgramAt, SysCall, InSync
  <2>5. code' = [code EXCEPT ![f] = r]
    BY <1>3 DEF r
  <2> HIDE DEF r
  <2> QED
    BY <1>0, <1>3, <2>2, <2>3, <2>4, <2>5, ProcsKept, PlainMoves
<1> QED
  BY <1>1, <1>2, <1>3 DEF uartstart

\* printf().
LEMMA PrintfSteps ==
  ASSUME IInv, NEW c \in Harts, NEW f, Runs(c, f), code[f].spin = None, printf(c, f)
  PROVE  KernelInv' /\ Quiet
<1>0. /\ Runs(c, f) /\ code[f] \in Frame /\ c \in Harts /\ KernelInv /\ code[f].spin = None
      /\ f \in Harts => HandlerAt(code[f])
      /\ f \in Procs => ProgramAt(f, code[f])
      /\ (f \in Harts /\ f \notin Procs) \/ (f \in Procs /\ f \notin Harts)
  BY FrameRuns DEF IInv
<1> DEFINE th == IF code[f].then = "edit" THEN "printed_edit" ELSE "printed"
           q == IF code[f].pc = "printed" THEN "sysret" ELSE "edit"
<1>a. th \in {"printed_edit", "printed"} /\ (th = "printed_edit" <=> code[f].then = "edit")
  OBVIOUS
<1>b. q \in {"sysret", "edit"} /\ (q = "sysret" <=> code[f].pc = "printed")
  OBVIOUS
<1> HIDE DEF th, q
<1>1. ASSUME code[f].pc = "helloworld",
            acquire(c, f, "pr", [code[f] EXCEPT !.pc = "print", !.then = "sysret"]),
            UNCHANGED proc
      PROVE  KernelInv' /\ Quiet
  <2> DEFINE r == [code[f] EXCEPT !.pc = "print", !.then = "sysret"]
  <2>1. Goes(r, code[f], "print", code[f].n, code[f].ch, "sysret")
    <3>1. "print" \in PCs /\ "sysret" \in PCs
      BY DEF PCs
    <3> QED
      BY <1>0, <3>1, SetPcThen, Zenon
  <2>2. GoesTo(f, r)
    BY <1>0, <1>1, <2>1 DEF Goes, GoesTo, HandlerAt, ProgramAt, SysCall, InSync
  <2>3. "pr" \in Locks /\ ~In(code[f], "pr")
        /\ \A m \in Locks : In(r, m) <=> In(code[f], m) \/ m = "pr"
    BY <1>0, <1>1, <2>1 DEF Goes, In, InSync, Locks, HandlerAt, ProgramAt, SysCall
  <2>4. /\ code[f].pc \notin {"user", "sret", "sync_thr"}
        /\ r.pc # "sync_thr" /\ r.spin = code[f].spin
        /\ code[f].pc \notin WP /\ r.pc \notin WP
    BY <1>0, <1>1, <2>1 DEF Goes, WP, HandlerAt, ProgramAt, SysCall, InSync
  <2>5. acquire(c, f, "pr", r)
    BY <1>1 DEF r
  <2> HIDE DEF r
  <2> QED
    BY <1>0, <1>1, <2>2, <2>3, <2>4, <2>5, ProcsKept, AcquireMoves
<1>2. ASSUME code[f].pc = "print",
            code' = [code EXCEPT ![f] = consputc(f, 1, th)],
            UNCHANGED <<cpu, lock, proc>>
      PROVE  KernelInv' /\ Quiet
  <2> DEFINE r == [code[f] EXCEPT !.pc = "sync", !.n = 1, !.then = th]
  <2>1. Goes(r, code[f], "sync", 1, code[f].ch, th)
    <3>1. "sync" \in PCs /\ 1 \in Int /\ th \in PCs
      BY <1>a DEF PCs
    <3> QED
      BY <1>0, <3>1, SetPcNThen, Zenon
  <2>2. GoesTo(f, r)
    BY <1>0, <1>a, <1>2, <2>1 DEF Goes, GoesTo, HandlerAt, ProgramAt, SysCall, InSync
  <2>3. \A m \in Locks : In(r, m) <=> In(code[f], m)
    BY <1>0, <1>a, <1>2, <2>1 DEF Goes, In, InSync, Locks, HandlerAt, ProgramAt, SysCall
  <2>4. /\ code[f].pc \notin {"user", "sret", "sync_thr"}
        /\ r.pc # "sync_thr" /\ r.spin = code[f].spin
        /\ code[f].pc \notin WP /\ r.pc \notin WP
    BY <1>0, <1>a, <1>2, <2>1 DEF Goes, WP, HandlerAt, ProgramAt, SysCall, InSync
  <2>5. code' = [code EXCEPT ![f] = r]
    BY <1>2 DEF r, consputc
  <2> HIDE DEF r
  <2> QED
    BY <1>0, <1>2, <2>2, <2>3, <2>4, <2>5, ProcsKept, PlainMoves
<1>3. ASSUME code[f].pc \in {"printed", "printed_edit"},
            release(c, f, "pr", [code[f] EXCEPT !.pc = q]),
            UNCHANGED proc
      PROVE  KernelInv' /\ Quiet
  <2> DEFINE r == [code[f] EXCEPT !.pc = q]
  <2>1. Goes(r, code[f], q, code[f].n, code[f].ch, code[f].then)
    <3>1. q \in PCs
      BY <1>b DEF PCs
    <3> QED
      BY <1>0, <3>1, SetPc, Zenon
  <2>2. GoesTo(f, r)
    BY <1>0, <1>b, <1>3, <2>1 DEF Goes, GoesTo, HandlerAt, ProgramAt, SysCall, InSync
  <2>3. "pr" \in Locks /\ In(code[f], "pr") /\ ~In(r, "pr")
        /\ \A m \in Locks : In(code[f], m) <=> In(r, m) \/ m = "pr"
    BY <1>0, <1>b, <1>3, <2>1 DEF Goes, In, InSync, Locks, HandlerAt, ProgramAt, SysCall
  <2>4. /\ code[f].pc \notin {"user", "sret", "sync_thr"}
        /\ r.pc # "sync_thr" /\ r.spin = code[f].spin
        /\ code[f].pc \notin WP /\ r.pc \notin WP
    BY <1>0, <1>b, <1>3, <2>1 DEF Goes, WP, HandlerAt, ProgramAt, SysCall, InSync
  <2>5. release(c, f, "pr", r)
    BY <1>3 DEF r
  <2> HIDE DEF r
  <2> QED
    BY <1>0, <1>3, <2>2, <2>3, <2>4, <2>5, ProcsKept, ReleaseMoves
<1> QED
  BY <1>1, <1>2, <1>3 DEF printf, th, q

\* uartputc_sync().
LEMMA SyncSteps ==
  ASSUME IInv, NEW c \in Harts, NEW f, Runs(c, f), code[f].spin = None, uartputc_sync(c, f)
  PROVE  KernelInv'
<1>0. /\ Runs(c, f) /\ code[f] \in Frame /\ c \in Harts /\ KernelInv /\ code[f].spin = None
      /\ f \in Harts => HandlerAt(code[f])
      /\ f \in Procs => ProgramAt(f, code[f])
      /\ (f \in Harts /\ f \notin Procs) \/ (f \in Procs /\ f \notin Harts)
  BY FrameRuns DEF IInv
<1>a. /\ Top(c) = code[f] /\ cpu[c] \in Cpu /\ HartInv(c)
      /\ f \in Procs => ~InHandler(c) /\ f # c
      /\ f \in Harts => InHandler(c) /\ f = c
  BY <1>0, RunsTop
<1>b. lock' = lock => LockType' /\ LocksKept(c)
  BY <1>0 DEF KernelInv, LockType, LocksKept
<1>1. ASSUME code[f].pc = "sync",
            code' = [code EXCEPT ![f] = [code[f] EXCEPT !.pc = code[f].then]],
            UNCHANGED <<cpu, lock, proc>>
      PROVE  KernelInv'
  <2> DEFINE r == [code[f] EXCEPT !.pc = code[f].then]
  <2>1. Goes(r, code[f], code[f].then, code[f].n, code[f].ch, code[f].then)
    <3>1. code[f].then \in PCs
      BY <1>0 DEF Frame
    <3> QED
      BY <1>0, <3>1, SetPc, Zenon
  <2>2. GoesTo(f, r)
    BY <1>0, <1>1, <2>1 DEF Goes, GoesTo, HandlerAt, ProgramAt, SysCall, InSync
  <2>3. \A m \in Locks : In(r, m) <=> In(code[f], m)
    BY <1>0, <1>1, <2>1 DEF Goes, In, InSync, Locks, HandlerAt, ProgramAt, SysCall
  <2>4. code[f].pc \notin {"user", "sret", "sync_thr"} /\ r.pc # "sync_thr" /\ r.spin = code[f].spin
    BY <1>0, <1>1, <2>1 DEF Goes, HandlerAt, ProgramAt, SysCall, InSync
  <2>5. code' = [code EXCEPT ![f] = r]
    BY <1>1 DEF r
  <2> HIDE DEF r
  <2> QED
    BY <1>0, <1>1, <2>2, <2>3, <2>4, <2>5, ProcsKept, PlainMoves
<1>2. ASSUME code[f].pc = "sync", cpu' = [cpu EXCEPT ![c] = push_off(cpu[c])],
             code' = [code EXCEPT ![f].pc = "sync_thr"], UNCHANGED <<lock, proc>>
      PROVE  KernelInv'
  <2> DEFINE r == [code[f] EXCEPT !.pc = "sync_thr"]
  <2>1. Goes(r, code[f], "sync_thr", code[f].n, code[f].ch, code[f].then)
    <3>1. "sync_thr" \in PCs
      BY <1>0 DEF PCs, Frame
    <3> QED
      BY <1>0, <3>1, SetPc, Zenon
  <2>2. GoesTo(f, r)
    BY <1>0, <1>2, <2>1 DEF Goes, GoesTo, HandlerAt, ProgramAt, SysCall, InSync
  <2>3. \A m \in Locks : In(r, m) <=> In(code[f], m)
    BY <1>0, <1>2, <2>1 DEF Goes, In, InSync, Locks
  <2>4. code' = [code EXCEPT ![f] = r] /\ r.spin = None /\ r.pc = "sync_thr"
    BY <1>0, <1>2, <2>1 DEF Goes, r
  <2> HIDE DEF r
  <2> DEFINE k == push_off(cpu[c])
  <2>5. Depth(r) = Depth(code[f]) + 1
    <3>1. \A m \in {"time", "uart", "pr", "cons"} : m \in Locks
      BY DEF Locks
    <3> QED
      BY <1>2, <2>3, <2>4, <3>1 DEF Depth, One
  <2>6. Depth(r) \in Nat /\ Depth(code[f]) \in Nat
    BY DepthNat
  <2>7. /\ k \in Cpu /\ k.run = cpu[c].run /\ k.stvec = cpu[c].stvec /\ k.user = cpu[c].user
        /\ k.panic = cpu[c].panic /\ ~k.intr /\ k.noff = cpu[c].noff + 1
        /\ ~cpu[c].intr /\ ~cpu[c].intena => ~k.intena
    BY <1>a, PushOff
  <2>8. cpu' = [cpu EXCEPT ![c] = k]
    BY <1>2
  <2> HIDE DEF k
  <2>9. /\ k.noff = Depth(r) /\ k.noff > 0 /\ ~k.panic /\ ~k.intr /\ (f = c => ~k.intena)
        /\ code[f].pc \notin {"user", "sret"}
        /\ \A lk \in Locks : lock'[lk] = c <=> In(r, lk) /\ r.spin # lk
    BY <1>0, <1>a, <1>2, <2>3, <2>4, <2>5, <2>6, <2>7 DEF HartInv
  <2>10. Moves(c, f, r, k)
    BY <2>2, <2>4, <2>7, <2>8, <2>9 DEF Moves
  <2> QED
    BY <1>0, <1>b, <1>2, <2>10, ProcsKept, FrameMoves
<1>3. ASSUME code[f].pc = "sync_thr", cpu' = [cpu EXCEPT ![c] = pop_off(cpu[c])],
             code' = [code EXCEPT ![f] = [code[f] EXCEPT !.pc = "sync", !.n = code[f].n - 1]],
             UNCHANGED <<lock, proc>>
      PROVE  KernelInv'
  <2> DEFINE r == [code[f] EXCEPT !.pc = "sync", !.n = code[f].n - 1]
  <2>1. Goes(r, code[f], "sync", code[f].n - 1, code[f].ch, code[f].then)
    <3>1. "sync" \in PCs /\ code[f].n - 1 \in Int
      BY <1>0 DEF PCs, Frame
    <3> QED
      BY <1>0, <3>1, SetPcN, Zenon
  <2>2. GoesTo(f, r)
    BY <1>0, <1>3, <2>1 DEF Goes, GoesTo, HandlerAt, ProgramAt, SysCall, InSync
  <2>3. \A m \in Locks : In(r, m) <=> In(code[f], m)
    BY <1>0, <1>3, <2>1 DEF Goes, In, InSync, Locks
  <2>4. code' = [code EXCEPT ![f] = r] /\ r.spin = None /\ r.pc = "sync"
    BY <1>0, <1>3, <2>1 DEF Goes, r
  <2> HIDE DEF r
  <2> DEFINE k == pop_off(cpu[c])
  <2>5. Depth(code[f]) = Depth(r) + 1
    <3>1. \A m \in {"time", "uart", "pr", "cons"} : m \in Locks
      BY DEF Locks
    <3> QED
      BY <1>3, <2>3, <2>4, <3>1 DEF Depth, One
  <2>6. Depth(r) \in Nat /\ Depth(code[f]) \in Nat
    BY DepthNat
  <2>7. ~cpu[c].intr /\ cpu[c].noff = Depth(r) + 1 /\ ~cpu[c].panic
    BY <1>a, <2>5, <2>6 DEF HartInv
  <2>8. /\ k \in Cpu /\ k.run = cpu[c].run /\ k.stvec = cpu[c].stvec /\ k.user = cpu[c].user
        /\ k.panic = cpu[c].panic /\ k.noff = Depth(r)
        /\ k.noff > 0 \/ ~cpu[c].intena => ~k.intr
        /\ k.noff = 0 \/ ~cpu[c].intena => ~k.intena
    BY <1>a, <2>6, <2>7, PopOff
  <2>9. cpu' = [cpu EXCEPT ![c] = k]
    BY <1>3
  <2> HIDE DEF k
  <2>10. /\ ~k.panic /\ code[f].pc \notin {"user", "sret"}
         /\ k.noff > 0 \/ f = c => ~k.intr
         /\ k.noff = 0 \/ f = c => ~k.intena
    BY <1>a, <1>3, <2>7, <2>8 DEF HartInv
  <2>11. \A lk \in Locks : lock'[lk] = c <=> In(r, lk) /\ r.spin # lk
    BY <1>0, <1>a, <1>3, <2>3, <2>4 DEF HartInv
  <2>12. Moves(c, f, r, k)
    BY <2>2, <2>4, <2>8, <2>9, <2>10, <2>11 DEF Moves
  <2> QED
    BY <1>0, <1>b, <1>3, <2>12, ProcsKept, FrameMoves
<1>4. CASE code[f].pc = "sync" /\ code[f].n = 0
  BY <1>1, <1>4 DEF uartputc_sync
<1>5. CASE code[f].pc = "sync" /\ code[f].n # 0
  BY <1>2, <1>5 DEF uartputc_sync
<1>6. CASE code[f].pc = "sync_thr"
  <2>1. UNCHANGED <<lock, proc>> /\ cpu' = [cpu EXCEPT ![c] = pop_off(cpu[c])]
    BY <1>6 DEF uartputc_sync
  <2>2. code' = [code EXCEPT ![f] = [code[f] EXCEPT !.pc = "sync", !.n = code[f].n - 1]]
    <3>1. code[f].pc # "sync"
      BY <1>6
    <3> QED
      BY <3>1, Zenon DEF uartputc_sync
  <2> QED
    BY <1>3, <1>6, <2>1, <2>2, Zenon
<1> QED
  BY <1>4, <1>5, <1>6 DEF uartputc_sync

(***************************************************************************)
(* The steps of system calls.                                              *)
(***************************************************************************)
\* kill().
LEMMA KillKeeps ==
  ASSUME KernelInv, NEW p, proc' = kill(p)
  PROVE  ProcType' /\ \A q \in Procs : ProcKept(q)
<1>0. proc \in [Procs -> Proc]
  BY DEF KernelInv, ProcType
<1>1. CASE p \notin Procs
  <2>1. proc' = proc
    BY <1>0, <1>1 DEF kill
  <2> QED
    BY <2>1, ProcsKept
<1>2. CASE p \in Procs
  <2>1. \A q \in Procs : proc[q] \in Proc
    BY DEF KernelInv, ProcType
  <2>2. PICK b \in BOOLEAN : b = TRUE
    OBVIOUS
  <2>3. ASSUME NEW x \in Proc, NEW st, st = x.state \/ st = "runnable"
        PROVE  /\ [x EXCEPT !.killed = b, !.state = st] \in Proc
               /\ [x EXCEPT !.killed = b, !.state = st].prog = x.prog
               /\ [x EXCEPT !.killed = b, !.state = st].state = st
    BY <2>3 DEF Proc
  <2> DEFINE st == IF proc[p].state = "sleeping" THEN "runnable" ELSE proc[p].state
             y == [proc[p] EXCEPT !.killed = b, !.state = st]
  <2>4. proc' = [proc EXCEPT ![p] = y]
    <3>1. proc' = [proc EXCEPT ![p] = [proc[p] EXCEPT !.killed = TRUE, !.state = st]]
      BY Zenon DEF kill
    <3> QED
      BY <2>2, <3>1, Zenon
  <2>5. y \in Proc /\ y.prog = proc[p].prog /\ y.state = st
    <3>1. proc[p] \in Proc /\ (st = proc[p].state \/ st = "runnable")
      BY <1>2, <2>1
    <3> HIDE DEF st
    <3> QED
      BY <2>3, <3>1, Zenon
  <2>6. proc'[p] = y /\ \A q \in Procs \ {p} : proc'[q] = proc[q]
    BY <1>2, <1>0, <2>4
  <2>7. ProcType'
    BY <1>0, <2>4, <2>5 DEF ProcType
  <2>8. \A q \in Procs : ProcKept(q)
    BY <2>5, <2>6 DEF ProcKept
  <2> QED
    BY <2>7, <2>8
<1> QED
  BY <1>1, <1>2

\* consolewrite().
LEMMA ConsolewriteSteps ==
  ASSUME IInv, NEW c \in Harts, NEW p \in Procs, Runs(c, p), code[p].spin = None, consolewrite(c, p)
  PROVE  KernelInv' /\ Quiet
<1>0. /\ Runs(c, p) /\ code[p] \in Frame /\ c \in Harts /\ KernelInv /\ code[p].spin = None
      /\ ProgramAt(p, code[p]) /\ p \in Procs /\ p \notin Harts
  BY FrameRuns DEF IInv
<1>1. ASSUME code[p].pc = "write",
            code' = [code EXCEPT ![p] = [code[p] EXCEPT !.pc = "sysret"]],
            UNCHANGED <<cpu, lock>>,
            UNCHANGED proc
      PROVE  KernelInv' /\ Quiet
  <2> DEFINE r == [code[p] EXCEPT !.pc = "sysret"]
  <2>1. Goes(r, code[p], "sysret", code[p].n, code[p].ch, code[p].then)
    <3>1. "sysret" \in PCs
      BY DEF PCs
    <3> QED
      BY <1>0, <3>1, SetPc, Zenon
  <2>2. GoesTo(p, r)
    BY <1>0, <1>1, <2>1 DEF Goes, GoesTo, ProgramAt, SysCall, InSync
  <2>3. \A m \in Locks : In(r, m) <=> In(code[p], m)
    BY <1>0, <1>1, <2>1 DEF Goes, In, InSync, Locks, ProgramAt, SysCall
  <2>4. /\ code[p].pc \notin {"user", "sret", "sync_thr"}
        /\ r.pc # "sync_thr" /\ r.spin = code[p].spin
        /\ code[p].pc \notin WP /\ r.pc \notin WP
    BY <1>0, <1>1, <2>1 DEF Goes, WP, ProgramAt, SysCall, InSync
  <2>5. code' = [code EXCEPT ![p] = r]
    BY <1>1 DEF r
  <2> HIDE DEF r
  <2> QED
    BY <1>0, <1>1, <2>2, <2>3, <2>4, <2>5, ProcsKept, PlainMoves
<1>2. ASSUME code[p].pc = "write",
            acquire(c, p, "uart", [code[p] EXCEPT !.pc = "putc"]),
            UNCHANGED proc
      PROVE  KernelInv' /\ Quiet
  <2> DEFINE r == [code[p] EXCEPT !.pc = "putc"]
  <2>1. Goes(r, code[p], "putc", code[p].n, code[p].ch, code[p].then)
    <3>1. "putc" \in PCs
      BY DEF PCs
    <3> QED
      BY <1>0, <3>1, SetPc, Zenon
  <2>2. GoesTo(p, r)
    BY <1>0, <1>2, <2>1 DEF Goes, GoesTo, ProgramAt, SysCall, InSync
  <2>3. "uart" \in Locks /\ ~In(code[p], "uart")
        /\ \A m \in Locks : In(r, m) <=> In(code[p], m) \/ m = "uart"
    BY <1>0, <1>2, <2>1 DEF Goes, In, InSync, Locks, ProgramAt, SysCall
  <2>4. /\ code[p].pc \notin {"user", "sret", "sync_thr"}
        /\ r.pc # "sync_thr" /\ r.spin = code[p].spin
        /\ code[p].pc \notin WP /\ r.pc \notin WP
    BY <1>0, <1>2, <2>1 DEF Goes, WP, ProgramAt, SysCall, InSync
  <2>5. acquire(c, p, "uart", r)
    BY <1>2 DEF r
  <2> HIDE DEF r
  <2> QED
    BY <1>0, <1>2, <2>2, <2>3, <2>4, <2>5, ProcsKept, AcquireMoves
<1> QED
  BY <1>1, <1>2 DEF consolewrite

\* uartputc() that finds room.
LEMMA UartputcSteps ==
  ASSUME IInv, NEW c \in Harts, NEW p \in Procs, Runs(c, p), code[p].spin = None,
         uartputc(c, p), ~TxFull
  PROVE  KernelInv' /\ Quiet
<1>0. /\ Runs(c, p) /\ code[p] \in Frame /\ c \in Harts /\ KernelInv /\ code[p].spin = None
      /\ ProgramAt(p, code[p]) /\ p \in Procs /\ p \notin Harts
  BY FrameRuns DEF IInv
<1>1. ASSUME code[p].pc = "putc",
            code' = [code EXCEPT ![p] = [code[p] EXCEPT !.pc = "start", !.n = code[p].n + 1,
                                                          !.then = "write"]],
            UNCHANGED <<cpu, lock>>,
            UNCHANGED proc
      PROVE  KernelInv' /\ Quiet
  <2> DEFINE r == [code[p] EXCEPT !.pc = "start", !.n = code[p].n + 1, !.then = "write"]
  <2>1. Goes(r, code[p], "start", code[p].n + 1, code[p].ch, "write")
    <3>1. "start" \in PCs /\ code[p].n + 1 \in Int /\ "write" \in PCs
      BY <1>0 DEF PCs, Frame
    <3> QED
      BY <1>0, <3>1, SetPcNThen, Zenon
  <2>2. GoesTo(p, r)
    BY <1>0, <1>1, <2>1 DEF Goes, GoesTo, ProgramAt, SysCall, InSync
  <2>3. \A m \in Locks : In(r, m) <=> In(code[p], m)
    BY <1>0, <1>1, <2>1 DEF Goes, In, InSync, Locks, ProgramAt, SysCall
  <2>4. /\ code[p].pc \notin {"user", "sret", "sync_thr"}
        /\ r.pc # "sync_thr" /\ r.spin = code[p].spin
        /\ code[p].pc \notin WP /\ r.pc \notin WP
    BY <1>0, <1>1, <2>1 DEF Goes, WP, ProgramAt, SysCall, InSync
  <2>5. code' = [code EXCEPT ![p] = r]
    BY <1>1 DEF r
  <2> HIDE DEF r
  <2> QED
    BY <1>0, <1>1, <2>2, <2>3, <2>4, <2>5, ProcsKept, PlainMoves
<1> QED
  BY <1>1 DEF uartputc

\* consoleread().
LEMMA ConsolereadSteps ==
  ASSUME IInv, NEW c \in Harts, NEW p \in Procs, Runs(c, p), code[p].spin = None, consoleread(c, p)
  PROVE  KernelInv' /\ Quiet
<1>0. /\ Runs(c, p) /\ code[p] \in Frame /\ c \in Harts /\ KernelInv /\ code[p].spin = None
      /\ ProgramAt(p, code[p]) /\ p \in Procs /\ p \notin Harts
  BY FrameRuns DEF IInv
<1>1. ASSUME code[p].pc = "read",
            acquire(c, p, "cons", [code[p] EXCEPT !.pc = "rd"]),
            UNCHANGED proc
      PROVE  KernelInv' /\ Quiet
  <2> DEFINE r == [code[p] EXCEPT !.pc = "rd"]
  <2>1. Goes(r, code[p], "rd", code[p].n, code[p].ch, code[p].then)
    <3>1. "rd" \in PCs
      BY DEF PCs
    <3> QED
      BY <1>0, <3>1, SetPc, Zenon
  <2>2. GoesTo(p, r)
    BY <1>0, <1>1, <2>1 DEF Goes, GoesTo, ProgramAt, SysCall, InSync
  <2>3. "cons" \in Locks /\ ~In(code[p], "cons")
        /\ \A m \in Locks : In(r, m) <=> In(code[p], m) \/ m = "cons"
    BY <1>0, <1>1, <2>1 DEF Goes, In, InSync, Locks, ProgramAt, SysCall
  <2>4. /\ code[p].pc \notin {"user", "sret", "sync_thr"}
        /\ r.pc # "sync_thr" /\ r.spin = code[p].spin
        /\ code[p].pc \notin WP /\ r.pc \notin WP
    BY <1>0, <1>1, <2>1 DEF Goes, WP, ProgramAt, SysCall, InSync
  <2>5. acquire(c, p, "cons", r)
    BY <1>1 DEF r
  <2> HIDE DEF r
  <2> QED
    BY <1>0, <1>1, <2>2, <2>3, <2>4, <2>5, ProcsKept, AcquireMoves
<1>2. ASSUME code[p].pc = "rd",
            release(c, p, "cons", [code[p] EXCEPT !.pc = "sysret"]),
            UNCHANGED proc
      PROVE  KernelInv' /\ Quiet
  <2> DEFINE r == [code[p] EXCEPT !.pc = "sysret"]
  <2>1. Goes(r, code[p], "sysret", code[p].n, code[p].ch, code[p].then)
    <3>1. "sysret" \in PCs
      BY DEF PCs
    <3> QED
      BY <1>0, <3>1, SetPc, Zenon
  <2>2. GoesTo(p, r)
    BY <1>0, <1>2, <2>1 DEF Goes, GoesTo, ProgramAt, SysCall, InSync
  <2>3. "cons" \in Locks /\ In(code[p], "cons") /\ ~In(r, "cons")
        /\ \A m \in Locks : In(code[p], m) <=> In(r, m) \/ m = "cons"
    BY <1>0, <1>2, <2>1 DEF Goes, In, InSync, Locks, ProgramAt, SysCall
  <2>4. /\ code[p].pc \notin {"user", "sret", "sync_thr"}
        /\ r.pc # "sync_thr" /\ r.spin = code[p].spin
        /\ code[p].pc \notin WP /\ r.pc \notin WP
    BY <1>0, <1>2, <2>1 DEF Goes, WP, ProgramAt, SysCall, InSync
  <2>5. release(c, p, "cons", r)
    BY <1>2 DEF r
  <2> HIDE DEF r
  <2> QED
    BY <1>0, <1>2, <2>2, <2>3, <2>4, <2>5, ProcsKept, ReleaseMoves
<1>3. ASSUME code[p].pc = "rd",
            code' = [code EXCEPT ![p] = [code[p] EXCEPT !.pc = "doze", !.then = "rd"]],
            UNCHANGED <<cpu, lock>>,
            UNCHANGED proc
      PROVE  KernelInv' /\ Quiet
  <2> DEFINE r == [code[p] EXCEPT !.pc = "doze", !.then = "rd"]
  <2>1. Goes(r, code[p], "doze", code[p].n, code[p].ch, "rd")
    <3>1. "doze" \in PCs /\ "rd" \in PCs
      BY DEF PCs
    <3> QED
      BY <1>0, <3>1, SetPcThen, Zenon
  <2>2. GoesTo(p, r)
    BY <1>0, <1>3, <2>1 DEF Goes, GoesTo, ProgramAt, SysCall, InSync
  <2>3. \A m \in Locks : In(r, m) <=> In(code[p], m)
    BY <1>0, <1>3, <2>1 DEF Goes, In, InSync, Locks, ProgramAt, SysCall
  <2>4. /\ code[p].pc \notin {"user", "sret", "sync_thr"}
        /\ r.pc # "sync_thr" /\ r.spin = code[p].spin
        /\ code[p].pc \notin WP /\ r.pc \notin WP
    BY <1>0, <1>3, <2>1 DEF Goes, WP, ProgramAt, SysCall, InSync
  <2>5. code' = [code EXCEPT ![p] = r]
    BY <1>3 DEF r
  <2> HIDE DEF r
  <2> QED
    BY <1>0, <1>3, <2>2, <2>3, <2>4, <2>5, ProcsKept, PlainMoves
<1>4. ASSUME code[p].pc = "rd",
            code' = [code EXCEPT ![p] = [code[p] EXCEPT !.n = code[p].n + 1]],
            UNCHANGED <<cpu, lock>>,
            UNCHANGED proc
      PROVE  KernelInv' /\ Quiet
  <2> DEFINE r == [code[p] EXCEPT !.n = code[p].n + 1]
  <2>1. Goes(r, code[p], code[p].pc, code[p].n + 1, code[p].ch, code[p].then)
    <3>1. code[p].n + 1 \in Int
      BY <1>0 DEF Frame
    <3> QED
      BY <1>0, <3>1, SetN, Zenon
  <2>2. GoesTo(p, r)
    BY <1>0, <1>4, <2>1 DEF Goes, GoesTo, ProgramAt, SysCall, InSync
  <2>3. \A m \in Locks : In(r, m) <=> In(code[p], m)
    BY <1>0, <1>4, <2>1 DEF Goes, In, InSync, Locks, ProgramAt, SysCall
  <2>4. /\ code[p].pc \notin {"user", "sret", "sync_thr"}
        /\ r.pc # "sync_thr" /\ r.spin = code[p].spin
        /\ code[p].pc \notin WP /\ r.pc \notin WP
    BY <1>0, <1>4, <2>1 DEF Goes, WP, ProgramAt, SysCall, InSync
  <2>5. code' = [code EXCEPT ![p] = r]
    BY <1>4 DEF r
  <2> HIDE DEF r
  <2> QED
    BY <1>0, <1>4, <2>2, <2>3, <2>4, <2>5, ProcsKept, PlainMoves
<1> QED
  BY <1>1, <1>2, <1>3, <1>4 DEF consoleread

\* sys_sleep().
LEMMA SysSleepSteps ==
  ASSUME IInv, NEW c \in Harts, NEW p \in Procs, Runs(c, p), code[p].spin = None, sys_sleep(c, p)
  PROVE  KernelInv' /\ Quiet
<1>0. /\ Runs(c, p) /\ code[p] \in Frame /\ c \in Harts /\ KernelInv /\ code[p].spin = None
      /\ ProgramAt(p, code[p]) /\ p \in Procs /\ p \notin Harts
  BY FrameRuns DEF IInv
<1>a. ticks \in Nat
  BY DEF IInv, DeviceType, DevInv, TxInv
<1>1. ASSUME code[p].pc = "sleep",
            acquire(c, p, "time", [code[p] EXCEPT !.pc = "slp0"]),
            UNCHANGED proc
      PROVE  KernelInv' /\ Quiet
  <2> DEFINE r == [code[p] EXCEPT !.pc = "slp0"]
  <2>1. Goes(r, code[p], "slp0", code[p].n, code[p].ch, code[p].then)
    <3>1. "slp0" \in PCs
      BY DEF PCs
    <3> QED
      BY <1>0, <3>1, SetPc, Zenon
  <2>2. GoesTo(p, r)
    BY <1>0, <1>1, <2>1 DEF Goes, GoesTo, ProgramAt, SysCall, InSync
  <2>3. "time" \in Locks /\ ~In(code[p], "time")
        /\ \A m \in Locks : In(r, m) <=> In(code[p], m) \/ m = "time"
    BY <1>0, <1>1, <2>1 DEF Goes, In, InSync, Locks, ProgramAt, SysCall
  <2>4. /\ code[p].pc \notin {"user", "sret", "sync_thr"}
        /\ r.pc # "sync_thr" /\ r.spin = code[p].spin
        /\ code[p].pc \notin WP /\ r.pc \notin WP
    BY <1>0, <1>1, <2>1 DEF Goes, WP, ProgramAt, SysCall, InSync
  <2>5. acquire(c, p, "time", r)
    BY <1>1 DEF r
  <2> HIDE DEF r
  <2> QED
    BY <1>0, <1>1, <2>2, <2>3, <2>4, <2>5, ProcsKept, AcquireMoves
<1>2. ASSUME code[p].pc = "slp0",
            code' = [code EXCEPT ![p] = [code[p] EXCEPT !.pc = "slp", !.n = ticks]],
            UNCHANGED <<cpu, lock>>,
            UNCHANGED proc
      PROVE  KernelInv' /\ Quiet
  <2> DEFINE r == [code[p] EXCEPT !.pc = "slp", !.n = ticks]
  <2>1. Goes(r, code[p], "slp", ticks, code[p].ch, code[p].then)
    <3>1. "slp" \in PCs /\ ticks \in Int
      BY <1>a DEF PCs
    <3> QED
      BY <1>0, <3>1, SetPcN, Zenon
  <2>2. GoesTo(p, r)
    BY <1>0, <1>2, <2>1 DEF Goes, GoesTo, ProgramAt, SysCall, InSync
  <2>3. \A m \in Locks : In(r, m) <=> In(code[p], m)
    BY <1>0, <1>2, <2>1 DEF Goes, In, InSync, Locks, ProgramAt, SysCall
  <2>4. /\ code[p].pc \notin {"user", "sret", "sync_thr"}
        /\ r.pc # "sync_thr" /\ r.spin = code[p].spin
        /\ code[p].pc \notin WP /\ r.pc \notin WP
    BY <1>0, <1>2, <2>1 DEF Goes, WP, ProgramAt, SysCall, InSync
  <2>5. code' = [code EXCEPT ![p] = r]
    BY <1>2 DEF r
  <2> HIDE DEF r
  <2> QED
    BY <1>0, <1>2, <2>2, <2>3, <2>4, <2>5, ProcsKept, PlainMoves
<1>3. ASSUME code[p].pc = "slp",
            code' = [code EXCEPT ![p] = [code[p] EXCEPT !.pc = "doze", !.then = "slp"]],
            UNCHANGED <<cpu, lock>>,
            UNCHANGED proc
      PROVE  KernelInv' /\ Quiet
  <2> DEFINE r == [code[p] EXCEPT !.pc = "doze", !.then = "slp"]
  <2>1. Goes(r, code[p], "doze", code[p].n, code[p].ch, "slp")
    <3>1. "doze" \in PCs /\ "slp" \in PCs
      BY DEF PCs
    <3> QED
      BY <1>0, <3>1, SetPcThen, Zenon
  <2>2. GoesTo(p, r)
    BY <1>0, <1>3, <2>1 DEF Goes, GoesTo, ProgramAt, SysCall, InSync
  <2>3. \A m \in Locks : In(r, m) <=> In(code[p], m)
    BY <1>0, <1>3, <2>1 DEF Goes, In, InSync, Locks, ProgramAt, SysCall
  <2>4. /\ code[p].pc \notin {"user", "sret", "sync_thr"}
        /\ r.pc # "sync_thr" /\ r.spin = code[p].spin
        /\ code[p].pc \notin WP /\ r.pc \notin WP
    BY <1>0, <1>3, <2>1 DEF Goes, WP, ProgramAt, SysCall, InSync
  <2>5. code' = [code EXCEPT ![p] = r]
    BY <1>3 DEF r
  <2> HIDE DEF r
  <2> QED
    BY <1>0, <1>3, <2>2, <2>3, <2>4, <2>5, ProcsKept, PlainMoves
<1> DEFINE n == IF tooEarly(code[p].n, Head(proc[p].prog).n) THEN -1 ELSE 0
<1>b. n \in Int
  OBVIOUS
<1> HIDE DEF n
<1>4. ASSUME code[p].pc = "slp",
            release(c, p, "time", [code[p] EXCEPT !.pc = "sysret", !.n = n]),
            UNCHANGED proc
      PROVE  KernelInv' /\ Quiet
  <2> DEFINE r == [code[p] EXCEPT !.pc = "sysret", !.n = n]
  <2>1. Goes(r, code[p], "sysret", n, code[p].ch, code[p].then)
    <3>1. "sysret" \in PCs /\ n \in Int
      BY <1>b DEF PCs
    <3> QED
      BY <1>0, <3>1, SetPcN, Zenon
  <2>2. GoesTo(p, r)
    BY <1>0, <1>4, <2>1 DEF Goes, GoesTo, ProgramAt, SysCall, InSync
  <2>3. "time" \in Locks /\ In(code[p], "time") /\ ~In(r, "time")
        /\ \A m \in Locks : In(code[p], m) <=> In(r, m) \/ m = "time"
    BY <1>0, <1>4, <2>1 DEF Goes, In, InSync, Locks, ProgramAt, SysCall
  <2>4. /\ code[p].pc \notin {"user", "sret", "sync_thr"}
        /\ r.pc # "sync_thr" /\ r.spin = code[p].spin
        /\ code[p].pc \notin WP /\ r.pc \notin WP
    BY <1>0, <1>4, <2>1 DEF Goes, WP, ProgramAt, SysCall, InSync
  <2>5. release(c, p, "time", r)
    BY <1>4 DEF r
  <2> HIDE DEF r
  <2> QED
    BY <1>0, <1>4, <2>2, <2>3, <2>4, <2>5, ProcsKept, ReleaseMoves
<1> QED
  BY <1>1, <1>2, <1>3, <1>4 DEF sys_sleep, n

\* sys_kill().
LEMMA SysKillSteps ==
  ASSUME IInv, NEW c \in Harts, NEW p \in Procs, Runs(c, p), code[p].spin = None, sys_kill(c, p)
  PROVE  KernelInv' /\ Quiet
<1>0. /\ Runs(c, p) /\ code[p] \in Frame /\ c \in Harts /\ KernelInv /\ code[p].spin = None
      /\ ProgramAt(p, code[p]) /\ p \in Procs /\ p \notin Harts
  BY FrameRuns DEF IInv
<1>a. ProcType' /\ \A q \in Procs : ProcKept(q)
  BY <1>0, KillKeeps DEF sys_kill
<1>1. ASSUME code[p].pc = "kill",
            code' = [code EXCEPT ![p] = [code[p] EXCEPT !.pc = "sysret"]],
            UNCHANGED <<cpu, lock>>
      PROVE  KernelInv' /\ Quiet
  <2> DEFINE r == [code[p] EXCEPT !.pc = "sysret"]
  <2>1. Goes(r, code[p], "sysret", code[p].n, code[p].ch, code[p].then)
    <3>1. "sysret" \in PCs
      BY DEF PCs
    <3> QED
      BY <1>0, <3>1, SetPc, Zenon
  <2>2. GoesTo(p, r)
    BY <1>0, <1>1, <2>1 DEF Goes, GoesTo, ProgramAt, SysCall, InSync
  <2>3. \A m \in Locks : In(r, m) <=> In(code[p], m)
    BY <1>0, <1>1, <2>1 DEF Goes, In, InSync, Locks, ProgramAt, SysCall
  <2>4. /\ code[p].pc \notin {"user", "sret", "sync_thr"}
        /\ r.pc # "sync_thr" /\ r.spin = code[p].spin
        /\ code[p].pc \notin WP /\ r.pc \notin WP
    BY <1>0, <1>1, <2>1 DEF Goes, WP, ProgramAt, SysCall, InSync
  <2>5. code' = [code EXCEPT ![p] = r]
    BY <1>1 DEF r
  <2> HIDE DEF r
  <2> QED
    BY <1>0, <1>1, <2>2, <2>3, <2>4, <2>5, <1>a, PlainMoves
<1> QED
  BY <1>1 DEF sys_kill

\* Back in sleep().
LEMMA WokenSteps ==
  ASSUME IInv, NEW c \in Harts, NEW p \in Procs, Runs(c, p), code[p].spin = None, woken(c, p)
  PROVE  KernelInv' /\ Quiet
<1>0. /\ Runs(c, p) /\ code[p] \in Frame /\ c \in Harts /\ KernelInv /\ code[p].spin = None
      /\ ProgramAt(p, code[p]) /\ p \in Procs /\ p \notin Harts
  BY FrameRuns DEF IInv
<1>1. ASSUME code[p].pc = "woken",
            code[p].then = "rd",
            acquire(c, p, "cons", [code[p] EXCEPT !.pc = code[p].then]),
            UNCHANGED proc
      PROVE  KernelInv' /\ Quiet
  <2> DEFINE r == [code[p] EXCEPT !.pc = code[p].then]
  <2>1. Goes(r, code[p], code[p].then, code[p].n, code[p].ch, code[p].then)
    <3>1. code[p].then \in PCs
      BY <1>0 DEF Frame
    <3> QED
      BY <1>0, <3>1, SetPc, Zenon
  <2>2. GoesTo(p, r)
    BY <1>0, <1>1, <2>1 DEF Goes, GoesTo, ProgramAt, SysCall, InSync
  <2>3. "cons" \in Locks /\ ~In(code[p], "cons")
        /\ \A m \in Locks : In(r, m) <=> In(code[p], m) \/ m = "cons"
    BY <1>0, <1>1, <2>1 DEF Goes, In, InSync, Locks, ProgramAt, SysCall
  <2>4. /\ code[p].pc \notin {"user", "sret", "sync_thr"}
        /\ r.pc # "sync_thr" /\ r.spin = code[p].spin
        /\ code[p].pc \notin WP /\ r.pc \notin WP
    BY <1>0, <1>1, <2>1 DEF Goes, WP, ProgramAt, SysCall, InSync
  <2>5. acquire(c, p, "cons", r)
    BY <1>1 DEF r
  <2> HIDE DEF r
  <2> QED
    BY <1>0, <1>1, <2>2, <2>3, <2>4, <2>5, ProcsKept, AcquireMoves
<1>2. ASSUME code[p].pc = "woken",
            code[p].then = "putc",
            acquire(c, p, "uart", [code[p] EXCEPT !.pc = code[p].then]),
            UNCHANGED proc
      PROVE  KernelInv' /\ Quiet
  <2> DEFINE r == [code[p] EXCEPT !.pc = code[p].then]
  <2>1. Goes(r, code[p], code[p].then, code[p].n, code[p].ch, code[p].then)
    <3>1. code[p].then \in PCs
      BY <1>0 DEF Frame
    <3> QED
      BY <1>0, <3>1, SetPc, Zenon
  <2>2. GoesTo(p, r)
    BY <1>0, <1>2, <2>1 DEF Goes, GoesTo, ProgramAt, SysCall, InSync
  <2>3. "uart" \in Locks /\ ~In(code[p], "uart")
        /\ \A m \in Locks : In(r, m) <=> In(code[p], m) \/ m = "uart"
    BY <1>0, <1>2, <2>1 DEF Goes, In, InSync, Locks, ProgramAt, SysCall
  <2>4. /\ code[p].pc \notin {"user", "sret", "sync_thr"}
        /\ r.pc # "sync_thr" /\ r.spin = code[p].spin
        /\ code[p].pc \notin WP /\ r.pc \notin WP
    BY <1>0, <1>2, <2>1 DEF Goes, WP, ProgramAt, SysCall, InSync
  <2>5. acquire(c, p, "uart", r)
    BY <1>2 DEF r
  <2> HIDE DEF r
  <2> QED
    BY <1>0, <1>2, <2>2, <2>3, <2>4, <2>5, ProcsKept, AcquireMoves
<1>3. ASSUME code[p].pc = "woken",
            code[p].then = "slp",
            acquire(c, p, "time", [code[p] EXCEPT !.pc = code[p].then]),
            UNCHANGED proc
      PROVE  KernelInv' /\ Quiet
  <2> DEFINE r == [code[p] EXCEPT !.pc = code[p].then]
  <2>1. Goes(r, code[p], code[p].then, code[p].n, code[p].ch, code[p].then)
    <3>1. code[p].then \in PCs
      BY <1>0 DEF Frame
    <3> QED
      BY <1>0, <3>1, SetPc, Zenon
  <2>2. GoesTo(p, r)
    BY <1>0, <1>3, <2>1 DEF Goes, GoesTo, ProgramAt, SysCall, InSync
  <2>3. "time" \in Locks /\ ~In(code[p], "time")
        /\ \A m \in Locks : In(r, m) <=> In(code[p], m) \/ m = "time"
    BY <1>0, <1>3, <2>1 DEF Goes, In, InSync, Locks, ProgramAt, SysCall
  <2>4. /\ code[p].pc \notin {"user", "sret", "sync_thr"}
        /\ r.pc # "sync_thr" /\ r.spin = code[p].spin
        /\ code[p].pc \notin WP /\ r.pc \notin WP
    BY <1>0, <1>3, <2>1 DEF Goes, WP, ProgramAt, SysCall, InSync
  <2>5. acquire(c, p, "time", r)
    BY <1>3 DEF r
  <2> HIDE DEF r
  <2> QED
    BY <1>0, <1>3, <2>2, <2>3, <2>4, <2>5, ProcsKept, AcquireMoves
<1>4. code[p].pc = "woken" /\ code[p].then \in {"rd", "putc", "slp"}
  BY <1>0 DEF woken, ProgramAt
<1> QED
  BY <1>1, <1>2, <1>3, <1>4 DEF woken

(***************************************************************************)
(* Process p gives up hart c: it goes on at r later, and is x by then.     *)
(***************************************************************************)
Leaves(c, p, r, g, x, k) ==
  /\ cpu[c].run = p /\ code[c].pc \in {"none", "eoi"} /\ code[p].pc \notin WP
  /\ r \in Frame /\ r.spin = None /\ ProgramAt(p, r)
  /\ Depth(r) = 0 /\ r.pc \notin {"user", "sret"}
  /\ g \in Frame /\ g.pc = "none" /\ g.spin = None
  /\ x \in Proc /\ x.state # "running" /\ x.prog = proc[p].prog
  /\ k \in Cpu /\ k.run = None /\ k.noff = 0 /\ ~k.intena /\ ~k.panic /\ ~k.user
  /\ k.stvec = "kernelvec"
  /\ code' = [code EXCEPT ![p] = r, ![c] = g] /\ proc' = [proc EXCEPT ![p] = x]
  /\ cpu' = [cpu EXCEPT ![c] = k]
  /\ \A lk \in Locks : lock'[lk] # c

\* A frame that is not executing has no lock.
LEMMA NoneHasNothing ==
  ASSUME NEW g, g.pc = "none"
  PROVE  Depth(g) = 0 /\ \A lk \in Locks : ~In(g, lk)
BY DEF Depth, In, InSync, One, Locks

\* sched().
LEMMA LeaveMoves ==
  ASSUME KernelInv, NEW c \in Harts, NEW p \in Procs, NEW r, NEW g, NEW x, NEW k,
         Leaves(c, p, r, g, x, k), LockType', LocksKept(c)
  PROVE  KernelInv' /\ Quiet
<1> USE DEF Leaves
<1>0. /\ Harts \cap Procs = {} /\ None \notin Harts \cup Procs
      /\ CodeType /\ LockType /\ ProcType /\ RunInv /\ c # p
  BY NamesAssumption DEF KernelInv
<1>1. /\ CodeType' /\ ProcType'
      /\ cpu'[c] = k /\ code'[p] = r /\ code'[c] = g /\ proc'[p] = x
      /\ \A f \in (Harts \cup Procs) \ {c, p} : code'[f] = code[f]
      /\ \A d \in Harts \ {c} : cpu'[d] = cpu[d]
      /\ \A q \in Procs \ {p} : proc'[q] = proc[q]
  BY <1>0 DEF CodeType, ProcType
<1>2. \A q \in Procs \ {p} : ProcKept(q)
  BY <1>1 DEF ProcKept
<1>3. FrameInv(p)' /\ WaitInv(p)'
  <2>1. ProgramAt(p, code[p])'
    <3>1. FrameInv(p) /\ proc[p].state = "running"
      BY <1>0 DEF KernelInv, RunInv
    <3>2. ProgramAt(p, code[p])
      BY <3>1 DEF FrameInv
    <3> QED
      BY <1>1, <3>1, <3>2 DEF ProgramAt, InSync
  <2>2. Depth(code[p])' = 0
    BY <1>1, FrameNext
  <2> QED
    BY <1>0, <1>1, <2>1, <2>2 DEF FrameInv, WaitInv
<1>4. FrameInv(c)'
  BY <1>0, <1>1 DEF FrameInv, HandlerAt, InSync
<1>5. HartInv(c)'
  <2>1. Top(c)' = g /\ ~InHandler(c)'
    BY <1>1 DEF Top, InHandler
  <2>2. Depth(g) = 0 /\ \A lk \in Locks : ~In(g, lk)
    BY NoneHasNothing
  <2> QED
    BY <1>0, <1>1, <2>1, <2>2 DEF HartInv
<1>6. /\ cpu[c].run \in {p, None} /\ cpu'[c].run \in {p, None} /\ p \in Procs \cup {None}
      /\ p # None /\ ~(cpu[c].run = None)
      /\ proc'[p].state = "running" <=> cpu'[c].run = p
  BY <1>0, <1>1
<1>7. Quiet
  <2>1. r.pc \notin WP
    BY DEF WP, Depth, In, InSync, One
  <2> QED
    BY <1>0, <1>1, <2>1 DEF Quiet, WP
<1> QED
  BY <1>1, <1>2, <1>3, <1>4, <1>5, <1>6, <1>7, KernelKept

\* The hart after sched().
LEMMA Switched ==
  ASSUME NEW x \in Cpu
  PROVE  LET k == switched(x)
         IN /\ k \in Cpu /\ k.run = None /\ k.noff = 0 /\ ~k.intena
            /\ k.panic = x.panic /\ k.user = x.user /\ k.stvec = x.stvec
<1>1. PICK a \in BOOLEAN, b \in BOOLEAN : a = x.intena /\ b = FALSE
  BY DEF Cpu
<1>2. \A y \in Cpu : [y EXCEPT !.run = None] \in Cpu
  BY DEF Cpu
<1>3. switched(x) = [[x EXCEPT !.intr = a, !.noff = 0, !.intena = b] EXCEPT !.run = None]
  BY <1>1 DEF switched, Cpu
<1>4. [x EXCEPT !.intr = a, !.noff = 0, !.intena = b] \in Cpu
  BY CpuSet, Zenon
<1>5. /\ switched(x).run = None /\ switched(x).noff = 0 /\ switched(x).user = x.user
      /\ switched(x).panic = x.panic /\ switched(x).stvec = x.stvec
  BY DEF switched, Cpu
<1>6. ~switched(x).intena
  BY DEF switched, Cpu
<1> QED
  BY <1>2, <1>3, <1>4, <1>5, <1>6

\* A process's record, y after x.
ProcIs(y, x, st) == y \in Proc /\ y.state = st /\ y.prog = x.prog

\* The shapes of its updates.
LEMMA SleepingProc ==
  ASSUME NEW x \in Proc, NEW ch \in Chans, NEW a \in BOOLEAN
  PROVE  ProcIs([x EXCEPT !.state = "sleeping", !.chan = ch, !.intena = a], x, "sleeping")
BY DEF Proc, ProcIs

\* See SleepingProc.
LEMMA YieldingProc ==
  ASSUME NEW x \in Proc, NEW b \in BOOLEAN, NEW a \in BOOLEAN
  PROVE  ProcIs([x EXCEPT !.state = "runnable", !.trapped = b, !.intena = a], x, "runnable")
BY DEF Proc, ProcIs

\* See SleepingProc.
LEMMA ZombieProc ==
  ASSUME NEW x \in Proc
  PROVE  ProcIs([x EXCEPT !.state = "zombie"], x, "zombie")
BY DEF Proc, ProcIs


\* sleep(): the lock is the only one the process has.
LEMMA SleepMoves ==
  ASSUME KernelInv, NEW c \in Harts, NEW p \in Procs, Runs(c, p), code[p].spin = None,
         NEW lk \in Locks, NEW ch \in {"cons.r", "ticks", "uart_tx_r"}, sleep(c, p, ch, lk),
         NEW r \in Frame, r.spin = None, r.pc = "woken", ProgramAt(p, r),
         code' = [code EXCEPT ![p] = r],
         \A m \in Locks : In(code[p], m) <=> m = lk,
         code[p].pc \notin {"user", "sret", "sync_thr", "thr"}
  PROVE  KernelInv' /\ Quiet
<1>0. /\ CodeType /\ LockType /\ ProcType /\ p # c
      /\ None \notin Harts \cup Procs \cup Locks
  BY NamesAssumption DEF KernelInv, Locks
<1>1. /\ Top(c) = code[p] /\ cpu[c] \in Cpu /\ HartInv(c) /\ cpu[c].run = p
      /\ FrameInv(c) /\ ~InHandler(c) /\ code[c] \in Frame
  BY <1>0, RunsTop DEF KernelInv, CodeType
<1>2. Depth(code[p]) = 1
  <2>1. \A m \in {"time", "uart", "pr", "cons"} : m \in Locks
    BY DEF Locks
  <2>2. lk \in {"time", "uart", "pr", "cons"}
    BY DEF Locks
  <2> QED
    BY <2>1, <2>2 DEF Depth, One
<1>3. /\ cpu[c].noff = 1 /\ holding(c, lk) /\ \A m \in Locks : lock[m] = c <=> m = lk
      /\ ~cpu[c].panic /\ ~cpu[c].user /\ cpu[c].stvec = "kernelvec"
  <2>1. cpu[c].noff = 1 /\ ~cpu[c].panic
    BY <1>1, <1>2 DEF HartInv
  <2>2. \A m \in Locks : lock[m] = c <=> m = lk
    BY <1>0, <1>1 DEF HartInv
  <2>3. ~cpu[c].user /\ cpu[c].stvec = "kernelvec"
    BY <1>0, <1>1 DEF HartInv
  <2> QED
    BY <2>1, <2>2, <2>3 DEF holding
<1> DEFINE k == switched(cpu[c])
           y == [proc[p] EXCEPT !.state = "sleeping", !.chan = ch, !.intena = cpu[c].intena]
<1>4. cpu' = [cpu EXCEPT ![c] = k]
  BY <1>1, <1>3 DEF sleep
<1>5. /\ k \in Cpu /\ k.run = None /\ k.noff = 0 /\ ~k.intena
      /\ k.panic = cpu[c].panic /\ k.user = cpu[c].user /\ k.stvec = cpu[c].stvec
  BY <1>1, Switched
<1>6. ProcIs(y, proc[p], "sleeping")
  <2>1. proc[p] \in Proc /\ cpu[c].intena \in BOOLEAN /\ ch \in Chans
    BY <1>0, <1>1 DEF ProcType, Cpu, Chans
  <2> QED
    BY <2>1, SleepingProc, Zenon
<1>7. proc' = [proc EXCEPT ![p] = y]
  BY Zenon DEF sleep
<1>8. code[c].pc = "none" /\ code[c].spin = None
  BY <1>1, NoneHasNothing DEF InHandler, FrameInv, Frame
<1>9. code' = [code EXCEPT ![p] = r, ![c] = code[c]]
  BY <1>0 DEF CodeType
<1>10. LockType' /\ LocksKept(c) /\ \A m \in Locks : lock'[m] # c
  BY <1>0, <1>3 DEF sleep, LockType, LocksKept, holding
<1>11. Depth(r) = 0
  BY DEF Depth, In, InSync, One
<1> HIDE DEF k, y
<1>12. Leaves(c, p, r, code[c], y, k)
  BY <1>1, <1>3, <1>4, <1>5, <1>6, <1>7, <1>8, <1>9, <1>10, <1>11 DEF Leaves, ProcIs, WP
<1> QED
  BY <1>10, <1>12, LeaveMoves

\* consoleread(), uartputc() and sys_sleep() go to sleep.
LEMMA SleepSteps ==
  ASSUME IInv, NEW c \in Harts, NEW p \in Procs, Runs(c, p), code[p].spin = None,
         doze(c, p) \/ (uartputc(c, p) /\ TxFull)
  PROVE  KernelInv' /\ Quiet
<1>0. /\ Runs(c, p) /\ code[p] \in Frame /\ c \in Harts /\ KernelInv /\ code[p].spin = None
      /\ ProgramAt(p, code[p]) /\ p \in Procs /\ p \notin Harts
  BY FrameRuns DEF IInv
<1>1. ASSUME doze(c, p) PROVE KernelInv' /\ Quiet
  <2> DEFINE r == [code[p] EXCEPT !.pc = "woken"]
  <2>1. Goes(r, code[p], "woken", code[p].n, code[p].ch, code[p].then)
    <3>1. "woken" \in PCs
      BY DEF PCs
    <3> QED
      BY <1>0, <3>1, SetPc, Zenon
  <2>2. code' = [code EXCEPT ![p] = r] /\ code[p].pc = "doze" /\ code[p].then \in {"rd", "slp"}
    BY <1>0, <1>1 DEF doze, ProgramAt
  <2> HIDE DEF r
  <2>3. r \in Frame /\ r.spin = None /\ r.pc = "woken" /\ ProgramAt(p, r)
    BY <1>0, <2>1, <2>2 DEF Goes, ProgramAt, SysCall, InSync
  <2>4. code[p].then = "rd" => /\ sleep(c, p, "cons.r", "cons")
                               /\ \A m \in Locks : In(code[p], m) <=> m = "cons"
    BY <1>1, <2>2 DEF doze, In, InSync, Locks
  <2>5. code[p].then = "slp" => /\ sleep(c, p, "ticks", "time")
                                /\ \A m \in Locks : In(code[p], m) <=> m = "time"
    BY <1>1, <2>2 DEF doze, In, InSync, Locks
  <2>6. /\ "cons" \in Locks /\ "time" \in Locks
        /\ code[p].pc \notin {"user", "sret", "sync_thr", "thr"}
    BY <2>2 DEF Locks
  <2>7. CASE code[p].then = "rd"
    BY <1>0, <2>2, <2>3, <2>4, <2>6, <2>7, SleepMoves
  <2>8. CASE code[p].then = "slp"
    BY <1>0, <2>2, <2>3, <2>5, <2>6, <2>8, SleepMoves
  <2> QED
    BY <2>2, <2>7, <2>8
<1>2. ASSUME uartputc(c, p), TxFull PROVE KernelInv' /\ Quiet
  <2> DEFINE r == [code[p] EXCEPT !.pc = "woken", !.then = "putc"]
  <2>1. Goes(r, code[p], "woken", code[p].n, code[p].ch, "putc")
    <3>1. "woken" \in PCs /\ "putc" \in PCs
      BY DEF PCs
    <3> QED
      BY <1>0, <3>1, SetPcThen, Zenon
  <2>2. /\ code' = [code EXCEPT ![p] = r] /\ code[p].pc = "putc"
        /\ sleep(c, p, "uart_tx_r", "uart")
    BY <1>2, Zenon DEF uartputc
  <2> HIDE DEF r
  <2>3. r \in Frame /\ r.spin = None /\ r.pc = "woken" /\ ProgramAt(p, r)
    BY <1>0, <2>1, <2>2 DEF Goes, ProgramAt, SysCall, InSync
  <2>4. "uart" \in Locks /\ \A m \in Locks : In(code[p], m) <=> m = "uart"
    BY <2>2 DEF In, InSync, Locks
  <2>5. code[p].pc \notin {"user", "sret", "sync_thr", "thr"}
    BY <2>2
  <2> QED
    BY <1>0, <2>2, <2>3, <2>4, <2>5, SleepMoves
<1> QED
  BY <1>1, <1>2

\* What hart c is about to leave process p with.
Handing(c, p) == /\ CodeType /\ LockType /\ ProcType /\ p # c
                 /\ cpu[c].run = p /\ cpu[c] \in Cpu /\ ~cpu[c].panic /\ cpu[c].noff = 0
                 /\ proc[p] \in Proc /\ code[p] \in Frame /\ code[p].spin = None
                 /\ ProgramAt(p, code[p]) /\ Depth(code[p]) = 0
                 /\ code[c].pc \in {"none", "eoi"} /\ code[p].pc \notin WP
                 /\ \A lk \in Locks : lock[lk] # c

\* At the end of an interrupt, and in a process without locks.
LEMMA HandsOver ==
  ASSUME KernelInv, NEW c \in Harts, NEW p \in Procs, cpu[c].run = p,
         code[c].pc = "eoi" \/ (~InHandler(c) /\ Depth(code[p]) = 0)
  PROVE  /\ Handing(c, p)
         /\ code[c].pc = "eoi" =>
              /\ ~cpu[c].intr /\ ~cpu[c].intena /\ code[p].pc # "sret"
              /\ cpu[c].stvec = "kernelvec"
              /\ ~cpu[c].user => code[p].pc # "user"
<1>0. /\ CodeType /\ LockType /\ ProcType /\ p # c /\ None \notin Harts \cup Procs \cup Locks
      /\ HartInv(c) /\ FrameInv(p) /\ FrameInv(c)
  BY NamesAssumption DEF KernelInv, Locks
<1>1. /\ code[p] \in Frame /\ code[c] \in Frame /\ proc[p] \in Proc /\ cpu[c] \in Cpu
      /\ ProgramAt(p, code[p]) /\ ~cpu[c].panic
  BY <1>0 DEF CodeType, ProcType, FrameInv, HartInv
<1>2. ASSUME NEW g \in Frame, Depth(g) = 0
      PROVE  /\ \A lk \in Locks : ~In(g, lk)
             /\ (g.spin # None => In(g, g.spin)) => g.spin = None
             /\ g.pc \notin WP
  <2>1. \A lk \in Locks : ~In(g, lk)
    BY <1>2, DepthNat
  <2>2. g.pc \notin WP
    BY <1>2, DepthNat DEF WP, Depth, In, InSync, One
  <2> QED
    BY <2>1, <2>2 DEF Frame
<1>3. CASE code[c].pc = "eoi"
  <2>1. InHandler(c) /\ Top(c) = code[c] /\ Depth(code[c]) = 0
    BY <1>3 DEF InHandler, Top, Depth, In, InSync, One
  <2>2. Depth(code[p]) = 0 /\ cpu[c].noff = 0
    BY <1>0, <2>1 DEF HartInv
  <2>3. \A lk \in Locks : lock[lk] # c
    BY <1>0, <1>1, <1>2, <2>1 DEF HartInv
  <2>4. code[p].spin = None
    BY <1>0, <1>1, <1>2, <2>2 DEF FrameInv
  <2>5. ~cpu[c].intr /\ ~cpu[c].intena /\ code[p].pc # "sret"
    BY <1>0, <2>1 DEF HartInv
  <2>7. code[p].pc \notin WP
    BY <1>1, <1>2, <2>2
  <2>6. cpu[c].stvec = "kernelvec" /\ (~cpu[c].user => code[p].pc # "user")
    BY <1>0, <2>1, <2>5 DEF HartInv
  <2> QED
    BY <1>0, <1>1, <2>2, <2>3, <2>4, <2>5, <2>6, <2>7, <1>3 DEF Handing
<1>4. CASE ~InHandler(c) /\ Depth(code[p]) = 0
  <2>1. Top(c) = code[p] /\ code[c].pc = "none"
    BY <1>0, <1>4 DEF InHandler, Top
  <2>2. cpu[c].noff = 0
    BY <1>0, <1>4, <2>1 DEF HartInv
  <2>3. \A lk \in Locks : lock[lk] # c
    BY <1>0, <1>1, <1>2, <1>4, <2>1 DEF HartInv
  <2>4. code[p].spin = None
    BY <1>0, <1>1, <1>2, <1>4 DEF FrameInv
  <2>5. code[p].pc \notin WP
    BY <1>1, <1>2, <1>4
  <2> QED
    BY <1>0, <1>1, <1>4, <2>1, <2>2, <2>3, <2>4, <2>5 DEF Handing
<1> QED
  BY <1>3, <1>4

\* The frame of a hart in the scheduler.
LEMMA NoFrame ==
  /\ noFrame \in Frame /\ noFrame.pc = "none" /\ noFrame.spin = None
  /\ Depth(noFrame) = 0 /\ \A p \in Procs : KernelInv => ProgramAt(p, noFrame)
<1>1. noFrame \in Frame /\ noFrame.pc = "none" /\ noFrame.spin = None
  BY DEF noFrame, Frame, PCs, Contents
<1>2. Depth(noFrame) = 0
  BY <1>1, NoneHasNothing
<1>3. ASSUME NEW p \in Procs, KernelInv PROVE ProgramAt(p, noFrame)
  BY <1>1, <1>3 DEF KernelInv, FrameInv, ProgramAt, InSync, SysCall
<1> QED
  BY <1>1, <1>2, <1>3

\* The locks when nobody takes or gives one.
LEMMA LocksStay ==
  ASSUME KernelInv, NEW c \in Harts, lock' = lock
  PROVE  LockType' /\ LocksKept(c)
  BY DEF KernelInv, LockType, LocksKept

\* yield().
LEMMA YieldMoves ==
  ASSUME KernelInv, NEW c \in Harts, NEW p \in Procs, cpu[c].run = p, code[c].pc = "eoi",
         NEW t \in BOOLEAN, NEW r \in Frame, yield(c, p, t, r), lock' = lock,
         r.spin = None, ProgramAt(p, r), Depth(r) = 0, r.pc \notin {"user", "sret"}
  PROVE  KernelInv' /\ Quiet
<1>0. Handing(c, p) /\ ~cpu[c].intr /\ cpu[c].stvec = "kernelvec"
  BY HandsOver
<1> DEFINE m == switched(push_off(cpu[c]))
<1>1. PICK b \in BOOLEAN : b = FALSE
  OBVIOUS
<1> DEFINE k == [m EXCEPT !.user = b]
           y == [proc[p] EXCEPT !.state = "runnable", !.trapped = t, !.intena = b]
<1>2. cpu' = [cpu EXCEPT ![c] = k]
  <2>1. cpu' = [cpu EXCEPT ![c] = [m EXCEPT !.user = FALSE]]
    BY <1>0 DEF yield, Handing
  <2> HIDE DEF m
  <2> QED
    BY <1>1, <2>1, Zenon
<1>3. proc' = [proc EXCEPT ![p] = y]
  <2>1. proc' = [proc EXCEPT ![p] = [proc[p] EXCEPT !.state = "runnable", !.trapped = t,
                                                    !.intena = FALSE]]
    BY Zenon DEF yield
  <2> QED
    BY <1>1, <2>1, Zenon
<1>4. /\ m \in Cpu /\ m.run = None /\ m.noff = 0 /\ ~m.intena /\ ~m.panic
      /\ m.stvec = "kernelvec"
  BY <1>0, PushOff, Switched DEF Handing
<1> HIDE DEF m
<1>5. /\ k \in Cpu /\ k.run = None /\ k.noff = 0 /\ ~k.intena /\ ~k.panic /\ ~k.user
      /\ k.stvec = "kernelvec"
  BY <1>1, <1>4 DEF Cpu
<1>6. ProcIs(y, proc[p], "runnable")
  <2>1. proc[p] \in Proc
    BY <1>0 DEF Handing
  <2> QED
    BY <1>1, <2>1, YieldingProc, Zenon
<1> HIDE DEF k, y
<1>7. code' = [code EXCEPT ![p] = r, ![c] = noFrame]
  BY DEF yield
<1>8. Leaves(c, p, r, noFrame, y, k)
  BY <1>0, <1>2, <1>3, <1>5, <1>6, <1>7, NoFrame DEF Leaves, ProcIs, Handing
<1> QED
  BY <1>8, LocksStay, LeaveMoves

\* exit().
LEMMA ExitMoves ==
  ASSUME KernelInv, NEW c \in Harts, NEW p \in Procs, Handing(c, p), lock' = lock,
         NEW k \in Cpu, exit(c, p, k), k.noff = 0, ~k.panic, ~k.user, k.stvec = "kernelvec"
  PROVE  KernelInv' /\ Quiet
<1> DEFINE m == switched(push_off(k))
           y == [proc[p] EXCEPT !.state = "zombie"]
<1>2. cpu' = [cpu EXCEPT ![c] = m]
  BY DEF exit
<1>3. proc' = [proc EXCEPT ![p] = y]
  BY DEF exit
<1>4. /\ m \in Cpu /\ m.run = None /\ m.noff = 0 /\ ~m.intena /\ ~m.panic /\ ~m.user
      /\ m.stvec = "kernelvec"
  BY PushOff, Switched
<1>6. ProcIs(y, proc[p], "zombie")
  BY ZombieProc DEF Handing
<1> HIDE DEF m, y
<1>7. code' = [code EXCEPT ![p] = noFrame, ![c] = noFrame]
  BY DEF exit
<1>8. Leaves(c, p, noFrame, noFrame, y, m)
  BY <1>2, <1>3, <1>4, <1>6, <1>7, NoFrame DEF Leaves, ProcIs, Handing
<1> QED
  BY <1>8, LocksStay, LeaveMoves

(***************************************************************************)
(* Hart c, without locks, is with process p, which is at r; its handler is *)
(* at g.                                                                   *)
(***************************************************************************)
Fits(r, g, k) ==
  /\ k \in Cpu /\ k.noff = 0 /\ ~k.intena /\ ~k.panic
  /\ g \in Frame /\ g.spin = None /\ HandlerAt(g) /\ Depth(g) = 0
  /\ g.pc # "none" => ~k.intr
  /\ r \in Frame /\ r.spin = None /\ Depth(r) = 0
  /\ k.user <=> r.pc = "user"
  /\ k.stvec = IF r.pc = "sret" \/ (k.user /\ g.pc = "none") THEN "uservec" ELSE "kernelvec"
  /\ r.pc = "sret" => ~k.intr /\ g.pc = "none"

Sits(c, p, r, g, x, k) ==
  /\ \/ cpu[c].run = p
     \/ cpu[c].run = None /\ proc[p].state = "runnable"
  /\ code[c].pc \in {"none", "eoi"} /\ code[p].pc \notin WP
  /\ Fits(r, g, k) /\ k.run = p
  /\ x \in Proc /\ x.state = "running"
  /\ \/ x.prog = proc[p].prog /\ ProgramAt(p, r)
     \/ x.prog \in Seq(Calls) /\ r.pc = "sret"
  /\ code' = [code EXCEPT ![p] = r, ![c] = g] /\ proc' = [proc EXCEPT ![p] = x]
  /\ cpu' = [cpu EXCEPT ![c] = k]
  /\ lock' = lock /\ \A lk \in Locks : lock[lk] # c

\* A step of a hart that is with p, or now goes to it.
LEMMA SitMoves ==
  ASSUME KernelInv, NEW c \in Harts, NEW p \in Procs, NEW r, NEW g, NEW x, NEW k,
         Sits(c, p, r, g, x, k)
  PROVE  KernelInv' /\ Quiet
<1> USE DEF Sits, Fits
<1>0. /\ Harts \cap Procs = {} /\ None \notin Harts \cup Procs
      /\ CodeType /\ LockType /\ ProcType /\ RunInv /\ c # p
  BY NamesAssumption DEF KernelInv
<1>1. /\ CodeType' /\ ProcType'
      /\ cpu'[c] = k /\ code'[p] = r /\ code'[c] = g /\ proc'[p] = x
      /\ \A f \in (Harts \cup Procs) \ {c, p} : code'[f] = code[f]
      /\ \A d \in Harts \ {c} : cpu'[d] = cpu[d]
      /\ \A q \in Procs \ {p} : proc'[q] = proc[q]
  BY <1>0 DEF CodeType, ProcType
<1>2. \A q \in Procs \ {p} : ProcKept(q)
  BY <1>1 DEF ProcKept
<1>3. FrameInv(p)' /\ WaitInv(p)'
  <2>1. ProgramAt(p, code[p])'
    <3>1. CASE x.prog = proc[p].prog /\ ProgramAt(p, r)
      <4>1. proc[p].state # "zombie"
        BY <1>0 DEF RunInv
      <4> QED
        BY <1>1, <3>1, <4>1 DEF ProgramAt, InSync
    <3>2. CASE x.prog \in Seq(Calls) /\ r.pc = "sret"
      BY <1>1, <3>2 DEF ProgramAt, InSync, SysCall
    <3> QED
      BY <3>1, <3>2
  <2> QED
    BY <1>0, <1>1, <2>1 DEF FrameInv, WaitInv
<1>4. FrameInv(c)'
  <2>1. HandlerAt(code[c])'
    BY <1>1 DEF HandlerAt, InSync
  <2> QED
    BY <1>0, <1>1, <2>1 DEF FrameInv
<1>5. HartInv(c)'
  <2>1. Depth(Top(c))' = 0 /\ Top(c)' \in {r, g} /\ (InHandler(c)' <=> g.pc # "none")
    <3>1. Top(c)' \in {r, g} /\ (InHandler(c)' <=> g.pc # "none")
      BY <1>0, <1>1 DEF Top, InHandler
    <3>2. Depth(Top(c))' = Depth(Top(c)')
      BY DEF Depth, In, InSync
    <3> QED
      BY <3>1, <3>2
  <2>2. \A lk \in Locks : ~In(Top(c), lk)'
    <3>1. \A lk \in Locks : In(Top(c), lk)' <=> In(Top(c)', lk)
      BY DEF In, InSync
    <3> QED
      BY <2>1, <3>1, DepthNat
  <2> QED
    BY <1>0, <1>1, <2>1, <2>2 DEF HartInv
<1>6. /\ cpu[c].run \in {p, None} /\ cpu'[c].run \in {p, None} /\ p \in Procs \cup {None}
      /\ p # None /\ (cpu[c].run = None => proc[p].state # "running")
      /\ proc'[p].state = "running" <=> cpu'[c].run = p
  BY <1>0, <1>1
<1>7. LockType' /\ LocksKept(c)
  BY LocksStay
<1>8. Quiet
  <2>1. r.pc \notin WP /\ g.pc \notin WP
    BY DEF WP, Depth, In, InSync, One
  <2>2. code[c].pc \notin WP /\ code[p].pc \notin WP
    BY DEF WP, Depth, In, InSync, One
  <2>3. ASSUME NEW f \in (Harts \cup Procs) \ {c, p}
        PROVE  code'[f].pc = code[f].pc /\ code'[f].ch = code[f].ch /\ code'[f].spin = code[f].spin
    BY <1>1
  <2>4. ASSUME NEW f \in {c, p} PROVE code[f].pc \notin WP /\ code'[f].pc \notin WP
    BY <1>1, <2>1, <2>2
  <2> HIDE DEF Sits, Fits
  <2> QED
    BY <2>3, <2>4 DEF Quiet
<1> QED
  BY <1>1, <1>2, <1>3, <1>4, <1>5, <1>6, <1>7, <1>8, KernelKept

\* A step of a hart that is in the scheduler.
LEMMA IdleMoves ==
  ASSUME KernelInv, NEW c \in Harts, cpu[c].run = None, code[c].pc \in {"none", "eoi"},
         NEW g, NEW k,
         Fits(noFrame, g, k), k.run = None, lock' = lock, \A lk \in Locks : lock[lk] # c,
         code' = [code EXCEPT ![c] = g], cpu' = [cpu EXCEPT ![c] = k], proc' = proc
  PROVE  KernelInv' /\ Quiet
<1> USE DEF Fits
<1>0. /\ Harts \cap Procs = {} /\ None \notin Harts \cup Procs
      /\ CodeType /\ LockType /\ ProcType /\ noFrame.pc = "none"
  BY NamesAssumption, NoFrame DEF KernelInv
<1>1. /\ CodeType' /\ ProcType'
      /\ cpu'[c] = k /\ code'[c] = g
      /\ \A f \in (Harts \cup Procs) \ {c, None} : code'[f] = code[f]
      /\ \A d \in Harts \ {c} : cpu'[d] = cpu[d]
  BY <1>0 DEF CodeType, ProcType
<1>2. \A q \in Procs \ {None} : ProcKept(q)
  BY DEF ProcKept
<1>4. FrameInv(c)'
  <2>1. HandlerAt(code[c])'
    BY <1>1 DEF HandlerAt, InSync
  <2> QED
    BY <1>0, <1>1, <2>1 DEF FrameInv
<1>5. HartInv(c)'
  <2>1. Depth(Top(c))' = 0 /\ (InHandler(c)' <=> g.pc # "none")
    <3>1. Top(c)' = g /\ (InHandler(c)' <=> g.pc # "none")
      BY <1>0, <1>1 DEF Top, InHandler
    <3>2. Depth(Top(c))' = Depth(Top(c)')
      BY DEF Depth, In, InSync
    <3> QED
      BY <3>1, <3>2
  <2>2. \A lk \in Locks : ~In(Top(c), lk)'
    <3>1. \A lk \in Locks : In(Top(c), lk)' <=> In(Top(c)', lk)
      BY DEF In, InSync
    <3>2. Top(c)' = g
      BY <1>0, <1>1 DEF Top, InHandler
    <3> QED
      BY <3>1, <3>2, DepthNat
  <2> QED
    BY <1>0, <1>1, <2>1, <2>2 DEF HartInv
<1>6. cpu[c].run \in {None} /\ cpu'[c].run \in {None} /\ None \in Procs \cup {None}
  BY <1>0, <1>1
<1>7. LockType' /\ LocksKept(c)
  BY LocksStay
<1>8. Quiet
  <2>1. g.pc \notin WP
    BY DEF WP, Depth, In, InSync, One
  <2> QED
    BY <1>0, <1>1, <2>1 DEF Quiet, WP
<1> QED
  BY <1>1, <1>2, <1>4, <1>5, <1>6, <1>7, <1>8, KernelKept

\* The updates of struct cpu by traps.
CpuIs(k, x, a, v, u) ==
  /\ k \in Cpu /\ k.noff = x.noff /\ k.intena = x.intena /\ k.run = x.run
  /\ k.panic = x.panic /\ (k.intr <=> a) /\ k.stvec = v /\ (k.user <=> u)

\* See CpuIs.
LEMMA TrapCpu ==
  ASSUME NEW x \in Cpu, NEW a \in BOOLEAN, NEW v \in {"kernelvec", "uservec"},
         NEW u \in BOOLEAN
  PROVE  /\ CpuIs([x EXCEPT !.intr = a, !.stvec = v, !.user = u], x, a, v, u)
         /\ CpuIs([x EXCEPT !.user = u, !.stvec = v, !.intr = a], x, a, v, u)
         /\ CpuIs([x EXCEPT !.user = u, !.intr = a], x, a, x.stvec, u)
         /\ CpuIs([x EXCEPT !.user = u], x, x.intr, x.stvec, u)
         /\ CpuIs([x EXCEPT !.intr = a], x, a, x.stvec, x.user)
<1>1. CpuIs([x EXCEPT !.intr = a, !.stvec = v, !.user = u], x, a, v, u)
  BY DEF Cpu, CpuIs
<1>2. CpuIs([x EXCEPT !.user = u, !.stvec = v, !.intr = a], x, a, v, u)
  BY DEF Cpu, CpuIs
<1>3. CpuIs([x EXCEPT !.user = u, !.intr = a], x, a, x.stvec, u)
  BY DEF Cpu, CpuIs
<1>4. CpuIs([x EXCEPT !.user = u], x, x.intr, x.stvec, u)
  BY DEF Cpu, CpuIs
<1>5. CpuIs([x EXCEPT !.intr = a], x, a, x.stvec, x.user)
  BY DEF Cpu, CpuIs
<1> QED
  BY <1>1, <1>2, <1>3, <1>4, <1>5

\* usertrapret().
LEMMA Usertrapret ==
  ASSUME NEW x \in Cpu
  PROVE  CpuIs(usertrapret(x), x, FALSE, "uservec", FALSE)
<1>1. PICK a \in BOOLEAN : a = FALSE
  OBVIOUS
<1>2. usertrapret(x) = [x EXCEPT !.intr = a, !.stvec = "uservec", !.user = a]
  BY <1>1, Zenon DEF usertrapret
<1>3. "uservec" \in {"kernelvec", "uservec"}
  OBVIOUS
<1>4. CpuIs([x EXCEPT !.intr = a, !.stvec = "uservec", !.user = a], x, a, "uservec", a)
  BY <1>3, TrapCpu, Zenon
<1> QED
  BY <1>1, <1>2, <1>4, Zenon

\* A step of p's own that leaves it with hart c, and its handler alone.
LEMMA StaysWith ==
  ASSUME KernelInv, NEW c \in Harts, NEW p \in Procs, Handing(c, p), ~InHandler(c),
         NEW r, NEW x, NEW k, NEW a, NEW v, NEW u, CpuIs(k, cpu[c], a, v, u),
         r \in Frame, r.spin = None, Depth(r) = 0,
         (u <=> r.pc = "user"), v = (IF r.pc = "sret" \/ u THEN "uservec" ELSE "kernelvec"),
         r.pc = "sret" => ~a,
         x \in Proc, x.state = proc[p].state,
         \/ x.prog = proc[p].prog /\ ProgramAt(p, r)
         \/ x.prog \in Seq(Calls) /\ r.pc = "sret",
         code' = [code EXCEPT ![p] = r], proc' = [proc EXCEPT ![p] = x],
         cpu' = [cpu EXCEPT ![c] = k], lock' = lock
  PROVE  KernelInv' /\ Quiet
<1>1. /\ code[c] \in Frame /\ HandlerAt(code[c]) /\ code[c].pc = "none" /\ code[c].spin = None
      /\ Depth(code[c]) = 0 /\ ~cpu[c].intena /\ proc[p].state = "running"
  <2>1. HartInv(c) /\ FrameInv(c) /\ CodeType /\ RunInv
    BY DEF KernelInv
  <2>2. code[c].pc = "none"
    BY DEF InHandler
  <2> QED
    BY <2>1, <2>2, NoneHasNothing DEF FrameInv, HartInv, Handing, CodeType, RunInv, Frame
<1>2. code' = [code EXCEPT ![p] = r, ![c] = code[c]]
  BY DEF Handing, CodeType
<1>3. Fits(r, code[c], k)
  BY <1>1 DEF Fits, CpuIs, Handing
<1>4. Sits(c, p, r, code[c], x, k)
  BY <1>1, <1>2, <1>3 DEF Sits, Handing, CpuIs
<1> QED
  BY <1>4, SitMoves

\* Where process p is, on a hart that executes it.
LEMMA ProcessRuns ==
  ASSUME KernelInv, NEW c \in Harts, NEW p \in Procs, Runs(c, p),
         code[p].pc \in {"user", "sret", "ret", "sysret"}
  PROVE  /\ Handing(c, p) /\ ~InHandler(c) /\ cpu[c].run = p /\ proc[p].state = "running"
         /\ proc[p].prog \in Seq(Calls)
         /\ (cpu[c].user <=> code[p].pc = "user")
         /\ cpu[c].stvec = IF code[p].pc \in {"user", "sret"} THEN "uservec" ELSE "kernelvec"
<1>1. Depth(code[p]) = 0
  BY DEF Depth, In, InSync, One
<1>2. cpu[c].run = p /\ ~InHandler(c) /\ HartInv(c) /\ p # None /\ proc[p].state = "running"
      /\ FrameInv(p)
  BY RunsTop, NamesAssumption
<1>3. Handing(c, p)
  BY <1>1, <1>2, HandsOver
<1>4. (cpu[c].user <=> code[p].pc = "user")
      /\ cpu[c].stvec = IF code[p].pc \in {"user", "sret"} THEN "uservec" ELSE "kernelvec"
  BY <1>2 DEF HartInv
<1>5. proc[p].prog \in Seq(Calls)
  BY <1>2 DEF FrameInv, ProgramAt
<1> QED
  BY <1>2, <1>3, <1>4, <1>5

\* usertrap() with a system call.
LEMMA UsertrapSteps ==
  ASSUME KernelInv, NEW c \in Harts, NEW p \in Procs, Runs(c, p), usertrap(c, p)
  PROVE  KernelInv' /\ Quiet
<1>1. code[p].pc = "user" /\ lock' = lock
  BY DEF usertrap
<1>2. /\ Handing(c, p) /\ ~InHandler(c) /\ cpu[c].run = p /\ proc[p].state = "running"
      /\ proc[p].prog \in Seq(Calls)
  BY <1>1, ProcessRuns
<1>3. PICK a \in BOOLEAN, u \in BOOLEAN : a = ~proc[p].killed /\ u = FALSE
  OBVIOUS
<1> DEFINE k == [cpu[c] EXCEPT !.user = FALSE, !.stvec = "kernelvec", !.intr = ~proc[p].killed]
<1>4. CpuIs(k, cpu[c], a, "kernelvec", u)
  <2>1. k = [cpu[c] EXCEPT !.user = u, !.stvec = "kernelvec", !.intr = a]
    BY <1>3, Zenon
  <2>2. "kernelvec" \in {"kernelvec", "uservec"} /\ cpu[c] \in Cpu
    BY <1>2 DEF Handing
  <2>3. CpuIs([cpu[c] EXCEPT !.user = u, !.stvec = "kernelvec", !.intr = a],
              cpu[c], a, "kernelvec", u)
    BY <2>2, TrapCpu, Zenon
  <2> QED
    BY <2>1, <2>3, Zenon
<1>5. CASE proc[p].killed \/ proc[p].prog = <<>>
  <2>1. exit(c, p, k)
    BY <1>5, Zenon DEF usertrap
  <2> HIDE DEF k
  <2>2. k \in Cpu /\ k.noff = 0 /\ ~k.panic /\ ~k.user /\ k.stvec = "kernelvec"
    BY <1>2, <1>3, <1>4 DEF CpuIs, Handing
  <2> QED
    BY <1>1, <1>2, <2>1, <2>2, ExitMoves
<1>6. CASE ~(proc[p].killed \/ proc[p].prog = <<>>)
  <2> DEFINE call == Head(proc[p].prog).call
             r == [code[p] EXCEPT !.pc = call, !.n = 0]
  <2>1. cpu' = [cpu EXCEPT ![c] = k] /\ code' = [code EXCEPT ![p] = r] /\ proc' = proc
    BY <1>6, Zenon DEF usertrap
  <2>2. call \in {"write", "read", "sleep", "kill", "helloworld"}
    <3>1. Head(proc[p].prog) \in Calls
      BY <1>2, <1>6
    <3> QED
      BY <3>1 DEF Calls
  <2> HIDE DEF k, call
  <2>3. Goes(r, code[p], call, 0, code[p].ch, code[p].then)
    <3>1. call \in PCs /\ 0 \in Int /\ code[p] \in Frame
      BY <1>2, <2>2 DEF PCs, Handing
    <3> QED
      BY <3>1, SetPcN, Zenon
  <2> HIDE DEF r
  <2>4. r \in Frame /\ r.spin = None /\ Depth(r) = 0 /\ r.pc \notin {"user", "sret"}
    BY <1>2, <2>2, <2>3 DEF Handing, Goes, Depth, In, InSync, One
  <2>5. ProgramAt(p, r)
    BY <1>2, <1>6, <2>2, <2>3 DEF Goes, ProgramAt, SysCall, InSync
  <2> DEFINE x == proc[p]
  <2>6. /\ proc' = [proc EXCEPT ![p] = x]
        /\ x \in Proc /\ x.state = proc[p].state /\ x.prog = proc[p].prog
    BY <1>2, <2>1 DEF Handing, ProcType
  <2>7. CpuIs(k, cpu[c], a, "kernelvec", FALSE)
    BY <1>3, <1>4 DEF CpuIs
  <2>8. /\ FALSE <=> r.pc = "user"
        /\ "kernelvec" = (IF r.pc = "sret" \/ FALSE THEN "uservec" ELSE "kernelvec")
        /\ r.pc = "sret" => ~a
    BY <2>4
  <2> HIDE DEF x
  <2> QED
    BY <1>1, <1>2, <2>1, <2>4, <2>5, <2>6, <2>7, <2>8, StaysWith
<1> QED
  BY <1>5, <1>6

\* The ways back to user code.
LEMMA UserretSteps ==
  ASSUME KernelInv, NEW c \in Harts, NEW p \in Procs, Runs(c, p),
         usertrap_end(c, p) \/ usertrap_back(c, p) \/ userret(c, p)
  PROVE  KernelInv' /\ Quiet
<1>1. code[p].pc \in {"sysret", "ret", "sret"} /\ lock' = lock
  BY DEF usertrap_end, usertrap_back, userret
<1>2. /\ Handing(c, p) /\ ~InHandler(c) /\ cpu[c].run = p /\ proc[p].state = "running"
      /\ proc[p].prog \in Seq(Calls) /\ ~cpu[c].user
      /\ cpu[c].stvec = IF code[p].pc = "sret" THEN "uservec" ELSE "kernelvec"
  BY <1>1, ProcessRuns
<1>3. /\ CpuIs(usertrapret(cpu[c]), cpu[c], FALSE, "uservec", FALSE)
      /\ code[p] \in Frame /\ proc[p] \in Proc /\ cpu[c] \in Cpu
      /\ code[p].spin = None /\ CodeType /\ ProcType
  BY <1>2, Usertrapret DEF Handing
<1>4. ASSUME usertrap_end(c, p), proc[p].killed PROVE KernelInv' /\ Quiet
  BY <1>1, <1>2, <1>3, <1>4, ExitMoves DEF usertrap_end, Handing
<1>5. ASSUME usertrap_end(c, p), ~proc[p].killed PROVE KernelInv' /\ Quiet
  <2> DEFINE r == [code[p] EXCEPT !.pc = "sret", !.n = 0, !.then = "none"]
             x == [proc[p] EXCEPT !.prog = Tail(proc[p].prog)]
  <2>1. /\ code' = [code EXCEPT ![p] = r] /\ code[p].pc = "sysret"
        /\ proc' = [proc EXCEPT ![p] = x] /\ cpu' = [cpu EXCEPT ![c] = usertrapret(cpu[c])]
    BY <1>5, Zenon DEF usertrap_end
  <2>2. Goes(r, code[p], "sret", 0, code[p].ch, "none")
    <3>1. "sret" \in PCs /\ 0 \in Int /\ "none" \in PCs
      BY DEF PCs
    <3> QED
      BY <1>3, <3>1, SetPcNThen, Zenon
  <2>3. x \in Proc /\ x.state = proc[p].state /\ x.prog \in Seq(Calls)
    <3>1. FrameInv(p) /\ proc[p].prog # <<>>
      <4>1. ProgramAt(p, code[p])
        BY <1>2 DEF Handing
      <4> QED
        BY <2>1, <4>1 DEF KernelInv, ProgramAt, SysCall
    <3>2. Tail(proc[p].prog) \in Seq(Calls)
      BY <1>2, <3>1
    <3> QED
      BY <1>3, <3>2 DEF Proc
  <2> HIDE DEF r, x
  <2>4. r \in Frame /\ r.spin = None /\ r.pc = "sret" /\ Depth(r) = 0
    BY <1>3, <2>2 DEF Goes, Depth, In, InSync, One
  <2> QED
    BY <1>1, <1>2, <1>3, <2>1, <2>3, <2>4, StaysWith
<1>6. ASSUME usertrap_back(c, p) PROVE KernelInv' /\ Quiet
  <2> DEFINE r == [code[p] EXCEPT !.pc = "sret"]
  <2>1. /\ code' = [code EXCEPT ![p] = r] /\ code[p].pc = "ret"
        /\ proc' = [proc EXCEPT ![p] = proc[p]] /\ cpu' = [cpu EXCEPT ![c] = usertrapret(cpu[c])]
    BY <1>3, <1>6 DEF usertrap_back, ProcType
  <2>2. r \in Frame /\ r.spin = None /\ r.pc = "sret"
    BY <1>3 DEF Frame, PCs
  <2> HIDE DEF r
  <2>4. Depth(r) = 0
    BY <2>2 DEF Depth, In, InSync, One
  <2> QED
    BY <1>1, <1>2, <1>3, <2>1, <2>2, <2>4, StaysWith
<1>7. ASSUME userret(c, p) PROVE KernelInv' /\ Quiet
  <2> DEFINE r == [code[p] EXCEPT !.pc = "user"]
             k == [cpu[c] EXCEPT !.user = TRUE, !.intr = TRUE]
  <2>1. /\ code' = [code EXCEPT ![p] = r] /\ code[p].pc = "sret"
        /\ proc' = [proc EXCEPT ![p] = proc[p]] /\ cpu' = [cpu EXCEPT ![c] = k]
    <3>1. cpu' = [cpu EXCEPT ![c] = k]
      BY <1>7, Zenon DEF userret
    <3> QED
      BY <1>3, <1>7, <3>1 DEF userret, ProcType
  <2>2. r \in Frame /\ r.spin = None /\ r.pc = "user"
    BY <1>3 DEF Frame, PCs
  <2>3. CpuIs(k, cpu[c], TRUE, "uservec", TRUE)
    <3>1. PICK a \in BOOLEAN : a = TRUE
      OBVIOUS
    <3>2. k = [cpu[c] EXCEPT !.user = a, !.intr = a]
      BY <3>1, Zenon
    <3>3. "uservec" \in {"kernelvec", "uservec"} /\ cpu[c].stvec = "uservec"
      BY <1>2, <2>1
    <3>4. CpuIs([cpu[c] EXCEPT !.user = a, !.intr = a], cpu[c], a, "uservec", a)
      BY <1>3, <3>3, TrapCpu, Zenon
    <3> QED
      BY <3>1, <3>2, <3>4, Zenon
  <2> HIDE DEF r, k
  <2>4. Depth(r) = 0 /\ ProgramAt(p, r)
    BY <1>2, <2>2 DEF Depth, In, InSync, One, ProgramAt, SysCall, Handing
  <2> QED
    BY <1>1, <1>2, <1>3, <2>1, <2>2, <2>3, <2>4, StaysWith
<1> QED
  BY <1>4, <1>5, <1>6, <1>7

\* A hart that is at the end of a trap, or out of acquire() and release().
LEMMA HartRests ==
  ASSUME KernelInv, NEW c \in Harts, code[c].pc = "eoi" \/ (~InHandler(c) /\ cpu[c].noff = 0)
  PROVE  /\ cpu[c] \in Cpu /\ cpu[c].noff = 0 /\ ~cpu[c].intena /\ ~cpu[c].panic
         /\ code[c] \in Frame /\ code[c].spin = None /\ Depth(code[c]) = 0
         /\ HandlerAt(code[c]) /\ \A lk \in Locks : lock[lk] # c
         /\ cpu[c].run = None => ~cpu[c].user /\ cpu[c].stvec = "kernelvec"
         /\ cpu[c].run # None => Handing(c, cpu[c].run)
<1>0. /\ CodeType /\ LockType /\ HartInv(c) /\ FrameInv(c) /\ cpu[c] \in Cpu /\ code[c] \in Frame
      /\ None \notin Harts \cup Procs \cup Locks
  BY NamesAssumption DEF KernelInv, CodeType, Locks
<1>1. Depth(code[c]) = 0 /\ \A lk \in Locks : ~In(code[c], lk)
  <2>1. CASE code[c].pc = "eoi"
    BY <2>1 DEF Depth, In, InSync, One, Locks
  <2>2. CASE ~InHandler(c)
    BY <2>2, NoneHasNothing DEF InHandler
  <2> QED
    BY <2>1, <2>2
<1>2. cpu[c].noff = 0 /\ Depth(Top(c)) = 0 /\ ~cpu[c].intena /\ ~cpu[c].panic
  <2>1. code[c].pc = "eoi" => Top(c) = code[c] /\ InHandler(c)
    BY DEF Top, InHandler
  <2> QED
    BY <1>0, <1>1, <2>1 DEF HartInv
<1>3. \A lk \in Locks : lock[lk] # c
  <2>1. \A lk \in Locks : ~In(Top(c), lk)
    BY <1>2, DepthNat
  <2> QED
    BY <1>0, <2>1 DEF HartInv
<1>4. cpu[c].run = None => ~cpu[c].user /\ cpu[c].stvec = "kernelvec"
  BY <1>0 DEF HartInv
<1>5. cpu[c].run # None => Handing(c, cpu[c].run)
  <2> SUFFICES ASSUME cpu[c].run # None PROVE Handing(c, cpu[c].run)
    OBVIOUS
  <2>1. cpu[c].run \in Procs
    BY <1>0 DEF Cpu
  <2>2. ~InHandler(c) => Depth(code[cpu[c].run]) = 0
    BY <1>2 DEF Top
  <2> QED
    BY <2>1, <2>2, HandsOver
<1>6. code[c].spin = None /\ HandlerAt(code[c])
  BY <1>0, <1>1 DEF FrameInv, Frame
<1> QED
  BY <1>0, <1>1, <1>2, <1>3, <1>4, <1>5, <1>6

\* The end of devintr().
LEMMA TrapEnds ==
  ASSUME KernelInv, NEW c \in Harts, trap_end(c)
  PROVE  KernelInv' /\ Quiet
<1>0. code[c].pc = "eoi" /\ lock' = lock /\ InHandler(c)
  BY DEF trap_end, InHandler
<1>1. /\ cpu[c] \in Cpu /\ cpu[c].noff = 0 /\ ~cpu[c].intena /\ ~cpu[c].panic
      /\ \A lk \in Locks : lock[lk] # c
      /\ cpu[c].run = None => ~cpu[c].user /\ cpu[c].stvec = "kernelvec"
  BY <1>0, HartRests
<1>2. HandlerAt(noFrame) /\ noFrame \in Frame /\ noFrame.pc = "none" /\ noFrame.spin = None
      /\ Depth(noFrame) = 0
  BY NoFrame DEF HandlerAt, InSync
<1>3. PICK b \in BOOLEAN : b = FALSE
  OBVIOUS
<1>4. CASE cpu[c].run # None
  <2> DEFINE p == cpu[c].run
  <2>0. p \in Procs /\ p = cpu[c].run /\ proc[p].state = "running"
    BY <1>1, <1>4 DEF Cpu, KernelInv, RunInv
  <2> HIDE DEF p
  <2>1. /\ Handing(c, p) /\ ~cpu[c].intr /\ ~cpu[c].intena /\ code[p].pc # "sret"
        /\ cpu[c].stvec = "kernelvec"
        /\ ~cpu[c].user => code[p].pc # "user"
    BY <1>0, <2>0, HandsOver
  <2>2. /\ code[p] \in Frame /\ code[p].spin = None /\ Depth(code[p]) = 0
        /\ ProgramAt(p, code[p]) /\ proc[p] \in Proc /\ CodeType /\ ProcType /\ p # c
        /\ code[p].pc \notin WP
    BY <2>1 DEF Handing
  <2>3. CASE cpu[c].user /\ proc[p].killed
    <3> DEFINE k == [cpu[c] EXCEPT !.user = FALSE]
    <3>1. exit(c, p, k)
      BY <1>4, <2>0, <2>3, Zenon DEF trap_end
    <3>2. k \in Cpu /\ k.noff = 0 /\ ~k.panic /\ ~k.user /\ k.stvec = "kernelvec"
      <4>1. k = [cpu[c] EXCEPT !.user = b]
        BY <1>3, Zenon
      <4>2. CpuIs([cpu[c] EXCEPT !.user = b], cpu[c], cpu[c].intr, cpu[c].stvec, b)
        <5>1. cpu[c].intr \in BOOLEAN /\ cpu[c].stvec \in {"kernelvec", "uservec"}
          BY <1>1 DEF Cpu
        <5> QED
          BY <1>1, <5>1, TrapCpu, Zenon
      <4> HIDE DEF k
      <4> QED
        BY <1>1, <1>3, <2>1, <4>1, <4>2 DEF CpuIs
    <3> HIDE DEF k
    <3> QED
      BY <1>0, <2>0, <2>1, <3>1, <3>2, ExitMoves
  <2>4. CASE cpu[c].user /\ ~proc[p].killed /\ code[c].n = 2
    <3> DEFINE r == [code[p] EXCEPT !.pc = "ret"]
    <3>1. yield(c, p, b, r)
      BY <1>3, <1>4, <2>0, <2>4, Zenon DEF trap_end
    <3>2. r \in Frame /\ r.spin = None /\ r.pc = "ret"
      BY <2>2 DEF Frame, PCs
    <3> HIDE DEF r
    <3>3. ProgramAt(p, r) /\ Depth(r) = 0
      BY <2>2, <3>2 DEF ProgramAt, SysCall, InSync, In, Depth, One
    <3> QED
      BY <1>0, <2>0, <3>1, <3>2, <3>3, YieldMoves
  <2>5. CASE cpu[c].user /\ ~proc[p].killed /\ code[c].n # 2
    <3> DEFINE r == [code[p] EXCEPT !.pc = "sret"]
    <3>1. /\ cpu' = [cpu EXCEPT ![c] = usertrapret(cpu[c])] /\ proc' = [proc EXCEPT ![p] = proc[p]]
          /\ code' = [code EXCEPT ![p] = r, ![c] = noFrame]
      <4>1. /\ cpu' = [cpu EXCEPT ![c] = usertrapret(cpu[c])] /\ proc' = proc
            /\ code' = [code EXCEPT ![p] = r, ![c] = noFrame]
        BY <1>4, <2>0, <2>5, Zenon DEF trap_end
      <4> QED
        BY <2>2, <4>1 DEF ProcType
    <3>2. r \in Frame /\ r.spin = None /\ r.pc = "sret"
      BY <2>2 DEF Frame, PCs
    <3> HIDE DEF r
    <3>3. ProgramAt(p, r) /\ Depth(r) = 0
      BY <2>2, <3>2 DEF ProgramAt, SysCall, InSync, In, Depth, One
    <3>4. CpuIs(usertrapret(cpu[c]), cpu[c], FALSE, "uservec", FALSE)
      BY <1>1, Usertrapret
    <3>5. Fits(r, noFrame, usertrapret(cpu[c]))
      BY <1>1, <1>2, <3>2, <3>3, <3>4 DEF Fits, CpuIs
    <3>6. Sits(c, p, r, noFrame, proc[p], usertrapret(cpu[c]))
      BY <1>0, <1>1, <2>0, <2>2, <3>1, <3>3, <3>4, <3>5 DEF Sits, CpuIs
    <3> QED
      BY <2>0, <3>6, SitMoves
  <2>6. CASE ~cpu[c].user /\ code[c].n = 2
    <3>1. PICK t \in BOOLEAN : t = TRUE
      OBVIOUS
    <3>2. yield(c, p, t, code[p])
      BY <1>4, <2>0, <2>6, <3>1, Zenon DEF trap_end
    <3> QED
      BY <1>0, <2>0, <2>1, <2>2, <2>6, <3>2, YieldMoves
  <2>7. CASE ~cpu[c].user /\ code[c].n # 2
    <3> DEFINE k == [cpu[c] EXCEPT !.intr = TRUE]
    <3>1. cpu' = [cpu EXCEPT ![c] = k] /\ code' = [code EXCEPT ![c] = noFrame] /\ proc' = proc
      BY <1>4, <2>0, <2>7, Zenon DEF trap_end
    <3>2. /\ code' = [code EXCEPT ![p] = code[p], ![c] = noFrame]
          /\ proc' = [proc EXCEPT ![p] = proc[p]]
      BY <2>0, <2>2, <3>1 DEF CodeType, ProcType
    <3>3. CpuIs(k, cpu[c], TRUE, cpu[c].stvec, cpu[c].user)
      <4>1. PICK t \in BOOLEAN : t = TRUE
        OBVIOUS
      <4>2. k = [cpu[c] EXCEPT !.intr = t]
        BY <4>1, Zenon
      <4>3. cpu[c].user \in BOOLEAN /\ cpu[c].stvec \in {"kernelvec", "uservec"}
        BY <1>1 DEF Cpu
      <4>4. CpuIs([cpu[c] EXCEPT !.intr = t], cpu[c], t, cpu[c].stvec, cpu[c].user)
        BY <1>1, <4>3, TrapCpu, Zenon
      <4> QED
        BY <4>1, <4>2, <4>4, Zenon
    <3> HIDE DEF k
    <3>5. Fits(code[p], noFrame, k)
      BY <1>1, <1>2, <2>1, <2>2, <2>7, <3>3 DEF Fits, CpuIs
    <3>6. Sits(c, p, code[p], noFrame, proc[p], k)
      BY <1>0, <1>1, <2>0, <2>2, <3>1, <3>2, <3>3, <3>5 DEF Sits, CpuIs
    <3> QED
      BY <2>0, <3>6, SitMoves
  <2> QED
    BY <2>3, <2>4, <2>5, <2>6, <2>7
<1>5. CASE cpu[c].run = None
  <2> DEFINE k == [cpu[c] EXCEPT !.intr = TRUE]
  <2>1. cpu' = [cpu EXCEPT ![c] = k] /\ code' = [code EXCEPT ![c] = noFrame] /\ proc' = proc
    BY <1>5, Zenon DEF trap_end
  <2>3. CpuIs(k, cpu[c], TRUE, cpu[c].stvec, cpu[c].user)
    <4>1. PICK t \in BOOLEAN : t = TRUE
      OBVIOUS
    <4>2. k = [cpu[c] EXCEPT !.intr = t]
      BY <4>1, Zenon
    <4>3. cpu[c].user \in BOOLEAN /\ cpu[c].stvec \in {"kernelvec", "uservec"}
      BY <1>1 DEF Cpu
    <4>4. CpuIs([cpu[c] EXCEPT !.intr = t], cpu[c], t, cpu[c].stvec, cpu[c].user)
      BY <1>1, <4>3, TrapCpu, Zenon
    <4> QED
      BY <4>1, <4>2, <4>4, Zenon
  <2> HIDE DEF k
  <2>5. Fits(noFrame, noFrame, k)
    BY <1>1, <1>2, <1>5, <2>3 DEF Fits, CpuIs
  <2>6. k.run = None
    BY <1>5, <2>3 DEF CpuIs
  <2> QED
    BY <1>0, <1>1, <1>5, <2>1, <2>5, <2>6, IdleMoves
<1> QED
  BY <1>4, <1>5

\* A hart takes an interrupt.
LEMMA InterruptSteps ==
  ASSUME KernelInv, NEW c \in Harts, ~InHandler(c), NEW cause \in {"external", "software"},
         interrupt(c, cause)
  PROVE  KernelInv' /\ Quiet
<1>0. /\ HartInv(c) /\ cpu[c].intr /\ lock' = lock /\ proc' = proc
      /\ CodeType /\ ProcType /\ RunInv /\ cpu[c] \in Cpu /\ code[c].pc = "none"
  BY DEF KernelInv, interrupt, CodeType, InHandler
<1>1. cpu[c].noff = 0
  <2>1. cpu[c].noff \in Nat
    BY <1>0 DEF Cpu
  <2> QED
    BY <1>0, <2>1 DEF HartInv
<1>2. /\ ~cpu[c].intena /\ ~cpu[c].panic /\ \A lk \in Locks : lock[lk] # c
      /\ code[c] \in Frame /\ code[c].spin = None /\ HandlerAt(code[c])
      /\ cpu[c].run = None => ~cpu[c].user /\ cpu[c].stvec = "kernelvec"
      /\ cpu[c].run # None => Handing(c, cpu[c].run)
  BY <1>1, HartRests
<1> DEFINE at == IF cause = "external" THEN "claim" ELSE "clock"
           g == [code[c] EXCEPT !.pc = at]
           k == [cpu[c] EXCEPT !.intr = FALSE, !.stvec = "kernelvec",
                   !.panic = (cpu[c].stvec # IF cpu[c].user THEN "uservec" ELSE "kernelvec")]
<1>3. cpu' = [cpu EXCEPT ![c] = k] /\ code' = [code EXCEPT ![c] = g]
  <2>1. cpu' = [cpu EXCEPT ![c] = k]
    BY Zenon DEF interrupt
  <2>2. code' = [code EXCEPT ![c] = g]
    BY Zenon DEF interrupt
  <2> QED
    BY <2>1, <2>2
<1>4. cpu[c].stvec = IF cpu[c].user THEN "uservec" ELSE "kernelvec"
  BY <1>0 DEF HartInv
<1>5. /\ k \in Cpu /\ k.noff = 0 /\ ~k.intena /\ k.run = cpu[c].run /\ ~k.panic /\ ~k.intr
      /\ k.stvec = "kernelvec" /\ (k.user <=> cpu[c].user)
  <2>1. PICK b \in BOOLEAN : b = FALSE
    OBVIOUS
  <2>2. k = [cpu[c] EXCEPT !.intr = b, !.stvec = "kernelvec", !.panic = b]
    <3>1. (cpu[c].stvec # IF cpu[c].user THEN "uservec" ELSE "kernelvec") = b
      BY <1>4, <2>1
    <3> QED
      BY <2>1, <3>1, Zenon
  <2>3. [cpu[c] EXCEPT !.intr = b, !.stvec = "kernelvec", !.panic = b] \in Cpu
    BY <1>0 DEF Cpu
  <2> QED
    BY <1>0, <1>1, <1>2, <1>4, <2>1, <2>2, <2>3 DEF Cpu
<1>6. g \in Frame /\ g.spin = None /\ g.pc \in {"claim", "clock"} /\ HandlerAt(g)
      /\ Depth(g) = 0
  <2>1. at \in PCs /\ at \in {"claim", "clock"}
    BY DEF PCs
  <2> HIDE DEF at
  <2>2. g \in Frame /\ g.spin = None /\ g.pc \in {"claim", "clock"}
    BY <1>2, <2>1 DEF Frame
  <2> HIDE DEF g
  <2> QED
    BY <2>2 DEF HandlerAt, InSync, Depth, In, One
<1> HIDE DEF g, k
<1>7. CASE cpu[c].run = None
  <2>1. noFrame \in Frame /\ noFrame.pc = "none" /\ noFrame.spin = None /\ Depth(noFrame) = 0
    BY NoFrame
  <2>2. Fits(noFrame, g, k)
    BY <1>2, <1>5, <1>6, <1>7, <2>1 DEF Fits
  <2>3. k.run = None
    BY <1>5, <1>7
  <2> QED
    BY <1>0, <1>2, <1>3, <1>7, <2>2, <2>3, IdleMoves
<1>8. CASE cpu[c].run # None
  <2> DEFINE p == cpu[c].run
  <2>0. p \in Procs /\ p = cpu[c].run /\ Handing(c, p) /\ proc[p].state = "running"
    BY <1>0, <1>2, <1>8 DEF Cpu, RunInv
  <2> HIDE DEF p
  <2>1. /\ code[p] \in Frame /\ code[p].spin = None /\ Depth(code[p]) = 0
        /\ ProgramAt(p, code[p]) /\ proc[p] \in Proc /\ p # c
        /\ code[p].pc \notin WP
    BY <2>0 DEF Handing
  <2>2. code' = [code EXCEPT ![p] = code[p], ![c] = g] /\ proc' = [proc EXCEPT ![p] = proc[p]]
    BY <1>0, <1>3, <2>0, <2>1 DEF CodeType, ProcType
  <2>3. code[p].pc # "sret" /\ (cpu[c].user <=> code[p].pc = "user")
    <3>1. p # None
      BY <1>8, <2>0
    <3> QED
      BY <1>0, <2>0, <3>1 DEF HartInv
  <2>4. Fits(code[p], g, k)
    BY <1>2, <1>5, <1>6, <2>1, <2>3 DEF Fits
  <2>5. Sits(c, p, code[p], g, proc[p], k)
    BY <1>0, <1>2, <1>3, <1>5, <2>0, <2>1, <2>2, <2>4 DEF Sits
  <2> QED
    BY <2>0, <2>5, SitMoves
<1> QED
  BY <1>7, <1>8

\* The scheduler.
LEMMA SchedulerSteps ==
  ASSUME KernelInv, NEW c \in Harts, cpu[c].run = None, ~InHandler(c),
         scheduler_on(c) \/ \E p \in Procs : scheduler(c, p)
  PROVE  KernelInv' /\ Quiet
<1>0. /\ HartInv(c) /\ CodeType /\ ProcType /\ RunInv /\ cpu[c] \in Cpu /\ Depth(code[c]) = 0
      /\ code[c].pc = "none"
  BY NoneHasNothing DEF KernelInv, CodeType, InHandler
<1>1. cpu[c].noff = 0
  BY <1>0 DEF HartInv, Top
<1>2. /\ ~cpu[c].intena /\ ~cpu[c].panic /\ \A lk \in Locks : lock[lk] # c
      /\ code[c] \in Frame /\ code[c].spin = None /\ HandlerAt(code[c])
      /\ ~cpu[c].user /\ cpu[c].stvec = "kernelvec"
  BY <1>1, HartRests
<1>3. noFrame \in Frame /\ noFrame.pc = "none" /\ noFrame.spin = None /\ Depth(noFrame) = 0
  BY NoFrame
<1>4. ASSUME scheduler_on(c) PROVE KernelInv' /\ Quiet
  <2> DEFINE k == [cpu[c] EXCEPT !.intr = TRUE]
  <2>1. /\ cpu' = [cpu EXCEPT ![c] = k] /\ code' = [code EXCEPT ![c] = code[c]]
        /\ proc' = proc /\ lock' = lock
    BY <1>0, <1>4 DEF scheduler_on, CodeType
  <2>2. CpuIs(k, cpu[c], TRUE, cpu[c].stvec, cpu[c].user)
    <3>1. PICK t \in BOOLEAN : t = TRUE
      OBVIOUS
    <3>2. k = [cpu[c] EXCEPT !.intr = t]
      BY <3>1, Zenon
    <3>3. cpu[c].user \in BOOLEAN /\ cpu[c].stvec \in {"kernelvec", "uservec"}
      BY <1>0 DEF Cpu
    <3>4. CpuIs([cpu[c] EXCEPT !.intr = t], cpu[c], t, cpu[c].stvec, cpu[c].user)
      BY <1>0, <3>3, TrapCpu, Zenon
    <3> QED
      BY <3>1, <3>2, <3>4, Zenon
  <2> HIDE DEF k
  <2>3. Fits(noFrame, code[c], k)
    BY <1>0, <1>1, <1>2, <1>3, <2>2 DEF Fits, CpuIs
  <2>4. k.run = None
    BY <2>2 DEF CpuIs
  <2> QED
    BY <1>0, <1>2, <2>1, <2>3, <2>4, IdleMoves
<1>5. ASSUME NEW p \in Procs, scheduler(c, p) PROVE KernelInv' /\ Quiet
  <2>0. /\ code[p] \in Frame /\ proc[p] \in Proc /\ p # c /\ proc[p].state = "runnable"
        /\ FrameInv(p) /\ WaitInv(p) /\ proc[p].trapped \in BOOLEAN /\ proc[p].intena \in BOOLEAN
        /\ lock' = lock
    <3>1. code[p] \in Frame /\ proc[p] \in Proc /\ p # c /\ FrameInv(p) /\ WaitInv(p)
      BY <1>0, NamesAssumption DEF KernelInv, CodeType, ProcType
    <3>2. proc[p].state = "runnable" /\ lock' = lock
      BY <1>5 DEF scheduler
    <3>3. proc[p].trapped \in BOOLEAN /\ proc[p].intena \in BOOLEAN
      BY <3>1 DEF Proc
    <3> QED
      BY <3>1, <3>2, <3>3
  <2>1. Depth(code[p]) = 0 /\ code[p].spin = None /\ ProgramAt(p, code[p])
        /\ code[p].pc \notin {"user", "sret"}
    <3>1. Depth(code[p]) = 0 /\ code[p].pc \notin {"user", "sret"} /\ ProgramAt(p, code[p])
      BY <2>0 DEF WaitInv, FrameInv
    <3>2. code[p].spin = None
      <4>1. code[p].spin # None => In(code[p], code[p].spin) /\ code[p].spin \in Locks
        BY <2>0 DEF FrameInv, Frame
      <4> QED
        BY <3>1, <4>1, DepthNat
    <3> QED
      BY <3>1, <3>2
  <2> DEFINE at == IF code[p].pc = "new" THEN "ret" ELSE code[p].pc
             r == [code[p] EXCEPT !.pc = at]
             x == [proc[p] EXCEPT !.state = "running", !.chan = None, !.trapped = FALSE]
             m == push_off(cpu[c])
             n == IF code[p].pc = "new" THEN m ELSE [m EXCEPT !.intena = proc[p].intena]
             back == pop_off(n)
             k == [back EXCEPT !.run = p, !.intr = back.intr \/ proc[p].trapped]
  <2>2. /\ code' = [code EXCEPT ![p] = r] /\ proc' = [proc EXCEPT ![p] = x]
        /\ cpu' = [cpu EXCEPT ![c] = k]
    <3>1. code' = [code EXCEPT ![p] = r]
      BY <1>5, Zenon DEF scheduler
    <3>2. proc' = [proc EXCEPT ![p] = x]
      BY <1>5, Zenon DEF scheduler
    <3>3. cpu' = [cpu EXCEPT ![c] = k]
      BY <1>5, Zenon DEF scheduler
    <3> QED
      BY <3>1, <3>2, <3>3, Zenon
  <2>3. code' = [code EXCEPT ![p] = r, ![c] = code[c]]
    BY <1>0, <2>0, <2>2 DEF CodeType
  <2>4. /\ r \in Frame /\ r.spin = None /\ Depth(r) = 0 /\ ProgramAt(p, r)
        /\ r.pc \notin {"user", "sret"}
    <3>1. at \in PCs /\ (at = code[p].pc \/ at = "ret") /\ at \notin {"user", "sret"}
      BY <2>0, <2>1 DEF PCs, Frame
    <3> HIDE DEF at
    <3>2. Goes(r, code[p], at, code[p].n, code[p].ch, code[p].then)
      BY <2>0, <3>1, SetPc, Zenon
    <3> HIDE DEF r
    <3>3. ProgramAt(p, r)
      BY <2>1, <3>1, <3>2 DEF Goes, ProgramAt, SysCall, InSync
    <3>4. Depth(r) = 0
      <4>1. CASE at = "ret"
        BY <3>2, <4>1 DEF Goes, Depth, In, InSync, One
      <4>2. CASE at = code[p].pc
        <5>1. \A lk \in Locks : In(r, lk) <=> In(code[p], lk)
          BY <3>2, <4>2 DEF Goes, In, InSync, Locks
        <5>2. Depth(r) = Depth(code[p])
          BY <3>2, <4>2, <5>1, DepthOf DEF Goes
        <5> QED
          BY <2>1, <5>2
      <4> QED
        BY <3>1, <4>1, <4>2
    <3> QED
      BY <2>1, <3>1, <3>2, <3>3, <3>4 DEF Goes
  <2>5. x \in Proc /\ x.state = "running" /\ x.prog = proc[p].prog
    <3>1. PICK b \in BOOLEAN : b = FALSE
      OBVIOUS
    <3>2. x = [proc[p] EXCEPT !.state = "running", !.chan = None, !.trapped = b]
      BY <3>1, Zenon
    <3>3. None \in Chans
      BY DEF Chans
    <3>4. [proc[p] EXCEPT !.state = "running", !.chan = None, !.trapped = b] \in Proc
      BY <2>0, <3>3 DEF Proc
    <3> QED
      BY <2>0, <3>2, <3>4 DEF Proc
  <2>6. /\ m \in Cpu /\ m.run = None /\ m.stvec = "kernelvec" /\ ~m.user /\ ~m.panic
        /\ ~m.intr /\ m.noff = 1
    BY <1>0, <1>1, <1>2, PushOff
  <2> HIDE DEF m
  <2>7. /\ n \in Cpu /\ n.run = None /\ n.stvec = "kernelvec" /\ ~n.user /\ ~n.panic
        /\ ~n.intr /\ n.noff = 1
    BY <2>0, <2>6 DEF Cpu
  <2> HIDE DEF n
  <2>8. /\ back \in Cpu /\ back.noff = 0 /\ ~back.intena /\ ~back.panic /\ ~back.user
        /\ back.stvec = "kernelvec"
    <3>1. n.noff > 0 /\ n.noff - 1 = 0
      BY <2>7
    <3> QED
      BY <2>7, <3>1, PopOff
  <2> HIDE DEF back
  <2>9. /\ k \in Cpu /\ k.run = p /\ k.noff = 0 /\ ~k.intena /\ ~k.panic /\ ~k.user
        /\ k.stvec = "kernelvec"
    <3>1. PICK b \in BOOLEAN : b = (back.intr \/ proc[p].trapped)
      OBVIOUS
    <3>2. k = [back EXCEPT !.run = p, !.intr = b]
      BY <3>1, Zenon
    <3>3. [back EXCEPT !.run = p, !.intr = b] \in Cpu
      BY <2>8 DEF Cpu
    <3> QED
      BY <2>8, <3>2, <3>3 DEF Cpu
  <2> HIDE DEF k, x, r
  <2>10. Fits(r, code[c], k)
    BY <1>0, <1>2, <2>4, <2>9 DEF Fits
  <2>12. code[p].pc \notin WP
    BY <2>1, DepthNat DEF WP, Depth, In, InSync, One
  <2>11. Sits(c, p, r, code[c], x, k)
    BY <1>0, <1>2, <2>0, <2>2, <2>3, <2>4, <2>5, <2>9, <2>10, <2>12 DEF Sits
  <2> QED
    BY <2>11, SitMoves
<1> QED
  BY <1>4, <1>5

\* A timer interrupt becomes pending.
LEMMA TimerSteps ==
  ASSUME KernelInv, NEW c \in Harts, Timer(c)
  PROVE  KernelInv' /\ Quiet
<1>0. /\ None \notin Harts \cup Procs /\ CodeType /\ ProcType /\ LockType /\ RunInv
      /\ HartInv(c) /\ FrameInv(c) /\ cpu[c] \in Cpu
      /\ code' = code /\ lock' = lock /\ proc' = proc
  BY NamesAssumption DEF KernelInv, CodeType, Timer
<1>1. PICK p \in Procs \cup {None} : p = cpu[c].run
  BY <1>0 DEF Cpu
<1> DEFINE k == [cpu[c] EXCEPT !.ssip = TRUE,
                               !.timers = IF cpu[c].timers > 0 THEN cpu[c].timers - 1 ELSE 0]
<1>2. cpu' = [cpu EXCEPT ![c] = k]
  BY Zenon DEF Timer
<1>3. /\ k \in Cpu /\ k.run = cpu[c].run /\ k.stvec = cpu[c].stvec /\ k.user = cpu[c].user
      /\ k.panic = cpu[c].panic /\ k.noff = cpu[c].noff /\ k.intr = cpu[c].intr
      /\ k.intena = cpu[c].intena
  <2>0. cpu[c].timers \in Nat
    BY <1>0 DEF Cpu
  <2> DEFINE n == IF cpu[c].timers > 0 THEN cpu[c].timers - 1 ELSE 0
  <2>1. PICK b \in BOOLEAN : b = TRUE
    OBVIOUS
  <2>4. n \in Nat
    BY <2>0
  <2>2. k = [cpu[c] EXCEPT !.ssip = b, !.timers = n]
    BY <2>1, Zenon
  <2> HIDE DEF n
  <2>3. [cpu[c] EXCEPT !.ssip = b, !.timers = n] \in Cpu
    BY <1>0, <2>4 DEF Cpu
  <2> QED
    BY <1>0, <2>2, <2>3 DEF Cpu
<1> HIDE DEF k
<1>4. CodeType' /\ ProcType' /\ LockType' /\ LocksKept(c) /\ cpu'[c] = k
      /\ \A d \in Harts \ {c} : cpu'[d] = cpu[d]
  BY <1>0, <1>2, <1>3 DEF CodeType, ProcType, LockType, LocksKept
<1>5. \A q \in Procs : ProcKept(q)
  BY <1>0 DEF ProcKept
<1>6. ASSUME NEW f \in Harts \cup Procs PROVE FrameInv(f)'
  <2>1. FrameInv(f) /\ code'[f] = code[f]
    BY <1>0 DEF KernelInv
  <2> QED
    BY <1>5, <2>1, FrameStays
<1>7. HartInv(c)'
  <2>1. Top(c)' = Top(c) /\ (InHandler(c)' <=> InHandler(c))
    BY <1>0, <1>3, <1>4 DEF Top, InHandler
  <2> QED
    BY <1>0, <1>3, <1>4, <2>1 DEF HartInv
<1>8. p # None => /\ proc[p].state = "running" /\ FrameInv(p)' /\ WaitInv(p)'
                  /\ proc'[p].state = "running"
  BY <1>0, <1>1, <1>6 DEF RunInv, WaitInv
<1>9. \A f \in (Harts \cup Procs) \ {c, p} : code'[f] = code[f]
  BY <1>0
<1>10. Quiet
  BY <1>0 DEF Quiet
<1> QED
  BY <1>0, <1>1, <1>3, <1>4, <1>5, <1>6, <1>7, <1>8, <1>9, <1>10, KernelKept

\* The steps that are not quiet.
Busy == \E c \in Harts, f \in Harts \cup Procs :
          Runs(c, f) /\ code[f].spin = None /\ (uartstart(c, f) \/ uartputc_sync(c, f))

\* What a step does to the devices, the console's buffer and the clock: most leave
\* them alone.
Same == UNCHANGED <<cons, tx, dev, ticks, written, sent>>

\* The steps that do not: of handlers,
HandlerData(c) == \/ clockintr(c) \/ plic_claim(c) \/ plic_complete(c)
                  \/ uartintr(c) \/ consoleintr_end(c)

\* of processes,
ProcessData(c, p) == uartputc(c, p) \/ consoleread(c, p)

\* and of the devices; those of the uart's writers are Busy.
Data == \/ Same \/ Transmit \/ Receive
        \/ \E c \in Harts : Runs(c, c) /\ code[c].spin = None /\ HandlerData(c)
        \/ \E c \in Harts, p \in Procs :
             Runs(c, p) /\ code[p].spin = None /\ ProcessData(c, p)

Step == (Quiet /\ Data) \/ Busy

\* The steps that leave them alone.
LEMMA SameSteps ==
  ASSUME NEW c, NEW f,
         \/ \E cause \in {"external", "software"} : interrupt(c, cause)
         \/ acquire_spin(c, f) \/ trap_end(c) \/ consoleintr(c) \/ printf(c, f)
         \/ usertrap(c, f) \/ usertrap_end(c, f) \/ usertrap_back(c, f) \/ userret(c, f)
         \/ consolewrite(c, f) \/ sys_sleep(c, f) \/ sys_kill(c, f) \/ doze(c, f) \/ woken(c, f)
         \/ scheduler_on(c) \/ scheduler(c, f)
  PROVE  Same
<1>1. ASSUME NEW cause \in {"external", "software"}, interrupt(c, cause) PROVE Same
  BY <1>1, Zenon DEF interrupt, Same
<1>2. CASE acquire_spin(c, f)
  BY <1>2, Zenon DEF acquire_spin, Same
<1>3. CASE trap_end(c)
  BY <1>3, Zenon DEF trap_end, Same
<1>4. CASE consoleintr(c)
  BY <1>4, Zenon DEF consoleintr, Same
<1>5. CASE printf(c, f)
  BY <1>5, Zenon DEF printf, Same
<1>6. CASE usertrap(c, f)
  BY <1>6, Zenon DEF usertrap, Same
<1>7. CASE usertrap_end(c, f)
  BY <1>7, Zenon DEF usertrap_end, Same
<1>8. CASE usertrap_back(c, f)
  BY <1>8, Zenon DEF usertrap_back, Same
<1>9. CASE userret(c, f)
  BY <1>9, Zenon DEF userret, Same
<1>10. CASE consolewrite(c, f)
  BY <1>10, Zenon DEF consolewrite, Same
<1>11. CASE sys_sleep(c, f)
  BY <1>11, Zenon DEF sys_sleep, Same
<1>12. CASE sys_kill(c, f)
  BY <1>12, Zenon DEF sys_kill, Same
<1>13. CASE doze(c, f)
  BY <1>13, Zenon DEF doze, Same
<1>14. CASE woken(c, f)
  BY <1>14, Zenon DEF woken, Same
<1>15. CASE scheduler_on(c)
  BY <1>15, Zenon DEF scheduler_on, Same
<1>16. CASE scheduler(c, f)
  BY <1>16, Zenon DEF scheduler, Same
<1> QED
  BY <1>1, <1>2, <1>3, <1>4, <1>5, <1>6, <1>7, <1>8, <1>9, <1>10, <1>11, <1>12, <1>13, <1>14,
     <1>15, <1>16

\* Every step of the system keeps the kernel's invariant, and is one of these.
LEMMA KernelSteps ==
  ASSUME IInv, [Next]_vars
  PROVE  KernelInv' /\ Step
<1>0. KernelInv
  BY DEF IInv
<1>1. ASSUME UNCHANGED <<cpu, code, lock, proc>>, Data PROVE KernelInv' /\ Step
  <2>1. CodeType' /\ LockType' /\ ProcType' /\ RunInv'
    BY <1>0, <1>1 DEF KernelInv, CodeType, LockType, ProcType, RunInv
  <2>2. ASSUME NEW f \in Harts \cup Procs
        PROVE  FrameInv(f)' /\ (f \in Procs => WaitInv(f)')
    <3>1. /\ FrameInv(f) /\ (f \in Procs => WaitInv(f)) /\ code'[f] = code[f]
          /\ proc'[f] = proc[f]
      BY <1>0, <1>1 DEF KernelInv
    <3> QED
      BY <3>1, FrameStays DEF ProcKept
  <2>3. \A p \in Procs : WaitInv(p)'
    BY <2>2
  <2>4. ASSUME NEW c \in Harts PROVE HartInv(c)'
    <3>1. HartInv(c)
      BY <1>0 DEF KernelInv
    <3>2. Top(c)' = Top(c) /\ (InHandler(c)' <=> InHandler(c))
      BY <1>1 DEF Top, InHandler
    <3> QED
      BY <1>1, <3>1, <3>2 DEF HartInv
  <2>5. Quiet
    BY <1>1 DEF Quiet
  <2> QED
    BY <1>1, <2>1, <2>2, <2>3, <2>4, <2>5 DEF KernelInv, Step
<1>2. ASSUME Transmit \/ Receive PROVE KernelInv' /\ Step
  BY <1>1, <1>2 DEF Transmit, Receive, Data
<1>3. ASSUME NEW c \in Harts, Timer(c) PROVE KernelInv' /\ Step
  BY <1>0, <1>3, TimerSteps DEF Step, Data, Same, Timer
<1>4. ASSUME NEW c \in Harts, Hart(c) PROVE KernelInv' /\ Step
  <2>1. ASSUME ~InHandler(c), NEW cause \in {"external", "software"}, interrupt(c, cause)
        PROVE  KernelInv' /\ Step
    BY <1>0, <2>1, InterruptSteps, SameSteps DEF Step, Data
  <2>2. ASSUME NEW f, Runs(c, f), acquire_spin(c, f) PROVE KernelInv' /\ Step
    BY <1>0, <2>2, SpinMoves, SameSteps DEF Step, Data
  <2>3. ASSUME InHandler(c), acquire_spin(c, c) PROVE KernelInv' /\ Step
    BY <2>2, <2>3 DEF Runs
  <2>4. ASSUME ~InHandler(c), cpu[c].run # None, acquire_spin(c, cpu[c].run)
        PROVE  KernelInv' /\ Step
    <3>1. cpu[c].run \in Procs
      BY <1>0, <2>4 DEF KernelInv, CodeType, Cpu
    <3>2. Runs(c, cpu[c].run)
      BY <2>4, <3>1 DEF Runs
    <3> QED
      BY <2>2, <2>4, <3>2
  <2>5. ASSUME Handler(c) PROVE KernelInv' /\ Step
    <3>1. InHandler(c) /\ code[c].spin = None /\ Runs(c, c)
      BY <2>5 DEF Handler, Runs
    <3>2. CASE trap_end(c)
      BY <1>0, <3>2, TrapEnds, SameSteps DEF Step, Data
    <3>3. CASE clockintr(c)
      BY <3>1, <3>3, ClockSteps DEF Step, Data, HandlerData
    <3>4. CASE plic_claim(c) \/ plic_complete(c)
      BY <3>1, <3>4, PlicSteps DEF Step, Data, HandlerData
    <3>5. CASE uartintr(c)
      BY <3>1, <3>5, UartintrSteps DEF Step, Data, HandlerData
    <3>6. CASE uartstart(c, c)
      BY <3>1, <3>6, UartstartSteps DEF Busy, Step
    <3>7. CASE uartputc_sync(c, c)
      BY <3>1, <3>7, SyncSteps DEF Busy, Step
    <3>8. CASE consoleintr(c)
      BY <3>1, <3>8, ConsoleintrSteps, SameSteps DEF Step, Data
    <3>9. CASE consoleintr_end(c)
      BY <3>1, <3>9, ConsoleintrEnds DEF Step, Data, HandlerData
    <3>10. CASE printf(c, c)
      BY <3>1, <3>10, PrintfSteps, SameSteps DEF Step, Data
    <3> QED
      BY <2>5, <3>2, <3>3, <3>4, <3>5, <3>6, <3>7, <3>8, <3>9, <3>10 DEF Handler
  <2>6. ASSUME NEW p \in Procs, Kernel(c, p) PROVE KernelInv' /\ Step
    <3>1. Runs(c, p) /\ code[p].spin = None
      BY <2>6 DEF Kernel, Runs
    <3>2. CASE usertrap(c, p)
      BY <1>0, <3>1, <3>2, UsertrapSteps, SameSteps DEF Step, Data
    <3>3. CASE usertrap_end(c, p) \/ usertrap_back(c, p) \/ userret(c, p)
      BY <1>0, <3>1, <3>3, UserretSteps, SameSteps DEF Step, Data
    <3>4. CASE consolewrite(c, p)
      BY <3>1, <3>4, ConsolewriteSteps, SameSteps DEF Step, Data
    <3>5. CASE uartputc(c, p)
      BY <3>1, <3>5, UartputcSteps, SleepSteps DEF Step, Data, ProcessData
    <3>6. CASE uartstart(c, p)
      BY <3>1, <3>6, UartstartSteps DEF Busy, Step
    <3>7. CASE uartputc_sync(c, p)
      BY <3>1, <3>7, SyncSteps DEF Busy, Step
    <3>8. CASE printf(c, p)
      BY <3>1, <3>8, PrintfSteps, SameSteps DEF Step, Data
    <3>9. CASE consoleread(c, p)
      BY <3>1, <3>9, ConsolereadSteps DEF Step, Data, ProcessData
    <3>10. CASE sys_sleep(c, p)
      BY <3>1, <3>10, SysSleepSteps, SameSteps DEF Step, Data
    <3>11. CASE sys_kill(c, p)
      BY <3>1, <3>11, SysKillSteps, SameSteps DEF Step, Data
    <3>12. CASE doze(c, p)
      BY <3>1, <3>12, SleepSteps, SameSteps DEF Step, Data
    <3>13. CASE woken(c, p)
      BY <3>1, <3>13, WokenSteps, SameSteps DEF Step, Data
    <3> QED
      BY <2>6, <3>2, <3>3, <3>4, <3>5, <3>6, <3>7, <3>8, <3>9, <3>10, <3>11, <3>12, <3>13
      DEF Kernel
  <2>7. ASSUME cpu[c].run = None, ~InHandler(c), scheduler_on(c) \/ \E p \in Procs : scheduler(c, p)
        PROVE  KernelInv' /\ Step
    BY <1>0, <2>7, SchedulerSteps, SameSteps DEF Step, Data
  <2> QED
    BY <1>4, <2>1, <2>3, <2>4, <2>5, <2>6, <2>7 DEF Hart
<1> QED
  BY <1>1, <1>2, <1>3, <1>4 DEF Next, vars, Data, Same

(***************************************************************************)
(* The steps of uartstart() and uartputc_sync() that matter to the uart:   *)
(* frame f takes a character from the ring or puts it into the fifo, finds *)
(* the fifo empty or puts a character of its own there.                    *)
(***************************************************************************)
\* No other frame moves.
Only(f) == \A g \in (Harts \cup Procs) \ {f} : code'[g] = code[g]

Takes(f) == /\ code[f].pc = "start" /\ dev.fifo = <<>> /\ tx.w # tx.r
            /\ tx' = [tx EXCEPT !.r = tx.r + 1]
            /\ Only(f) /\ code'[f].pc = "thr" /\ code'[f].spin = None
            /\ code'[f].ch = tx.buf[tx.r % TxSize]
            /\ UNCHANGED <<cons, dev, ticks, written, sent>>

Puts(f) == /\ code[f].pc = "thr" /\ WriteTHR(code[f].ch)
           /\ Only(f) /\ code'[f].pc = "start"
           /\ UNCHANGED <<cons, tx, ticks, written, sent>>

Polls(f) == /\ code[f].pc = "sync" /\ dev.fifo = <<>>
            /\ Only(f) /\ code'[f].pc = "sync_thr"
            /\ Same

Echoes(f) == /\ code[f].pc = "sync_thr" /\ WriteTHR(Echo)
             /\ Only(f) /\ code'[f].pc = "sync"
             /\ UNCHANGED <<cons, tx, ticks, written, sent>>

UartStep(f) == code[f].spin = None /\ (Takes(f) \/ Puts(f) \/ Polls(f) \/ Echoes(f))

\* The others among their steps are quiet.
LEMMA BusySteps ==
  ASSUME KernelInv, Busy
  PROVE  (Quiet /\ Same) \/ \E f \in Harts \cup Procs : UartStep(f)
<1>1. PICK c \in Harts, f \in Harts \cup Procs :
        Runs(c, f) /\ code[f].spin = None /\ (uartstart(c, f) \/ uartputc_sync(c, f))
  BY Zenon DEF Busy
<1>2. /\ code \in [Harts \cup Procs -> Frame] /\ code[f] \in Frame
      /\ f \in Harts => HandlerAt(code[f])
      /\ f \in Procs => ProgramAt(f, code[f])
  BY <1>1, FrameRuns DEF KernelInv, CodeType
<1>3. ASSUME NEW pc \in PCs, code' = [code EXCEPT ![f] = [code[f] EXCEPT !.pc = pc]]
      PROVE  Only(f) /\ code'[f].pc = pc /\ code'[f].spin = code[f].spin
  BY <1>1, <1>2, <1>3 DEF Only, Frame
<1>4. CASE uartstart(c, f) /\ code[f].pc = "start" /\ (tx.w = tx.r \/ dev.fifo # <<>>)
  <2>1. release(c, f, "uart", [code[f] EXCEPT !.pc = code[f].then]) /\ Same
    BY <1>4 DEF uartstart, Same
  <2>2. code' = [code EXCEPT ![f] = [code[f] EXCEPT !.pc = code[f].then]]
    BY <2>1, Zenon DEF release
  <2>3. code[f].then \in PCs /\ code[f].then \notin WP
    BY <1>1, <1>2, <1>4 DEF HandlerAt, ProgramAt, WP, Frame
  <2>4. Only(f) /\ code'[f].pc = code[f].then
    BY <1>3, <2>2, <2>3
  <2>5. Quiet
    BY <1>4, <2>3, <2>4 DEF Quiet, Only, WP
  <2> QED
    BY <2>1, <2>5
<1>5. CASE uartstart(c, f) /\ code[f].pc = "start" /\ ~(tx.w = tx.r \/ dev.fifo # <<>>)
  <2> DEFINE ch == tx.buf[tx.r % TxSize]
  <2>1. /\ tx' = [tx EXCEPT !.r = tx.r + 1]
        /\ UNCHANGED <<cons, dev, ticks, written, sent>>
    BY <1>5 DEF uartstart
  <2>2. code' = [code EXCEPT ![f] = [code[f] EXCEPT !.pc = "thr", !.ch = ch]]
    BY <1>5, Zenon DEF uartstart
  <2> HIDE DEF ch
  <2>3. Only(f) /\ code'[f].pc = "thr" /\ code'[f].spin = None /\ code'[f].ch = ch
    BY <1>1, <1>2, <2>2 DEF Only, Frame
  <2>4. Takes(f)
    BY <1>5, <2>1, <2>3 DEF Takes, ch
  <2> QED
    BY <1>1, <2>4 DEF UartStep
<1>6. CASE uartstart(c, f) /\ code[f].pc # "start"
  <2>1. code[f].pc = "thr" /\ WriteTHR(code[f].ch) /\ UNCHANGED <<cons, tx, ticks, written, sent>>
    BY <1>6, Zenon DEF uartstart
  <2>2. code' = [code EXCEPT ![f] = [code[f] EXCEPT !.pc = "start", !.ch = None]]
    BY <1>6, Zenon DEF uartstart
  <2>3. Only(f) /\ code'[f].pc = "start"
    BY <1>1, <1>2, <2>2 DEF Only, Frame
  <2> QED
    BY <1>1, <2>1, <2>3 DEF UartStep, Puts
<1>7. CASE uartputc_sync(c, f) /\ code[f].pc = "sync" /\ code[f].n = 0
  <2>1. Same
    BY <1>7 DEF uartputc_sync, Same
  <2>2. code' = [code EXCEPT ![f] = [code[f] EXCEPT !.pc = code[f].then]]
    BY <1>7 DEF uartputc_sync
  <2>3. code[f].then \in PCs /\ code[f].then \notin WP
    BY <1>1, <1>2, <1>7 DEF HandlerAt, ProgramAt, InSync, WP, Frame
  <2>4. Only(f) /\ code'[f].pc = code[f].then
    BY <1>3, <2>2, <2>3
  <2>5. Quiet
    BY <1>7, <2>3, <2>4 DEF Quiet, Only, WP
  <2> QED
    BY <2>1, <2>5
<1>8. CASE uartputc_sync(c, f) /\ code[f].pc = "sync" /\ code[f].n # 0
  <2>1. Same /\ dev.fifo = <<>>
    BY <1>8 DEF uartputc_sync, Same
  <2>2. code' = [code EXCEPT ![f] = [code[f] EXCEPT !.pc = "sync_thr"]]
    BY <1>8 DEF uartputc_sync
  <2>3. Only(f) /\ code'[f].pc = "sync_thr"
    BY <1>3, <2>2 DEF PCs
  <2> QED
    BY <1>1, <1>8, <2>1, <2>3 DEF UartStep, Polls
<1>9. CASE uartputc_sync(c, f) /\ code[f].pc # "sync"
  <2>1. code[f].pc = "sync_thr" /\ WriteTHR(Echo) /\ UNCHANGED <<cons, tx, ticks, written, sent>>
    BY <1>9, Zenon DEF uartputc_sync
  <2>2. code' = [code EXCEPT ![f] = [code[f] EXCEPT !.pc = "sync", !.n = code[f].n - 1]]
    BY <1>9, Zenon DEF uartputc_sync
  <2>3. Only(f) /\ code'[f].pc = "sync"
    BY <1>1, <1>2, <2>2 DEF Only, Frame
  <2> QED
    BY <1>1, <2>1, <2>3 DEF UartStep, Echoes
<1> QED
  BY <1>1, <1>4, <1>5, <1>6, <1>7, <1>8, <1>9

(***************************************************************************)
(* Remainders: what the rings of uart.c and console.c need.                *)
(***************************************************************************)
\* a is a multiple of b and its remainder.
LEMMA Divides ==
  ASSUME NEW a \in Int, NEW b \in Nat \ {0}
  PROVE  \E k \in Int : \E r \in 0 .. b - 1 : a = b * k + r /\ a % b = r
<1>1. a = b * (a \div b) + (a % b) /\ a \div b \in Int /\ a % b \in 0 .. b - 1
  OBVIOUS
<1> QED
  BY <1>1

\* Quotient and remainder are unique.
LEMMA Unique ==
  ASSUME NEW b \in Nat \ {0}, NEW k \in Int, NEW l \in Int,
         NEW r \in 0 .. b - 1, NEW s \in 0 .. b - 1, b * k + r = b * l + s
  PROVE  k = l /\ r = s
<1>1. b * (k - l) = s - r
  OBVIOUS
<1>2. CASE k > l
  <2>1. b * (k - l) >= b
    BY <1>2
  <2> QED
    BY <1>1, <2>1
<1>3. CASE k < l
  <2>1. b * (k - l) <= -b
    BY <1>3
  <2> QED
    BY <1>1, <2>1
<1> QED
  BY <1>2, <1>3

\* A slot of a ring of b: the same one after a multiple W of b, another one before b.
LEMMA Slots ==
  ASSUME NEW b \in Nat \ {0}, NEW a \in Int
  PROVE  /\ a % b \in 0 .. b - 1
         /\ \A d \in 1 .. b - 1 : (a + d) % b # a % b
         /\ \A W \in Nat : W % b = 0 => (a - W) % b = a % b
<1>1. PICK k \in Int, r \in 0 .. b - 1 : a = b * k + r /\ a % b = r
  BY Divides
<1>2. ASSUME NEW d \in 1 .. b - 1, (a + d) % b = r PROVE FALSE
  <2>1. a + d \in Int
    OBVIOUS
  <2>2. PICK l \in Int, s \in 0 .. b - 1 : a + d = b * l + s /\ (a + d) % b = s
    BY <2>1, Divides
  <2>3. b * l + 0 = b * k + d /\ d \in 0 .. b - 1 /\ 0 \in 0 .. b - 1
    BY <1>1, <1>2, <2>2
  <2> QED
    BY <2>3, Unique
<1>3. ASSUME NEW W \in Nat, W % b = 0 PROVE (a - W) % b = r
  <2>0. PICK w \in Int, s \in 0 .. b - 1 : W = b * w + s /\ W % b = s
    BY Divides
  <2>1. W = b * w
    BY <1>3, <2>0
  <2>2. a - W \in Int /\ a - W = b * (k - w) + r /\ k - w \in Int
    BY <1>1, <2>1
  <2>3. PICK l \in Int, t \in 0 .. b - 1 : a - W = b * l + t /\ (a - W) % b = t
    BY <2>2, Divides
  <2>4. b * l + t = b * (k - w) + r
    BY <2>2, <2>3
  <2>5. t = r
    BY <2>2, <2>4, Unique
  <2> QED
    BY <2>3, <2>5
<1> QED
  BY <1>1, <1>2, <1>3

(***************************************************************************)
(* The ring of uart.c: its indices only grow.                              *)
(***************************************************************************)
\* uartputc() puts a character behind the others.
LEMMA TxPut ==
  ASSUME TxInv, ~TxFull, NEW ch \in Chars,
         tx' = [tx EXCEPT !.buf[tx.w % TxSize] = ch, !.w = tx.w + 1]
  PROVE  /\ TxInv' /\ tx'.r = tx.r /\ tx'.w = tx.w + 1
         /\ tx'.buf[tx.w % TxSize] = ch
         /\ \A i \in tx.r .. tx.w - 1 : tx'.buf[i % TxSize] = tx.buf[i % TxSize]
<1>0. TxSize \in Nat \ {0} /\ tx.r \in Nat /\ tx.w \in Nat /\ tx.w < tx.r + TxSize /\ tx.r <= tx.w
      /\ tx.buf \in [0 .. TxSize - 1 -> Chars \cup {None}]
  BY SizesAssumption DEF TxInv, TxFull
<1>1. \A i \in Int : i % TxSize \in 0 .. TxSize - 1
  BY <1>0, Slots
<1> DEFINE buf == [tx.buf EXCEPT ![tx.w % TxSize] = ch]
<1>2. tx' = [tx EXCEPT !.buf = buf, !.w = tx.w + 1]
  OBVIOUS
<1>3. /\ buf \in [0 .. TxSize - 1 -> Chars \cup {None}] /\ buf[tx.w % TxSize] = ch
      /\ \A i \in 0 .. TxSize - 1 : i # tx.w % TxSize => buf[i] = tx.buf[i]
  BY <1>0, <1>1
<1> HIDE DEF buf
<1>4. /\ tx' \in [buf : [0 .. TxSize - 1 -> Chars \cup {None}], r : Nat, w : Nat]
      /\ tx'.r = tx.r /\ tx'.w = tx.w + 1 /\ tx'.buf = buf
  <2> DEFINE w == tx.w + 1
  <2>1. w \in Nat /\ tx' = [tx EXCEPT !.buf = buf, !.w = w]
    BY <1>0, <1>2
  <2> HIDE DEF w
  <2>2. tx \in [buf : [0 .. TxSize - 1 -> Chars \cup {None}], r : Nat, w : Nat]
    BY DEF TxInv
  <2>3. /\ tx' \in [buf : [0 .. TxSize - 1 -> Chars \cup {None}], r : Nat, w : Nat]
        /\ tx'.r = tx.r /\ tx'.w = w /\ tx'.buf = buf
    BY <1>3, <2>1, <2>2, Zenon
  <2> QED
    BY <2>3 DEF w
<1>5. ASSUME NEW i \in tx.r .. tx.w - 1 PROVE buf[i % TxSize] = tx.buf[i % TxSize]
  <2>1. tx.w - i \in 1 .. TxSize - 1 /\ i \in Int /\ i + (tx.w - i) = tx.w
    BY <1>0
  <2>2. tx.w % TxSize # i % TxSize
    BY <1>0, <2>1, Slots
  <2> QED
    BY <1>1, <1>3, <2>1, <2>2
<1>6. ASSUME NEW i \in tx'.r .. tx'.w - 1 PROVE tx'.buf[i % TxSize] \in Chars
  <2>1. i \in tx.r .. tx.w - 1 \/ i = tx.w
    BY <1>0, <1>4
  <2> QED
    BY <1>3, <1>4, <1>5, <2>1 DEF TxInv
<1> QED
  BY <1>0, <1>3, <1>4, <1>5, <1>6 DEF TxInv

\* uartstart() takes the first one.
LEMMA TxTake ==
  ASSUME TxInv, tx.w # tx.r, tx' = [tx EXCEPT !.r = tx.r + 1]
  PROVE  /\ TxInv' /\ tx'.r = tx.r + 1 /\ tx'.w = tx.w /\ tx'.buf = tx.buf
         /\ tx.buf[tx.r % TxSize] \in Chars
<1>0. TxSize \in Nat \ {0} /\ tx.r \in Nat /\ tx.w \in Nat /\ tx.w <= tx.r + TxSize /\ tx.r < tx.w
  BY SizesAssumption DEF TxInv
<1>1. /\ tx' \in [buf : [0 .. TxSize - 1 -> Chars \cup {None}], r : Nat, w : Nat]
      /\ tx'.r = tx.r + 1 /\ tx'.w = tx.w /\ tx'.buf = tx.buf
  BY <1>0 DEF TxInv
<1>2. \A i \in tx'.r .. tx'.w - 1 : i \in tx.r .. tx.w - 1
  BY <1>0, <1>1
<1>3. tx.r \in tx.r .. tx.w - 1
  BY <1>0
<1>4. \A i \in tx.r .. tx.w - 1 : tx.buf[i % TxSize] \in Chars
  BY DEF TxInv
<1>5. tx'.r <= tx'.w /\ tx'.w <= tx'.r + TxSize
  BY <1>0, <1>1
<1>6. \A i \in tx'.r .. tx'.w - 1 : tx'.buf[i % TxSize] \in Chars
  BY <1>1, <1>2, <1>4
<1>7. tx.buf[tx.r % TxSize] \in Chars
  BY <1>3, <1>4
<1> QED
  BY <1>1, <1>5, <1>6, <1>7 DEF TxInv

(***************************************************************************)
(* The devices' invariant.                                                 *)
(***************************************************************************)
Dev == [fifo : Seq(Chars \cup {Echo}), rx : Seq(Keys), typed : Seq(Keys),
        depth : {Fifo}, pending : BOOLEAN, claimed : BOOLEAN]

\* What may be set in the device's state.
LEMMA DevSet ==
  ASSUME NEW d \in Dev
  PROVE  /\ \A s \in Seq(Chars \cup {Echo}) : [d EXCEPT !.fifo = s] \in Dev
         /\ \A s \in Seq(Keys) : [d EXCEPT !.rx = s] \in Dev
         /\ \A s, t \in Seq(Keys) : [d EXCEPT !.typed = s, !.rx = t] \in Dev
         /\ \A b \in BOOLEAN : [d EXCEPT !.pending = b] \in Dev
         /\ \A b \in BOOLEAN : [d EXCEPT !.claimed = b] \in Dev
         /\ \A a, b \in BOOLEAN : [d EXCEPT !.pending = a, !.claimed = b] \in Dev
  BY Zenon DEF Dev

\* What the device may do to itself, and what may be written to it.
LEMMA DevMoves ==
  ASSUME DevInv
  PROVE  /\ Transmit => DevInv'
         /\ Receive => DevInv'
         /\ \A ch \in Chars \cup {Echo} : WriteTHR(ch) => DevInv'
<1>1. dev \in Dev /\ TRUE \in BOOLEAN
  BY DEF DevInv, Dev
<1>2. /\ dev.fifo \in Seq(Chars \cup {Echo}) /\ dev.rx \in Seq(Keys) /\ dev.typed \in Seq(Keys)
  BY <1>1 DEF Dev
<1>3. ASSUME Transmit PROVE dev' \in Dev
  <2> DEFINE d == [dev EXCEPT !.fifo = Tail(dev.fifo)]
  <2>1. Tail(dev.fifo) \in Seq(Chars \cup {Echo})
    BY <1>2, <1>3 DEF Transmit
  <2>2. d \in Dev
    BY <1>1, <2>1, DevSet
  <2>3. dev' = IF d.fifo = <<>> THEN [d EXCEPT !.pending = TRUE] ELSE d
    BY <1>3 DEF Transmit, Raise
  <2> HIDE DEF d
  <2>4. [d EXCEPT !.pending = TRUE] \in Dev
    BY <1>1, <2>2, DevSet
  <2> QED
    BY <2>2, <2>3, <2>4
<1>4. ASSUME Receive PROVE dev' \in Dev
  <2> DEFINE s == Tail(dev.typed)
             t == Append(dev.rx, Head(dev.typed))
             d == [dev EXCEPT !.typed = s, !.rx = t]
  <2>1. s \in Seq(Keys) /\ t \in Seq(Keys)
    BY <1>2, <1>4 DEF Receive
  <2>3. dev' = [d EXCEPT !.pending = TRUE]
    BY <1>4, Zenon DEF Receive, Raise
  <2> HIDE DEF s, t
  <2>2. d \in Dev
    BY <1>1, <2>1, DevSet
  <2> HIDE DEF d
  <2>4. [d EXCEPT !.pending = TRUE] \in Dev
    BY <1>1, <2>2, DevSet
  <2> QED
    BY <2>3, <2>4
<1>5. ASSUME NEW ch \in Chars \cup {Echo}, WriteTHR(ch) PROVE dev' \in Dev
  <2> DEFINE s == IF Len(dev.fifo) < dev.depth THEN Append(dev.fifo, ch) ELSE dev.fifo
  <2>1. s \in Seq(Chars \cup {Echo})
    BY <1>2
  <2>2. dev' = [dev EXCEPT !.fifo = s]
    BY <1>5 DEF WriteTHR
  <2> HIDE DEF s
  <2> QED
    BY <1>1, <2>1, <2>2, DevSet
<1> QED
  BY <1>3, <1>4, <1>5 DEF DevInv, Dev

\* What the kernel's steps do to the device otherwise.
LEMMA DevHandled ==
  ASSUME DevInv, NEW c, HandlerData(c)
  PROVE  DevInv'
<1>1. dev \in Dev /\ TRUE \in BOOLEAN /\ FALSE \in BOOLEAN
  BY DEF DevInv, Dev
<1>2. dev.rx \in Seq(Keys)
  BY <1>1 DEF Dev
<1>3. CASE clockintr(c) \/ consoleintr_end(c)
  <2>1. dev' = dev
    BY <1>3, Zenon DEF clockintr, consoleintr_end
  <2> QED
    BY <2>1 DEF DevInv
<1>4. CASE plic_claim(c)
  <2>1. dev' = [dev EXCEPT !.pending = FALSE, !.claimed = TRUE] \/ dev' = dev
    BY <1>4, Zenon DEF plic_claim
  <2>2. [dev EXCEPT !.pending = FALSE, !.claimed = TRUE] \in Dev
    BY <1>1, DevSet
  <2> QED
    BY <1>1, <2>1, <2>2 DEF DevInv, Dev
<1>5. CASE plic_complete(c)
  <2>1. dev' = [dev EXCEPT !.claimed = FALSE]
    BY <1>5, Zenon DEF plic_complete
  <2>2. [dev EXCEPT !.claimed = FALSE] \in Dev
    BY <1>1, DevSet
  <2> QED
    BY <2>1, <2>2 DEF DevInv, Dev
<1>6. CASE uartintr(c)
  <2>1. dev' = dev \/ (dev.rx # <<>> /\ dev' = [dev EXCEPT !.rx = Tail(dev.rx)])
    BY <1>6, Zenon DEF uartintr
  <2> DEFINE s == Tail(dev.rx)
  <2>2. dev.rx # <<>> => s \in Seq(Keys)
    BY <1>2
  <2>3. dev' = dev \/ (dev.rx # <<>> /\ dev' = [dev EXCEPT !.rx = s])
    BY <2>1
  <2> HIDE DEF s
  <2>4. dev.rx # <<>> => [dev EXCEPT !.rx = s] \in Dev
    BY <1>1, <2>2, DevSet
  <2> QED
    BY <1>1, <2>3, <2>4 DEF DevInv, Dev
<1> QED
  BY <1>3, <1>4, <1>5, <1>6 DEF HandlerData

\* A character of process p.
LEMMA CharOf ==
  ASSUME KernelInv, NEW p \in Procs, ProgramAt(p, code[p]), code[p].pc = "putc",
         proc[p].state # "zombie"
  PROVE  <<p, Len(proc[p].prog), code[p].n>> \in Chars
<1>1. code[p].n \in Int
  BY DEF KernelInv, CodeType, Frame
<1>2. proc[p].prog \in Seq(Calls)
  BY DEF ProgramAt
<1>3. Len(proc[p].prog) \in Nat
  BY <1>2
<1> QED
  BY <1>1, <1>3 DEF Chars

\* What uartputc() does when the ring is not full.
Writes(p) ==
  LET ch == <<p, Len(proc[p].prog), code[p].n>>
  IN /\ code[p].pc = "putc" /\ ~TxFull
     /\ tx' = [tx EXCEPT !.buf[tx.w % TxSize] = ch, !.w = tx.w + 1]
     /\ written' = Append(written, ch) /\ ch \in Chars
     /\ UNCHANGED <<cons, dev, ticks, sent>>

\* uartputc() sleeps or writes.
LEMMA UartputcWrites ==
  ASSUME KernelInv, NEW c \in Harts, NEW p \in Procs, Runs(c, p), uartputc(c, p)
  PROVE  Same \/ Writes(p)
<1>1. ProgramAt(p, code[p]) /\ proc[p].state = "running"
  BY RunsTop DEF KernelInv, FrameInv
<1>2. CASE TxFull
  BY <1>2, Zenon DEF uartputc, Same
<1>3. CASE ~TxFull
  <2>1. code[p].pc = "putc"
    BY DEF uartputc
  <2>2. <<p, Len(proc[p].prog), code[p].n>> \in Chars
    BY <1>1, <2>1, CharOf
  <2> QED
    BY <1>3, <2>1, <2>2 DEF uartputc, Writes
<1> QED
  BY <1>2, <1>3

\* The quiet steps, as what they do to the devices and the console needs them.
QuietStep ==
  Quiet /\ \/ Same \/ Transmit \/ Receive
           \/ \E c \in Harts : Runs(c, c) /\ code[c].spin = None /\ HandlerData(c)
           \/ \E p \in Procs : Writes(p)
           \/ \E c \in Harts, p \in Procs :
                Runs(c, p) /\ code[p].spin = None /\ consoleread(c, p)

\* Every step is one of these.
LEMMA StepCases ==
  ASSUME KernelInv, Step
  PROVE  QuietStep \/ \E f \in Harts \cup Procs : UartStep(f)
<1>1. CASE Busy
  BY <1>1, BusySteps DEF QuietStep
<1>2. CASE Quiet /\ Data
  <2>1. ASSUME NEW c \in Harts, NEW p \in Procs, Runs(c, p), code[p].spin = None, ProcessData(c, p)
        PROVE  QuietStep
    <3>1. CASE uartputc(c, p)
      BY <1>2, <2>1, <3>1, UartputcWrites DEF QuietStep
    <3>2. CASE consoleread(c, p)
      BY <1>2, <2>1, <3>2 DEF QuietStep
    <3> QED
      BY <2>1, <3>1, <3>2 DEF ProcessData
  <2> QED
    BY <1>2, <2>1 DEF Data, QuietStep
<1> QED
  BY <1>1, <1>2 DEF Step

\* What the steps leave alone.
LEMMA QuietKeeps ==
  ASSUME NEW c
  PROVE  /\ HandlerData(c) => UNCHANGED <<tx, written, sent>>
         /\ \A p : consoleread(c, p) => UNCHANGED <<tx, dev, ticks, written, sent>>
<1>1. ASSUME clockintr(c) PROVE UNCHANGED <<tx, written, sent>>
  BY <1>1, Zenon DEF clockintr
<1>2. ASSUME plic_claim(c) \/ plic_complete(c) PROVE UNCHANGED <<tx, written, sent>>
  BY <1>2, Zenon DEF plic_claim, plic_complete
<1>3. ASSUME uartintr(c) PROVE UNCHANGED <<tx, written, sent>>
  BY <1>3, Zenon DEF uartintr
<1>4. ASSUME consoleintr_end(c) PROVE UNCHANGED <<tx, written, sent>>
  BY <1>4, Zenon DEF consoleintr_end
<1>5. ASSUME NEW p, consoleread(c, p) PROVE UNCHANGED <<tx, dev, ticks, written, sent>>
  BY <1>5, Zenon DEF consoleread
<1> QED
  BY <1>1, <1>2, <1>3, <1>4, <1>5 DEF HandlerData

\* The clock counts.
LEMMA TicksStay ==
  ASSUME ticks \in Nat, NEW c, HandlerData(c)
  PROVE  ticks' \in Nat
<1>1. (ticks + 1) % Width \in Nat
  BY SizesAssumption
<1>2. ASSUME clockintr(c) PROVE ticks' \in {ticks, (ticks + 1) % Width}
  BY <1>2, Zenon DEF clockintr
<1>3. ASSUME ~clockintr(c) PROVE ticks' = ticks
  BY <1>3, Zenon DEF HandlerData, plic_claim, plic_complete, uartintr, consoleintr_end
<1> QED
  BY <1>1, <1>2, <1>3

\* Every step keeps the devices' invariant.
LEMMA DeviceSteps ==
  ASSUME KernelInv, DeviceType, Step
  PROVE  DeviceType'
<1>0. DevInv /\ TxInv /\ ThrInv /\ ticks \in Nat
  BY DEF DeviceType
<1>1. ASSUME UNCHANGED tx PROVE TxInv'
  BY <1>0, <1>1 DEF TxInv
<1>2. ASSUME UNCHANGED dev PROVE DevInv'
  BY <1>0, <1>2 DEF DevInv
<1>3. CASE QuietStep
  <2>1. ThrInv'
    <3> SUFFICES ASSUME NEW f \in Harts \cup Procs, code'[f].pc = "thr"
                 PROVE  code'[f].spin = None /\ code'[f].ch \in Chars
      BY DEF ThrInv
    <3>1. /\ code[f].pc = "thr" /\ code'[f].ch = code[f].ch
          /\ code'[f].spin \in {code[f].spin, None}
      BY <1>3 DEF QuietStep, Quiet, WP
    <3> QED
      BY <1>0, <3>1 DEF ThrInv
  <2>2. CASE Same
    BY <1>0, <1>1, <1>2, <2>1, <2>2 DEF Same, DeviceType
  <2>3. CASE Transmit \/ Receive
    <3>1. UNCHANGED <<tx, ticks>>
      BY <2>3, Zenon DEF Transmit, Receive
    <3> QED
      BY <1>0, <1>1, <2>1, <2>3, <3>1, DevMoves DEF DeviceType
  <2>4. ASSUME NEW c \in Harts, HandlerData(c) PROVE DeviceType'
    BY <1>0, <1>1, <2>1, <2>4, DevHandled, QuietKeeps, TicksStay DEF DeviceType
  <2>5. ASSUME NEW p \in Procs, Writes(p) PROVE DeviceType'
    <3> DEFINE ch == <<p, Len(proc[p].prog), code[p].n>>
    <3>1. /\ ~TxFull /\ ch \in Chars /\ UNCHANGED <<dev, ticks>>
          /\ tx' = [tx EXCEPT !.buf[tx.w % TxSize] = ch, !.w = tx.w + 1]
      BY <2>5 DEF Writes
    <3> HIDE DEF ch
    <3>2. TxInv'
      BY <1>0, <3>1, TxPut
    <3> QED
      BY <1>0, <1>2, <2>1, <3>1, <3>2 DEF DeviceType
  <2>6. ASSUME NEW c \in Harts, NEW p \in Procs, consoleread(c, p) PROVE DeviceType'
    <3>1. UNCHANGED <<tx, dev, ticks>>
      BY <2>6, QuietKeeps
    <3> QED
      BY <1>0, <1>1, <1>2, <2>1, <3>1 DEF DeviceType
  <2> QED
    BY <1>3, <2>2, <2>3, <2>4, <2>5, <2>6 DEF QuietStep
<1>4. ASSUME NEW f \in Harts \cup Procs, UartStep(f) PROVE DeviceType'
  <2>1. ASSUME code'[f].pc = "thr" => code'[f].spin = None /\ code'[f].ch \in Chars, Only(f)
        PROVE  ThrInv'
    BY <1>0, <2>1 DEF ThrInv, Only
  <2>2. CASE Takes(f)
    <3>1. TxInv' /\ tx.buf[tx.r % TxSize] \in Chars
      BY <1>0, <2>2, TxTake DEF Takes
    <3> QED
      BY <1>0, <1>2, <2>1, <2>2, <3>1 DEF Takes, DeviceType
  <2>3. CASE Puts(f)
    <3>1. code[f].ch \in Chars
      BY <1>0, <2>3 DEF ThrInv, Puts
    <3>2. DevInv'
      BY <1>0, <2>3, <3>1, DevMoves DEF Puts
    <3> QED
      BY <1>0, <1>1, <2>1, <2>3, <3>2 DEF Puts, DeviceType
  <2>4. CASE Polls(f)
    BY <1>0, <1>1, <1>2, <2>1, <2>4 DEF Polls, Same, DeviceType
  <2>5. CASE Echoes(f)
    <3>1. DevInv'
      BY <1>0, <2>5, DevMoves DEF Echoes
    <3> QED
      BY <1>0, <1>1, <2>1, <2>5, <3>1 DEF Echoes, DeviceType
  <2> QED
    BY <1>4, <2>2, <2>3, <2>4, <2>5 DEF UartStep
<1> QED
  BY <1>3, <1>4, StepCases

\* Of three uints the second lies between the others.
LEMMA Between ==
  ASSUME NEW r \in 0 .. Width - 1, NEW w \in 0 .. Width - 1, NEW e \in 0 .. Width - 1,
         Minus(w, r) <= Minus(e, r)
  PROVE  /\ Minus(w, r) \in 0 .. Width - 1 /\ Minus(e, w) \in 0 .. Width - 1
         /\ Minus(w, r) + Minus(e, w) = Minus(e, r)
         /\ w = r + Minus(w, r) \/ w = r + Minus(w, r) - Width
         /\ e = r + Minus(e, r) \/ e = r + Minus(e, r) - Width
<1>0. Width \in Nat \ {0}
  BY SizesAssumption
<1>1. Minus(w, r) = IF w >= r THEN w - r ELSE w - r + Width
  BY <1>0, Uints
<1>2. Minus(e, w) = IF e >= w THEN e - w ELSE e - w + Width
  BY <1>0, Uints
<1>3. Minus(e, r) = IF e >= r THEN e - r ELSE e - r + Width
  BY <1>0, Uints
<1>4. CASE w >= r /\ e >= w
  BY <1>0, <1>1, <1>2, <1>3, <1>4
<1>5. CASE w >= r /\ e < w
  BY <1>0, <1>1, <1>2, <1>3, <1>5
<1>6. CASE w < r /\ e >= w
  BY <1>0, <1>1, <1>2, <1>3, <1>6
<1>7. CASE w < r /\ e < w
  BY <1>0, <1>1, <1>2, <1>3, <1>7
<1> QED
  BY <1>0, <1>4, <1>5, <1>6, <1>7

(***************************************************************************)
(* The console's buffer, counted from cons.r: K characters that readers    *)
(* may have and then M that are being edited.                              *)
(***************************************************************************)
K == Minus(cons.w, cons.r)
M == Minus(cons.e, cons.w)
Cell(j) == cons.buf[(cons.r + j) % Size]

\* Where the indices point, though they wrap around.
LEMMA Cells ==
  ASSUME ConsType, K <= Minus(cons.e, cons.r)
  PROVE  /\ K \in 0 .. Width - 1 /\ M \in 0 .. Width - 1 /\ K + M = Minus(cons.e, cons.r)
         /\ \A i \in 0 .. Width - 1 : /\ cons.buf[((cons.r + i) % Width) % Size] = Cell(i)
                                      /\ cons.buf[((cons.w + i) % Width) % Size] = Cell(K + i)
         /\ cons.e % Size = (cons.r + (K + M)) % Size
<1> DEFINE r == cons.r
           w == cons.w
           e == cons.e
<1>0. /\ Size \in Nat \ {0} /\ Width \in Nat \ {0} /\ Width % Size = 0
      /\ r \in 0 .. Width - 1 /\ w \in 0 .. Width - 1 /\ e \in 0 .. Width - 1
  BY SizesAssumption DEF ConsType
<1>1. /\ K \in 0 .. Width - 1 /\ M \in 0 .. Width - 1 /\ K + M = Minus(e, r)
      /\ w = r + K \/ w = r + K - Width
      /\ e = r + (K + M) \/ e = r + (K + M) - Width
  BY <1>0, Between DEF K, M
<1> HIDE DEF r, w, e
<1>5. \A a \in Int : (a - Width) % Size = a % Size
  BY <1>0, Slots
<1>6. ASSUME NEW a \in 0 .. Width - 1, NEW i \in 0 .. Width - 1
      PROVE  ((a + i) % Width) % Size = (a + i) % Size
  <2>1. (a + i) % Width = IF a + i < Width THEN a + i ELSE a + i - Width
    BY Uints
  <2> DEFINE x == a + i
  <2>2. x \in Int
    BY <1>0
  <2>3. (a + i) % Width = IF x < Width THEN x ELSE x - Width
    <3>1. a + (i - Width) = x - Width
      BY <1>0
    <3> QED
      BY <2>1, <3>1, Zenon DEF x
  <2> HIDE DEF x
  <2>4. (x - Width) % Size = x % Size
    BY <1>5, <2>2
  <2>5. ((a + i) % Width) % Size = x % Size
    BY <2>3, <2>4
  <2> QED
    BY <2>5 DEF x
<1>7. ASSUME NEW i \in 0 .. Width - 1
      PROVE  ((w + i) % Width) % Size = (r + (K + i)) % Size
  <2>1. w + i = r + (K + i) \/ w + i = (r + (K + i)) - Width
    BY <1>0, <1>1
  <2>2. r + (K + i) \in Int
    BY <1>0, <1>1
  <2>3. (w + i) % Size = (r + (K + i)) % Size
    BY <1>5, <2>1, <2>2
  <2>4. ((w + i) % Width) % Size = (w + i) % Size
    BY <1>0, <1>6
  <2> QED
    BY <2>3, <2>4
<1>8. e % Size = (r + (K + M)) % Size
  <2>1. e = r + (K + M) \/ e = (r + (K + M)) - Width
    BY <1>0, <1>1
  <2>2. r + (K + M) \in Int
    BY <1>0, <1>1
  <2> QED
    BY <1>5, <2>1, <2>2
<1>9. ASSUME NEW i \in 0 .. Width - 1
      PROVE  /\ cons.buf[((cons.r + i) % Width) % Size] = Cell(i)
             /\ cons.buf[((cons.w + i) % Width) % Size] = Cell(K + i)
  <2>1. ((r + i) % Width) % Size = (r + i) % Size
    BY <1>0, <1>6
  <2>2. ((w + i) % Width) % Size = (r + (K + i)) % Size
    BY <1>7
  <2> QED
    BY <2>1, <2>2 DEF Cell, r, w
<1> QED
  BY <1>1, <1>8, <1>9 DEF r, e

\* The invariant, counted from cons.r.
LEMMA ConsView ==
  ASSUME ConsType, K <= Minus(cons.e, cons.r)
  PROVE  ConsInv <=> K + M <= Size /\ \A i \in 0 .. M - 1 : Cell(K + i) \notin Enders
<1>1. \A i \in 0 .. M - 1 : i \in 0 .. Width - 1
  BY Cells, SizesAssumption
<1>2. \A i \in 0 .. M - 1 : cons.buf[((cons.w + i) % Width) % Size] = Cell(K + i)
  BY <1>1, Cells
<1>3. K + M = Minus(cons.e, cons.r)
  BY Cells
<1> QED
  BY <1>2, <1>3 DEF ConsInv, K, M

\* The lines, counted from cons.r.
LEMMA LinesView ==
  ASSUME ConsType, K <= Minus(cons.e, cons.r)
  PROVE  /\ Lines(cons.r, cons.w) = [i \in 1 .. K |-> Cell(i - 1)]
         /\ Lines(cons.w, cons.e) = [i \in 1 .. M |-> Cell(K + (i - 1))]
<1>0. /\ cons.r \in Nat /\ cons.w \in Nat /\ Width \in Nat
      /\ K \in 0 .. Width - 1 /\ M \in 0 .. Width - 1
  <2>1. cons.r \in 0 .. Width - 1 /\ cons.w \in 0 .. Width - 1
    BY DEF ConsType
  <2> QED
    BY <2>1, Cells, SizesAssumption
<1>1. ASSUME NEW i \in 1 .. K PROVE cons.buf[((cons.r + i - 1) % Width) % Size] = Cell(i - 1)
  <2>1. i - 1 \in 0 .. Width - 1 /\ cons.r + i - 1 = cons.r + (i - 1)
    BY <1>0
  <2> QED
    BY <2>1, Cells
<1>2. ASSUME NEW i \in 1 .. M PROVE cons.buf[((cons.w + i - 1) % Width) % Size] = Cell(K + (i - 1))
  <2>1. i - 1 \in 0 .. Width - 1 /\ cons.w + i - 1 = cons.w + (i - 1)
    BY <1>0
  <2> QED
    BY <2>1, Cells
<1> QED
  BY <1>1, <1>2 DEF Lines, K, M

(***************************************************************************)
(* What happens to the console's buffer: a character is typed, one or the  *)
(* whole line is erased, or one is read.                                   *)
(***************************************************************************)
Types(ch) ==
  LET e1 == Plus(cons.e)
      ends == ch \in Enders \/ Minus(e1, cons.r) = Size
  IN /\ Room /\ ch \in Letters \cup Enders
     /\ cons' = [cons EXCEPT !.buf[cons.e % Size] = ch, !.e = e1,
                             !.w = IF ends THEN e1 ELSE cons.w]

Erases == /\ cons.e # cons.w
          /\ cons' \in {[cons EXCEPT !.e = Minus(cons.e, 1)], [cons EXCEPT !.e = cons.w]}

Reads == cons.r # cons.w /\ cons' = [cons EXCEPT !.r = Plus(cons.r)]

ConsStep == cons' = cons \/ (\E ch : Types(ch)) \/ Erases \/ Reads

\* The end of consoleintr().
LEMMA ConsoleTypes ==
  ASSUME ConsInv, NEW c, code[c].ch \in Keys, consoleintr_end(c)
  PROVE  ConsStep
<1> DEFINE ch == code[c].ch
<1>0. /\ ConsType /\ Width \in Nat \ {0}
      /\ cons.w \in 0 .. Width - 1 /\ cons.e \in 0 .. Width - 1
  BY SizesAssumption DEF ConsInv, ConsType
<1>1. CASE ch = "^P"
  BY <1>1, Zenon DEF consoleintr_end, ConsStep
<1>2. CASE ch = "^U"
  <2>1. cons' = [cons EXCEPT !.e = Minus(cons.e, killed_line)]
    BY <1>2 DEF consoleintr_end
  <2>2. killed_line = Minus(cons.e, cons.w)
    BY KilledLine
  <2>3. Minus(cons.e, cons.w) \in 0 .. Width - 1
        /\ Minus(cons.e, cons.w) = IF cons.e >= cons.w THEN cons.e - cons.w
                                   ELSE cons.e - cons.w + Width
    BY <1>0, <2>2, KilledLine, Uints
  <2>4. Minus(cons.e, Minus(cons.e, cons.w)) = cons.w
    <3> DEFINE n == Minus(cons.e, cons.w)
    <3>1. n \in 0 .. Width - 1 /\ n = IF cons.e >= cons.w THEN cons.e - cons.w
                                      ELSE cons.e - cons.w + Width
      BY <2>3
    <3> HIDE DEF n
    <3>2. Minus(cons.e, n) = IF cons.e >= n THEN cons.e - n ELSE cons.e - n + Width
      BY <1>0, <3>1, Uints
    <3>3. Minus(cons.e, n) = cons.w
      BY <1>0, <3>1, <3>2
    <3> QED
      BY <3>3 DEF n
  <2>5. cons' = [cons EXCEPT !.e = cons.w]
    BY <2>1, <2>2, <2>4
  <2>6. CASE cons.e = cons.w
    <3>1. cons' = cons
      BY <1>0, <2>5, <2>6 DEF ConsType
    <3> QED
      BY <3>1 DEF ConsStep
  <2>7. CASE cons.e # cons.w
    BY <2>5, <2>7 DEF ConsStep, Erases
  <2> QED
    BY <2>6, <2>7
<1>3. CASE ch = "^H"
  <2>1. cons' = [cons EXCEPT !.e = IF cons.e # cons.w THEN Minus(cons.e, 1) ELSE cons.e]
    BY <1>3 DEF consoleintr_end
  <2>2. CASE cons.e = cons.w
    <3>1. cons' = cons
      BY <1>0, <2>1, <2>2 DEF ConsType
    <3> QED
      BY <3>1 DEF ConsStep
  <2>3. CASE cons.e # cons.w
    BY <2>1, <2>3 DEF ConsStep, Erases
  <2> QED
    BY <2>2, <2>3
<1>4. CASE ch \notin {"^P", "^U", "^H"} /\ ~Room
  BY <1>4, Zenon DEF consoleintr_end, ConsStep
<1>5. CASE ch \notin {"^P", "^U", "^H"} /\ Room
  <2>1. ch \in Letters \cup Enders
    BY <1>5 DEF Keys, Editors
  <2> DEFINE e1 == Plus(cons.e)
             w1 == IF ch \in Enders \/ Minus(e1, cons.r) = Size THEN e1 ELSE cons.w
  <2>2. cons' = [cons EXCEPT !.buf[cons.e % Size] = ch, !.e = e1, !.w = w1]
    BY <1>5, Zenon DEF consoleintr_end
  <2> QED
    BY <1>5, <2>1, <2>2 DEF Types, ConsStep
<1> QED
  BY <1>1, <1>2, <1>3, <1>4, <1>5

\* consoleread().
LEMMA ConsoleReads ==
  ASSUME ConsInv, NEW c, NEW p, consoleread(c, p)
  PROVE  ConsStep
<1> DEFINE r1 == Plus(cons.r)
<1>1. CASE code[p].pc # "rd"
  BY <1>1, Zenon DEF consoleread, ConsStep
<1>2. CASE code[p].pc = "rd" /\ cons.r = cons.w
  BY <1>2 DEF consoleread, ConsStep
<1>3. CASE code[p].pc = "rd" /\ cons.r # cons.w
  <2>1. \/ cons' = cons
        \/ cons' = [cons EXCEPT !.r = r1]
        \/ cons' = [cons EXCEPT !.r = IF code[p].n > 0 THEN cons.r ELSE r1]
    BY <1>3 DEF consoleread
  <2>2. [cons EXCEPT !.r = cons.r] = cons
    BY DEF ConsInv, ConsType
  <2>3. cons' = cons \/ cons' = [cons EXCEPT !.r = r1]
    BY <2>1, <2>2
  <2> QED
    BY <1>3, <2>3 DEF ConsStep, Reads
<1> QED
  BY <1>1, <1>2, <1>3

\* Every step of the system.
LEMMA StepsOfCons ==
  ASSUME KernelInv, ConsInv, Step
  PROVE  ConsStep
<1>1. ASSUME NEW c \in Harts, Runs(c, c), HandlerData(c) PROVE ConsStep
  <2>1. CASE consoleintr_end(c)
    <3>1. code[c].pc = "edit" /\ HandlerAt(code[c])
      BY <1>1, <2>1, RunsTop DEF consoleintr_end, FrameInv
    <3>2. code[c].ch \in Keys
      BY <3>1 DEF HandlerAt
    <3> QED
      BY <2>1, <3>2, ConsoleTypes
  <2>2. CASE ~consoleintr_end(c)
    BY <1>1, <2>2, Zenon
    DEF HandlerData, clockintr, plic_claim, plic_complete, uartintr, ConsStep
  <2> QED
    BY <2>1, <2>2
<1>2. CASE QuietStep
  <2>1. CASE Same \/ Transmit \/ Receive \/ \E p \in Procs : Writes(p)
    BY <2>1, Zenon DEF Same, Transmit, Receive, Writes, ConsStep
  <2> QED
    BY <1>1, <1>2, <2>1, ConsoleReads DEF QuietStep
<1>3. ASSUME NEW f \in Harts \cup Procs, UartStep(f) PROVE ConsStep
  BY <1>3, Zenon DEF UartStep, Takes, Puts, Polls, Echoes, Same, ConsStep
<1> QED
  BY <1>2, <1>3, StepCases

(***************************************************************************)
(* Sequences as functions.                                                 *)
(***************************************************************************)
\* A function on 1 .. m is a sequence of length m.
LEMMA FunSeq ==
  ASSUME NEW S, NEW m \in Nat, NEW f \in [1 .. m -> S]
  PROVE  f \in Seq(S) /\ Len(f) = m
  OBVIOUS

\* One more element at the end.
LEMMA FunAppend ==
  ASSUME NEW S, NEW m \in Nat, NEW f \in [1 .. m -> S], NEW g \in [1 .. m + 1 -> S],
         \A k \in 1 .. m : g[k] = f[k]
  PROVE  g = Append(f, g[m + 1])
  OBVIOUS

\* One less in front.
LEMMA FunTail ==
  ASSUME NEW S, NEW m \in Nat \ {0}, NEW f \in [1 .. m -> S],
         NEW g \in [1 .. m - 1 -> S], \A k \in 1 .. m - 1 : g[k] = f[k + 1]
  PROVE  g = Tail(f) /\ f # << >>
  OBVIOUS

\* One after the other.
LEMMA SeqConcat ==
  ASSUME NEW S, NEW f \in Seq(S), NEW g \in Seq(S), NEW h \in Seq(S),
         Len(h) = Len(f) + Len(g),
         \A k \in 1 .. Len(f) : h[k] = f[k],
         \A k \in 1 .. Len(g) : h[Len(f) + k] = g[k]
  PROVE  h = f \o g
<1>1. f \o g \in Seq(S) /\ Len(f \o g) = Len(f) + Len(g)
  OBVIOUS
<1>2. ASSUME NEW k \in 1 .. Len(h) PROVE h[k] = (f \o g)[k]
  <2>1. CASE k <= Len(f)
    BY <2>1
  <2>2. CASE k > Len(f)
    <3>1. k - Len(f) \in 1 .. Len(g) /\ Len(f) + (k - Len(f)) = k
      BY <2>2
    <3> QED
      BY <2>2, <3>1
  <2> QED
    BY <2>1, <2>2
<1> QED
  BY <1>1, <1>2

\* The first n elements.
LEMMA FunSub ==
  ASSUME NEW S, NEW m \in Nat, NEW n \in 0 .. m, NEW f \in [1 .. m -> S],
         NEW g \in [1 .. n -> S], \A k \in 1 .. n : g[k] = f[k]
  PROVE  g = SubSeq(f, 1, n)
  OBVIOUS

(***************************************************************************)
(* The console's invariant, step by step, and the line discipline.         *)
(***************************************************************************)
Ready == Lines(cons.r, cons.w)
Edit == Lines(cons.w, cons.e)

\* The lemmas about the buffer, of the next state.
LEMMA NextView ==
  ASSUME ConsType', K' <= Minus(cons'.e, cons'.r)
  PROVE  /\ K' \in 0 .. Width - 1 /\ M' \in 0 .. Width - 1 /\ K' + M' = Minus(cons'.e, cons'.r)
         /\ ConsInv' <=>
              /\ K' + M' <= Size
              /\ \A i \in 0 .. M' - 1 : cons'.buf[(cons'.r + (K' + i)) % Size] \notin Enders
         /\ Ready' = [i \in 1 .. K' |-> cons'.buf[(cons'.r + (i - 1)) % Size]]
         /\ Edit' = [i \in 1 .. M' |-> cons'.buf[(cons'.r + (K' + (i - 1))) % Size]]
<1>0. ConsType' /\ (K <= Minus(cons.e, cons.r))'
  OBVIOUS
<1>1. (/\ K \in 0 .. Width - 1 /\ M \in 0 .. Width - 1 /\ K + M = Minus(cons.e, cons.r)
       /\ \A i \in 0 .. Width - 1 : /\ cons.buf[((cons.r + i) % Width) % Size] = Cell(i)
                                    /\ cons.buf[((cons.w + i) % Width) % Size] = Cell(K + i)
       /\ cons.e % Size = (cons.r + (K + M)) % Size)'
  BY <1>0, Cells, PTL
<1>2. (ConsInv <=> K + M <= Size /\ \A i \in 0 .. M - 1 : Cell(K + i) \notin Enders)'
  BY <1>0, ConsView, PTL
<1>3. (/\ Lines(cons.r, cons.w) = [i \in 1 .. K |-> Cell(i - 1)]
       /\ Lines(cons.w, cons.e) = [i \in 1 .. M |-> Cell(K + (i - 1))])'
  BY <1>0, LinesView, PTL
<1>4. Ready' = [i \in 1 .. K' |-> cons'.buf[(cons'.r + (i - 1)) % Size]]
  BY <1>3 DEF Ready, Cell
<1>5. Edit' = [i \in 1 .. M' |-> cons'.buf[(cons'.r + (K' + (i - 1))) % Size]]
  BY <1>3 DEF Edit, Cell
<1>6. ConsInv' <=>
        /\ K' + M' <= Size
        /\ \A i \in 0 .. M' - 1 : cons'.buf[(cons'.r + (K' + i)) % Size] \notin Enders
  BY <1>2 DEF Cell
<1> QED
  BY <1>1, <1>4, <1>5, <1>6

\* The invariant and what it says of the lines.
LEMMA ThisView ==
  ASSUME ConsInv
  PROVE  /\ ConsType /\ K \in 0 .. Width - 1 /\ M \in 0 .. Width - 1 /\ K + M <= Size
         /\ K + M = Minus(cons.e, cons.r)
         /\ cons.e % Size = (cons.r + (K + M)) % Size
         /\ \A i \in 0 .. M - 1 : Cell(K + i) \notin Enders
         /\ Ready = [i \in 1 .. K |-> Cell(i - 1)]
         /\ Edit = [i \in 1 .. M |-> Cell(K + (i - 1))]
         /\ \A j \in Nat : Cell(j) \in Keys \cup {None}
<1>0. ConsType /\ K <= Minus(cons.e, cons.r) /\ cons.r \in Nat
      /\ cons.buf \in [0 .. Size - 1 -> Keys \cup {None}]
  BY SizesAssumption DEF ConsInv, ConsType, K
<1>1. \A a \in Int : a % Size \in 0 .. Size - 1
  BY SizesAssumption, Slots
<1>2. \A j \in Nat : Cell(j) \in Keys \cup {None}
  <2> SUFFICES ASSUME NEW j \in Nat PROVE Cell(j) \in Keys \cup {None}
    OBVIOUS
  <2>1. cons.r + j \in Int
    BY <1>0
  <2>2. (cons.r + j) % Size \in 0 .. Size - 1
    BY <1>1, <2>1
  <2> QED
    BY <1>0, <2>2 DEF Cell
<1>3. K + M <= Size /\ \A i \in 0 .. M - 1 : Cell(K + i) \notin Enders
  BY <1>0, ConsView
<1> QED
  BY <1>0, <1>2, <1>3, Cells, LinesView DEF Ready, Edit

\* Counting up one of two uints.
LEMMA OneMore ==
  ASSUME NEW a \in 0 .. Width - 1, NEW b \in 0 .. Width - 1
  PROVE  /\ Plus(a) \in 0 .. Width - 1 /\ Minus(a, a) = 0
         /\ Minus(a, b) + 1 < Width => Minus(Plus(a), b) = Minus(a, b) + 1
         /\ a # b => Minus(a, Plus(b)) = Minus(a, b) - 1
         /\ a # b => Minus(Minus(a, 1), b) = Minus(a, b) - 1 /\ Minus(a, 1) \in 0 .. Width - 1
         /\ Minus(a, b) \in 0 .. Width - 1 /\ (Minus(a, b) = 0 => a = b)
<1>0. Width \in Nat /\ Width > 1 /\ 1 \in 0 .. Width - 1
  BY SizesAssumption
<1>1. /\ Minus(a, b) = IF a >= b THEN a - b ELSE a - b + Width
      /\ Minus(a, a) = IF a >= a THEN a - a ELSE a - a + Width
      /\ Plus(a) = IF a = Width - 1 THEN 0 ELSE a + 1
      /\ Plus(b) = IF b = Width - 1 THEN 0 ELSE b + 1
      /\ Minus(a, 1) = IF a >= 1 THEN a - 1 ELSE a - 1 + Width
  BY <1>0, Uints
<1>2. /\ Plus(a) \in 0 .. Width - 1 /\ Plus(b) \in 0 .. Width - 1
      /\ Minus(a, 1) \in 0 .. Width - 1
  BY <1>0, <1>1
<1>3. Minus(a, a) = 0 /\ Minus(a, b) \in 0 .. Width - 1 /\ (Minus(a, b) = 0 => a = b)
  BY <1>0, <1>1
<1>4. Minus(a, b) + 1 < Width => Minus(Plus(a), b) = Minus(a, b) + 1
  <2>1. Minus(Plus(a), b) = IF Plus(a) >= b THEN Plus(a) - b ELSE Plus(a) - b + Width
    BY <1>2, Uints
  <2> QED
    BY <1>0, <1>1, <1>2, <2>1
<1>5. a # b => Minus(a, Plus(b)) = Minus(a, b) - 1
  <2>1. Minus(a, Plus(b)) = IF a >= Plus(b) THEN a - Plus(b) ELSE a - Plus(b) + Width
    BY <1>2, Uints
  <2> QED
    BY <1>0, <1>1, <1>2, <2>1
<1>6. a # b => Minus(Minus(a, 1), b) = Minus(a, b) - 1
  <2>1. Minus(Minus(a, 1), b) = IF Minus(a, 1) >= b THEN Minus(a, 1) - b
                                ELSE Minus(a, 1) - b + Width
    BY <1>2, Uints
  <2> QED
    BY <1>0, <1>1, <1>2, <2>1
<1> QED
  BY <1>2, <1>3, <1>4, <1>5, <1>6

\* A character is typed: it ends the line, or makes it one longer.
LEMMA TypesSteps ==
  ASSUME ConsInv, NEW ch, Types(ch)
  PROVE  ConsInv' /\ LD!Key(ch)
<1> DEFINE S == Keys \cup {None}
           r == cons.r
           w == cons.w
           e == cons.e
           e1 == Plus(e)
           ends == ch \in Enders \/ Minus(e1, r) = Size
           b1 == cons'.buf
<1>0. /\ Size \in Nat \ {0} /\ Width \in Nat /\ Size < Width
      /\ r \in 0 .. Width - 1 /\ w \in 0 .. Width - 1 /\ e \in 0 .. Width - 1
      /\ cons.buf \in [0 .. Size - 1 -> S] /\ ch \in S
  BY SizesAssumption DEF ConsInv, ConsType, Types, Keys
<1>1. /\ K \in Nat /\ M \in Nat /\ K + M < Size /\ K + M = Minus(e, r)
      /\ e % Size = (r + (K + M)) % Size
  BY <1>0, ThisView DEF Types, Room
<1>a. /\ Size \in Nat \ {0} /\ K \in Nat /\ M \in Nat /\ K + M < Size
      /\ r \in Int /\ w \in Int /\ e \in Int
  BY <1>0, <1>1
<1>2. /\ e1 \in 0 .. Width - 1 /\ Minus(e1, r) = K + M + 1 /\ Minus(e1, w) = M + 1
      /\ Minus(w, r) = K /\ Minus(e1, e1) = 0
  <2>1. Minus(e, r) = K + M /\ Minus(e, w) = M /\ Minus(w, r) = K
    BY <1>1 DEF K, M
  <2>2. e1 \in 0 .. Width - 1
    BY <1>0, OneMore
  <2>3. K + M + 1 < Width /\ M + 1 < Width
    BY <1>0, <1>a
  <2>4. Minus(e1, r) = K + M + 1 /\ Minus(e1, w) = M + 1
    <3>1. Minus(e, r) + 1 < Width => Minus(e1, r) = Minus(e, r) + 1
      BY <1>0, OneMore
    <3>2. Minus(e, w) + 1 < Width => Minus(e1, w) = Minus(e, w) + 1
      BY <1>0, OneMore
    <3> QED
      BY <2>1, <2>3, <3>1, <3>2
  <2>5. Minus(e1, e1) = 0
    BY <2>2, OneMore
  <2> QED
    BY <2>1, <2>2, <2>4, <2>5
<1>3. /\ ConsType' /\ cons'.r = r /\ cons'.e = e1 /\ cons'.w = (IF ends THEN e1 ELSE w)
      /\ b1 = [cons.buf EXCEPT ![e % Size] = ch]
  <2> DEFINE x == IF ends THEN e1 ELSE w
             y == [cons.buf EXCEPT ![e % Size] = ch]
  <2>1. x \in 0 .. Width - 1 /\ y \in [0 .. Size - 1 -> S]
    BY <1>0, <1>2
  <2>2. cons' = [cons EXCEPT !.buf = y, !.e = e1, !.w = x]
    BY DEF Types
  <2>3. cons \in [buf : [0 .. Size - 1 -> S], r : 0 .. Width - 1, w : 0 .. Width - 1,
                  e : 0 .. Width - 1]
    BY DEF ConsInv, ConsType
  <2> HIDE DEF x, y, e1, S
  <2>4. /\ cons' \in [buf : [0 .. Size - 1 -> S], r : 0 .. Width - 1, w : 0 .. Width - 1,
                      e : 0 .. Width - 1]
        /\ cons'.r = cons.r /\ cons'.e = e1 /\ cons'.w = x /\ cons'.buf = y
    BY <1>2, <2>1, <2>2, <2>3, Zenon
  <2> QED
    BY <2>4 DEF ConsType, x, y, S
<1> HIDE DEF e1
<1>4. \A a \in Int : a % Size \in 0 .. Size - 1
  BY <1>0, Slots
<1>5. b1[(r + (K + M)) % Size] = ch
  <2>1. e % Size \in 0 .. Size - 1
    BY <1>a, <1>4
  <2> QED
    BY <1>0, <1>1, <1>3, <2>1
<1>6. ASSUME NEW j \in 0 .. K + M - 1 PROVE b1[(r + j) % Size] = Cell(j)
  <2>1. r + j \in Int /\ K + M - j \in 1 .. Size - 1 /\ (r + j) + (K + M - j) = r + (K + M)
    BY <1>a
  <2>2. (r + (K + M)) % Size # (r + j) % Size
    <3>1. ((r + j) + (K + M - j)) % Size # (r + j) % Size
      BY <1>0, <2>1, Slots
    <3> QED
      BY <2>1, <3>1
  <2> QED
    BY <1>0, <1>1, <1>3, <1>4, <2>1, <2>2 DEF Cell
<1>7. /\ Ready = [i \in 1 .. K |-> Cell(i - 1)]
      /\ Edit = [i \in 1 .. M |-> Cell(K + (i - 1))]
      /\ \A j \in Nat : Cell(j) \in S
      /\ \A i \in 0 .. M - 1 : Cell(K + i) \notin Enders
  BY ThisView
<1> HIDE DEF S
<1>8. Ready \in [1 .. K -> S] /\ Edit \in [1 .. M -> S]
  BY <1>1, <1>7
<1>9. /\ Ready \in Seq(S) /\ Len(Ready) = K
      /\ Edit \in Seq(S) /\ Len(Edit) = M
      /\ Len(Append(Edit, ch)) = M + 1
  <2>1. Ready \in Seq(S) /\ Len(Ready) = K
    BY <1>1, <1>8, FunSeq
  <2>2. Edit \in Seq(S) /\ Len(Edit) = M
    BY <1>1, <1>8, FunSeq
  <2>3. Len(Append(Edit, ch)) = M + 1
    BY <2>2
  <2> QED
    BY <2>1, <2>2, <2>3
<1>10. Len(Ready) + Len(Append(Edit, ch)) = Size <=> Minus(e1, r) = Size
  BY <1>1, <1>2, <1>9
<1>11. ASSUME NEW j \in 0 .. K + M PROVE b1[(r + j) % Size] \in S
  <2>1. CASE j = K + M
    BY <1>0, <1>5, <2>1
  <2>2. CASE j # K + M
    <3>1. j \in 0 .. K + M - 1 /\ j \in Nat
      BY <1>1, <2>2
    <3> QED
      BY <1>6, <1>7, <3>1
  <2> QED
    BY <2>1, <2>2
<1>12. CASE ends
  <2>1. K' = K + M + 1 /\ M' = 0 /\ Minus(cons'.e, cons'.r) = K + M + 1
    BY <1>2, <1>3, <1>12 DEF K, M
  <2>2. ConsInv'
    <3>1. K' + M' <= Size /\ K' <= Minus(cons'.e, cons'.r) /\ \A i \in 0 .. M' - 1 : FALSE
      BY <1>a, <2>1
    <3> QED
      BY <1>3, <3>1, NextView
  <2>3. Ready' = [i \in 1 .. K + M + 1 |-> b1[(r + (i - 1)) % Size]] /\ Edit' = <<>>
    BY <1>1, <1>3, <2>1, NextView
  <2>4. Ready' \in [1 .. K + M + 1 -> S]
    <3>1. \A i \in 1 .. K + M + 1 : i - 1 \in 0 .. K + M
      BY <1>1
    <3> QED
      BY <1>11, <2>3, <3>1
  <2>5. Ready' \in Seq(S) /\ Len(Ready') = K + (M + 1)
    BY <1>1, <2>4, FunSeq
  <2> DEFINE line == Append(Edit, ch)
  <2>6. /\ line \in Seq(S) /\ Len(line) = M + 1 /\ line[M + 1] = ch
        /\ \A i \in 1 .. M : line[i] = Edit[i]
    BY <1>0, <1>1, <1>9
  <2>7. ASSUME NEW i \in 1 .. K PROVE Ready'[i] = Ready[i]
    <3>1. i - 1 \in 0 .. K + M - 1 /\ i \in 1 .. K + M + 1
      BY <1>1
    <3> QED
      BY <1>6, <1>7, <2>3, <3>1
  <2>8. ASSUME NEW i \in 1 .. M + 1 PROVE Ready'[K + i] = line[i]
    <3>1. Ready'[K + i] = b1[(r + (K + (i - 1))) % Size]
      <4>1. K + i \in 1 .. K + M + 1 /\ (K + i) - 1 = K + (i - 1)
        BY <1>a
      <4> QED
        BY <2>3, <4>1
    <3>2. CASE i = M + 1
      <4>1. K + (i - 1) = K + M
        BY <1>1, <3>2
      <4> QED
        BY <1>5, <2>6, <3>1, <3>2, <4>1
    <3>3. CASE i # M + 1
      <4>1. i \in 1 .. M /\ K + (i - 1) \in 0 .. K + M - 1
        BY <1>1, <3>3
      <4> QED
        BY <1>6, <1>7, <2>6, <3>1, <4>1
    <3> QED
      BY <3>2, <3>3
  <2> HIDE DEF line
  <2>9. Ready' = Ready \o line
    <3>1. Len(Ready') = Len(Ready) + Len(line) /\ Ready \in Seq(S) /\ line \in Seq(S)
      BY <1>a, <1>9, <2>5, <2>6
    <3>2. \A i \in 1 .. Len(Ready) : Ready'[i] = Ready[i]
      BY <1>9, <2>7
    <3>3. \A i \in 1 .. Len(line) : Ready'[Len(Ready) + i] = line[i]
      BY <1>9, <2>6, <2>8
    <3> QED
      BY <2>5, <3>1, <3>2, <3>3, SeqConcat
  <2> QED
    BY <1>1, <1>9, <1>10, <1>12, <2>2, <2>3, <2>9 DEF LD!Key, Ready, Edit, Enders, line
<1>13. CASE ~ends
  <2>1. K' = K /\ M' = M + 1 /\ Minus(cons'.e, cons'.r) = K + M + 1
    BY <1>2, <1>3, <1>13 DEF K, M
  <2>2. /\ Ready' = [i \in 1 .. K |-> b1[(r + (i - 1)) % Size]]
        /\ Edit' = [i \in 1 .. M + 1 |-> b1[(r + (K + (i - 1))) % Size]]
    BY <1>1, <1>3, <2>1, NextView
  <2>3. ASSUME NEW i \in 0 .. M PROVE b1[(r + (K + i)) % Size] \notin Enders
    <3>1. CASE i = M
      BY <1>5, <1>13, <3>1
    <3>2. CASE i # M
      <4>1. i \in 0 .. M - 1 /\ K + i \in 0 .. K + M - 1
        BY <1>1, <3>2
      <4> QED
        BY <1>6, <1>7, <4>1
    <3> QED
      BY <3>1, <3>2
  <2>4. ConsInv'
    <3>1. K' + M' <= Size /\ \A i \in 0 .. M' - 1 : i \in 0 .. M
      BY <1>a, <2>1
    <3>2. \A i \in 0 .. M' - 1 : cons'.buf[(cons'.r + (K' + i)) % Size] \notin Enders
      BY <1>3, <2>1, <2>3, <3>1
    <3>3. K' <= Minus(cons'.e, cons'.r)
      BY <1>1, <2>1
    <3> QED
      BY <1>3, <3>1, <3>2, <3>3, NextView
  <2>5. Ready' = Ready
    <3>1. \A i \in 1 .. K : i - 1 \in 0 .. K + M - 1
      BY <1>1
    <3> QED
      BY <1>6, <1>7, <2>2, <3>1
  <2>6. Edit' \in [1 .. M + 1 -> S]
    <3>1. \A i \in 1 .. M + 1 : K + (i - 1) \in 0 .. K + M
      BY <1>1
    <3> QED
      BY <1>11, <2>2, <3>1
  <2>7. \A i \in 1 .. M : Edit'[i] = Edit[i]
    <3>1. \A i \in 1 .. M : K + (i - 1) \in 0 .. K + M - 1 /\ i \in 1 .. M + 1
      BY <1>1
    <3> QED
      BY <1>6, <1>7, <2>2, <3>1
  <2>8. Edit'[M + 1] = ch
    <3>1. M + 1 \in 1 .. M + 1 /\ K + ((M + 1) - 1) = K + M
      BY <1>a
    <3> QED
      BY <1>5, <2>2, <3>1
  <2>9. Edit' = Append(Edit, ch)
    BY <1>1, <1>8, <2>6, <2>7, <2>8, FunAppend
  <2> QED
    BY <1>1, <1>9, <1>10, <1>13, <2>4, <2>5, <2>9 DEF LD!Key, Ready, Edit, Enders
<1> QED
  BY <1>12, <1>13

\* One character, or the line, is erased.
LEMMA ErasesSteps ==
  ASSUME ConsInv, Erases
  PROVE  ConsInv' /\ LD!Erase
<1> DEFINE S == Keys \cup {None}
           r == cons.r
           w == cons.w
           e == cons.e
           f == cons'.e
<1>0. /\ Size \in Nat \ {0} /\ Width \in Nat /\ Size < Width
      /\ r \in 0 .. Width - 1 /\ w \in 0 .. Width - 1 /\ e \in 0 .. Width - 1 /\ e # w
  BY SizesAssumption DEF ConsInv, ConsType, Erases
<1>1. /\ K \in Nat /\ M \in Nat /\ K + M <= Size /\ K + M = Minus(e, r)
      /\ Minus(e, w) = M /\ Minus(w, r) = K
  BY <1>0, ThisView DEF K, M
<1>2. M # 0 /\ K + M # 0 /\ e # r
  <2>1. M # 0
    BY <1>0, <1>1, OneMore
  <2>2. K + M # 0
    BY <1>1, <2>1
  <2>3. Minus(r, r) = 0
    BY <1>0, OneMore
  <2> QED
    BY <1>1, <2>1, <2>2, <2>3
<1>3. PICK n \in {0, M - 1} : f \in 0 .. Width - 1 /\ Minus(f, w) = n /\ Minus(f, r) = K + n
                               /\ cons' = [cons EXCEPT !.e = f]
  <2>1. CASE cons' = [cons EXCEPT !.e = w]
    <3>1. f = w /\ Minus(w, w) = 0
      BY <1>0, <2>1, OneMore DEF ConsInv, ConsType
    <3> QED
      BY <1>0, <1>1, <2>1, <3>1
  <2>2. CASE cons' = [cons EXCEPT !.e = Minus(e, 1)]
    <3>1. f = Minus(e, 1)
      BY <2>2 DEF ConsInv, ConsType
    <3>0. e \in 0 .. Width - 1 /\ w \in 0 .. Width - 1 /\ e # w
      BY <1>0
    <3>a. Minus(Minus(e, 1), w) = Minus(e, w) - 1
      BY <3>0, OneMore
    <3>c. Minus(e, 1) \in 0 .. Width - 1
      BY <3>0, OneMore
    <3>b. Minus(Minus(e, 1), r) = Minus(e, r) - 1
      BY <1>0, <1>2, OneMore
    <3>2. f \in 0 .. Width - 1 /\ Minus(f, w) = Minus(e, w) - 1 /\ Minus(f, r) = Minus(e, r) - 1
      BY <3>1, <3>a, <3>b, <3>c
    <3>3. Minus(f, w) = M - 1 /\ Minus(f, r) = K + (M - 1)
      BY <1>1, <3>2
    <3> QED
      BY <2>2, <3>1, <3>2, <3>3
  <2> QED
    BY <2>1, <2>2 DEF Erases
<1> HIDE DEF f
<1>4. ConsType' /\ cons'.r = r /\ cons'.w = w /\ cons'.e = f /\ cons'.buf = cons.buf
  BY <1>3 DEF ConsInv, ConsType
<1>5. K' = K /\ M' = n /\ n \in 0 .. M - 1 /\ K' <= Minus(cons'.e, cons'.r) /\ K' + M' <= Size
  <2>1. K' = K /\ M' = n /\ Minus(cons'.e, cons'.r) = K + n
    BY <1>3, <1>4 DEF K, M
  <2>2. n \in 0 .. M - 1
    BY <1>1, <1>2
  <2> QED
    BY <1>0, <1>1, <2>1, <2>2
<1>6. /\ Ready = [i \in 1 .. K |-> Cell(i - 1)]
      /\ Edit = [i \in 1 .. M |-> Cell(K + (i - 1))]
      /\ \A j \in Nat : Cell(j) \in S
      /\ \A i \in 0 .. M - 1 : Cell(K + i) \notin Enders
  BY ThisView
<1>7. ConsInv'
  <2>1. \A i \in 0 .. M' - 1 : i \in 0 .. M - 1
    BY <1>1, <1>5
  <2>2. \A i \in 0 .. M' - 1 : cons'.buf[(cons'.r + (K' + i)) % Size] \notin Enders
    BY <1>4, <1>5, <1>6, <2>1 DEF Cell
  <2> QED
    BY <1>4, <1>5, <2>2, NextView
<1>8. /\ Ready' = [i \in 1 .. K |-> Cell(i - 1)]
      /\ Edit' = [i \in 1 .. n |-> Cell(K + (i - 1))]
  BY <1>4, <1>5, NextView DEF Cell
<1> HIDE DEF S
<1>9. Edit \in [1 .. M -> S] /\ Edit' \in [1 .. n -> S]
  <2>1. /\ \A i \in 1 .. M : K + (i - 1) \in Nat
        /\ \A i \in 1 .. n : K + (i - 1) \in Nat
    BY <1>1, <1>5
  <2> QED
    BY <1>6, <1>8, <2>1
<1>10. Len(Edit) = M /\ Edit # <<>>
  BY <1>1, <1>2, <1>9, FunSeq
<1>11. Edit' = SubSeq(Edit, 1, n)
  <2>1. n \in 0 .. M /\ \A i \in 1 .. n : i \in 1 .. M
    BY <1>1, <1>5
  <2>2. \A i \in 1 .. n : Edit'[i] = Edit[i]
    BY <1>6, <1>8, <2>1
  <2> QED
    BY <1>1, <1>9, <2>1, <2>2, FunSub
<1>12. n \in {0, Len(Edit) - 1}
  BY <1>3, <1>10
<1>13. Ready' = Ready
  BY <1>6, <1>8
<1> QED
  BY <1>7, <1>10, <1>11, <1>12, <1>13 DEF LD!Erase, Ready, Edit

\* The first character of the lines is read.
LEMMA ReadsSteps ==
  ASSUME ConsInv, Reads
  PROVE  ConsInv' /\ LD!Read
<1> DEFINE S == Keys \cup {None}
           r == cons.r
           w == cons.w
           e == cons.e
           r1 == Plus(r)
<1>0. /\ Size \in Nat \ {0} /\ Width \in Nat /\ Size < Width /\ Width % Size = 0
      /\ r \in 0 .. Width - 1 /\ w \in 0 .. Width - 1 /\ e \in 0 .. Width - 1 /\ r # w
  BY SizesAssumption DEF ConsInv, ConsType, Reads
<1>a. r \in 0 .. Width - 1 /\ w \in 0 .. Width - 1 /\ e \in 0 .. Width - 1 /\ r # w
  BY <1>0
<1>1. /\ K \in Nat /\ M \in Nat /\ K + M <= Size /\ K + M = Minus(e, r)
      /\ Minus(e, w) = M /\ Minus(w, r) = K
  BY <1>0, ThisView DEF K, M
<1>2. K # 0 /\ K + M # 0 /\ e # r
  <2>1. K # 0
    <3>1. Minus(w, r) # 0
      BY <1>a, OneMore
    <3> QED
      BY <1>1, <3>1
  <2>2. K + M # 0
    BY <1>1, <2>1
  <2>3. Minus(r, r) = 0
    BY <1>0, OneMore
  <2> QED
    BY <1>1, <2>1, <2>2, <2>3
<1>3. /\ r1 \in 0 .. Width - 1 /\ Minus(w, r1) = K - 1 /\ Minus(e, r1) = (K - 1) + M
      /\ r1 = r + 1 \/ r1 = (r + 1) - Width
  <2>a. r1 \in 0 .. Width - 1 /\ Minus(w, r1) = Minus(w, r) - 1
    BY <1>a, OneMore
  <2>b. Minus(e, r1) = Minus(e, r) - 1
    BY <1>a, <1>2, OneMore
  <2>1. r1 \in 0 .. Width - 1 /\ Minus(w, r1) = Minus(w, r) - 1 /\ Minus(e, r1) = Minus(e, r) - 1
    BY <2>a, <2>b
  <2>2. r1 = IF r = Width - 1 THEN 0 ELSE r + 1
    BY <1>0, Uints
  <2> QED
    BY <1>0, <1>1, <2>1, <2>2
<1> HIDE DEF r1
<1>4. ConsType' /\ cons'.r = r1 /\ cons'.w = w /\ cons'.e = e /\ cons'.buf = cons.buf
  <2>1. cons' = [cons EXCEPT !.r = r1]
    BY DEF Reads, r1
  <2> QED
    BY <1>3, <2>1 DEF ConsInv, ConsType
<1>5. K' = K - 1 /\ M' = M /\ K' <= Minus(cons'.e, cons'.r) /\ K' + M' <= Size
  <2>1. K' = K - 1 /\ M' = M /\ Minus(cons'.e, cons'.r) = (K - 1) + M
    BY <1>3, <1>4 DEF K, M
  <2> QED
    BY <1>0, <1>1, <1>2, <2>1
<1>6. /\ Ready = [i \in 1 .. K |-> Cell(i - 1)]
      /\ Edit = [i \in 1 .. M |-> Cell(K + (i - 1))]
      /\ \A j \in Nat : Cell(j) \in S
      /\ \A i \in 0 .. M - 1 : Cell(K + i) \notin Enders
  BY ThisView
<1>7. ASSUME NEW j \in Nat PROVE cons'.buf[(cons'.r + j) % Size] = Cell(1 + j)
  <2>1. r + (1 + j) \in Int /\ (r1 + j = r + (1 + j) \/ r1 + j = (r + (1 + j)) - Width)
    BY <1>0, <1>3
  <2>2. ((r + (1 + j)) - Width) % Size = (r + (1 + j)) % Size
    BY <1>0, <2>1, Slots
  <2> QED
    BY <1>4, <2>1, <2>2 DEF Cell
<1>8. ConsInv'
  <2>1. ASSUME NEW i \in 0 .. M' - 1
        PROVE  cons'.buf[(cons'.r + (K' + i)) % Size] \notin Enders
    <3>1. i \in 0 .. M - 1 /\ K' + i \in Nat /\ 1 + (K' + i) = K + i
      BY <1>1, <1>2, <1>5
    <3> QED
      BY <1>6, <1>7, <3>1
  <2> QED
    BY <1>4, <1>5, <2>1, NextView
<1>9. Edit' = Edit
  <2>1. Edit' = [i \in 1 .. M |-> cons'.buf[(cons'.r + (K' + (i - 1))) % Size]]
    BY <1>4, <1>5, NextView
  <2>2. ASSUME NEW i \in 1 .. M
        PROVE  cons'.buf[(cons'.r + (K' + (i - 1))) % Size] = Cell(K + (i - 1))
    <3>1. K' + (i - 1) \in Nat /\ 1 + (K' + (i - 1)) = K + (i - 1)
      BY <1>1, <1>2, <1>5
    <3> QED
      BY <1>7, <3>1
  <2> QED
    BY <1>6, <2>1, <2>2
<1>10. Ready' = Tail(Ready) /\ Ready # <<>>
  <2>1. Ready' = [i \in 1 .. K - 1 |-> cons'.buf[(cons'.r + (i - 1)) % Size]]
    BY <1>4, <1>5, NextView
  <2>2. \A i \in 1 .. K - 1 : i - 1 \in Nat /\ 1 + (i - 1) = (i + 1) - 1 /\ i + 1 \in 1 .. K
    BY <1>1
  <2>3. ASSUME NEW i \in 1 .. K - 1 PROVE Ready'[i] = Ready[i + 1]
    BY <1>6, <1>7, <2>1, <2>2
  <2> HIDE DEF S
  <2>4. Ready \in [1 .. K -> S] /\ Ready' \in [1 .. K - 1 -> S]
    <3>1. \A i \in 1 .. K : i - 1 \in Nat
      BY <1>1
    <3>2. Ready \in [1 .. K -> S]
      BY <1>6, <3>1
    <3>3. ASSUME NEW i \in 1 .. K - 1 PROVE cons'.buf[(cons'.r + (i - 1)) % Size] \in S
      <4>1. i - 1 \in Nat /\ 1 + (i - 1) \in Nat
        BY <2>2
      <4>2. cons'.buf[(cons'.r + (i - 1)) % Size] = Cell(1 + (i - 1))
        BY <1>7, <4>1
      <4> QED
        BY <1>6, <4>1, <4>2
    <3> QED
      BY <2>1, <3>2, <3>3
  <2>5. K \in Nat \ {0}
    BY <1>1, <1>2
  <2> QED
    BY <2>3, <2>4, <2>5, FunTail
<1> QED
  BY <1>8, <1>9, <1>10 DEF LD!Read, Ready, Edit

\* Every step of the system keeps the console's invariant, and is a step of the line
\* discipline or none.
LEMMA ConsSteps ==
  ASSUME KernelInv, ConsInv, Step
  PROVE  ConsInv' /\ [LD!Next]_<<Ready, Edit>>
<1>1. CASE cons' = cons
  <2>1. ConsInv'
    BY <1>1 DEF ConsInv, ConsType, Minus
  <2>2. Ready' = Ready /\ Edit' = Edit
    BY <1>1 DEF Ready, Edit, Lines, Minus
  <2> QED
    BY <2>1, <2>2
<1>2. ASSUME NEW ch, Types(ch) PROVE ConsInv' /\ LD!Next
  <2>1. ch \in Letters \cup {"newline", "^D"}
    BY <1>2 DEF Types, Enders
  <2> QED
    BY <1>2, <2>1, TypesSteps DEF LD!Next
<1>3. CASE Erases
  BY <1>3, ErasesSteps DEF LD!Next
<1>4. CASE Reads
  BY <1>4, ReadsSteps DEF LD!Next
<1> QED
  BY <1>1, <1>2, <1>3, <1>4, StepsOfCons DEF ConsStep

(***************************************************************************)
(* Who writes to the uart.                                                 *)
(***************************************************************************)
\* A frame that has called push_off is the one that its hart executes.
LEMMA Executes ==
  ASSUME KernelInv, NEW f \in Harts \cup Procs, Depth(code[f]) > 0
  PROVE  \E c \in Harts : Runs(c, f)
<1>0. /\ Harts \cap Procs = {} /\ None \notin Harts \cup Procs /\ RunInv
      /\ code[f] \in Frame
  BY NamesAssumption DEF KernelInv, CodeType
<1>1. CASE f \in Harts
  <2>1. code[f].pc # "none"
    BY DEF Depth, In, InSync, One
  <2> QED
    BY <1>1, <2>1 DEF Runs, InHandler
<1>2. CASE f \in Procs
  <2>1. proc[f].state = "running"
    BY <1>2 DEF KernelInv, WaitInv
  <2>2. PICK c \in Harts : cpu[c].run = f
    BY <1>0, <1>2, <2>1 DEF RunInv
  <2>3. HartInv(c)
    BY DEF KernelInv
  <2>4. ~InHandler(c)
    BY <1>0, <2>2, <2>3 DEF HartInv
  <2> QED
    BY <1>2, <2>2, <2>4 DEF Runs
<1> QED
  BY <1>1, <1>2

\* Only one frame is inside uart_tx_lock.
LEMMA UartOwner ==
  ASSUME KernelInv, NEW f \in Harts \cup Procs, NEW g \in Harts \cup Procs,
         In(code[f], "uart"), code[f].spin = None, In(code[g], "uart"), code[g].spin = None
  PROVE  f = g
<1>0. "uart" \in Locks /\ None \notin Locks /\ Harts \cap Procs = {} /\ None \notin Harts \cup Procs
  BY NamesAssumption DEF Locks
<1>1. code[f] \in Frame /\ code[g] \in Frame
  BY DEF KernelInv, CodeType
<1>2. Depth(code[f]) > 0 /\ Depth(code[g]) > 0
  BY <1>0, <1>1, DepthNat
<1>3. PICK c \in Harts : Runs(c, f)
  BY <1>2, Executes
<1>4. PICK d \in Harts : Runs(d, g)
  BY <1>2, Executes
<1>5. lock["uart"] = c
  BY <1>0, <1>3, RunsTop DEF HartInv
<1>6. lock["uart"] = d
  BY <1>0, <1>4, RunsTop DEF HartInv
<1> QED
  BY <1>0, <1>3, <1>4, <1>5, <1>6 DEF Runs

\* There is one hart for each frame that is about to write.
LEMMA WritersFit ==
  ASSUME KernelInv
  PROVE  IsFiniteSet(Writing) /\ Cardinality(Writing) <= Cardinality(Harts)
<1>1. ASSUME NEW f \in Writing PROVE \E c \in Harts : Runs(c, f)
  <2>1. code[f] \in Frame /\ f \in Harts \cup Procs
    BY DEF KernelInv, CodeType, Writing
  <2>2. In(code[f], "uart") \/ code[f].pc = "sync_thr"
    BY DEF Writing, WP, In
  <2>3. Depth(code[f]) > 0
    BY <2>1, <2>2, DepthNat DEF Locks
  <2> QED
    BY <2>1, <2>3, Executes
<1> DEFINE hart == [f \in Writing |-> CHOOSE c \in Harts : Runs(c, f)]
<1>2. ASSUME NEW f \in Writing PROVE hart[f] \in Harts /\ Runs(hart[f], f)
  BY <1>1
<1>3. hart \in [Writing -> Harts]
  BY <1>2
<1>4. \A f, g \in Writing : hart[f] = hart[g] => f = g
  BY <1>2 DEF Runs
<1>5. hart \in Injection(Writing, Harts)
  BY <1>3, <1>4 DEF Injection, IsInjective
<1> QED
  BY <1>5, FS_Injection, SizesAssumption

\* A frame that enters or leaves.
LEMMA WritingBut ==
  ASSUME NEW f \in Harts \cup Procs, Only(f)
  PROVE  /\ code'[f].pc \notin WP => Writing' = Writing \ {f}
         /\ code'[f].pc \in WP => Writing' = Writing \cup {f}
  BY DEF Only, Writing

(***************************************************************************)
(* The parts of NothingLost: what is in the ring, on its way and in the    *)
(* fifo.                                                                   *)
(***************************************************************************)
Ring == [i \in 1 .. tx.w - tx.r |-> tx.buf[(tx.r + i - 1) % TxSize]]
Thr == {f \in Harts \cup Procs : code[f].pc = "thr"}
Moving == IF Thr = {} THEN <<>> ELSE <<code[CHOOSE f \in Thr : TRUE].ch>>
OursAt == {i \in 1 .. Len(dev.fifo) : dev.fifo[i] # Echo}
OnFifo == IF OursAt = {} THEN <<>> ELSE <<dev.fifo[CHOOSE i \in OursAt : TRUE]>>

\* They make up the property.
LEMMA NothingLostParts ==
  NothingLost <=> /\ \A i, j \in OursAt : i = j
                  /\ written = sent \o OnFifo \o Moving \o Ring
  BY DEF NothingLost, Ring, Thr, Moving, OursAt, OnFifo

\* Putting sequences one after another.
LEMMA Associates ==
  ASSUME NEW S, NEW s \in Seq(S), NEW t \in Seq(S), NEW u \in Seq(S)
  PROVE  (s \o t) \o u = s \o (t \o u)
  OBVIOUS

\* A character enters the ring.
LEMMA PassIn ==
  ASSUME NEW S, NEW s \in Seq(S), NEW r \in Seq(S), NEW x \in S
  PROVE  s \o Append(r, x) = Append(s \o r, x)
<1>1. <<x>> \in Seq(S) /\ s \o r \in Seq(S)
  OBVIOUS
<1>2. (s \o r) \o <<x>> = s \o (r \o <<x>>)
  BY <1>1, Associates
<1>3. Append(r, x) = r \o <<x>> /\ Append(s \o r, x) = (s \o r) \o <<x>>
  BY <1>1
<1> QED
  BY <1>2, <1>3

\* A character leaves the ring for a frame.
LEMMA PassOn ==
  ASSUME NEW S, NEW s \in Seq(S), NEW r \in Seq(S), NEW x \in S
  PROVE  s \o <<>> \o (<<x>> \o r) = s \o <<x>> \o r
<1>1. <<x>> \in Seq(S) /\ s \o <<>> = s
  BY ConcatEmptySeq
<1>2. (s \o <<x>>) \o r = s \o (<<x>> \o r)
  BY <1>1, Associates
<1> QED
  BY <1>1, <1>2

\* A frame writes a character to the fifo.
LEMMA PassThr ==
  ASSUME NEW S, NEW s \in Seq(S), NEW x \in S
  PROVE  s \o <<>> \o <<x>> = s \o <<x>> \o <<>>
<1>1. <<x>> \in Seq(S) /\ s \o <<x>> \in Seq(S)
  OBVIOUS
<1>2. s \o <<>> = s /\ (s \o <<x>>) \o <<>> = s \o <<x>>
  BY <1>1, ConcatEmptySeq
<1> QED
  BY <1>2

\* The uart sends a character.
LEMMA PassOut ==
  ASSUME NEW S, NEW s \in Seq(S), NEW x \in S
  PROVE  Append(s, x) \in Seq(S) /\ Append(s, x) \o <<>> = s \o <<x>>
<1>1. Append(s, x) \in Seq(S) /\ Append(s, x) = s \o <<x>>
  OBVIOUS
<1>2. Append(s, x) \o <<>> = Append(s, x)
  BY <1>1, ConcatEmptySeq
<1> QED
  BY <1>1, <1>2

\* The frame on its way is the only one.
LEMMA MovingIs ==
  ASSUME KernelInv, ThrInv
  PROVE  /\ \A f \in Thr : Thr = {f} /\ Moving = <<code[f].ch>>
         /\ \A f \in Harts \cup Procs : code[f].pc = "start" /\ code[f].spin = None => Thr = {}
<1>1. ASSUME NEW f \in Thr, NEW g \in Harts \cup Procs, code[g].pc \in {"start", "thr"},
             code[g].spin = None
      PROVE  f = g
  <2>1. /\ f \in Harts \cup Procs /\ code[f].spin = None
        /\ In(code[f], "uart") /\ In(code[g], "uart")
    BY <1>1 DEF Thr, ThrInv, In
  <2> QED
    BY <1>1, <2>1, UartOwner
<1>2. \A f \in Thr : code[f].pc = "thr" /\ code[f].spin = None /\ f \in Harts \cup Procs
  BY DEF Thr, ThrInv
<1>3. ASSUME NEW f \in Thr PROVE Thr = {f}
  BY <1>1, <1>2
<1>4. ASSUME NEW f \in Thr PROVE Moving = <<code[f].ch>>
  <2>1. (CHOOSE g \in Thr : TRUE) = f /\ Thr # {}
    BY <1>3
  <2> QED
    BY <2>1 DEF Moving
<1>5. ASSUME NEW g \in Harts \cup Procs, code[g].pc = "start", code[g].spin = None PROVE Thr = {}
  BY <1>1, <1>2, <1>5
<1> QED
  BY <1>3, <1>4, <1>5

\* What is in the fifo.
LEMMA OnFifoIs ==
  ASSUME \A i, j \in OursAt : i = j
  PROVE  \A i \in OursAt : OursAt = {i} /\ OnFifo = <<dev.fifo[i]>>
<1> SUFFICES ASSUME NEW i \in OursAt PROVE OursAt = {i} /\ OnFifo = <<dev.fifo[i]>>
  OBVIOUS
<1>1. OursAt = {i} /\ OursAt # {}
  OBVIOUS
<1>2. (CHOOSE j \in OursAt : TRUE) = i
  BY <1>1
<1> QED
  BY <1>1, <1>2 DEF OnFifo

\* The ring as a sequence.
LEMMA RingType ==
  ASSUME TxInv
  PROVE  tx.w - tx.r \in Nat /\ Ring \in [1 .. tx.w - tx.r -> Chars]
<1>1. tx.w - tx.r \in Nat /\ tx.r \in Nat
  BY DEF TxInv
<1>2. ASSUME NEW i \in 1 .. tx.w - tx.r PROVE tx.buf[(tx.r + i - 1) % TxSize] \in Chars
  <2>1. tx.r + i - 1 \in tx.r .. tx.w - 1
    BY <1>1 DEF TxInv
  <2> QED
    BY <2>1 DEF TxInv
<1>3. Ring \in [1 .. tx.w - tx.r -> Chars]
  BY <1>2 DEF Ring
<1> QED
  BY <1>1, <1>3

\* The types of all parts.
LEMMA PartsType ==
  ASSUME KernelInv, DeviceType, UartInv
  PROVE  /\ Ring \in Seq(Chars) /\ Len(Ring) = tx.w - tx.r
         /\ Moving \in Seq(Chars) /\ OnFifo \in Seq(Chars)
         /\ dev.fifo \in Seq(Chars \cup {Echo}) /\ dev.depth = Fifo
<1>1. tx.w - tx.r \in Nat /\ Ring \in [1 .. tx.w - tx.r -> Chars]
  BY RingType DEF DeviceType
<1>2. Moving \in Seq(Chars)
  <2>1. CASE Thr = {}
    BY <2>1 DEF Moving
  <2>2. CASE Thr # {}
    <3>1. PICK f \in Thr : TRUE
      BY <2>2
    <3>2. code[f].ch \in Chars
      BY DEF Thr, DeviceType, ThrInv
    <3>3. Moving = <<code[f].ch>>
      BY MovingIs DEF DeviceType
    <3> QED
      BY <3>2, <3>3
  <2> QED
    BY <2>1, <2>2
<1>3. dev.fifo \in Seq(Chars \cup {Echo}) /\ dev.depth = Fifo
  BY DEF DeviceType, DevInv
<1>4. OnFifo \in Seq(Chars)
  <2>1. CASE OursAt = {}
    BY <2>1 DEF OnFifo
  <2>2. CASE OursAt # {}
    <3>1. PICK i \in OursAt : TRUE
      BY <2>2
    <3>2. i \in 1 .. Len(dev.fifo) /\ dev.fifo[i] # Echo
      BY DEF OursAt
    <3>3. dev.fifo[i] \in Chars
      BY <1>3, <3>2
    <3>4. OnFifo = <<dev.fifo[i]>>
      BY <3>1, NothingLostParts, OnFifoIs DEF UartInv
    <3> QED
      BY <3>3, <3>4
  <2> QED
    BY <2>1, <2>2
<1> QED
  BY <1>1, <1>2, <1>3, <1>4, FunSeq

(***************************************************************************)
(* The uart's invariant, step by step.                                     *)
(***************************************************************************)
\* The invariant in these terms.
LEMMA UartParts ==
  UartInv <=> /\ written \in Seq(Chars) /\ sent \in Seq(Chars)
              /\ Len(dev.fifo) + Cardinality(Writing) <= Cardinality(Harts)
              /\ Thr # {} => OursAt = {}
              /\ \A i, j \in OursAt : i = j
              /\ written = sent \o OnFifo \o Moving \o Ring
<1>1. (Thr # {} => OursAt = {}) <=>
        \A f \in Harts \cup Procs : code[f].pc = "thr" =>
          \A i \in 1 .. Len(dev.fifo) : dev.fifo[i] = Echo
  BY DEF Thr, OursAt
<1> QED
  BY <1>1, NothingLostParts DEF UartInv

\* The same of the next state.
LEMMA UartPartsNext ==
  UartInv' <=> /\ written' \in Seq(Chars) /\ sent' \in Seq(Chars)
               /\ Len(dev'.fifo) + Cardinality(Writing') <= Cardinality(Harts)
               /\ Thr' # {} => OursAt' = {}
               /\ \A i, j \in OursAt' : i = j
               /\ written' = sent' \o OnFifo' \o Moving' \o Ring'
<1>1. (UartInv <=> /\ written \in Seq(Chars) /\ sent \in Seq(Chars)
                   /\ Len(dev.fifo) + Cardinality(Writing) <= Cardinality(Harts)
                   /\ Thr # {} => OursAt = {}
                   /\ \A i, j \in OursAt : i = j
                   /\ written = sent \o OnFifo \o Moving \o Ring)'
  BY UartParts, PTL
<1> QED
  BY <1>1

\* A quiet step moves no frame to or from the uart.
LEMMA QuietWriters ==
  ASSUME Quiet
  PROVE  Writing' = Writing /\ Thr' = Thr /\ Moving' = Moving
<1>1. ASSUME NEW f \in Harts \cup Procs
      PROVE  /\ code'[f].pc \in WP <=> code[f].pc \in WP
             /\ code'[f].pc = "thr" <=> code[f].pc = "thr"
             /\ code[f].pc = "thr" => code'[f].ch = code[f].ch
  BY DEF Quiet, WP
<1>2. Writing' = Writing /\ Thr' = Thr
  BY <1>1 DEF Writing, Thr
<1>3. \A f \in Thr : code'[f].ch = code[f].ch
  BY <1>1 DEF Thr
<1>4. Moving' = Moving
  BY <1>2, <1>3 DEF Moving
<1> QED
  BY <1>2, <1>4

\* What hangs on the fifo and the ring alone.
LEMMA PartsStay ==
  /\ dev'.fifo = dev.fifo => OursAt' = OursAt /\ OnFifo' = OnFifo
  /\ tx' = tx => Ring' = Ring
<1>1. ASSUME dev'.fifo = dev.fifo PROVE OursAt' = OursAt /\ OnFifo' = OnFifo
  BY <1>1 DEF OursAt, OnFifo
<1>2. ASSUME tx' = tx PROVE Ring' = Ring
  BY <1>2 DEF Ring
<1> QED
  BY <1>1, <1>2

\* The steps that leave the fifo and the ring alone.
LEMMA UartStays ==
  ASSUME UartInv, Quiet, dev'.fifo = dev.fifo, UNCHANGED <<tx, written, sent>>
  PROVE  UartInv'
  BY UartParts, UartPartsNext, QuietWriters, PartsStay

\* The kernel's other steps leave the fifo alone.
LEMMA FifoStays ==
  ASSUME DevInv, NEW c
  PROVE  /\ HandlerData(c) => dev'.fifo = dev.fifo
         /\ Receive => dev'.fifo = dev.fifo
<1>1. ASSUME clockintr(c) \/ consoleintr_end(c) PROVE dev' = dev
  BY <1>1, Zenon DEF clockintr, consoleintr_end
<1>2. ASSUME plic_claim(c) \/ plic_complete(c) \/ uartintr(c) PROVE dev'.fifo = dev.fifo
  BY <1>2 DEF plic_claim, plic_complete, uartintr, DevInv
<1>3. ASSUME Receive PROVE dev'.fifo = dev.fifo
  BY <1>3 DEF Receive, Raise, DevInv
<1> QED
  BY <1>1, <1>2, <1>3 DEF HandlerData

\* The uart sends a character.
LEMMA UartTransmits ==
  ASSUME KernelInv, DeviceType, UartInv, Quiet, Transmit
  PROVE  UartInv'
<1> DEFINE q == dev.fifo
           h == Head(q)
<1>0. /\ q \in Seq(Chars \cup {Echo}) /\ q # <<>> /\ dev \in Dev
      /\ written \in Seq(Chars) /\ sent \in Seq(Chars) /\ Ring \in Seq(Chars)
      /\ Moving \in Seq(Chars) /\ OnFifo \in Seq(Chars)
  BY PartsType, UartParts DEF DeviceType, DevInv, Dev, Transmit
<1>1. dev'.fifo = Tail(q)
  BY <1>0 DEF Transmit, Raise, Dev
<1>2. /\ Len(q) \in Nat \ {0} /\ Len(Tail(q)) = Len(q) - 1
      /\ \A i \in 1 .. Len(q) - 1 : Tail(q)[i] = q[i + 1]
      /\ h = q[1] /\ h \in Chars \cup {Echo}
  BY <1>0
<1>3. /\ written' = written /\ Ring' = Ring
      /\ sent' = IF h = Echo THEN sent ELSE Append(sent, h)
  BY DEF Transmit, Ring
<1>4. Writing' = Writing /\ Thr' = Thr /\ Moving' = Moving
  BY QuietWriters
<1>5. /\ Len(q) + Cardinality(Writing) <= Cardinality(Harts)
      /\ Thr # {} => OursAt = {}
      /\ \A i, j \in OursAt : i = j
      /\ written = sent \o OnFifo \o Moving \o Ring
  BY UartParts
<1>6. Cardinality(Writing) \in Nat /\ Cardinality(Harts) \in Nat
  BY WritersFit, FS_CardinalityType, SizesAssumption
<1>7. Len(dev'.fifo) + Cardinality(Writing') <= Cardinality(Harts)
  BY <1>1, <1>2, <1>4, <1>5, <1>6
<1>8. \A i \in OursAt' : i + 1 \in OursAt /\ dev'.fifo[i] = q[i + 1]
  <2>1. \A i \in 1 .. Len(q) - 1 : i + 1 \in 1 .. Len(q)
    BY <1>2
  <2> QED
    BY <1>1, <1>2, <2>1 DEF OursAt
<1>9. \A i, j \in OursAt' : i = j
  <2>1. \A i \in OursAt' : i \in Nat
    BY DEF OursAt
  <2> SUFFICES ASSUME NEW i \in OursAt', NEW j \in OursAt' PROVE i = j
    OBVIOUS
  <2>2. i + 1 = j + 1
    BY <1>5, <1>8
  <2> QED
    BY <2>1, <2>2
<1>10. Thr' # {} => OursAt' = {}
  BY <1>4, <1>5, <1>8
<1>11. CASE h = Echo
  <2>1. OnFifo' = OnFifo
    <3>1. CASE OursAt = {}
      <4>1. OursAt' = {}
        BY <1>8, <3>1
      <4> QED
        BY <3>1, <4>1 DEF OnFifo
    <3>2. CASE OursAt # {}
      <4>1. PICK k \in OursAt : TRUE
        BY <3>2
      <4>2. k \in 2 .. Len(q)
        BY <1>2, <1>11 DEF OursAt
      <4>3. k - 1 \in 1 .. Len(q) - 1 /\ (k - 1) + 1 = k /\ Tail(q)[k - 1] = q[k]
        BY <1>2, <4>2
      <4>4. k - 1 \in OursAt'
        BY <1>1, <1>2, <4>3 DEF OursAt
      <4>5. OursAt' = {k - 1}
        BY <1>9, <4>4
      <4>6. (CHOOSE j \in OursAt' : TRUE) = k - 1
        BY <4>5
      <4>7. OnFifo' = <<q[k]>>
        BY <1>1, <4>3, <4>5, <4>6 DEF OnFifo
      <4>8. OnFifo = <<q[k]>>
        BY <1>5, OnFifoIs
      <4> QED
        BY <4>7, <4>8
    <3> QED
      BY <3>1, <3>2
  <2> QED
    BY <1>0, <1>3, <1>4, <1>5, <1>7, <1>9, <1>10, <1>11, <2>1, UartPartsNext
<1>12. CASE h # Echo
  <2>1. 1 \in OursAt
    BY <1>2, <1>12 DEF OursAt
  <2>2. OnFifo = <<h>>
    BY <1>2, <1>5, <2>1, OnFifoIs
  <2>3. OursAt' = {}
    <3> SUFFICES ASSUME NEW i \in OursAt' PROVE FALSE
      OBVIOUS
    <3>1. i \in Nat /\ i \in 1 .. Len(dev'.fifo)
      BY DEF OursAt
    <3>2. i + 1 = 1
      BY <1>5, <1>8, <2>1
    <3> QED
      BY <3>1, <3>2
  <2>4. OnFifo' = <<>>
    BY <2>3 DEF OnFifo
  <2>5. h \in Chars /\ sent' = Append(sent, h) /\ Append(sent, h) \in Seq(Chars)
    BY <1>0, <1>2, <1>3, <1>12
  <2> HIDE DEF h
  <2>6. Append(sent, h) \o <<>> = sent \o <<h>>
    BY <1>0, <2>5, PassOut
  <2>7. sent' \o OnFifo' = sent \o OnFifo
    BY <2>2, <2>4, <2>5, <2>6
  <2>8. written' = sent' \o OnFifo' \o Moving' \o Ring'
    BY <1>3, <1>4, <1>5, <2>7
  <2> QED
    BY <1>0, <1>3, <1>7, <1>9, <1>10, <2>5, <2>8, UartPartsNext
<1> QED
  BY <1>11, <1>12

\* An echoed character is not one of a write().
LEMMA EchoIsNone ==
  Echo \notin Chars
  BY DEF Echo, Chars

\* uartputc() appends to the ring.
LEMMA RingPut ==
  ASSUME TxInv, ~TxFull, NEW ch \in Chars,
         tx' = [tx EXCEPT !.buf[tx.w % TxSize] = ch, !.w = tx.w + 1]
  PROVE  Ring' = Append(Ring, ch)
<1> DEFINE m == tx.w - tx.r
<1>1. /\ TxInv' /\ tx'.r = tx.r /\ tx'.w = tx.w + 1 /\ tx'.buf[tx.w % TxSize] = ch
      /\ \A i \in tx.r .. tx.w - 1 : tx'.buf[i % TxSize] = tx.buf[i % TxSize]
  BY TxPut
<1>2. m \in Nat /\ tx.r \in Nat /\ tx.w \in Nat /\ Ring \in [1 .. m -> Chars]
  BY RingType DEF TxInv
<1>3. (tx.w - tx.r \in Nat /\ Ring \in [1 .. tx.w - tx.r -> Chars])'
  BY <1>1, RingType, PTL
<1>4. tx'.w - tx'.r = m + 1
  BY <1>1, <1>2
<1>5. Ring' = [i \in 1 .. m + 1 |-> tx'.buf[(tx.r + i - 1) % TxSize]]
  BY <1>1, <1>4 DEF Ring
<1>6. ASSUME NEW k \in 1 .. m PROVE Ring'[k] = Ring[k]
  <2>1. tx.r + k - 1 \in tx.r .. tx.w - 1 /\ k \in 1 .. m + 1
    BY <1>2
  <2> QED
    BY <1>1, <1>5, <2>1 DEF Ring
<1>7. Ring'[m + 1] = ch
  <2>1. m + 1 \in 1 .. m + 1 /\ tx.r + (m + 1) - 1 = tx.w
    BY <1>2
  <2> QED
    BY <1>1, <1>5, <2>1
<1>8. Ring' \in [1 .. m + 1 -> Chars]
  BY <1>3, <1>4
<1> HIDE DEF m
<1> QED
  BY <1>2, <1>6, <1>7, <1>8, FunAppend

\* uartstart() takes the head of the ring.
LEMMA RingTake ==
  ASSUME TxInv, tx.w # tx.r, tx' = [tx EXCEPT !.r = tx.r + 1]
  PROVE  Ring = <<tx.buf[tx.r % TxSize]>> \o Ring'
<1> DEFINE m == tx.w - tx.r
           h == tx.buf[tx.r % TxSize]
<1>1. TxInv' /\ tx'.r = tx.r + 1 /\ tx'.w = tx.w /\ tx'.buf = tx.buf /\ h \in Chars
  BY TxTake
<1>2. m \in Nat \ {0} /\ tx.r \in Nat /\ tx.w \in Nat /\ Ring \in [1 .. m -> Chars]
  BY RingType DEF TxInv
<1>3. (tx.w - tx.r \in Nat /\ Ring \in [1 .. tx.w - tx.r -> Chars])'
  BY <1>1, RingType, PTL
<1>4. tx'.w - tx'.r = m - 1
  BY <1>1, <1>2
<1>5. Ring' \in [1 .. m - 1 -> Chars]
  BY <1>3, <1>4
<1>6. ASSUME NEW k \in 1 .. m - 1 PROVE Ring'[k] = Ring[k + 1]
  <2>1. (tx.r + 1) + k - 1 = tx.r + (k + 1) - 1
    BY <1>2
  <2>2. k + 1 \in 1 .. m /\ tx'.w - tx'.r = m - 1
    BY <1>2, <1>4
  <2> QED
    BY <1>1, <2>1, <2>2 DEF Ring
<1>7. Ring[1] = h
  <2>1. 1 \in 1 .. m /\ tx.r + 1 - 1 = tx.r
    BY <1>2
  <2> QED
    BY <2>1 DEF Ring
<1> HIDE DEF m, h
<1>8. Ring \in Seq(Chars) /\ Len(Ring) = m /\ Ring' \in Seq(Chars) /\ Len(Ring') = m - 1
  <2>1. m - 1 \in Nat /\ m \in Nat
    BY <1>2
  <2> QED
    BY <1>2, <1>5, <2>1, FunSeq
<1>9. <<h>> \in Seq(Chars) /\ Len(<<h>>) = 1 /\ <<h>>[1] = h
  BY <1>1
<1>10. \A k \in 1 .. Len(Ring') : Ring[1 + k] = Ring'[k]
  <2>1. \A k \in 1 .. m - 1 : k + 1 = 1 + k
    BY <1>2
  <2> QED
    BY <1>6, <1>8, <2>1
<1>11. Len(Ring) = Len(<<h>>) + Len(Ring')
  BY <1>2, <1>8, <1>9
<1>12. \A k \in 1 .. Len(<<h>>) : Ring[k] = <<h>>[k]
  BY <1>7, <1>9
<1>13. \A k \in 1 .. Len(Ring') : Ring[Len(<<h>>) + k] = Ring'[k]
  BY <1>9, <1>10
<1>14. Ring = <<h>> \o Ring'
  BY <1>8, <1>9, <1>11, <1>12, <1>13, SeqConcat
<1> QED
  BY <1>14 DEF h

\* uartputc() puts a character into the ring.
LEMMA UartWrites ==
  ASSUME KernelInv, DeviceType, UartInv, Quiet, NEW p \in Procs, Writes(p)
  PROVE  UartInv'
<1> DEFINE ch == <<p, Len(proc[p].prog), code[p].n>>
           y == sent \o OnFifo \o Moving
<1>1. /\ ~TxFull /\ ch \in Chars /\ written' = Append(written, ch)
      /\ tx' = [tx EXCEPT !.buf[tx.w % TxSize] = ch, !.w = tx.w + 1]
      /\ dev' = dev /\ sent' = sent
  BY DEF Writes
<1> HIDE DEF ch
<1>2. Writing' = Writing /\ Thr' = Thr /\ Moving' = Moving
  BY QuietWriters
<1>3. OursAt' = OursAt /\ OnFifo' = OnFifo
  BY <1>1, PartsStay
<1>4. Ring' = Append(Ring, ch)
  BY <1>1, RingPut DEF DeviceType
<1>5. /\ written \in Seq(Chars) /\ sent \in Seq(Chars) /\ Ring \in Seq(Chars)
      /\ Moving \in Seq(Chars) /\ OnFifo \in Seq(Chars)
  BY PartsType, UartParts
<1>6. y \in Seq(Chars) /\ written = y \o Ring
  BY <1>5, UartParts
<1>7. written' = y \o Ring'
  <2>1. y \in Seq(Chars) /\ Ring \in Seq(Chars) /\ ch \in Chars
    BY <1>1, <1>5, <1>6
  <2> HIDE DEF y
  <2>2. y \o Append(Ring, ch) = Append(y \o Ring, ch)
    BY <2>1, PassIn
  <2> QED
    BY <1>1, <1>4, <1>6, <2>2
<1>8. written' = sent' \o OnFifo' \o Moving' \o Ring'
  BY <1>1, <1>2, <1>3, <1>7
<1>9. written' \in Seq(Chars)
  BY <1>1, <1>5
<1> QED
  BY <1>1, <1>2, <1>3, <1>5, <1>8, <1>9, UartParts, UartPartsNext

\* uartstart() takes a character from the ring: the uart has none of ours.
LEMMA UartTakes ==
  ASSUME KernelInv, KernelInv', DeviceType, UartInv,
         NEW f \in Harts \cup Procs, code[f].spin = None, Takes(f)
  PROVE  UartInv'
<1> DEFINE h == tx.buf[tx.r % TxSize]
           y == sent \o OnFifo
<1>1. /\ code[f].pc = "start" /\ dev.fifo = <<>> /\ tx.w # tx.r
      /\ tx' = [tx EXCEPT !.r = tx.r + 1]
      /\ Only(f) /\ code'[f].pc = "thr" /\ code'[f].ch = h
      /\ dev' = dev /\ written' = written /\ sent' = sent
  BY DEF Takes
<1>2. Ring = <<h>> \o Ring' /\ h \in Chars
  BY <1>1, RingTake, TxTake DEF DeviceType
<1>3. Thr = {} /\ Moving = <<>>
  BY <1>1, MovingIs DEF DeviceType, Moving
<1>4. Thr' = {f}
  BY <1>1, <1>3 DEF Only, Thr
<1> HIDE DEF h
<1>5. Moving' = <<h>>
  <2>1. Thr' # {} /\ (CHOOSE g \in Thr' : TRUE) = f
    BY <1>4
  <2> QED
    BY <1>1, <2>1 DEF Moving
<1>6. OursAt' = {} /\ OursAt' = OursAt /\ OnFifo' = OnFifo
  <2>1. OursAt = {}
    BY <1>1 DEF OursAt
  <2> QED
    BY <1>1, <2>1, PartsStay
<1>7. (TxInv /\ Ring \in [1 .. tx.w - tx.r -> Chars] /\ tx.w - tx.r \in Nat)'
  <2>1. TxInv'
    BY <1>1, TxTake DEF DeviceType
  <2> QED
    BY <2>1, RingType, PTL
<1>8. /\ written \in Seq(Chars) /\ sent \in Seq(Chars) /\ OnFifo \in Seq(Chars)
      /\ Ring' \in Seq(Chars)
  BY <1>7, PartsType, UartParts, FunSeq
<1>9. y \in Seq(Chars) /\ written = y \o <<>> \o Ring
  BY <1>3, <1>8, UartParts
<1>10. written' = y \o <<h>> \o Ring'
  <2>1. y \in Seq(Chars) /\ Ring' \in Seq(Chars) /\ h \in Chars
    BY <1>2, <1>8, <1>9
  <2> HIDE DEF y
  <2>2. y \o <<>> \o (<<h>> \o Ring') = y \o <<h>> \o Ring'
    BY <2>1, PassOn
  <2> QED
    BY <1>1, <1>2, <1>9, <2>2
<1>11. written' = sent' \o OnFifo' \o Moving' \o Ring'
  BY <1>1, <1>5, <1>6, <1>10
<1>12. Len(dev'.fifo) + Cardinality(Writing') <= Cardinality(Harts)
  <2>1. (IsFiniteSet(Writing) /\ Cardinality(Writing) <= Cardinality(Harts))'
    BY WritersFit, PTL
  <2>2. Cardinality(Writing') \in Nat /\ Cardinality(Harts) \in Nat
    BY <2>1, FS_CardinalityType, SizesAssumption
  <2>3. Len(dev'.fifo) = 0
    BY <1>1
  <2> QED
    BY <2>1, <2>2, <2>3
<1> QED
  BY <1>1, <1>6, <1>8, <1>11, <1>12, UartPartsNext

\* There is room in the fifo for every frame that is about to write.
LEMMA FifoRoom ==
  ASSUME KernelInv, DeviceType, UartInv, NEW f \in Writing, NEW ch \in Chars \cup {Echo},
         WriteTHR(ch), Only(f), code'[f].pc \notin WP
  PROVE  /\ dev'.fifo = Append(dev.fifo, ch)
         /\ Len(dev'.fifo) + Cardinality(Writing') <= Cardinality(Harts)
<1>1. /\ dev.fifo \in Seq(Chars \cup {Echo}) /\ dev.depth = Fifo /\ dev \in Dev
      /\ Len(dev.fifo) + Cardinality(Writing) <= Cardinality(Harts)
  BY PartsType, UartParts DEF DeviceType, DevInv, Dev
<1>2. IsFiniteSet(Writing) /\ f \in Harts \cup Procs
  BY WritersFit DEF Writing
<1>3. Writing' = Writing \ {f}
  BY <1>2, WritingBut
<1>4. Cardinality(Writing') = Cardinality(Writing) - 1
  BY <1>2, <1>3, FS_RemoveElement
<1>5. /\ Cardinality(Writing) \in Nat /\ Cardinality(Writing') \in Nat
      /\ Cardinality(Harts) \in Nat /\ Fifo \in Nat /\ Cardinality(Harts) <= Fifo
  <2>1. IsFiniteSet(Writing')
    BY <1>2, <1>3, FS_RemoveElement
  <2> QED
    BY <1>2, <2>1, FS_CardinalityType, SizesAssumption
<1>6. Len(dev.fifo) < dev.depth
  BY <1>1, <1>4, <1>5
<1>7. dev'.fifo = Append(dev.fifo, ch)
  BY <1>1, <1>6 DEF WriteTHR, Dev
<1>8. Len(dev'.fifo) = Len(dev.fifo) + 1 /\ Len(dev.fifo) \in Nat
  BY <1>1, <1>7
<1>9. Len(dev'.fifo) + Cardinality(Writing') <= Cardinality(Harts)
  BY <1>1, <1>4, <1>5, <1>8
<1> QED
  BY <1>7, <1>9

\* uartstart() writes its character to the fifo, where only echoed ones can be.
LEMMA UartPuts ==
  ASSUME KernelInv, DeviceType, UartInv,
         NEW f \in Harts \cup Procs, code[f].spin = None, Puts(f)
  PROVE  UartInv'
<1> DEFINE q == dev.fifo
           ch == code[f].ch
           n == Len(q)
<1>1. /\ code[f].pc = "thr" /\ WriteTHR(ch) /\ Only(f) /\ code'[f].pc = "start"
      /\ tx' = tx /\ written' = written /\ sent' = sent
  BY DEF Puts
<1>2. f \in Writing /\ f \in Thr /\ code'[f].pc \notin WP
  BY <1>1 DEF Writing, WP, Thr
<1>3. ch \in Chars /\ Thr = {f} /\ Moving = <<ch>>
  BY <1>1, <1>2, MovingIs DEF DeviceType, ThrInv
<1>4. q' = Append(q, ch) /\ Len(q') + Cardinality(Writing') <= Cardinality(Harts)
  BY <1>1, <1>2, <1>3, FifoRoom
<1>5. Thr' = {} /\ Moving' = <<>>
  <2>1. Thr' = {}
    BY <1>1, <1>3 DEF Only, Thr
  <2> QED
    BY <2>1 DEF Moving
<1>6. OursAt = {} /\ OnFifo = <<>>
  BY <1>2, UartParts DEF OnFifo
<1>7. /\ q \in Seq(Chars \cup {Echo}) /\ n \in Nat /\ Len(q') = n + 1
      /\ q'[n + 1] = ch /\ \A i \in 1 .. n : q'[i] = q[i] /\ q[i] = Echo
  <2>1. q \in Seq(Chars \cup {Echo})
    BY PartsType
  <2>2. \A i \in 1 .. n : q[i] = Echo
    BY <1>6 DEF OursAt
  <2> QED
    BY <1>3, <1>4, <2>1, <2>2
<1>8. OursAt' = {n + 1}
  <2>1. ch # Echo
    BY <1>3, EchoIsNone
  <2>2. \A i : i \in 1 .. n + 1 <=> i \in 1 .. n \/ i = n + 1
    BY <1>7
  <2>3. \A i : i \in OursAt' <=> i \in 1 .. n + 1 /\ q'[i] # Echo
    BY <1>7 DEF OursAt
  <2>4. \A i : i \in OursAt' <=> i = n + 1
    <3> HIDE DEF n, q, ch
    <3> QED
      BY <1>7, <2>1, <2>2, <2>3
  <2> QED
    BY <2>4
<1>9. OnFifo' = <<ch>>
  <2>1. OursAt' # {} /\ (CHOOSE j \in OursAt' : TRUE) = n + 1
    BY <1>8
  <2> QED
    BY <1>7, <2>1 DEF OnFifo
<1>10. Ring' = Ring
  BY <1>1, PartsStay
<1>11. written \in Seq(Chars) /\ sent \in Seq(Chars)
  BY UartParts
<1> HIDE DEF ch
<1>12. written = sent \o <<>> \o <<ch>> \o Ring
  BY <1>3, <1>6, UartParts
<1>13. sent \o <<>> \o <<ch>> = sent \o <<ch>> \o <<>>
  BY <1>3, <1>11, PassThr
<1>14. written' = sent' \o OnFifo' \o Moving' \o Ring'
  BY <1>1, <1>5, <1>9, <1>10, <1>12, <1>13
<1>15. \A i, j \in OursAt' : i = j
  BY <1>8
<1> QED
  BY <1>1, <1>4, <1>5, <1>11, <1>14, <1>15, UartPartsNext

\* uartputc_sync() finds the fifo empty.
LEMMA UartPolls ==
  ASSUME KernelInv, KernelInv', DeviceType, UartInv, NEW f \in Harts \cup Procs, Polls(f)
  PROVE  UartInv'
<1>1. /\ code[f].pc = "sync" /\ dev.fifo = <<>> /\ Only(f) /\ code'[f].pc = "sync_thr"
      /\ tx' = tx /\ dev' = dev /\ written' = written /\ sent' = sent
  BY DEF Polls, Same
<1>2. Thr' = Thr /\ \A g \in Thr : code'[g] = code[g]
  BY <1>1 DEF Only, Thr
<1>3. Moving' = Moving
  BY <1>2 DEF Moving
<1>4. OursAt' = OursAt /\ OnFifo' = OnFifo /\ Ring' = Ring
  BY <1>1, PartsStay
<1>5. Len(dev'.fifo) + Cardinality(Writing') <= Cardinality(Harts)
  <2>1. (IsFiniteSet(Writing) /\ Cardinality(Writing) <= Cardinality(Harts))'
    BY WritersFit, PTL
  <2>2. Cardinality(Writing') \in Nat /\ Cardinality(Harts) \in Nat
    BY <2>1, FS_CardinalityType, SizesAssumption
  <2>3. Len(dev'.fifo) = 0
    BY <1>1
  <2> QED
    BY <2>1, <2>2, <2>3
<1> QED
  BY <1>1, <1>2, <1>3, <1>4, <1>5, UartParts, UartPartsNext

\* It writes its own character, for which there is room.
LEMMA UartEchoes ==
  ASSUME KernelInv, DeviceType, UartInv, NEW f \in Harts \cup Procs, Echoes(f)
  PROVE  UartInv'
<1> DEFINE q == dev.fifo
           n == Len(q)
<1>1. /\ code[f].pc = "sync_thr" /\ WriteTHR(Echo) /\ Only(f) /\ code'[f].pc = "sync"
      /\ tx' = tx /\ written' = written /\ sent' = sent
  BY DEF Echoes
<1>2. f \in Writing /\ code'[f].pc \notin WP
  BY <1>1 DEF Writing, WP
<1>3. q' = Append(q, Echo) /\ Len(q') + Cardinality(Writing') <= Cardinality(Harts)
  BY <1>1, <1>2, FifoRoom
<1>4. Thr' = Thr /\ \A g \in Thr : code'[g] = code[g]
  BY <1>1 DEF Only, Thr
<1>5. Moving' = Moving
  BY <1>4 DEF Moving
<1>6. /\ n \in Nat /\ Len(q') = n + 1
      /\ q'[n + 1] = Echo /\ \A i \in 1 .. n : q'[i] = q[i]
  <2>1. q \in Seq(Chars \cup {Echo})
    BY PartsType
  <2> QED
    BY <1>3, <2>1
<1>7. OursAt' = OursAt
  <2>1. \A i : i \in 1 .. n + 1 <=> i \in 1 .. n \/ i = n + 1
    BY <1>6
  <2>2. \A i : i \in OursAt' <=> i \in 1 .. n + 1 /\ q'[i] # Echo
    BY <1>6 DEF OursAt
  <2>3. \A i : i \in OursAt <=> i \in 1 .. n /\ q[i] # Echo
    BY DEF OursAt
  <2>4. \A i : i \in OursAt' <=> i \in OursAt
    <3> HIDE DEF n, q
    <3> QED
      BY <1>6, <2>1, <2>2, <2>3
  <2> QED
    BY <2>4
<1>8. OnFifo' = OnFifo
  <2>1. CASE OursAt = {}
    BY <1>7, <2>1 DEF OnFifo
  <2>2. CASE OursAt # {}
    <3>1. PICK k \in OursAt : TRUE
      BY <2>2
    <3>2. OursAt = {k} /\ OnFifo = <<q[k]>>
      BY <3>1, UartParts, OnFifoIs
    <3>3. OursAt' = {k} /\ OursAt' # {} /\ (CHOOSE j \in OursAt' : TRUE) = k
      BY <1>7, <3>2
    <3>4. q'[k] = q[k]
      BY <1>6 DEF OursAt
    <3>5. OnFifo' = <<q'[k]>>
      BY <3>3 DEF OnFifo
    <3> QED
      BY <3>2, <3>4, <3>5
  <2> QED
    BY <2>1, <2>2
<1>9. Ring' = Ring
  BY <1>1, PartsStay
<1> QED
  BY <1>1, <1>3, <1>4, <1>5, <1>7, <1>8, <1>9, UartParts, UartPartsNext

\* Every step keeps the uart's invariant.
LEMMA UartSteps ==
  ASSUME KernelInv, KernelInv', DeviceType, UartInv, Step
  PROVE  UartInv'
<1>1. CASE QuietStep
  <2>1. Quiet
    BY <1>1 DEF QuietStep
  <2>2. CASE Same
    BY <2>1, <2>2, UartStays DEF Same
  <2>3. CASE Transmit
    BY <2>1, <2>3, UartTransmits
  <2>4. CASE Receive
    <3>1. UNCHANGED <<tx, written, sent>>
      BY <2>4 DEF Receive
    <3>2. dev'.fifo = dev.fifo
      BY <2>4, FifoStays DEF DeviceType
    <3> QED
      BY <2>1, <3>1, <3>2, UartStays
  <2>5. ASSUME NEW c \in Harts, HandlerData(c) PROVE UartInv'
    BY <2>1, <2>5, FifoStays, QuietKeeps, UartStays DEF DeviceType
  <2>6. ASSUME NEW p \in Procs, Writes(p) PROVE UartInv'
    BY <2>1, <2>6, UartWrites
  <2>7. ASSUME NEW c \in Harts, NEW p \in Procs, consoleread(c, p) PROVE UartInv'
    BY <2>1, <2>7, QuietKeeps, UartStays
  <2> QED
    BY <1>1, <2>2, <2>3, <2>4, <2>5, <2>6, <2>7 DEF QuietStep
<1>2. ASSUME NEW f \in Harts \cup Procs, UartStep(f) PROVE UartInv'
  BY <1>2, UartTakes, UartPuts, UartPolls, UartEchoes DEF UartStep
<1> QED
  BY <1>1, <1>2, StepCases

(***************************************************************************)
(* The theorems.                                                           *)
(***************************************************************************)
\* The first state's frames and harts.
LEMMA KernelInit ==
  ASSUME Init
  PROVE  KernelInv
<1>0. /\ Harts \cap Procs = {} /\ None \notin Harts \cup Procs \cup Locks
      /\ Timers \in Nat /\ None \in Contents /\ {"none", "new"} \subseteq PCs
  BY NamesAssumption, SizesAssumption DEF Locks, Contents, PCs
<1>1. PICK s \in Scenes :
        /\ cpu = [c \in Harts |-> [intr |-> TRUE, noff |-> 0, intena |-> FALSE, run |-> None,
                                   stvec |-> "kernelvec", user |-> FALSE, ssip |-> FALSE,
                                   panic |-> FALSE, timers |-> IF s.timers THEN Timers ELSE 0]]
        /\ code = [f \in Harts \cup Procs |->
                     IF f \in Procs THEN [noFrame EXCEPT !.pc = "new"] ELSE noFrame]
        /\ lock = [lk \in Locks |-> None]
        /\ proc = [p \in Procs |-> [state |-> IF s.prog[p] = None THEN "zombie" ELSE "runnable",
                                    chan |-> None, killed |-> FALSE, intena |-> FALSE,
                                    trapped |-> FALSE, prog |-> s.prog[p]]]
  BY Zenon DEF Init
<1>2. /\ noFrame \in Frame /\ noFrame.pc = "none" /\ noFrame.spin = None
      /\ [noFrame EXCEPT !.pc = "new"] \in Frame /\ [noFrame EXCEPT !.pc = "new"].pc = "new"
      /\ [noFrame EXCEPT !.pc = "new"].spin = None
  BY <1>0 DEF noFrame, Frame
<1>3. ASSUME NEW f \in Harts \cup Procs
      PROVE  /\ code[f] \in Frame /\ code[f].spin = None
             /\ f \in Procs => code[f].pc = "new"
             /\ f \in Harts => code[f] = noFrame /\ code[f].pc = "none"
  BY <1>0, <1>1, <1>2
<1>4. ASSUME NEW p \in Procs
      PROVE  /\ proc[p] \in Proc /\ proc[p].state \in {"zombie", "runnable"}
             /\ proc[p].state # "zombie" => proc[p].prog \in Seq(Calls)
  BY <1>1, ScenesAssumption DEF Proc, Chans
<1>5. ASSUME NEW c \in Harts
      PROVE  /\ cpu[c] \in Cpu /\ cpu[c].run = None /\ ~cpu[c].panic /\ cpu[c].noff = 0
             /\ ~cpu[c].intena /\ ~cpu[c].user /\ cpu[c].stvec = "kernelvec"
  BY <1>0, <1>1 DEF Cpu
<1>6. CodeType /\ LockType /\ ProcType
  BY <1>1, <1>3, <1>4, <1>5 DEF CodeType, LockType, ProcType
<1>7. ASSUME NEW f \in Harts \cup Procs PROVE FrameInv(f)
  <2>1. f \in Procs => ProgramAt(f, code[f])
    BY <1>3, <1>4 DEF ProgramAt, SysCall, InSync
  <2>2. f \in Harts => HandlerAt(code[f])
    BY <1>3 DEF HandlerAt, InSync
  <2> QED
    BY <1>3, <2>1, <2>2 DEF FrameInv
<1>8. RunInv
  BY <1>0, <1>4, <1>5 DEF RunInv
<1>9. ASSUME NEW p \in Procs PROVE WaitInv(p)
  BY <1>3 DEF WaitInv, Depth, In, InSync, One
<1>10. ASSUME NEW c \in Harts PROVE HartInv(c)
  <2>1. Top(c) = code[c] /\ ~InHandler(c)
    BY <1>3, <1>5 DEF Top, InHandler
  <2>2. Depth(code[c]) = 0 /\ \A lk \in Locks : ~In(code[c], lk) /\ lock[lk] # c
    BY <1>0, <1>1, <1>3, NoneHasNothing
  <2> QED
    BY <1>5, <2>1, <2>2 DEF HartInv
<1> QED
  BY <1>6, <1>7, <1>8, <1>9, <1>10 DEF KernelInv

\* The first state's devices and buffers, and the line discipline's.
LEMMA DevicesInit ==
  ASSUME Init
  PROVE  DeviceType /\ ConsInv /\ UartInv /\ LD!Init
<1>1. PICK s \in Scenes :
        /\ code = [f \in Harts \cup Procs |->
                     IF f \in Procs THEN [noFrame EXCEPT !.pc = "new"] ELSE noFrame]
        /\ cons = [buf |-> [i \in 0..Size - 1 |-> None], r |-> s.at, w |-> s.at, e |-> s.at]
        /\ tx = [buf |-> [i \in 0..TxSize - 1 |-> None], r |-> 0, w |-> 0]
        /\ dev = [fifo |-> <<>>, rx |-> <<>>, typed |-> s.typed, depth |-> depth,
                  pending |-> FALSE, claimed |-> FALSE]
        /\ ticks = s.at
        /\ written = <<>> /\ sent = <<>>
  BY Zenon DEF Init
<1>2. s.typed \in Seq(Keys) /\ s.at \in 0 .. Width - 1 /\ Width \in Nat
  BY ScenesAssumption, SizesAssumption DEF Keys
<1>3. ASSUME NEW f \in Harts \cup Procs PROVE code[f].pc \in {"none", "new"}
  BY <1>1 DEF noFrame
<1>4. TxSize \in Nat /\ Size \in Nat \ {0} /\ tx.r = 0 /\ tx.w = 0
  BY <1>1, SizesAssumption
<1>5. DeviceType
  <2>1. DevInv
    BY <1>1, <1>2 DEF DevInv, depth
  <2>2. TxInv
    BY <1>1, <1>4 DEF TxInv
  <2>3. ThrInv
    BY <1>3 DEF ThrInv
  <2>4. ticks \in Nat
    BY <1>1, <1>2
  <2> QED
    BY <2>1, <2>2, <2>3, <2>4 DEF DeviceType
<1>6. /\ Minus(cons.w, cons.r) = 0 /\ Minus(cons.e, cons.r) = 0 /\ Minus(cons.e, cons.w) = 0
  BY <1>1, <1>2, OneMore
<1>7. ConsInv
  <2>1. ConsType
    BY <1>1, <1>2 DEF ConsType
  <2> QED
    BY <1>4, <1>6, <2>1 DEF ConsInv
<1>8. UartInv
  <2>1. Writing = {} /\ Thr = {} /\ OursAt = {} /\ Len(dev.fifo) = 0
    <3>1. Writing = {} /\ Thr = {}
      BY <1>3 DEF Writing, WP, Thr
    <3>2. Len(dev.fifo) = 0
      BY <1>1
    <3>3. OursAt = {}
      BY <3>2 DEF OursAt
    <3> QED
      BY <3>1, <3>2, <3>3
  <2>2. Cardinality(Writing) = 0 /\ Cardinality(Harts) \in Nat
    BY <2>1, FS_EmptySet, FS_CardinalityType, SizesAssumption
  <2>3. Ring = <<>>
    BY <1>4 DEF Ring
  <2>4. Moving = <<>> /\ OnFifo = <<>>
    BY <2>1 DEF Moving, OnFifo
  <2>5. written = sent \o OnFifo \o Moving \o Ring
    BY <1>1, <2>3, <2>4
  <2>6. written \in Seq(Chars) /\ sent \in Seq(Chars)
    BY <1>1
  <2> QED
    BY <2>1, <2>2, <2>5, <2>6, UartParts
<1>9. LD!Init
  BY <1>6 DEF LD!Init, Lines
<1> QED
  BY <1>5, <1>7, <1>8, <1>9

\* The invariant is inductive.
LEMMA Invariant ==
  Spec => []IInv
<1>1. Init => IInv
  BY KernelInit, DevicesInit DEF IInv
<1>2. IInv /\ [Next]_vars => IInv'
  <2> SUFFICES ASSUME IInv, [Next]_vars PROVE IInv'
    OBVIOUS
  <2>1. KernelInv /\ DeviceType /\ ConsInv /\ UartInv
    BY DEF IInv
  <2>2. KernelInv' /\ Step
    BY KernelSteps
  <2>3. DeviceType' /\ ConsInv' /\ UartInv'
    BY <2>1, <2>2, DeviceSteps, ConsSteps, UartSteps
  <2> QED
    BY <2>2, <2>3 DEF IInv
<1> QED
  BY <1>1, <1>2, PTL DEF Spec

\* spinlock.c, proc.c and trap.c, for any number of harts and processes, any programs
\* and any typing: no acquire() of a lock that is held, no release() of one that is not,
\* no pop_off() too many or with interrupts on, no sched() with a second lock or with
\* interrupts on, and no interrupt that finds the vector of the other mode in stvec.
THEOREM NobodyPanics == Spec => []NoPanic
<1>1. IInv => NoPanic
  BY DEF IInv, KernelInv, HartInv, NoPanic, panicked
<1> QED
  BY <1>1, Invariant, PTL

\* uart.c: the characters of write() leave in order, none of them twice or never, though
\* uartputc_sync() writes to the same fifo without uart_tx_lock. There are never more
\* frames about to write than harts, which the fifo has room for.
THEOREM UartLosesNothing == Spec => []NothingLost
<1>1. IInv => NothingLost
  BY DEF IInv, UartInv
<1> QED
  BY <1>1, Invariant, PTL

\* console.c, for a buffer of any size that divides the range of uint: consoleintr() and
\* consoleread() implement the line discipline, wherever r, w and e wrap around.
THEOREM ConsoleIsLineDiscipline == Spec => LinesKept
<1>1. Init => LD!Init
  BY DevicesInit
<1>2. IInv /\ [Next]_vars => [LD!Next]_<<Lines(cons.r, cons.w), Lines(cons.w, cons.e)>>
  <2> SUFFICES ASSUME IInv, [Next]_vars
               PROVE  [LD!Next]_<<Lines(cons.r, cons.w), Lines(cons.w, cons.e)>>
    OBVIOUS
  <2>1. KernelInv /\ ConsInv
    BY DEF IInv
  <2>2. [LD!Next]_<<Ready, Edit>>
    BY <2>1, KernelSteps, ConsSteps
  <2> QED
    BY <2>2 DEF Ready, Edit
<1> QED
  BY <1>1, <1>2, Invariant, PTL DEF Spec, LinesKept, LD!Spec
=============================================================================

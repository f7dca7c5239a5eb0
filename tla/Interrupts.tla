----------------------------- MODULE Interrupts ------------------------------
(***************************************************************************)
(* The part of the kernel that interrupts drive: push_off and pop_off and  *)
(* the spin locks (spinlock.c), traps and the clock (trap.c, plic.c), the  *)
(* console and the uart (console.c, uart.c, printf.c), and sleep(n)        *)
(* (sysproc.c), on two harts that share one uart.                          *)
(*                                                                         *)
(* A hart runs one frame at a time: its interrupt handler if it is in one, *)
(* else the kernel or user code of cpu.run, else the scheduler.  A frame   *)
(* that is in acquire() has turned interrupts off and has the lock it      *)
(* spins for in "spin".  p->lock is taken and given back inside the steps  *)
(* that use it (module Proc has its protocol).                             *)
(***************************************************************************)
EXTENDS Integers, Sequences, FiniteSets

CONSTANTS
  Harts, Hart0,       \* the harts; the one with cpuid() 0
  Procs,              \* the processes
  None,               \* no process, no lock, no channel
  Size,               \* INPUT_BUF_SIZE, 128
  TxSize,             \* UART_TX_BUF_SIZE, 32
  Fifo,               \* the transmit fifo of the 16550, 16
  Width,              \* 2^32: cons.r, w, e and ticks are uint
  Letters,            \* the characters that mean nothing to the console
  Timers,             \* bound: timer interrupts of a hart while others work
  Scenes              \* the programs, what is typed, and the uints to begin at

ASSUME SizesAssumption ==
  /\ {Size, TxSize, Fifo, Width} \subseteq Nat \ {0}
  /\ Width % Size = 0 /\ Size < Width
  /\ IsFiniteSet(Harts) /\ Cardinality(Harts) <= Fifo
  /\ Hart0 \in Harts
  /\ Timers \in Nat

\* Control characters: what ends a line, and what edits it or calls procdump().
Enders == {"newline", "^D"}
Editors == {"^U", "^H", "^P"}

ASSUME NamesAssumption ==
  /\ Harts \cap Procs = {}
  /\ None \notin Harts \cup Procs
  /\ None \notin {"cons", "uart", "time", "pr", "cons.r", "ticks", "uart_tx_r"}
  /\ Letters \cap (Enders \cup Editors \cup {None}) = {}

\* What a program asks of the kernel; ok says that its buffer is mapped.
Calls == [call : {"write", "read"}, n : Nat, ok : BOOLEAN]
         \cup [call : {"sleep"}, n : Int] \cup [call : {"kill"}, pid : Procs]
         \cup [call : {"helloworld"}]

ASSUME ScenesAssumption ==
  \A s \in Scenes : /\ s.typed \in Seq(Letters \cup Enders \cup Editors)
                     /\ s.at \in 0 .. Width - 1
                     /\ \A p \in Procs : s.prog[p] = None \/ s.prog[p] \in Seq(Calls)

VARIABLES
  cpu,       \* struct cpu, sstatus.SIE, stvec, the mode, and sip.SSIP
  code,      \* of each frame: where it is, and its locals
  lock,      \* of each spin lock: the hart in lk->cpu, or None
  proc,      \* state, chan, killed, the intena sched() saved, the program
  cons,      \* struct cons
  tx,        \* uart_tx_buf and its indices
  dev,       \* the uart's fifos and its line in the plic; typed: still to come
  ticks,
  written, sent   \* history: what uartputc took, what the uart sent of it

vars == <<cpu, code, lock, proc, cons, tx, dev, ticks, written, sent>>
Locks == {"cons", "uart", "time", "pr"}
noFrame == [pc |-> "none", spin |-> None, n |-> 0, ch |-> None, then |-> "none"]
panicked == \E c \in Harts : cpu[c].panic

------------------------------------------------------------------------------
(* spinlock.c, on the struct cpu k of the hart.  intena means nothing while *)
(* noff is 0: it is FALSE then.                                            *)

push_off(k) == [k EXCEPT !.intr = FALSE, !.noff = @ + 1,
                         !.intena = IF k.noff = 0 THEN k.intr ELSE @]

pop_off(k) == IF k.intr \/ k.noff < 1 THEN [k EXCEPT !.panic = TRUE]
              ELSE [k EXCEPT !.noff = @ - 1, !.intr = (k.noff = 1 /\ k.intena),
                             !.intena = (k.noff > 1 /\ @)]

holding(c, lk) == lock[lk] = c

\* Frame f on hart c calls acquire(lk), and has the lock at once or spins;
\* it goes on at r.
acquire(c, f, lk, r) ==
  /\ cpu' = [cpu EXCEPT ![c] = IF holding(c, lk) THEN [@ EXCEPT !.panic = TRUE]
                               ELSE push_off(@)]
  /\ code' = [code EXCEPT ![f] = [r EXCEPT !.spin = IF lock[lk] = None THEN None ELSE lk]]
  /\ lock' = [lock EXCEPT ![lk] = IF @ = None THEN c ELSE @]

acquire_spin(c, f) ==
  LET lk == code[f].spin
  IN /\ lk # None
     /\ lock[lk] = None
     /\ lock' = [lock EXCEPT ![lk] = c]
     /\ code' = [code EXCEPT ![f].spin = None]
     /\ UNCHANGED <<cpu, proc, cons, tx, dev, ticks, written, sent>>

\* Frame f on hart c goes on at r, having released lk.
release(c, f, lk, r) ==
  /\ cpu' = [cpu EXCEPT ![c] = IF holding(c, lk) THEN pop_off(@)
                               ELSE [@ EXCEPT !.panic = TRUE]]
  /\ lock' = [lock EXCEPT ![lk] = None]
  /\ code' = [code EXCEPT ![f] = r]

------------------------------------------------------------------------------
(* proc.c, as far as traps and sleepers need it.                           *)

wakeup(ps, chan) == [p \in Procs |-> IF ps[p].state = "sleeping" /\ ps[p].chan = chan
                                       THEN [ps[p] EXCEPT !.state = "runnable"] ELSE ps[p]]

\* The hart after sched(): the scheduler releases p->lock with the intena
\* of the process it comes from.
switched(k) == [k EXCEPT !.run = None, !.noff = 0, !.intr = k.intena,
                         !.intena = FALSE]

\* sleep(chan, lk), lk held; the frame goes on at "woken".
sleep(c, p, chan, lk) ==
  /\ cpu' = [cpu EXCEPT ![c] = IF @.noff # 1 \/ ~holding(c, lk) \/ @.run # p
                                 THEN [@ EXCEPT !.panic = TRUE] ELSE switched(@)]
  /\ lock' = [lock EXCEPT ![lk] = None]
  /\ proc' = [proc EXCEPT ![p].state = "sleeping", ![p].chan = chan,
                          ![p].intena = cpu[c].intena]

\* Out of sched() again: sleep() takes lk back.
woken(c, p) ==
  LET lk == [rd |-> "cons", putc |-> "uart", slp |-> "time"][code[p].then]
  IN /\ code[p].pc = "woken"
     /\ acquire(c, p, lk, [code[p] EXCEPT !.pc = code[p].then])
     /\ UNCHANGED <<proc, cons, tx, dev, ticks, written, sent>>

\* consoleread() and sys_sleep() have found that p is not killed, and sleep.
doze(c, p) ==
  /\ code[p].pc = "doze"
  /\ IF code[p].then = "rd" THEN sleep(c, p, "cons.r", "cons") ELSE sleep(c, p, "ticks", "time")
  /\ code' = [code EXCEPT ![p].pc = "woken"]
  /\ UNCHANGED <<cons, tx, dev, ticks, written, sent>>

\* The scheduler of hart c turns interrupts on at the top of its loop...
scheduler_on(c) ==
  /\ ~cpu[c].intr
  /\ cpu' = [cpu EXCEPT ![c].intr = TRUE]
  /\ UNCHANGED <<code, lock, proc, cons, tx, dev, ticks, written, sent>>

\* ... and runs p: in forkret() if it is new, else after its call of sched()
\* in sleep(), or in yield(), called by kerneltrap (trapped) or usertrap.
scheduler(c, p) ==
  LET k == push_off(cpu[c])
      back == pop_off(IF code[p].pc = "new" THEN k ELSE [k EXCEPT !.intena = proc[p].intena])
  IN /\ proc[p].state = "runnable"
     /\ proc' = [proc EXCEPT ![p].state = "running", ![p].chan = None, ![p].trapped = FALSE]
     /\ cpu' = [cpu EXCEPT ![c] = [back EXCEPT !.run = p, !.intr = back.intr \/ proc[p].trapped]]
     /\ code' = [code EXCEPT ![p].pc = IF @ = "new" THEN "ret" ELSE @]
     /\ UNCHANGED <<lock, cons, tx, dev, ticks, written, sent>>

\* yield() from a trap of p, which goes on at r.
yield(c, p, trapped, r) ==
  /\ cpu' = [cpu EXCEPT ![c] = IF @.noff # 0 \/ @.intr THEN [@ EXCEPT !.panic = TRUE]
                               ELSE [switched(push_off(@)) EXCEPT !.user = FALSE]]
  /\ proc' = [proc EXCEPT ![p].state = "runnable", ![p].trapped = trapped,
                          ![p].intena = FALSE]
  /\ code' = [code EXCEPT ![p] = r, ![c] = noFrame]

\* exit() as far as its hart goes, which is k on the way in.
exit(c, p, k) ==
  /\ cpu' = [cpu EXCEPT ![c] = IF k.noff # 0 THEN [k EXCEPT !.panic = TRUE]
                               ELSE switched(push_off(k))]
  /\ proc' = [proc EXCEPT ![p].state = "zombie"]
  /\ code' = [code EXCEPT ![p] = noFrame, ![c] = noFrame]

kill(p) == [proc EXCEPT ![p].killed = TRUE,
                        ![p].state = IF @ = "sleeping" THEN "runnable" ELSE @]

------------------------------------------------------------------------------
(* trap.c and plic.c.                                                      *)

\* An interrupt that c takes: user code must find uservec in stvec, kernel
\* code kernelvec.  The handler runs with interrupts off.
interrupt(c, cause) ==
  /\ cpu[c].intr
  /\ cause = "external" => dev.pending /\ ~dev.claimed
  /\ cause = "software" => cpu[c].ssip
  /\ cpu' = [cpu EXCEPT ![c].intr = FALSE, ![c].stvec = "kernelvec",
                        ![c].panic = (cpu[c].stvec # IF cpu[c].user THEN "uservec" ELSE "kernelvec")]
  /\ code' = [code EXCEPT ![c].pc = IF cause = "external" THEN "claim" ELSE "clock"]
  /\ UNCHANGED <<lock, proc, cons, tx, dev, ticks, written, sent>>

\* Mutant of usertrapret: interrupts stay on.
usertrapret_On(k) == [k EXCEPT !.stvec = "uservec", !.user = FALSE]

\* usertrapret() turns interrupts off before it points stvec at uservec.
usertrapret(k) == [k EXCEPT !.intr = FALSE, !.stvec = "uservec", !.user = FALSE]

\* The end of devintr() on hart c: usertrap() and kerneltrap() give up the
\* hart after a timer interrupt, and usertrap() ends a killed process.
trap_end(c) ==
  LET h == code[c]   p == cpu[c].run
  IN /\ h.pc = "eoi"
     /\ CASE p # None /\ cpu[c].user ->
               IF proc[p].killed THEN exit(c, p, [cpu[c] EXCEPT !.user = FALSE])
               ELSE IF h.n = 2 THEN yield(c, p, FALSE, [code[p] EXCEPT !.pc = "ret"])
                 ELSE /\ cpu' = [cpu EXCEPT ![c] = usertrapret(@)]
                      /\ proc' = proc
                      /\ code' = [code EXCEPT ![p].pc = "sret", ![c] = noFrame]
          [] p # None /\ ~cpu[c].user /\ h.n = 2 -> yield(c, p, TRUE, code[p])
          [] OTHER -> /\ cpu' = [cpu EXCEPT ![c].intr = TRUE]
                      /\ code' = [code EXCEPT ![c] = noFrame]
                      /\ UNCHANGED proc
     /\ UNCHANGED <<lock, cons, tx, dev, ticks, written, sent>>

\* The ecall of p's next system call: usertrap() and syscall().
usertrap(c, p) ==
  LET in == [cpu[c] EXCEPT !.user = FALSE, !.stvec = "kernelvec", !.intr = ~proc[p].killed]
  IN /\ code[p].pc = "user"
     /\ IF proc[p].killed \/ proc[p].prog = <<>> THEN exit(c, p, in)
        ELSE /\ cpu' = [cpu EXCEPT ![c] = in]
             /\ code' = [code EXCEPT ![p] = [@ EXCEPT !.pc = Head(proc[p].prog).call, !.n = 0]]
             /\ UNCHANGED proc
     /\ UNCHANGED <<lock, cons, tx, dev, ticks, written, sent>>

\* The way back from a system call.
usertrap_end(c, p) ==
  /\ code[p].pc = "sysret"
  /\ IF proc[p].killed THEN exit(c, p, cpu[c])
     ELSE /\ code' = [code EXCEPT ![p] = [@ EXCEPT !.pc = "sret", !.n = 0, !.then = "none"]]
          /\ proc' = [proc EXCEPT ![p].prog = Tail(@)]
          /\ cpu' = [cpu EXCEPT ![c] = usertrapret(@)]
  /\ UNCHANGED <<lock, cons, tx, dev, ticks, written, sent>>

\* Out of yield() in usertrap().
usertrap_back(c, p) ==
  /\ code[p].pc = "ret"
  /\ code' = [code EXCEPT ![p].pc = "sret"]
  /\ cpu' = [cpu EXCEPT ![c] = usertrapret(@)]
  /\ UNCHANGED <<lock, proc, cons, tx, dev, ticks, written, sent>>

\* sret: user code, with interrupts on.
userret(c, p) ==
  /\ code[p].pc = "sret"
  /\ cpu' = [cpu EXCEPT ![c].user = TRUE, ![c].intr = TRUE]
  /\ code' = [code EXCEPT ![p].pc = "user"]
  /\ UNCHANGED <<lock, proc, cons, tx, dev, ticks, written, sent>>

\* clockintr() is hart 0's; every hart acknowledges its own interrupt.
clockintr(c) ==
  LET h == code[c]
  IN \/ /\ h.pc = "clock"
        /\ IF c = Hart0
             THEN acquire(c, c, "time", [h EXCEPT !.pc = "tick"])
             ELSE /\ cpu' = [cpu EXCEPT ![c].ssip = FALSE]
                  /\ code' = [code EXCEPT ![c] = [h EXCEPT !.pc = "eoi", !.n = 2]]
                  /\ UNCHANGED lock
        /\ UNCHANGED <<dev, proc, cons, tx, ticks, written, sent>>
     \/ /\ h.pc = "tick"
        /\ ticks' = (ticks + 1) % Width
        /\ proc' = wakeup(proc, "ticks")
        /\ release(c, c, "time", [h EXCEPT !.pc = "sip"])
        /\ UNCHANGED <<cons, tx, dev, written, sent>>
     \/ /\ h.pc = "sip"
        /\ cpu' = [cpu EXCEPT ![c].ssip = FALSE]
        /\ code' = [code EXCEPT ![c] = [h EXCEPT !.pc = "eoi", !.n = 2]]
        /\ UNCHANGED <<lock, proc, cons, tx, dev, ticks, written, sent>>

\* plic_claim() gives 0 when the other hart was faster.
plic_claim(c) ==
  /\ code[c].pc = "claim"
  /\ IF dev.pending /\ ~dev.claimed
       THEN /\ dev' = [dev EXCEPT !.pending = FALSE, !.claimed = TRUE]
            /\ code' = [code EXCEPT ![c].pc = "rx"]
       ELSE /\ code' = [code EXCEPT ![c] = [@ EXCEPT !.pc = "eoi", !.n = 1]]
            /\ UNCHANGED dev
  /\ UNCHANGED <<cpu, lock, proc, cons, tx, ticks, written, sent>>

\* Mutant of plic_complete: the PLIC is not told.
plic_complete_Never(c) ==
  /\ code[c].pc = "complete"
  /\ code' = [code EXCEPT ![c] = [@ EXCEPT !.pc = "eoi", !.n = 1]]
  /\ UNCHANGED <<cpu, lock, proc, cons, tx, dev, ticks, written, sent>>

plic_complete(c) ==
  /\ code[c].pc = "complete"
  /\ dev' = [dev EXCEPT !.claimed = FALSE]
  /\ code' = [code EXCEPT ![c] = [@ EXCEPT !.pc = "eoi", !.n = 1]]
  /\ UNCHANGED <<cpu, lock, proc, cons, tx, ticks, written, sent>>

------------------------------------------------------------------------------
(* uart.c.  The device: LSR_TX_IDLE says that the transmit fifo is empty;   *)
(* the uart interrupts when it becomes empty and when input arrives.        *)

Raise(d) == [d EXCEPT !.pending = TRUE]

Echo == <<>>   \* a character that is not from write()

\* WriteReg(THR, ch): a character too many is lost.
WriteTHR(ch) == dev' = [dev EXCEPT !.fifo = IF Len(@) < dev.depth THEN Append(@, ch) ELSE @]

Transmit ==
  /\ dev.fifo # <<>>
  /\ LET d == [dev EXCEPT !.fifo = Tail(@)]
     IN dev' = IF d.fifo = <<>> THEN Raise(d) ELSE d
  /\ sent' = IF Head(dev.fifo) = Echo THEN sent ELSE Append(sent, Head(dev.fifo))
  /\ UNCHANGED <<cpu, code, lock, proc, cons, tx, ticks, written>>

\* Somebody types.
Receive ==
  /\ dev.typed # <<>>
  /\ dev' = Raise([dev EXCEPT !.typed = Tail(@), !.rx = Append(@, Head(dev.typed))])
  /\ UNCHANGED <<cpu, code, lock, proc, cons, tx, ticks, written, sent>>

TxFull == tx.w = tx.r + TxSize

\* consolewrite() calls uartputc() for each character it can copy in.
consolewrite(c, p) ==
  LET w == Head(proc[p].prog)
  IN /\ code[p].pc = "write"
     /\ IF code[p].n = w.n \/ ~w.ok
          THEN code' = [code EXCEPT ![p].pc = "sysret"] /\ UNCHANGED <<cpu, lock>>
          ELSE acquire(c, p, "uart", [code[p] EXCEPT !.pc = "putc"])
     /\ UNCHANGED <<proc, cons, tx, dev, ticks, written, sent>>

uartputc(c, p) ==
  LET ch == <<p, Len(proc[p].prog), code[p].n>>
  IN /\ code[p].pc = "putc" /\ code[p].spin = None
     /\ ~panicked
     /\ \/ /\ TxFull
           /\ sleep(c, p, "uart_tx_r", "uart")
           /\ code' = [code EXCEPT ![p] = [@ EXCEPT !.pc = "woken", !.then = "putc"]]
           /\ UNCHANGED <<tx, written>>
        \/ /\ ~TxFull
           /\ tx' = [tx EXCEPT !.buf[tx.w % TxSize] = ch, !.w = @ + 1]
           /\ written' = Append(written, ch)
           /\ code' = [code EXCEPT ![p] = [@ EXCEPT !.pc = "start", !.n = code[p].n + 1,
                                                    !.then = "write"]]
           /\ UNCHANGED <<cpu, lock, proc>>
     /\ UNCHANGED <<cons, dev, ticks, sent>>

\* uartstart(), called with uart_tx_lock held, which is released at its end.
uartstart(c, f) ==
  /\ code[f].spin = None
  /\ \/ /\ code[f].pc = "start"
        /\ IF tx.w = tx.r \/ dev.fifo # <<>>
             THEN release(c, f, "uart", [code[f] EXCEPT !.pc = code[f].then]) /\ UNCHANGED <<proc, tx>>
             ELSE /\ tx' = [tx EXCEPT !.r = @ + 1]
                  /\ proc' = wakeup(proc, "uart_tx_r")
                  /\ code' = [code EXCEPT ![f] = [@ EXCEPT !.pc = "thr", !.ch = tx.buf[tx.r % TxSize]]]
                  /\ UNCHANGED <<cpu, lock>>
        /\ UNCHANGED dev
     \/ /\ code[f].pc = "thr"
        /\ WriteTHR(code[f].ch)
        /\ code' = [code EXCEPT ![f] = [@ EXCEPT !.pc = "start", !.ch = None]]
        /\ UNCHANGED <<cpu, lock, proc, tx>>
  /\ UNCHANGED <<cons, ticks, written, sent>>

\* Frame f has n characters to send by hand; the three of a BACKSPACE are one.
consputc(f, n, then) == [code[f] EXCEPT !.pc = "sync", !.n = n, !.then = then]

\* uartputc_sync(), n times: it reads LSR until the fifo is empty and then
\* writes THR, without uart_tx_lock.
uartputc_sync(c, f) ==
  /\ code[f].spin = None
  /\ ~panicked
  /\ \/ /\ code[f].pc = "sync" /\ code[f].n = 0
        /\ code' = [code EXCEPT ![f].pc = code[f].then]
        /\ UNCHANGED <<cpu, dev>>
     \/ /\ code[f].pc = "sync" /\ code[f].n > 0
        /\ dev.fifo = <<>>
        /\ cpu' = [cpu EXCEPT ![c] = push_off(@)]
        /\ code' = [code EXCEPT ![f].pc = "sync_thr"]
        /\ UNCHANGED dev
     \/ /\ code[f].pc = "sync_thr"
        /\ WriteTHR(Echo)
        /\ cpu' = [cpu EXCEPT ![c] = pop_off(@)]
        /\ code' = [code EXCEPT ![f] = [@ EXCEPT !.pc = "sync", !.n = code[f].n - 1]]
  /\ UNCHANGED <<lock, proc, cons, tx, ticks, written, sent>>

\* uartintr(): all the input there is, and then the output.
uartintr(c) ==
  /\ code[c].pc = "rx"
  /\ IF dev.rx # <<>>
       THEN /\ acquire(c, c, "cons", [code[c] EXCEPT !.pc = "cons", !.ch = Head(dev.rx)])
            /\ dev' = [dev EXCEPT !.rx = Tail(@)]
       ELSE /\ acquire(c, c, "uart", [code[c] EXCEPT !.pc = "start", !.then = "complete"])
            /\ UNCHANGED dev
  /\ UNCHANGED <<proc, cons, tx, ticks, written, sent>>

------------------------------------------------------------------------------
(* console.c and printf.c.                                                  *)

Minus(a, b) == (a - b) % Width
Plus(a) == (a + 1) % Width
\* Mutant of Room: one character too many.
Room_More == Minus(cons.e, cons.r) <= Size

Room == Minus(cons.e, cons.r) < Size

\* How many characters ^U takes back.
killed_line ==
  LET n == Minus(cons.e, cons.w)
      stops == {i \in 1..n : cons.buf[Minus(cons.e, i) % Size] = "newline"}
  IN IF stops = {} THEN n ELSE (CHOOSE i \in stops : \A j \in stops : i <= j) - 1

\* consoleintr(ch), cons.lock held: what it echoes, by which every caller's
\* hart spins, and then (consoleintr_end) what it does to the buffer.
consoleintr(c) ==
  LET h == code[c]
      echo == CASE h.ch = "^U" -> killed_line
                [] h.ch = "^H" -> IF cons.e # cons.w THEN 1 ELSE 0
                [] OTHER -> IF Room THEN 1 ELSE 0
  IN /\ h.pc = "cons" /\ h.spin = None
     /\ IF h.ch = "^P" THEN acquire(c, c, "pr", [h EXCEPT !.pc = "print", !.then = "edit"])
        ELSE code' = [code EXCEPT ![c] = consputc(c, echo, "edit")] /\ UNCHANGED <<cpu, lock>>
     /\ UNCHANGED <<proc, cons, tx, dev, ticks, written, sent>>

consoleintr_end(c) ==
  LET ch == code[c].ch
      e1 == Plus(cons.e)
      ends == ch \in Enders \/ Minus(e1, cons.r) = Size
  IN /\ code[c].pc = "edit"
     /\ CASE ch = "^P" -> UNCHANGED <<cons, proc>>
          [] ch = "^U" -> /\ cons' = [cons EXCEPT !.e = Minus(@, killed_line)]
                          /\ UNCHANGED proc
          [] ch = "^H" -> /\ cons' = [cons EXCEPT !.e = IF @ # cons.w THEN Minus(@, 1) ELSE @]
                          /\ UNCHANGED proc
          [] OTHER -> IF Room
                        THEN /\ cons' = [cons EXCEPT !.buf[cons.e % Size] = ch, !.e = e1,
                                                     !.w = IF ends THEN e1 ELSE @]
                             /\ proc' = IF ends THEN wakeup(proc, "cons.r") ELSE proc
                        ELSE UNCHANGED <<cons, proc>>
     /\ release(c, c, "cons", [code[c] EXCEPT !.pc = "rx", !.ch = None])
     /\ UNCHANGED <<tx, dev, ticks, written, sent>>

\* A line of printf(): by helloworld(), and by procdump() for ^P.
printf(c, f) ==
  \/ /\ code[f].pc = "helloworld"
     /\ acquire(c, f, "pr", [code[f] EXCEPT !.pc = "print", !.then = "sysret"])
     /\ UNCHANGED <<proc, cons, tx, dev, ticks, written, sent>>
  \/ /\ code[f].pc = "print" /\ code[f].spin = None
     /\ code' = [code EXCEPT ![f] = consputc(f, 1, IF code[f].then = "edit" THEN "printed_edit"
                                                   ELSE "printed")]
     /\ UNCHANGED <<cpu, lock, proc, cons, tx, dev, ticks, written, sent>>
  \/ /\ code[f].pc \in {"printed", "printed_edit"}
     /\ release(c, f, "pr", [code[f] EXCEPT !.pc = IF @ = "printed" THEN "sysret" ELSE "edit"])
     /\ UNCHANGED <<proc, cons, tx, dev, ticks, written, sent>>

\* consoleread(): n is what has been read.
consoleread(c, p) ==
  LET r == Head(proc[p].prog)
      ch == cons.buf[cons.r % Size]
      r1 == Plus(cons.r)
      left == code[p].n < r.n
      empty == cons.r = cons.w
      Return == /\ release(c, p, "cons", [code[p] EXCEPT !.pc = "sysret"])
                /\ UNCHANGED proc
  IN \/ /\ code[p].pc = "read"
        /\ acquire(c, p, "cons", [code[p] EXCEPT !.pc = "rd"])
        /\ UNCHANGED <<proc, cons, tx, dev, ticks, written, sent>>
     \/ /\ code[p].pc = "rd" /\ code[p].spin = None
        /\ CASE ~left \/ (empty /\ proc[p].killed) ->
                  Return /\ UNCHANGED cons
             [] left /\ empty /\ ~proc[p].killed ->
                  /\ code' = [code EXCEPT ![p] = [@ EXCEPT !.pc = "doze", !.then = "rd"]]
                  /\ UNCHANGED <<cpu, lock, proc, cons>>
             [] left /\ ~empty /\ ch = "^D" ->
                  /\ cons' = [cons EXCEPT !.r = IF code[p].n > 0 THEN @ ELSE r1]
                  /\ Return
             [] OTHER ->
                  /\ cons' = [cons EXCEPT !.r = r1]
                  /\ IF ~r.ok \/ ch = "newline" THEN Return
                     ELSE code' = [code EXCEPT ![p].n = @ + 1] /\ UNCHANGED <<cpu, lock, proc>>
        /\ UNCHANGED <<tx, dev, ticks, written, sent>>

------------------------------------------------------------------------------
(* sysproc.c.  n is int and ticks - ticks0 is uint: n is compared mod 2^32. *)

tooEarly(t0, n) == Minus(ticks, t0) < n % Width

sys_sleep(c, p) ==
  LET n == Head(proc[p].prog).n
  IN \/ /\ code[p].pc = "sleep"
        /\ acquire(c, p, "time", [code[p] EXCEPT !.pc = "slp0"])
        /\ UNCHANGED <<proc, cons, tx, dev, ticks, written, sent>>
     \/ /\ code[p].pc = "slp0" /\ code[p].spin = None
        /\ code' = [code EXCEPT ![p] = [@ EXCEPT !.pc = "slp", !.n = ticks]]
        /\ UNCHANGED <<cpu, lock, proc, cons, tx, dev, ticks, written, sent>>
     \/ /\ code[p].pc = "slp" /\ code[p].spin = None
        /\ IF tooEarly(code[p].n, n) /\ ~proc[p].killed
             THEN /\ code' = [code EXCEPT ![p] = [@ EXCEPT !.pc = "doze", !.then = "slp"]]
                  /\ UNCHANGED <<cpu, lock>>
             ELSE release(c, p, "time", [code[p] EXCEPT !.pc = "sysret",
                                            !.n = IF tooEarly(code[p].n, n) THEN -1 ELSE 0])
        /\ UNCHANGED <<proc, cons, tx, dev, ticks, written, sent>>

sys_kill(c, p) ==
  /\ code[p].pc = "kill"
  /\ proc' = kill(Head(proc[p].prog).pid)
  /\ code' = [code EXCEPT ![p].pc = "sysret"]
  /\ UNCHANGED <<cpu, lock, cons, tx, dev, ticks, written, sent>>

------------------------------------------------------------------------------

InHandler(c) == code[c].pc # "none"

Idle == /\ \A p \in Procs : proc[p].state \in {"sleeping", "zombie"}
        /\ \A c \in Harts : ~InHandler(c) /\ ~cpu[c].ssip
        /\ dev.fifo = <<>> /\ dev.typed = <<>> /\ (dev.pending => dev.claimed)

\* timervec, in machine mode: a software interrupt for the hart.  Timers
\* bounds those that come while there is something else to do.
Timer(c) ==
  /\ ~cpu[c].ssip
  /\ cpu[c].timers > 0 \/ (c = Hart0 /\ Idle)
  /\ cpu' = [cpu EXCEPT ![c].ssip = TRUE, ![c].timers = IF @ > 0 THEN @ - 1 ELSE 0]
  /\ UNCHANGED <<code, lock, proc, cons, tx, dev, ticks, written, sent>>

Handler(c) ==
  /\ InHandler(c) /\ code[c].spin = None
  /\ \/ trap_end(c) \/ clockintr(c) \/ plic_claim(c) \/ plic_complete(c)
     \/ uartintr(c) \/ uartstart(c, c) \/ uartputc_sync(c, c)
     \/ consoleintr(c) \/ consoleintr_end(c) \/ printf(c, c)

Kernel(c, p) ==
  /\ cpu[c].run = p /\ ~InHandler(c) /\ code[p].spin = None
  /\ \/ usertrap(c, p) \/ usertrap_end(c, p) \/ usertrap_back(c, p) \/ userret(c, p)
     \/ consolewrite(c, p) \/ uartputc(c, p) \/ uartstart(c, p)
     \/ uartputc_sync(c, p) \/ printf(c, p) \/ consoleread(c, p)
     \/ sys_sleep(c, p) \/ sys_kill(c, p) \/ doze(c, p) \/ woken(c, p)

Hart(c) ==
  /\ ~cpu[c].panic
  /\ \/ ~InHandler(c) /\ \E cause \in {"external", "software"} : interrupt(c, cause)
     \/ IF InHandler(c) THEN acquire_spin(c, c)
        ELSE cpu[c].run # None /\ acquire_spin(c, cpu[c].run)
     \/ Handler(c)
     \/ \E p \in Procs : Kernel(c, p)
     \/ /\ cpu[c].run = None /\ ~InHandler(c)
        /\ scheduler_on(c) \/ \E p \in Procs : scheduler(c, p)

\* Mutant of depth: the fifo is left off.
depth_Off == 1

\* uartinit() turns the fifo on.
depth == Fifo

Init ==
  \E s \in Scenes :
    /\ cpu = [c \in Harts |-> [intr |-> TRUE, noff |-> 0, intena |-> FALSE, run |-> None,
                               stvec |-> "kernelvec", user |-> FALSE, ssip |-> FALSE,
                               panic |-> FALSE, timers |-> IF s.timers THEN Timers ELSE 0]]
    /\ code = [f \in Harts \cup Procs |->
                 IF f \in Procs THEN [noFrame EXCEPT !.pc = "new"] ELSE noFrame]
    /\ lock = [lk \in Locks |-> None]
    /\ proc = [p \in Procs |-> [state |-> IF s.prog[p] = None THEN "zombie" ELSE "runnable",
                                chan |-> None, killed |-> FALSE, intena |-> FALSE, trapped |-> FALSE,
                                prog |-> s.prog[p]]]
    /\ cons = [buf |-> [i \in 0..Size - 1 |-> None], r |-> s.at, w |-> s.at, e |-> s.at]
    /\ tx = [buf |-> [i \in 0..TxSize - 1 |-> None], r |-> 0, w |-> 0]
    /\ dev = [fifo |-> <<>>, rx |-> <<>>, typed |-> s.typed, depth |-> depth,
              pending |-> FALSE, claimed |-> FALSE]
    /\ ticks = s.at
    /\ written = <<>> /\ sent = <<>>

Next == Transmit \/ Receive \/ \E c \in Harts : Timer(c) \/ Hart(c)

Spec == /\ Init /\ [][Next]_vars
        /\ WF_vars(Transmit) /\ WF_vars(Receive)
        /\ \A c \in Harts : WF_vars(Timer(c)) /\ WF_vars(Hart(c))

------------------------------------------------------------------------------

\* No hart panics: it never acquires a lock it has or releases one it has not,
\* pop_off finds interrupts off and noff positive, sched() finds p->lock alone
\* held, and no interrupt finds the vector of the other mode in stvec.
NoPanic == ~panicked

\* What write() handed to the uart is in the ring, on its way or sent, in
\* order, none of it lost or sent twice, whatever is echoed or printed with
\* uartputc_sync() in between; the uart has one character of it at a time.
NothingLost ==
  LET ring == [i \in 1..tx.w - tx.r |-> tx.buf[(tx.r + i - 1) % TxSize]]
      moving == LET fs == {f \in Harts \cup Procs : code[f].pc = "thr"}
                IN IF fs = {} THEN <<>> ELSE <<code[CHOOSE f \in fs : TRUE].ch>>
      ours == {i \in 1..Len(dev.fifo) : dev.fifo[i] # Echo}
      fifo == IF ours = {} THEN <<>> ELSE <<dev.fifo[CHOOSE i \in ours : TRUE]>>
  IN /\ \A i, j \in ours : i = j
     /\ written = sent \o fifo \o moving \o ring

Lines(a, b) == [i \in 1..Minus(b, a) |-> cons.buf[((a + i - 1) % Width) % Size]]
LD == INSTANCE LineDiscipline WITH ready <- Lines(cons.r, cons.w), edit <- Lines(cons.w, cons.e)

\* The console is a line discipline: readers get the edited lines, once and
\* in order, though the three indices wrap and the buffer fills (console.c).
LinesKept == LD!Spec

\* Every program ends: no hart waits for ever, no character stays unsent, no
\* sleeper and no killed sleeper is forgotten.
ProgramsEnd == <>(/\ \A p \in Procs : proc[p].state = "zombie"
                  /\ sent = written)
=============================================================================

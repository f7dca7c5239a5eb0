------------------------------ MODULE MemCalls -------------------------------
(***************************************************************************)
(* The memory of processes: fork, exit and wait of kernel/proc.c as far as *)
(* they concern memory, growproc and sbrk, kernel/exec.c with sys_exec,    *)
(* the accesses of user programs with usertrap's answer to a fault, and    *)
(* malloc and free.                                                        *)
(*                                                                         *)
(* A process has its page table pt, the page tf of its trapframe and its   *)
(* size sz; op is the call it is in.  A round of the loops of uvmalloc and *)
(* uvmcopy is a step of its own; pages are given back in one step.         *)
(***************************************************************************)
EXTENDS Vm, Umalloc, Sequences

CONSTANTS
  Procs,
  MAXARG,
  Programs,    \* the calls that processes make, by program
  Images,      \* the files that exec loads, by name
  HeapSizes    \* what malloc is asked for

VARIABLES m, proc, heap, failed
vars == <<m, proc, heap, failed>>

NoOp == [f |-> "none"]
NoProc == [st |-> "unused", pt |-> NoTable, tf |-> 0, sz |-> 0, op |-> NoOp,
           id |-> 0, fork |-> 0, pos |-> 0, parent |-> 0, x |-> 0]

Op(p) == proc[p].op
In(p, fs) == proc[p].st = "running" /\ Op(p).f \in fs
Call(p) ==
  LET own == Programs[proc[p].id] IN
  IF proc[p].fork = 0 THEN own[proc[p].pos] ELSE own[proc[p].fork].child[proc[p].pos]
Calls(p, f) == In(p, {"none"}) /\ Call(p).f = f

\* The process that a call of P with result r leaves, P its new record.  malloc
\* is told of its sbrk; a call that a program repeats is made again until it fails.
Returned(P, c, r) ==
  [P EXCEPT !.op = NoOp,
            !.pos = IF c.f = "heap" \/ (c.f = "sbrk" /\ c.loop /\ r # -1) THEN @ ELSE @ + 1]
Tell(c, r) ==
  IF c.f = "heap" THEN heap' = [heap EXCEPT !.got = r] /\ UNCHANGED failed
  ELSE failed' = (failed \/ r \notin c.want) /\ UNCHANGED heap
Return(p, P, r) ==
  proc' = [proc EXCEPT ![p] = Returned(P, Call(p), r)] /\ Tell(Call(p), r)
Goes(p, P) == proc' = [proc EXCEPT ![p] = P] /\ UNCHANGED <<heap, failed>>
-----------------------------------------------------------------------------
(* sbrk                                                                    *)

\* growproc(n): the request of a program, or of malloc.
growproc(p, n) ==
  LET P == proc[p] IN
  \/ n = 0 /\ Return(p, P, P.sz) /\ UNCHANGED m
  \/ /\ n > 0
     /\ Goes(p, [P EXCEPT !.op = [f |-> "sbrk", a |-> PGROUNDUP(P.sz),
                                  old |-> P.sz, new |-> P.sz + n, perm |-> {"w"}]])
     /\ UNCHANGED m
  \/ /\ n < 0
     /\ \E r \in {uvmdealloc(m, P.pt, P.sz, (P.sz + n + WORD) % WORD)} :
          /\ m' = r.m
          /\ Return(p, [P EXCEPT !.pt = r.pt, !.sz = r.sz], P.sz)

sys_sbrk(p) == Calls(p, "sbrk") /\ growproc(p, Call(p).n)

\* uvmalloc: the table that grows, and another page of it.
Table(p) == IF Op(p).f = "sbrk" THEN proc[p].pt ELSE Op(p).pt
Grown(p, pt) ==
  LET P == [proc[p] EXCEPT !.op.a = @ + 1] IN
  IF Op(p).f = "sbrk" THEN [P EXCEPT !.pt = pt] ELSE [P EXCEPT !.op.pt = pt]
Growing(p, fs) == In(p, fs) /\ Op(p).a * PGSIZE < Op(p).new

GrowPage(p) ==
  /\ Growing(p, {"sbrk", "load", "stack"})
  /\ \E r \in {uvmalloc_page(m, Table(p), Op(p).a, Op(p).perm)} :
       r.ok /\ m' = r.m /\ Goes(p, Grown(p, r.pt))

\* uvmalloc gives back what it got.
undo(mm, pt, a, old) == uvmdealloc(mm, pt, a * PGSIZE, PGROUNDUP(old) * PGSIZE)

SbrkFails(p) ==
  /\ Growing(p, {"sbrk"})
  /\ \E r \in {uvmalloc_page(m, Table(p), Op(p).a, Op(p).perm)} :
       /\ ~r.ok
       /\ \E u \in {undo(r.m, r.pt, Op(p).a, Op(p).old)} :
            m' = u.m /\ Return(p, [proc[p] EXCEPT !.pt = u.pt], -1)

SbrkEnd(p) ==
  /\ In(p, {"sbrk"}) /\ ~Growing(p, {"sbrk"})
  /\ Return(p, [proc[p] EXCEPT !.sz = Op(p).new], Op(p).old)
  /\ UNCHANGED m
-----------------------------------------------------------------------------
(* exec                                                                    *)

\* sys_exec copies each argument to a page of its own, up to a bad one or to
\* MAXARG of them.
ArgPages(args) ==
  LET bad == {n \in DOMAIN args : args[n].bad}
      n == IF bad = {} THEN Len(args) ELSE least(bad)
      k == IF n > MAXARG THEN MAXARG ELSE n
  IN {a \in m.free : Cardinality({b \in m.free : b < a}) < k}
ArgsOk(args) ==
  /\ \A n \in DOMAIN args : ~args[n].bad
  /\ Len(args) < MAXARG /\ Cardinality(m.free) >= Len(args)

\* Mutant of argv_free: the page of the argument that failed is overlooked.
argv_free_Last(mm, pages) == kfree(mm, {a \in pages : \E b \in pages : b > a})

argv_free(mm, pages) == kfree(mm, pages)

sys_exec(p) ==
  LET c == Call(p)
      pages == ArgPages(c.args)
      taken == [m EXCEPT !.free = @ \ pages]
      e == Images[c.image]
      fails == m' = argv_free(taken, pages) /\ Return(p, proc[p], -1)
  IN /\ Calls(p, "exec")
     /\ \/ (~ArgsOk(c.args) \/ ~e.elf) /\ fails
        \/ /\ ArgsOk(c.args) /\ e.elf
           /\ \E r \in {proc_pagetable(taken, proc[p].tf)} :
              \/ /\ ~r.ok /\ m' = argv_free(r.m, pages) /\ Return(p, proc[p], -1)
              \/ /\ r.ok /\ m' = r.m
                 /\ Goes(p, [proc[p] EXCEPT !.op = [f |-> "seg", pt |-> r.pt, sz |-> 0,
                                                    seg |-> 1, pages |-> pages]])

Segs(p) == Images[Call(p).image].segs
Seg(p) == Segs(p)[Op(p).seg]

\* bad: of exec, with the size so far.
ExecBad(p, mm, pt, sz) ==
  /\ m' = argv_free(proc_freepagetable(mm, pt, sz), Op(p).pages)
  /\ Return(p, proc[p], -1)

\* The tests of a program header, then uvmalloc.
ExecSeg(p) ==
  LET o == Op(p)
      s == Seg(p)
      end == (s.vaddr + s.memsz) % WORD
      ok == s.memsz >= s.filesz /\ end >= s.vaddr /\ s.vaddr % PGSIZE = 0
  IN /\ In(p, {"seg"}) /\ o.seg <= Len(Segs(p))
     /\ \/ ~ok /\ ExecBad(p, m, o.pt, o.sz)
        \/ /\ ok /\ UNCHANGED m
           /\ Goes(p, [proc[p] EXCEPT !.op =
                [f |-> "load", a |-> PGROUNDUP(o.sz), old |-> o.sz,
                 new |-> IF end < o.sz THEN o.sz ELSE end, perm |-> s.perm,
                 pt |-> o.pt, sz |-> o.sz, seg |-> o.seg, pages |-> o.pages]])

\* The size that bad: frees after uvmalloc has failed: sz, not yet sz1.
ExecKept(o) == o.sz

ExecNoMemory(p) ==
  /\ Growing(p, {"load", "stack"})
  /\ \E r \in {uvmalloc_page(m, Table(p), Op(p).a, Op(p).perm)} :
       /\ ~r.ok
       /\ \E u \in {undo(r.m, r.pt, Op(p).a, Op(p).old)} :
            ExecBad(p, u.m, u.pt, ExecKept(Op(p)))

\* loadseg, and the next header.
ExecLoad(p) ==
  LET o == Op(p)
      s == Seg(p)
      vas == {s.vaddr \div PGSIZE + i : i \in 0 .. PGROUNDUP(s.filesz) - 1}
      pas == {walkaddr(o.pt, va) : va \in vas}
      loaded == [m EXCEPT !.mem = [a \in Pages |-> IF a \in pas THEN s.data ELSE @[a]]]
  IN /\ In(p, {"load"}) /\ ~Growing(p, {"load"})
     /\ \/ s.short /\ ExecBad(p, loaded, o.pt, o.new)
        \/ /\ ~s.short
           /\ m' = IF 0 \in pas THEN Panic(m, "loadseg: address should exist")
                                ELSE loaded
           /\ Goes(p, [proc[p] EXCEPT !.op = [f |-> "seg", pt |-> o.pt, sz |-> o.new,
                                              seg |-> o.seg + 1, pages |-> o.pages]])

ExecStack(p) ==
  LET o == Op(p)
      sz == PGROUNDUP(o.sz) * PGSIZE
  IN /\ In(p, {"seg"}) /\ o.seg > Len(Segs(p))
     /\ Goes(p, [proc[p] EXCEPT !.op =
          [f |-> "stack", a |-> PGROUNDUP(sz), old |-> sz, new |-> sz + 2 * PGSIZE,
           perm |-> {"w"}, pt |-> o.pt, sz |-> sz, pages |-> o.pages]])
     /\ UNCHANGED m

\* The stack that the arguments take: the strings, each rounded up, and argv.
Align(n) == ((n + 1) \div 2) * 2
ArgSpace(args) ==
  LET total[n \in 0 .. Len(args)] ==
        IF n = 0 THEN 0 ELSE total[n - 1] + Align(args[n].len + 1)
  IN total[Len(args)] + Align(Len(args) + 1)

\* The guard page, the arguments, and the new image instead of the old one.
ExecCommit(p) ==
  LET o == Op(p)
      args == Call(p).args
      top == PGROUNDUP(o.new) - 1
      pt == uvmclear(o.pt, top - 1)
  IN /\ In(p, {"stack"}) /\ ~Growing(p, {"stack"})
     /\ \/ ArgSpace(args) > PGSIZE /\ ExecBad(p, m, pt, o.new)
        \/ /\ ArgSpace(args) <= PGSIZE
           /\ m' = argv_free(proc_freepagetable(fill(m, walkaddr(pt, top), "args"),
                                                proc[p].pt, proc[p].sz), o.pages)
           /\ Return(p, [proc[p] EXCEPT !.pt = pt, !.sz = o.new], Len(args))
-----------------------------------------------------------------------------
(* fork, exit and wait                                                     *)

sys_fork(p) ==
  LET unused == {q \in Procs : proc[q].st = "unused"} IN
  /\ Calls(p, "fork")
  /\ \/ unused = {} /\ Return(p, proc[p], -1) /\ UNCHANGED m
     \/ /\ unused # {}
        /\ \E r \in {allocproc(m)} :
           /\ m' = r.m
           /\ \/ ~r.ok /\ Return(p, proc[p], -1)
              \/ /\ r.ok
                 /\ \E q \in {CHOOSE q \in unused : TRUE} :
                      proc' = [proc EXCEPT
                        ![p].op = [f |-> "copy", q |-> q, a |-> 0],
                        ![q] = [NoProc EXCEPT !.st = "used", !.tf = r.tf, !.pt = r.pt,
                                              !.parent = p]]
                 /\ UNCHANGED <<heap, failed>>

ForkPage(p) ==
  /\ In(p, {"copy"}) /\ Op(p).a * PGSIZE < proc[p].sz
  /\ \E r \in {uvmcopy_page(m, proc[p].pt, proc[Op(p).q].pt, Op(p).a)} :
       /\ r.ok /\ m' = r.m
       /\ proc' = [proc EXCEPT ![p].op.a = @ + 1, ![Op(p).q].pt = r.pt]
  /\ UNCHANGED <<heap, failed>>

ForkFails(p) ==
  LET o == Op(p)
      Q == proc[o.q]
  IN /\ In(p, {"copy"}) /\ o.a * PGSIZE < proc[p].sz
     /\ \E r \in {uvmcopy_page(m, proc[p].pt, Q.pt, o.a)} :
          /\ ~r.ok
          /\ \E u \in {uvmunmap(r.m, r.pt, 0 .. o.a - 1, TRUE)} :
               m' = freeproc(u.m, Q.tf, u.pt, Q.sz)
     /\ proc' = [proc EXCEPT ![p] = Returned(@, Call(p), -1), ![o.q] = NoProc]
     /\ Tell(Call(p), -1)

ForkEnd(p) ==
  LET P == proc[p] IN
  /\ In(p, {"copy"}) /\ Op(p).a * PGSIZE >= P.sz
  /\ proc' = [proc EXCEPT ![p] = Returned(@, Call(p), 1),
                          ![Op(p).q] = [@ EXCEPT !.st = "running", !.sz = P.sz, !.id = P.id,
                                                 !.fork = P.pos, !.pos = 1]]
  /\ Tell(Call(p), 1)
  /\ UNCHANGED m

Children(p) == {q \in Procs : proc[q].parent = p /\ proc[q].st # "unused"}

sys_exit(p) ==
  /\ Calls(p, "exit")
  /\ Goes(p, [proc[p] EXCEPT !.st = "zombie", !.x = 0])
  /\ UNCHANGED m

\* The status of a child, or -1 without one.
sys_wait(p) ==
  /\ Calls(p, "wait")
  /\ \/ Children(p) = {} /\ Return(p, proc[p], -1) /\ UNCHANGED m
     \/ \E q \in Children(p) :
          /\ proc[q].st = "zombie"
          /\ m' = freeproc(m, proc[q].tf, proc[q].pt, proc[q].sz)
          /\ proc' = [proc EXCEPT ![p] = Returned(@, Call(p), proc[q].x), ![q] = NoProc]
          /\ Tell(Call(p), proc[q].x)
-----------------------------------------------------------------------------
(* Accesses                                                                *)

\* An address counts from the process's size if the call says so.
Addr(p) == (Call(p).va + (IF Call(p).top THEN proc[p].sz ELSE 0) + WORD) % WORD
Page(p) == Addr(p) \div PGSIZE
May(p, flags) ==
  Page(p) \in DOMAIN proc[p].pt.pte /\ flags \subseteq proc[p].pt.pte[Page(p)].perm

\* A store or a load of the program; a page fault kills it in usertrap.
Store(p) ==
  /\ Calls(p, "store") /\ May(p, {"u", "w"})
  /\ m' = fill(m, proc[p].pt.pte[Page(p)].pa, Call(p).v)
  /\ Return(p, proc[p], 0)
Load(p) ==
  /\ Calls(p, "load") /\ May(p, {"u"})
  /\ Return(p, proc[p], m.mem[proc[p].pt.pte[Page(p)].pa])
  /\ UNCHANGED m
usertrap(p) ==
  /\ \/ Calls(p, "store") /\ ~May(p, {"u", "w"})
     \/ Calls(p, "load") /\ ~May(p, {"u"})
  /\ Goes(p, [proc[p] EXCEPT !.st = "zombie", !.x = -1])
  /\ UNCHANGED m

\* The pages from the address on that n units take, if addresses do not wrap.
Span(p, n) == IF n = 0 THEN {} ELSE Page(p) .. (Addr(p) + n - 1) \div PGSIZE
\* Those of them that a copy reaches: up to the first that is not the user's.
Reached(p, vas) ==
  {va \in vas : \A w \in vas : w <= va => walkaddr(proc[p].pt, w) # 0}

\* copyin and copyinstr, where a string has n units with its end, and max bounds it.
copyin(p) ==
  LET c == Call(p)
      n == IF c.n > c.max THEN c.max ELSE c.n
      ok == Reached(p, Span(p, n)) = Span(p, n) /\ c.n <= c.max
  IN /\ Calls(p, "copyin")
     /\ Return(p, proc[p], IF ok THEN 0 ELSE -1) /\ UNCHANGED m

\* copyout: the pages before the one that fails are written.
copyout(p) ==
  LET vas == Span(p, Call(p).n)
      pas == {walkaddr(proc[p].pt, va) : va \in Reached(p, vas)}
  IN /\ Calls(p, "copyout")
     /\ m' = [m EXCEPT !.mem = [a \in Pages |-> IF a \in pas THEN Call(p).v ELSE @[a]]]
     /\ Return(p, proc[p], IF Reached(p, vas) = vas THEN 0 ELSE -1)
-----------------------------------------------------------------------------
(* A program that calls malloc and free as it likes                        *)

Heap(p) == Calls(p, "heap")
SetHeap(h) == heap' = h /\ UNCHANGED <<m, proc, failed>>

Malloc(p) ==
  /\ Heap(p) /\ heap.want = 0 /\ heap.left > 0
  /\ \E n \in HeapSizes : SetHeap([heap EXCEPT !.want = n + 1, !.left = @ - 1])
MallocFit(p) == Heap(p) /\ heap.want > 0 /\ fits(heap) # {} /\ SetHeap(malloc_fit(heap))
MallocMore(p) ==
  /\ Heap(p) /\ heap.want > 0 /\ fits(heap) = {} /\ heap.got = -2
  /\ growproc(p, morecore(heap))
\* morecore frees what it got; without memory malloc returns 0.
MallocGot(p) ==
  /\ Heap(p) /\ heap.got # -2
  /\ SetHeap([(IF heap.got = -1 THEN [heap EXCEPT !.want = 0]
               ELSE free(heap, heap.got, morecore(heap))) EXCEPT !.got = -2])
Free(p) ==
  /\ Heap(p) /\ heap.want = 0 /\ heap.left > 0
  /\ \E b \in heap.used : SetHeap([free(heap, b[1], b[2]) EXCEPT !.left = @ - 1])
HeapEnd(p) ==
  /\ Heap(p) /\ heap.want = 0 /\ heap.left = 0
  /\ proc' = [proc EXCEPT ![p].pos = @ + 1]
  /\ UNCHANGED <<m, heap, failed>>
-----------------------------------------------------------------------------
Step(p) ==
  \/ sys_sbrk(p) \/ GrowPage(p) \/ SbrkFails(p) \/ SbrkEnd(p)
  \/ sys_exec(p) \/ ExecSeg(p) \/ ExecNoMemory(p) \/ ExecLoad(p) \/ ExecStack(p)
  \/ ExecCommit(p) \/ sys_fork(p) \/ ForkPage(p) \/ ForkFails(p) \/ ForkEnd(p)
  \/ sys_exit(p) \/ sys_wait(p) \/ Store(p) \/ Load(p) \/ usertrap(p)
  \/ copyin(p) \/ copyout(p)
  \/ Malloc(p) \/ MallocFit(p) \/ MallocMore(p) \/ MallocGot(p) \/ Free(p) \/ HeapEnd(p)

Ended == \A p \in Procs : proc[p].st \in {"unused", "zombie"}

Next == m.panic = "none" /\ ((\E p \in Procs : Step(p)) \/ (Ended /\ UNCHANGED vars))
=============================================================================

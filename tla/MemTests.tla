------------------------------ MODULE MemTests -------------------------------
(***************************************************************************)
(* MemCalls run by the memory tests of user/usertests.c, with the results  *)
(* they ask for.  A page has PGSIZE units, U below.  The program usertests *)
(* has a page of text, one of data, the guard page and the stack.          *)
(***************************************************************************)
EXTENDS MemCalls, SequencesExt

U == PGSIZE
Whatever == -1 .. WORD
Contents == {"junk", "zero", "text", "data", "args", "w", "c"}
Ok(c) == [c EXCEPT !.want = 0 .. WORD]
Err(c) == [c EXCEPT !.want = {-1}]
Gives(c, n) == [c EXCEPT !.want = {n}]

sbrk(n) == [f |-> "sbrk", n |-> n, loop |-> FALSE, want |-> Whatever]
sbrkall(n) == [f |-> "sbrk", n |-> n, loop |-> TRUE, want |-> Whatever]
exec(image, args) == [f |-> "exec", image |-> image, args |-> args, want |-> Whatever]
arg(len) == [len |-> len, bad |-> FALSE]
badarg == [len |-> 0, bad |-> TRUE]
Exit == <<[f |-> "exit", want |-> Whatever]>>
Fork(child) == [f |-> "fork", child |-> child \o Exit, want |-> Whatever]
Wait == [f |-> "wait", want |-> Whatever]
at(f, va) == [f |-> f, va |-> va, top |-> FALSE, v |-> "w", n |-> 1, max |-> U,
              want |-> IF f = "load" THEN Contents ELSE Whatever]
fromtop(f, va) == [at(f, va) EXCEPT !.top = TRUE]
len(c, n) == [c EXCEPT !.n = n]
reads(c, v) == [c EXCEPT !.want = {v}]
heaptest == [f |-> "heap", want |-> Whatever]

seg(vaddr, memsz, filesz, perm, data) ==
  [vaddr |-> vaddr, memsz |-> memsz, filesz |-> filesz, perm |-> perm, data |-> data,
   short |-> FALSE]
text == seg(0, U, U, {"x"}, "text")
bss == seg(U, U, 0, {"w"}, "data")
elf(segs) == [elf |-> TRUE, segs |-> segs]
AllImages ==
  [usertests |-> elf(<<text, bss>>),
   script |-> [elf |-> FALSE, segs |-> <<>>],
   memsz |-> elf(<<text, [bss EXCEPT !.filesz = 2 * U]>>),
   wrap |-> elf(<<text, [bss EXCEPT !.vaddr = WORD - U, !.memsz = 2 * U]>>),
   unaligned |-> elf(<<text, [bss EXCEPT !.vaddr = 1]>>),
   short |-> elf(<<text, [bss EXCEPT !.filesz = U, !.short = TRUE]>>),
   down |-> elf(<<bss, text>>),
   large |-> elf(<<text, [bss EXCEPT !.memsz = 2 * NPAGE * U]>>)]

\* initcode's exec.
first == Gives(exec("usertests", <<arg(1)>>), 1)
-----------------------------------------------------------------------------
copytests ==
  <<first, Err(at("copyin", 50 * U)), Err(at("copyin", WORD - 1)),
    Err(at("copyout", 50 * U)), Err(at("copyout", WORD - 1)),
    Err(len(at("copyin", 0), U + 1))>>
copyinstr2 ==
  <<first, Fork(<<Err(exec("usertests", <<badarg, badarg>>))>>), Gives(Wait, 0)>>
copyinstr3 ==
  <<first, sbrk(2 * U), fromtop("store", -1), Err(len(fromtop("copyin", -1), 2)),
    Err(len(fromtop("copyout", -1), 2))>>
rwsbrk ==
  <<first, Ok(sbrk(2 * U)), Ok(sbrk(-(2 * U))), Err(fromtop("copyin", U)),
    Err(fromtop("copyout", U))>>
exectest == <<first, Fork(<<first, Err(exec("script", <<>>))>>), Gives(Wait, 0)>>
sbrkbasic ==
  LET two == <<Ok(sbrk(1)), Ok(sbrk(1))>> IN
  <<first, Fork(<<Err(sbrk(2 * NPAGE * U))>>), Gives(Wait, 0), Gives(sbrk(1), 4 * U),
    fromtop("store", -1), Gives(sbrk(1), 4 * U + 1), Ok(Fork(two))>> \o two
  \o <<Gives(sbrk(0), 4 * U + 4), Gives(Wait, 0)>>
sbrkmuch ==
  <<first, Gives(sbrk(6 * U), 4 * U), fromtop("store", -1), Gives(sbrk(-U), 10 * U),
    Gives(sbrk(0), 9 * U), Gives(sbrk(U), 9 * U), reads(fromtop("load", -1), "zero"),
    Gives(sbrk(-(6 * U)), 10 * U), Gives(sbrk(0), 4 * U)>>
kernmem == <<first, Ok(Fork(<<at("load", 50 * U)>>)), Gives(Wait, -1)>>
MAXVAplus == <<first, Ok(Fork(<<at("store", MAXVA * U)>>)), Gives(Wait, -1)>>
sbrkfail ==
  LET lot == <<sbrk(2 * NPAGE * U)>> IN
  <<first, Ok(Fork(lot)), Fork(lot), Wait, Wait, Ok(sbrk(U)),
    Ok(Fork(lot \o <<fromtop("load", U)>>)), Gives(Wait, -1), Err(Wait)>>
sbrkarg == <<first, sbrk(U), Gives(len(fromtop("copyin", -U), U), 0), sbrk(U),
             Gives(len(fromtop("copyout", -U), U), 0), reads(fromtop("load", -1), "w")>>
validatetest == <<first>> \o [n \in 1 .. 6 |-> at("copyin", (n - 1) * U)]
bsstest == <<first, reads(at("load", U), "zero"), reads(at("load", 0), "text"),
             reads(at("load", 3 * U), "args")>>
bigargtest ==
  <<first, Fork(<<Err(exec("usertests", <<arg(2), arg(2)>>)),
                  Err(exec("usertests", [n \in 1 .. MAXARG |-> arg(0)]))>>),
    Gives(Wait, 0)>>
stacktest == <<first, Ok(Fork(<<at("load", 2 * U)>>)), Gives(Wait, -1)>>
textwrite == <<first, Ok(Fork(<<at("store", 0)>>)), Gives(Wait, -1)>>
sbrkbugs ==
  <<first, Fork(<<sbrk(-(4 * U)), at("load", 0)>>), Gives(Wait, -1),
    Fork(<<sbrk(-(4 * U - 3)), reads(at("load", 0), "text")>>), Gives(Wait, 0),
    Fork(<<sbrk(U + 2), sbrk(-1)>>), Gives(Wait, 0)>>
sbrklast ==
  <<first, sbrk(U), sbrk(2), sbrk(-3), fromtop("store", -2),
    Gives(len(fromtop("copyin", -2), 2), 0)>>
sbrk8000 == <<first, Gives(sbrk(-(WORD \div 2)), 4 * U), fromtop("store", -1)>>
badargtest == <<first, Err(exec("usertests", <<badarg>>)),
                Err(exec("usertests", <<arg(1), badarg>>))>>
\* Files that exec refuses, and segments in falling order.
badimages ==
  <<first>> \o [n \in 1 .. 5 |->
      Err(exec(<<"memsz", "wrap", "unaligned", "short", "large">>[n], <<arg(1)>>))]
  \o <<Gives(exec("down", <<>>), 0), reads(at("load", 0), "text")>>
\* fork shares nothing with its child.
forkcopy ==
  <<first, sbrk(U), fromtop("store", -1),
    Ok(Fork(<<reads(fromtop("load", -1), "w"), [fromtop("store", -1) EXCEPT !.v = "c"],
              reads(fromtop("load", -1), "c")>>)),
    reads(fromtop("load", -1), "w"), Gives(Wait, 0)>>

Large ==
  <<copytests, copyinstr2, copyinstr3, rwsbrk, exectest, sbrkbasic, sbrkmuch,
    kernmem, MAXVAplus, sbrkfail, sbrkarg, validatetest, bsstest, bigargtest, stacktest,
    textwrite, sbrkbugs, sbrklast, sbrk8000, badargtest, badimages, forkcopy>>
-----------------------------------------------------------------------------
(* With little memory, so that the calls fail wherever they can            *)

start == exec("usertests", <<arg(1)>>)
forktest == <<start, Fork(<<>>), Fork(<<>>), Fork(<<>>), Wait, Wait, Err(Wait)>>
execout ==
  <<start, Fork(<<sbrkall(U), sbrk(-U), sbrk(-U), sbrk(-U), sbrk(-U), start>>), Wait>>
together == <<start, Fork(<<sbrk(2 * U), start>>), Fork(<<sbrk(-U), sbrk(3 * U)>>), sbrk(U),
              Wait, Wait>>
mem == <<heaptest>>
Small == <<forktest, execout, together, mem>>

AllPrograms == LET all == Large \o Small IN [n \in DOMAIN all |-> all[n] \o Exit]
-----------------------------------------------------------------------------
CONSTANTS LITTLE,      \* the least memory
          MALLOCS      \* calls of malloc and free

First == CHOOSE p \in Procs : TRUE

\* userinit: a process with one page.
Init ==
  \E t \in DOMAIN Programs, n \in LITTLE .. NPAGE :
    LET a == allocproc(kinit(n))
        r == newpage(a.m, a.pt, 0, "text", {"u", "w", "x"})
    IN /\ t > Len(Large) \/ n = NPAGE
       /\ Programs[t] = mem \o Exit => n <= LITTLE + 3
       /\ m = r.m
       /\ proc = [q \in Procs |->
            IF q = First
              THEN [NoProc EXCEPT !.st = "running", !.pt = r.pt, !.tf = a.tf,
                                  !.sz = PGSIZE, !.id = t, !.pos = 1]
            ELSE NoProc]
       /\ heap = NoHeap(MALLOCS)
       /\ failed = FALSE

Spec == Init /\ [][Next]_vars
-----------------------------------------------------------------------------
Live == {p \in Procs : proc[p].st # "unused"}

\* The pages that a table uses: root, lower levels and the user's.
TablePages(pt) == {pt.root} \cup Range(pt.tab)
UserPages(pt) == {pt.pte[va].pa : va \in DOMAIN pt.pte \ {TRAMPOLINE, TRAPFRAME}}
Size(pt) == 1 + Cardinality(DOMAIN pt.tab)
            + Cardinality(DOMAIN pt.pte \ {TRAMPOLINE, TRAPFRAME})

\* All tables: those of processes, and those that exec is making.
Making == {p \in Live : Op(p).f \in {"seg", "load", "stack"}}
Tables == [x \in (Live \X {"own"}) \cup (Making \X {"new"}) |->
             IF x[2] = "own" THEN proc[x[1]].pt ELSE Op(x[1]).pt]
Sum(f) == LET S == DOMAIN f
              add[T \in SUBSET S] ==
                IF T = {} THEN 0
                ELSE LET x == CHOOSE x \in T : TRUE IN f[x] + add[T \ {x}]
          IN add[S]

\* At every moment each page of memory is free or has one owner: a trapframe, a
\* table, a place in one process's memory, or an argument of exec.  So no failure in
\* the middle of a call loses a page, none is freed twice, and no two processes
\* share one.
PagesOwned ==
  LET tfs == {proc[p].tf : p \in Live}
      args == UNION {Op(p).pages : p \in Making}
      used == tfs \cup args
              \cup UNION {TablePages(Tables[x]) \cup UserPages(Tables[x]) : x \in DOMAIN Tables}
      owners == Cardinality(Live) + Sum([p \in Making |-> Cardinality(Op(p).pages)])
                + Sum([x \in DOMAIN Tables |-> Size(Tables[x])])
  IN /\ used \cap m.free = {} /\ used \cup m.free = 1 .. m.n
     /\ Cardinality(used) = owners

\* The calls of the tests return what usertests.c asks for, no test is killed, and
\* none of the panics of vm.c and exec.c is reached, whatever fails half way: nothing
\* is mapped twice, unmapped where it is not, copied where it is missing, or left in
\* a table.
MemTestsPass == ~failed /\ proc[First].x = 0 /\ m.panic = "none"

\* Between the calls of malloc and free the blocks that the program has and the free
\* ones cover all that sbrk gave exactly once, and free blocks that touch are one.
HeapCovered ==
  heap.want = 0 =>
    LET free_ == {<<a, heap.size[a]>> : a \in ring(heap) \ {base}}
        blocks == free_ \cup heap.used
        units(b) == b[1] .. b[1] + b[2] - 1
        user == proc[First].id = Len(Programs)
    IN /\ user => UNION {units(b) : b \in blocks} = PGSIZE .. proc[First].sz - 1
       /\ \A b, c \in blocks : b # c => units(b) \cap units(c) = {}
       /\ \A b, c \in free_ : b[1] + b[2] # c[1]
       /\ {after(heap, k) : k \in 1 .. Cardinality(ring(heap))} = ring(heap)
=============================================================================

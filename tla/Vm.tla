--------------------------------- MODULE Vm ----------------------------------
(***************************************************************************)
(* kernel/kalloc.c and kernel/vm.c as functions on                         *)
(*   m   physical memory: n pages, the free ones, what each page holds     *)
(*       (one value for a page) and the text of a panic                    *)
(*   pt  a page table: its root page, the pages of the lower levels by     *)
(*       place, and the leaves by virtual page, each with the physical     *)
(*       page and its flags of PTE_U, PTE_W and PTE_X.                     *)
(* Sizes count units, PGSIZE of them to a page; a table page has FAN       *)
(* entries, on the three levels of Sv39.                                   *)
(***************************************************************************)
EXTENDS Values, FiniteSets, Functions, TLC

CONSTANTS NPAGE, PGSIZE, FAN,
          WORD         \* sizes and addresses wrap around here

MAXVA == FAN * FAN * FAN
TRAMPOLINE == MAXVA - 1
TRAPFRAME == MAXVA - 2

\* There is less physical than virtual memory, which wraps far above.
ASSUME VmAssumption ==
  /\ {NPAGE, PGSIZE, FAN, WORD} \subseteq Nat \ {0}
  /\ NPAGE < TRAPFRAME
  /\ 2 * MAXVA * PGSIZE < WORD

Pages == 1 .. NPAGE
Kernel == 0                       \* the trampoline's page
PGROUNDUP(sz) == (sz + PGSIZE - 1) \div PGSIZE     \* as a page number
NoTable == [root |-> 0, tab |-> <<>>, pte |-> <<>>]
-----------------------------------------------------------------------------
(* kalloc.c                                                                *)

\* [m, pa], pa = 0 if there is none.
kalloc(m) ==
  IF m.free = {} THEN [m |-> m, pa |-> 0]
  ELSE LET pa == least(m.free) IN
       [m |-> [m EXCEPT !.free = @ \ {pa}, !.mem[pa] = "junk"], pa |-> pa]

\* kfree of each of a set of pages.
kfree(m, set) ==
  [m EXCEPT !.free = @ \cup set,
            !.mem = [a \in Pages |-> IF a \in set THEN "junk" ELSE m.mem[a]]]

\* kinit: n pages.
kinit(n) == [n |-> n, free |-> 1 .. n, mem |-> [a \in Pages |-> "junk"],
             panic |-> "none"]

fill(m, pa, v) == [m EXCEPT !.mem[pa] = v]
Panic(m, text) == [m EXCEPT !.panic = text]
-----------------------------------------------------------------------------
(* Page tables                                                             *)

\* walk with alloc: the pages of levels 1 and 0 on the way to va: [m, pt, ok].
level(r, place) ==
  IF ~r.ok \/ place \in DOMAIN r.pt.tab THEN r
  ELSE Let(kalloc(r.m), LAMBDA k :
         IF k.pa = 0 THEN [r EXCEPT !.ok = FALSE]
         ELSE [r EXCEPT !.m = k.m, !.pt.tab = @ @@ (place :> k.pa)])
walk(m, pt, va) ==
  Let(level([m |-> m, pt |-> pt, ok |-> TRUE], <<1, va \div (FAN * FAN)>>),
      LAMBDA r : level(r, <<0, va \div FAN>>))

\* mappages of one page.
mappages(m, pt, va, pa, perm) ==
  IF va >= MAXVA THEN [m |-> Panic(m, "walk"), pt |-> pt, ok |-> FALSE]
  ELSE Let(walk(m, pt, va), LAMBDA r :
         IF ~r.ok THEN r
         ELSE IF va \in DOMAIN pt.pte THEN [r EXCEPT !.m = Panic(@, "remap")]
         ELSE [r EXCEPT !.pt.pte = @ @@ (va :> [pa |-> pa, perm |-> perm])])

\* uvmunmap of the pages vas: [m, pt].
uvmunmap(m, pt, vas, do_free) ==
  IF ~(vas \subseteq DOMAIN pt.pte)
    THEN [m |-> Panic(m, "uvmunmap: not mapped"), pt |-> pt]
  ELSE [m |-> IF do_free THEN kfree(m, {pt.pte[v].pa : v \in vas}) ELSE m,
        pt |-> [pt EXCEPT !.pte = Restrict(@, DOMAIN @ \ vas)]]

\* freewalk and uvmfree return m.
freewalk(m, pt) ==
  IF DOMAIN pt.pte # {} THEN Panic(m, "freewalk: leaf")
  ELSE kfree(m, {pt.root} \cup Range(pt.tab))
uvmfree(m, pt, sz) ==
  Let(uvmunmap(m, pt, 0 .. PGROUNDUP(sz) - 1, TRUE), LAMBDA r : freewalk(r.m, r.pt))

\* The address that user code or the kernel on its behalf may use, or 0.
walkaddr(pt, va) ==
  IF va \in DOMAIN pt.pte /\ "u" \in pt.pte[va].perm THEN pt.pte[va].pa ELSE 0

\* Mutant of uvmclear: the guard page stays the user's.
uvmclear_None(pt, va) == pt

uvmclear(pt, va) == [pt EXCEPT !.pte[va].perm = @ \ {"u"}]
-----------------------------------------------------------------------------
(* Growing, shrinking and copying                                          *)

\* A new page with content v at va.  A page that cannot be mapped goes back.
newpage(m, pt, va, v, perm) ==
  Let(kalloc(m), LAMBDA k :
    IF k.pa = 0 THEN [m |-> m, pt |-> pt, ok |-> FALSE]
    ELSE Let(mappages(fill(k.m, k.pa, v), pt, va, k.pa, perm), LAMBDA r :
           IF r.ok THEN r ELSE [r EXCEPT !.m = kfree(@, {k.pa})]))

\* One round of uvmalloc, and of uvmcopy.
uvmalloc_page(m, pt, a, xperm) == newpage(m, pt, a, "zero", {"u"} \cup xperm)
uvmcopy_page(m, old, new, i) ==
  IF i \notin DOMAIN old.pte
    THEN [m |-> Panic(m, "uvmcopy: pte should exist"), pt |-> new, ok |-> FALSE]
  ELSE newpage(m, new, i, m.mem[old.pte[i].pa], old.pte[i].perm)

\* [m, pt, sz].
uvmdealloc(m, pt, oldsz, newsz) ==
  IF newsz >= oldsz THEN [m |-> m, pt |-> pt, sz |-> oldsz]
  ELSE Let(uvmunmap(m, pt, PGROUNDUP(newsz) .. PGROUNDUP(oldsz) - 1, TRUE),
           LAMBDA r : [m |-> r.m, pt |-> r.pt, sz |-> newsz])
-----------------------------------------------------------------------------
(* proc.c: the tables of processes                                         *)

proc_freepagetable(m, pt, sz) ==
  Let(uvmunmap(m, pt, {TRAMPOLINE, TRAPFRAME}, FALSE),
      LAMBDA r : uvmfree(r.m, r.pt, sz))

\* [m, pt, ok] for the trapframe's page tf.
proc_pagetable(m, tf) ==
  Let(kalloc(m), LAMBDA k :
    IF k.pa = 0 THEN [m |-> m, pt |-> NoTable, ok |-> FALSE]
    ELSE Let(mappages(k.m, [NoTable EXCEPT !.root = k.pa], TRAMPOLINE, Kernel, {"x"}),
             LAMBDA r :
      IF ~r.ok THEN [m |-> uvmfree(r.m, r.pt, 0), pt |-> NoTable, ok |-> FALSE]
      ELSE Let(mappages(r.m, r.pt, TRAPFRAME, tf, {"w"}), LAMBDA t :
             IF t.ok THEN t
             ELSE Let(uvmunmap(t.m, t.pt, {TRAMPOLINE}, FALSE), LAMBDA u :
                    [m |-> uvmfree(u.m, u.pt, 0), pt |-> NoTable, ok |-> FALSE]))))

\* allocproc's memory: [m, tf, pt, ok].
allocproc(m) ==
  Let(kalloc(m), LAMBDA k :
    IF k.pa = 0 THEN [m |-> m, tf |-> 0, pt |-> NoTable, ok |-> FALSE]
    ELSE Let(proc_pagetable(k.m, k.pa), LAMBDA r :
           [m |-> IF r.ok THEN r.m ELSE kfree(r.m, {k.pa}),
            tf |-> IF r.ok THEN k.pa ELSE 0, pt |-> r.pt, ok |-> r.ok]))

\* freeproc's.
freeproc(m, tf, pt, sz) == proc_freepagetable(kfree(m, {tf}), pt, sz)
=============================================================================

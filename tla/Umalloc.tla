------------------------------- MODULE Umalloc -------------------------------
(***************************************************************************)
(* user/umalloc.c as functions on a heap h: freep, and size and ptr of     *)
(* the headers, by address.  Addresses and sizes count headers.  used are  *)
(* the blocks that the program has, want what malloc is looking for (0 if  *)
(* it is not running), got what sbrk returned to it, left the calls that   *)
(* the program still makes.                                                *)
(***************************************************************************)
EXTENDS Values, FiniteSets, TLC

CONSTANT NALLOC        \* the least that morecore asks for

base == 0

\* The first call of malloc makes a ring of base alone.
NoHeap(calls) == [freep |-> base, size |-> (base :> 0), ptr |-> (base :> base),
                  used |-> {}, want |-> 0, got |-> -2, left |-> calls]

ring(h) == DOMAIN h.ptr

\* The header k places after freep.
after(h, k) ==
  LET at[j \in 0 .. k] == IF j = 0 THEN h.freep ELSE h.ptr[at[j - 1]] IN at[k]

\* The places, from freep's successor to freep itself, of blocks that are
\* large enough.
fits(h) == {k \in 1 .. Cardinality(ring(h)) : h.size[after(h, k)] >= h.want}

\* malloc takes the first: all of it, or its end.
malloc_fit(h) ==
  LET k == least(fits(h))
      p == after(h, k)
      prevp == after(h, k - 1)
      all == h.size[p] = h.want
      bp == IF all THEN p ELSE p + h.size[p] - h.want
      rest == ring(h) \ {p}
  IN [h EXCEPT !.freep = prevp, !.used = @ \cup {<<bp, h.want>>}, !.want = 0,
               !.ptr = IF all THEN [q \in rest |-> IF q = prevp THEN h.ptr[p] ELSE h.ptr[q]]
                       ELSE @,
               !.size = IF all THEN [q \in rest |-> h.size[q]]
                        ELSE [@ EXCEPT ![p] = @ - h.want]]

\* Where free stops looking.
place(h, bp) ==
  CHOOSE p \in ring(h) :
    LET q == h.ptr[p] IN (bp > p /\ bp < q) \/ (p >= q /\ (bp > p \/ bp < q))

\* Mutant of joins: the block below is left alone.
joins_Above(h, p, bp) == FALSE

\* free's second test: the block below ends where bp begins.
joins(h, p, bp) == p + h.size[p] = bp

\* free of a block of n headers at bp.
free(h, bp, n) ==
  LET p == place(h, bp)
      q == h.ptr[p]
      up == bp + n = q
      down == joins(h, p, bp)
      size == n + (IF up THEN h.size[q] ELSE 0)
      next == IF up THEN h.ptr[q] ELSE q
      rest == (ring(h) \ (IF up THEN {q} ELSE {})) \cup (IF down THEN {} ELSE {bp})
  IN [h EXCEPT !.freep = p, !.used = @ \ {<<bp, n>>},
        !.size = [a \in rest |-> IF a = p /\ down THEN h.size[p] + size
                                 ELSE IF a = bp THEN size ELSE h.size[a]],
        !.ptr = [a \in rest |-> IF a = p THEN (IF down THEN next ELSE bp)
                                ELSE IF a = bp THEN next ELSE h.ptr[a]]]

\* What morecore asks sbrk for.
morecore(h) == IF h.want < NALLOC THEN NALLOC ELSE h.want
=============================================================================

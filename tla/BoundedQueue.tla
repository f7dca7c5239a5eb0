---------------------------- MODULE BoundedQueue -----------------------------
(***************************************************************************)
(* What a pipe promises: bytes come out in the order in which they were    *)
(* put in, and no more than Size of them are on their way.                 *)
(***************************************************************************)
EXTENDS Naturals, Sequences

CONSTANTS Bytes, Size

VARIABLE q

Init == q = <<>>
Put(x) == Len(q) < Size /\ q' = Append(q, x)
Get == q # <<>> /\ q' = Tail(q)
Next == Get \/ \E x \in Bytes : Put(x)
Spec == Init /\ [][Next]_q
=============================================================================

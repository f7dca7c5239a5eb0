------------------------------- MODULE Values --------------------------------
(***************************************************************************)
(* Helpers of the modules that are functions on a record of state.         *)
(***************************************************************************)
EXTENDS Integers

\* F at the value of e, which TLC then computes once.
Let(e, F(_)) == CHOOSE y \in {F(x) : x \in {e}} : TRUE

least(set) == CHOOSE n \in set : \A m \in set : n <= m
=============================================================================

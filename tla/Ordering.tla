------------------------------- MODULE Ordering -------------------------------
(***************************************************************************)
(* A finite set listed in an order, as `sorted` lists rows by a key that   *)
(* no two of them share.  The strict order is a set of pairs.              *)
(***************************************************************************)
EXTENDS Integers, FiniteSets

(* The i-th element is the one that has i - 1 others before it. *)
InOrder(S, before) ==
    [i \in 1..Cardinality(S) |->
        CHOOSE s \in S : Cardinality({t \in S : <<t, s>> \in before}) = i - 1]
==============================================================================

-------------------------------- MODULE Sorting --------------------------------
(***************************************************************************)
(* Array.prototype.sort with a comparator that never answers 0 for two     *)
(* elements: the list of a finite set in a strict total order.  (It is not *)
(* SetToSortSeq of the community modules, because that one comes down to   *)
(* an operator of TLC for which there is no definition to reason with.)    *)
(***************************************************************************)
EXTENDS Integers, FiniteSets

\* The element in place i is the one with i - 1 elements before it.
InOrder(S, before(_, _)) ==
  [i \in 1..Cardinality(S) |->
     CHOOSE x \in S : Cardinality({y \in S : before(y, x)}) = i - 1]

=============================================================================

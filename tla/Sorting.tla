------------------------------ MODULE Sorting -------------------------------
(***************************************************************************)
(* A stable sort (sort.SliceStable, and sort.Slice of the short lists the  *)
(* program sorts), as a list of the places in their new order: a place     *)
(* comes as many places down as others go ahead of it.                     *)
(***************************************************************************)
EXTENDS Integers, Sequences, FiniteSets

(* The order of 1..n when R has the pairs of which the first goes ahead.   *)
InOrder(n, R) ==
  [k \in 1..n |-> CHOOSE i \in 1..n : Cardinality({j \in 1..n : <<j, i>> \in R}) = k - 1]

StableSort(s, Before(_, _)) ==
  LET n == Len(s)
      ahead == {p \in (1..n) \X (1..n) :
                  \/ Before(s[p[1]], s[p[2]])
                  \/ p[1] < p[2] /\ ~Before(s[p[2]], s[p[1]])}
  IN  [k \in 1..n |-> s[InOrder(n, ahead)[k]]]
=============================================================================

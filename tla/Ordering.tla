------------------------------- MODULE Ordering -------------------------------
(***************************************************************************)
(* Python's sorted() and comprehensions with a condition, of what the      *)
(* algorithms sort and filter.  An order is a set of pairs, so that facts  *)
(* about all orders can be stated; SetToSortSeq takes an operator.         *)
(***************************************************************************)
EXTENDS Integers, FiniteSets

\* The order that Before is, on S.
OrderBy(S, Before(_,_)) == {p \in S \X S : Before(p[1], p[2])}

\* How many of S come before x.
Place(S, before, x) == Cardinality({y \in S : <<y, x>> \in before})

\* The elements of S, each in its place.
InOrder(S, before) ==
  [i \in 1..Cardinality(S) |-> CHOOSE x \in S : Place(S, before, x) = i - 1]

\* The positions of a sequence that are in I, and what stands there.
Positions(I) == InOrder(I, OrderBy(I, LAMBDA i, j : i < j))
Filtered(s, I) == [k \in 1..Cardinality(I) |-> s[Positions(I)[k]]]
=============================================================================

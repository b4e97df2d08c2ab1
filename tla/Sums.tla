--------------------------------- MODULE Sums ---------------------------------
(***************************************************************************)
(* Totals over finite sets.                                                *)
(***************************************************************************)
EXTENDS Integers, FiniteSetsExt

\* The sum of the values of a function.
SumOf(f) == MapThenSumSet(LAMBDA c : f[c], DOMAIN f)
=============================================================================

------------------------------ MODULE AtomicSums ------------------------------
(***************************************************************************)
(* Sums of token amounts.  An amount is a number of atomic units, so the   *)
(* total of f over S is the number of units <<x, i>> held by the elements  *)
(* of S.  Counting units, rather than folding +, lets the sum be reasoned  *)
(* about with the cardinality theorems alone.                              *)
(***************************************************************************)
EXTENDS Integers, FiniteSets

Units(S, f) == UNION {{x} \X (1..f[x]) : x \in S}

Total(S, f) == Cardinality(Units(S, f))
=============================================================================

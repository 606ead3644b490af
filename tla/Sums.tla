-------------------------------- MODULE Sums --------------------------------
(***************************************************************************)
(* The sum of a function from a finite set to the natural numbers, stated  *)
(* as the number of units it counts.  A fold over its domain would do for  *)
(* TLC, but nothing could be proved of it without an induction.            *)
(***************************************************************************)
EXTENDS Integers, FiniteSets

Units(f) == UNION {{x} \X (1..f[x]) : x \in DOMAIN f}
Sum(f)   == Cardinality(Units(f))
=============================================================================

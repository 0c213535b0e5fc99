----------------------------- MODULE PathOrder -----------------------------
(* The order in which the files of a directory are gone through: that of   *)
(* their paths.  A path is a number.                                       *)
EXTENDS Naturals, FiniteSets

\* The i-th path has i - 1 before it.
InPathOrder(P) ==
  [i \in 1..Cardinality(P) |->
     CHOOSE p \in P : Cardinality({q \in P : q < p}) = i - 1]
=============================================================================

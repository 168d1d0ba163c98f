----------------------------- MODULE MCJobLinks ------------------------------
(* Instances of JobLinks for TLC.                                          *)
EXTENDS JobLinks, TLC

CONSTANT t1
MCLastVersion == [t \in Trips |-> IF t = t1 THEN 2 ELSE 1]

Symmetry == Permutations(Workers)
=============================================================================

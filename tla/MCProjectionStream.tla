------------------------- MODULE MCProjectionStream -------------------------
(* Instances of ProjectionStream for TLC.                                  *)
EXTENDS ProjectionStream, TLC

MCJobOf == [s \in Steps |-> CHOOSE j \in Jobs : TRUE]

Symmetry == Permutations(Consumers)
=============================================================================

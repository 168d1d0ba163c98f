----------------------------- MODULE MCTripQuota -----------------------------
(* Instances of TripQuota for TLC.                                         *)
EXTENDS TripQuota, TLC

MCDeltas == {-1, 1}

Symmetry == Permutations(Users) \cup Permutations(Trips)
              \cup Permutations(ReqIds) \cup Permutations(Workers)
=============================================================================

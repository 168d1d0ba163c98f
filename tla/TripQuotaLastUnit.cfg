\* Two workers race for the last unit, with an admin adjusting it.
SPECIFICATION Spec
CONSTANTS
  Users = {u1}
  Trips = {t1, t2}
  ReqIds = {r1, r2}
  Workers = {w1, w2}
  Nobody = Nobody
  Grant = 1
  Deltas <- MCDeltas
  MaxLimit = 2
  MaxAttempts = 0
  GarbledBodies = TRUE
SYMMETRY Symmetry
INVARIANTS EntryFollowsTrip NeverOverdrawn OneTripEach DecisionStands
PROPERTIES ImplementsLedger
\* Trip ids run out, accounts close: the instance may stop.
CHECK_DEADLOCK FALSE

\* A second create call for a trip that cannot connect.
SPECIFICATION Spec
CONSTANTS
  Users = {u1}
  Trips = {t1}
  ReqIds = {r1}
  Workers = {w1, w2}
  Nobody = Nobody
  Grant = 1
  Deltas = {}
  MaxLimit = 1
  MaxAttempts = 1
  GarbledBodies = FALSE
INVARIANTS NoBlindRelease
\* Trip ids run out, accounts close: the instance may stop.
CHECK_DEADLOCK FALSE

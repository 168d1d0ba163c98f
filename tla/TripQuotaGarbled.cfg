\* A single create call answered with JSON that is not an object.
SPECIFICATION Spec
CONSTANTS
  Users = {u1}
  Trips = {t1}
  ReqIds = {r1}
  Workers = {w1}
  Nobody = Nobody
  Grant = 1
  Deltas = {}
  MaxLimit = 1
  MaxAttempts = 0
  GarbledBodies = TRUE
INVARIANTS SoleCallRelease
\* Trip ids run out, accounts close: the instance may stop.
CHECK_DEADLOCK FALSE

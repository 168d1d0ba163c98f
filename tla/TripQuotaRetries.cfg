\* One submission, two workers: retries, polls, streams, reconciler, and an
\* owner who keeps polling.
SPECIFICATION FairSpec
CONSTANTS
  Users = {u1}
  Trips = {t1}
  ReqIds = {r1}
  Workers = {w1, w2}
  Nobody = Nobody
  Grant = 1
  Deltas = {}
  MaxLimit = 1
  MaxAttempts = 1
  GarbledBodies = FALSE
INVARIANTS TypeOK SubmittingIsUnbound ChargedOnlyForSuccess SoleCallRelease
PROPERTIES SettledForGood ErasedForGood BoundTripSettles
\* Trip ids run out, accounts close: the instance may stop.
CHECK_DEADLOCK FALSE

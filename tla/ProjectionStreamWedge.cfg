\* A heartbeat queued before the event a repair applies.
SPECIFICATION Spec
CONSTANTS
  Jobs = {j1}
  Steps = {}
  JobOf <- MCJobOf
  Consumers = {c1}
  Nobody = Nobody
  MaxAttempts = 2
  Poisons = {"HEARTBEAT"}
  Repairs = {"SENT", "REPAIRED"}
  MaxSequence = 1
  MaxQueue = 3
  MaxLosses = 0
PROPERTIES RefusedHeartbeatIsAhead
CHECK_DEADLOCK FALSE

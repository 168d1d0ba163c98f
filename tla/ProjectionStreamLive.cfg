\* Poisoned events, repaired by an operator; heartbeats between them.
SPECIFICATION FairSpec
CONSTANTS
  Jobs = {j1}
  Steps = {}
  JobOf <- MCJobOf
  Consumers = {c1}
  Nobody = Nobody
  MaxAttempts = 2
  Poisons = {"FIRST"}
  Repairs = {"SENT"}
  MaxSequence = 2
  MaxQueue = 3
  MaxLosses = 0
PROPERTIES EverythingApplied PoisonLeaves
CHECK_DEADLOCK FALSE

\* Poisoned events, new and republished, duplicates, lost connections and crashes.
SPECIFICATION Spec
CONSTANTS
  Jobs = {j1}
  Steps = {}
  JobOf <- MCJobOf
  Consumers = {c1, c2}
  Nobody = Nobody
  MaxAttempts = 2
  Poisons = {"FIRST", "AGAIN"}
  Repairs = {"SENT", "REPAIRED"}
  MaxSequence = 2
  MaxQueue = 2
  MaxLosses = 1
SYMMETRY Symmetry
INVARIANTS TypeOK RecordedPrefix ViewCoversPrefix NoEventLost
PROPERTIES PausedStandsStill HeartbeatsInStep ImplementsView
CHECK_DEADLOCK FALSE

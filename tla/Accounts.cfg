\* Two clients, each with any of the requests.
SPECIFICATION MCSpec
CONSTANTS
  o = o
  a = a
  x = x
  z = z
  ko = ko
  ka = ka
  ko2 = ko2
  b1 = b1
  n1 = n1
  n2 = n2
  n3 = n3
  n4 = n4
  Users = {o, a, x, z}
  Owner = o
  Keys = {ko, ka, ko2}
  Batches = {b1}
  Names = {n1, n2, n3, n4}
  Workers = {w1, w2}
  Requests <- MCRequests
  Grant = 1
  Nobody = Nobody
SYMMETRY Symmetry
INVARIANTS TypeOK KeyAppliesOnce AuditTellsTheTruth BalanceNeverNegative ClosedTargetIsForgotten
PROPERTIES AdminsTouchOnlyUsers NamesAreNotInherited DisabledKeepsName
CHECK_DEADLOCK FALSE

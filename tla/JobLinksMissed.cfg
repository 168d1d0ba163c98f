\* One job whose acceptance and whose last event pass each other.
SPECIFICATION Spec
CONSTANTS
  t1 = t1
  Users = {u1}
  Trips = {t1}
  Workers = {w1, w2}
  Nobody = Nobody
  LastVersion <- MCLastVersion
  PageSize = 1
SYMMETRY Symmetry
INVARIANT BindingCorrects
CHECK_DEADLOCK FALSE

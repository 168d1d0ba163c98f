\* Two jobs of one owner, events, backfill, reconciliation, acceptance, closure.
SPECIFICATION Spec
CONSTANTS
  t1 = t1
  Users = {u1}
  Trips = {t1, t2}
  Workers = {w1, w2}
  Nobody = Nobody
  LastVersion <- MCLastVersion
  PageSize = 1
SYMMETRY Symmetry
INVARIANTS TypeOK LinksTellTheTruth BackfillCovers
PROPERTIES ErasureIsFinal
CHECK_DEADLOCK FALSE

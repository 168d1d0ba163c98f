\* Two requests, two addresses, two codes, two invitations.
SPECIFICATION Spec
CONSTANTS
  u1 = u1
  u2 = u2
  e1 = e1
  e2 = e2
  Users = {u1, u2}
  Emails = {e1, e2}
  HomeOf <- MCHomeOf
  Invitations = {i1, i2}
  Challenges = {c1, c2}
  Sessions = {s1}
  Workers = {w1, w2}
  Nobody = Nobody
  PerEmail = 2
  MaxAttempts = 1
SYMMETRY Symmetry
INVARIANTS TypeOK InvitationOpensOneAccount RegistrationsNeverClash CodeSpentOnce
  GuessesAreBounded LiveSessionsAreActive ClosedLeavesNothing
CHECK_DEADLOCK FALSE

SPECIFICATION FairLoginSpec
CONSTANTS
  r1 = r1  r2 = r2
  Requests = {r1, r2}
  u1 = u1  u2 = u2
  Users = {u1, u2}
  e1 = e1  e2 = e2
  Emails = {e1, e2}
  n1 = n1  n2 = n2
  Names = {n1, n2}
  g1 = g1
  Googles = {g1}
  EmailOf <- MCEmailOf
  s1 = s1  s2 = s2
  Secrets = {s1, s2}
  None = None
  NoUser = NoUser
  Visitors = {u1}
INVARIANTS
  TypeOK
  OneUserEach
  EnabledIsUsable
  EnabledIsConfirmed
PROPERTY NobodyIsLockedOut
CHECK_DEADLOCK FALSE

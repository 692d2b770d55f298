SPECIFICATION MembersSpec
CONSTANTS
  u1 = u1
  u2 = u2
  t1 = t1
  t2 = t2
  None = None
  User = {u1, u2}
  Tenant = {t1, t2}
  Token = {}
  Cap = 3
  Slot = {1, 2}
  Founders <- MCFounders
  Joined <- MCJoined
INVARIANT EveryTenantHasAnOwner
CHECK_DEADLOCK FALSE

SPECIFICATION Spec
CONSTANTS
  u1 = u1
  u2 = u2
  u3 = u3
  t1 = t1
  t2 = t2
  t3 = t3
  k1 = k1
  None = None
  User = {u1, u2, u3}
  Tenant = {t1, t2, t3}
  Token = {k1}
  Cap = 3
  Slot = {1, 2}
  Founders <- MCFounders
  Joined <- MCJoined
  Pages = {"products", "product", "members"}
  MaxActs = 3
INVARIANTS TypeOK TenantKeepsAnOwner ShowsActiveTenant ShowsOwnSaves SavesLandWhereShown
PROPERTY MembershipIsGranted
CHECK_DEADLOCK FALSE

CONSTANTS
  t1 = t1
  u1 = u1
  None = None
  Task <- MCTask
  Worker = {w1, w2}
  MaxAttempts = 2
  PullOf <- MCPullOf
  Client = {c1}
  Key = {k1}
  User = {u1}
  RoleOf <- MCRoleOf
SPECIFICATION RepairSpec
INVARIANTS RepairTypeOK ExactConsent

CONSTANTS
  t1 = t1
  u1 = u1
  None = None
  Task <- MCTask
  Worker = {w1}
  MaxAttempts = 4
  PullOf <- MCPullOf
  Client = {c1}
  Key = {k1}
  User = {u1}
  RoleOf <- MCRoleOf
SPECIFICATION RepairSpec
CONSTRAINT OneWastedClaim
INVARIANTS ExactConsent SucceededHasDraft
PROPERTY ImplementsGate
CHECK_DEADLOCK FALSE

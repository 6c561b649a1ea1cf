CONSTANTS
  t1 = t1
  t2 = t2
  pr = pr
  None = None
  Task <- MCTask
  Worker = {w1, w2}
  MaxAttempts = 2
  PullOf <- MCPullOf
SPECIFICATION FairSpec
PROPERTY RunningTaskIsNotLost

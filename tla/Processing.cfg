SPECIFICATION ProcessingFairSpec
CONSTANTS
  t1 = t1
  pr = pr
  None = None
  Task = {t1}
  Worker = {w1, w2}
  Reader = {r1}
  MaxAttempts = 2
  Plan <- MCPlan
  PullOf <- MCPullOf
INVARIANTS
  ProcessingTypeOK
  SucceededIsPublished
  PublishedIsAccepted
  OnePublicationPerRun
  ReaderMissesNothing
PROPERTIES
  ProcessingEnds

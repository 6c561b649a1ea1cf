CONSTANTS
  d1 = d1
  d2 = d2
  dw = dw
  di = di
  dg = dg
  t1 = t1
  t2 = t2
  tw = tw
  ti = ti
  m1 = m1
  m2 = m2
  a1 = a1
  pr = pr
  None = None
  Task <- MCTask
  Worker = {w1}
  MaxAttempts = 1
  PullOf <- MCPullOf
  Template = {a1}
  Admin = {u1, u2}
  Config <- MCConfig
  Key = {d1, d2, dw, di, dg}
  EventOf <- MCEventOf
  TriggeredTask <- MCTriggeredTask
  MaxRevision = 4
  Handler = {h1, h2}
  TaskOf <- MCTaskOf
  Scenario <- MCScenario
SYMMETRY Symmetric
SPECIFICATION IngestionSpec
INVARIANTS IngestionTypeOK RunsMatchTheirVersion RevisionIdentifiesRow AcknowledgedIsHandled 
PROPERTIES TriggerKeepsLimit

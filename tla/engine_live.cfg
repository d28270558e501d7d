SPECIFICATION FairSpec
CONSTANTS
  w1 = w1
  w2 = w2
  w3 = w3
  a = a
  b = b
  c = c
  None = None
  Task = {a, b}
  Worker = {w1, w2}
  DependsOn <- Chain
  Gated = {a}
  Checked = {a}
  BuildStep = {}
  MaxAttempts = 2
  Faults = {"crash", "stop", "dbError"}
  Mortal = {w1}
INVARIANTS
  OneWorkerPerTask
  AttemptsBounded
  ParkedIsAwaited
PROPERTIES
  LiveLeaseIsKept
  LeasesEnd
  FinishedWorkReleases
  FinishedGoalSettles
CHECK_DEADLOCK FALSE

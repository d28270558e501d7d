SPECIFICATION Spec
CONSTANTS
  c1 = c1
  c2 = c2
  None = None
  Call = {c1}
  MaxIterations = 2
  MaxToolCalls = 3
  MaxAttempts = 3
  MaxRuns = 3
INVARIANTS
  EffectsLeaveARow
  ClaimsAreTrue
  ResumeTellsNoStop
CHECK_DEADLOCK FALSE

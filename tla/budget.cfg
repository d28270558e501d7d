SPECIFICATION Spec
CONSTANTS
  w1 = w1
  w2 = w2
  Worker = {w1, w2}
  Work = {"tools", "checked", "build"}
  Ceiling = 5
  FirstCallReserve = 3
  Sizes = {2, 3}
  MaxCalls = 6
INVARIANTS
  SpendAccounted
  CeilingHolds
  OvershootBounded
SYMMETRY WorkerSymmetry
CHECK_DEADLOCK FALSE

SPECIFICATION Spec
CONSTANTS
  w1 = w1
  w2 = w2
  w3 = w3
  a = a
  b = b
  c = c
  None = None
  Task = {a, b}
  Worker = {w1, w2}
  DependsOn <- Chain
  Gated = {a}
  Checked = {a}
  BuildStep = {b}
  MaxAttempts = 2
  Faults = {"crash", "stall", "dbError", "earlyAnswer", "answerLost"}
  Mortal = {w1}
INVARIANTS
  WorkIsApproved
PROPERTIES
  ImplementsLifecycle
CHECK_DEADLOCK FALSE

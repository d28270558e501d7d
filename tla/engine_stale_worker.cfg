SPECIFICATION Spec
CONSTANTS
  w1 = w1
  w2 = w2
  w3 = w3
  a = a
  b = b
  c = c
  None = None
  Task = {a}
  Worker = {w1, w2}
  DependsOn <- Chain
  Gated = {}
  Checked = {}
  BuildStep = {}
  MaxAttempts = 2
  Faults = {"stall"}
  Mortal = {w1}
PROPERTIES
  LiveLeaseIsKept
CHECK_DEADLOCK FALSE

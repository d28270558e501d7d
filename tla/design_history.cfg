SPECIFICATION Spec
CONSTANTS
  w1 = w1
  p1 = p1
  lamp = lamp
  shade = shade
  accepted = accepted
  None = None
  Worker = {w1}
  Person = {p1}
  Path = {lamp, shade}
  Ruling = {accepted}
  Steps = 2
  MaxAttempts = 2
  MaxVersions = 2
SYMMETRY Alike
INVARIANTS
  OneHistory
  BuildIsOneHistory
  KeptOnce
PROPERTIES
  RulingsStand
CHECK_DEADLOCK FALSE

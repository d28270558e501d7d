SPECIFICATION FairSpec
CONSTANTS
  b1 = b1
  b2 = b2
  b3 = b3
  s1 = s1
  s2 = s2
  None = None
  Eof = Eof
  Warmup = Warmup
  Closer = Closer
  Build = {b1, b2}
  Slot = {s1}
  Faults = {"crash", "exit"}
INVARIANTS
  AnswersAreOwn
  SlotsConserved
PROPERTIES
  RetryIsForACrash
  EveryCallEnds
  SlotsComeHome
CHECK_DEADLOCK FALSE

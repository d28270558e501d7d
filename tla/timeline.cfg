SPECIFICATION FairSpec
CONSTANTS
  v = v
  w = w
  None = None
  Writer = {v, w}
  Legacy = 1
  Batch = 2
  MaxFacts = 3
INVARIANTS
  ChainIntact
  ToldTogether
PROPERTIES
  AppendsOnly
  AppendsEnd
CHECK_DEADLOCK FALSE

SPECIFICATION ScribeFairSpec
CONSTANTS
  p = p
  q = q
  x = x
  y = y
  w1 = w1
  None = None
  Speaker = {p, q}
  Switch = {x}
  Worker = {w1}
  Words <- MCWords
  Muters = {p}
  MinWords = 1
  Depth = 1
INVARIANTS
  EachWordOnce
  WrittenAsAgreed
PROPERTIES
  WordsSettle
CHECK_DEADLOCK FALSE

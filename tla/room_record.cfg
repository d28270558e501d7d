SPECIFICATION RecordFairSpec
CONSTANTS
  t1 = t1
  t2 = t2
  t3 = t3
  d1 = d1
  b1 = b1
  b2 = b2
  Turn = {t1, t2}
  Redaction = {d1}
  Comings = 1
  Browser = {b1}
  Buffer = 1
  MaxReads = 1
  MaxFaults = 1
INVARIANTS
  NumberedThrough
  PageIsTheRecord
PROPERTIES
  PagesSettle
CHECK_DEADLOCK FALSE

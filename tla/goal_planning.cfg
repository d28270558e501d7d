SPECIFICATION Spec
CONSTANTS
  c1 = c1
  c2 = c2
  q1 = q1
  q2 = q2
  a1 = a1
  a2 = a2
  o1 = o1
  k1 = k1
  k2 = k2
  Caller = {c1, c2}
  Question = {q1}
  Criteria = {a1}
  Option = {o1}
  Key = {k1, k2}
  None = None
  MaxPlans = 2
  MaxDecisions = 2
INVARIANTS
  ChoiceIsOnRecord
PROPERTIES
  WorkIsKept
  StartedWorkFinishes
CHECK_DEADLOCK FALSE

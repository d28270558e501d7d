SPECIFICATION MediaFairSpec
CONSTANTS
  a = a
  b = b
  s = s
  t = t
  NoConn = NoConn
  Conn = {a, b}
  Stream = {s, t}
  Wirings <- MCWirings
  MaxParticipants = 2
  Faults = {"joinFails", "badAnswer", "offerFails"}
INVARIANTS
  EveryoneIsHeard
  OffersCatchUp
PROPERTIES
  ClosedRoomEmpties
CHECK_DEADLOCK FALSE

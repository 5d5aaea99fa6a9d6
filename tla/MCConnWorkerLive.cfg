CONSTANTS
  Worker = {w1}
  Closable = {w1}
  UIReq = {u1, u2}
  SQLReq = {s1, s2}
  OneShot = {o1}
  UICap = 1
  SQLCap = 1
  ResCap = 1
  SemCap = 2
  Idle = Idle
SPECIFICATION FairSpec
CHECK_DEADLOCK FALSE
PROPERTIES
  ImplementsRequestOrder
  UIRequestsServed
  SQLCallsReturn

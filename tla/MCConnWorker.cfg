CONSTANTS
  Worker = {w1, w2}
  Closable = {w2}
  UIReq = {u1, u2, u3}
  SQLReq = {s1, s2}
  OneShot = {o1}
  UICap = 1
  SQLCap = 1
  ResCap = 1
  SemCap = 2
  Idle = Idle
SPECIFICATION Spec
SYMMETRY Symmetry
CHECK_DEADLOCK FALSE
INVARIANTS
  SQLAnsweredOnce
  UIOvertakenOnce
  MutualWaitOnlyAtCapacity

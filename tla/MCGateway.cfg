CONSTANTS
  Entry = {a, s}
  SSM = {a}
  SSH = {s}
  BigQuery = {}
  DB = {d1, d2}
  HomeDB = d1
  Port = {p1, p2}
  MaxOps = 4
SPECIFICATION Spec
SYMMETRY Symmetry
CHECK_DEADLOCK FALSE
INVARIANTS
  HeldPoolsAreOpen
  NothingShared
  OwnedWhenUndisturbed
  ReachesWhatItNames

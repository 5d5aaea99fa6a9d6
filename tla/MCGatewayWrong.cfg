CONSTANTS
  Entry = {s, t}
  SSM = {}
  SSH = {s, t}
  BigQuery = {}
  DB = {d1, d2}
  HomeDB = d1
  Port = {p1, p2}
  MaxOps = 4
SPECIFICATION Spec
SYMMETRY Symmetry
CHECK_DEADLOCK FALSE
INVARIANTS NeverTheWrongServer

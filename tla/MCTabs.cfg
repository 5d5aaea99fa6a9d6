CONSTANTS
  Mem = Mem
  Conn = {Mem, c1, c2}
  MaxTabID = 6
  Tab = {t1}
  Query = {s1, s2, x}
  Select = {s1, s2}
  Nothing = Nothing
  NavCap = 2
  MaxGen = 4
SPECIFICATION TabsSpec
SYMMETRY Symmetry
CHECK_DEADLOCK FALSE
INVARIANTS
  TrailMatchesScreen
PROPERTIES
  TabsKeepConnection
  ShownNeverOlder
  NewestApplied

CONSTANTS
  Call = {k1, k2}
  Label = {a, d}
  AWS = {a}
  MaxVersion = 3
  No = No
SPECIFICATION FairSpec
CHECK_DEADLOCK FALSE
INVARIANTS ServedAsRead
PROPERTIES CallsReturn

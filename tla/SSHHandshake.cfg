CONSTANT Forward = {f1, f2}
SPECIFICATION SSHFairSpec
CHECK_DEADLOCK FALSE
PROPERTIES
  StartIsBounded

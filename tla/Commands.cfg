CONSTANTS
  Cmd = {c1, c2, c3}
  Conn = {mem, k}
  Mem = mem
  CmdCap = 2
SPECIFICATION Spec
CHECK_DEADLOCK FALSE
INVARIANTS
  HeldInOnePlace
  OkMeansShown
  AnsweredIsVisible
  DimmedIsAwaited
PROPERTIES
  CommandsReturn

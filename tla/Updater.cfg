SPECIFICATION FairSpec
CHECK_DEADLOCK FALSE
INVARIANTS
  AnswerAwaited
  ReleaseRemains
PROPERTIES
  RestartComesBack

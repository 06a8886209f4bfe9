SPECIFICATION FairSpec
CONSTANT MaxRetries = 2
INVARIANTS
  NeverRepeated
PROPERTIES
  RequestEnds
  ImplementsContract
CHECK_DEADLOCK FALSE

CONSTANTS
  Programs <- OnlyWaitWait
  OffsetLimit = 65536
SPECIFICATION Spec
INVARIANTS OrderedSilent
CHECK_DEADLOCK FALSE

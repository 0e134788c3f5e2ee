CONSTANTS
  Programs <- OnlyTaskGroup
  OffsetLimit = 65536
SPECIFICATION Spec
INVARIANTS OrderedSilent
CHECK_DEADLOCK FALSE

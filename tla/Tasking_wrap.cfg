CONSTANTS
  Programs <- OnlyWrap
  OffsetLimit = 4
SPECIFICATION Spec
INVARIANTS OrderedSilent
CHECK_DEADLOCK FALSE

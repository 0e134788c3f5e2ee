CONSTANTS
  Programs <- OnlyUnlabelled
  OffsetLimit = 65536
SPECIFICATION Spec
INVARIANTS RunningTasksLabelled
CHECK_DEADLOCK FALSE

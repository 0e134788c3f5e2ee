CONSTANTS
  Programs <- OnlySections
  OffsetLimit = 65536
SPECIFICATION Spec
INVARIANTS ConcurrentReported
CHECK_DEADLOCK FALSE

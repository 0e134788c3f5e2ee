CONSTANTS
  Programs <- OnlyChain
  OffsetLimit = 65536
SPECIFICATION Spec
INVARIANTS SilentWhileMarked
CHECK_DEADLOCK FALSE

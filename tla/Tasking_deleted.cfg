CONSTANTS
  Programs <- OnlyDeleted
  OffsetLimit = 65536
SPECIFICATION Spec
INVARIANTS DeletedDataNotRead
CHECK_DEADLOCK FALSE

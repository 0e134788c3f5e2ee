CONSTANTS
  Programs <- OnlyPrefix
  OffsetLimit = 65536
SPECIFICATION Spec
INVARIANTS PrefixIsOrdered
CHECK_DEADLOCK FALSE

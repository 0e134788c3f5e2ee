SPECIFICATION Spec
CONSTANTS
  ThreadCount = 2
  Levels = 3
  TaskCount = 2
  BlockCount = 2
  Setups <- OnlyReuse
INVARIANTS SharedLocalsChecked
CHECK_DEADLOCK FALSE

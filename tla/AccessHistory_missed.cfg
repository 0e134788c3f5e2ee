CONSTANTS
  l1 = l1
  l2 = l2
  Locks = {l1, l2}
  NullLockSet = NullLockSet
  None = None
  Stretches <- ProgramStretches
  Before <- ProgramBefore
  Popped <- TeamPopped
  Path <- TeamPath
  Explicit <- TeamExplicit
  MutexTasks <- Empty
  Executions <- OneLock
SPECIFICATION Spec
CHECK_DEADLOCK FALSE
INVARIANTS RacesFound

CONSTANTS
  l1 = l1
  l2 = l2
  Locks = {l1, l2}
  NullLockSet = NullLockSet
  None = None
  Stretches <- ProgramStretches
  Before <- ProgramBefore
  Popped <- TeamPopped
  Path <- TeamPath
  Explicit <- TeamExplicit
  MutexTasks <- Empty
  Executions <- TwoLocksAlone
SPECIFICATION Spec
CHECK_DEADLOCK FALSE
INVARIANTS SubsetIsExact

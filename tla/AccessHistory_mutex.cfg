CONSTANTS
  l1 = l1
  l2 = l2
  Locks = {l1, l2}
  NullLockSet = NullLockSet
  None = None
  Stretches <- TaskStretches
  Before <- TaskBefore
  Popped <- Empty
  Path <- TaskPath
  Explicit <- TaskExplicit
  MutexTasks <- TaskMutex
  Executions <- OnlyTasks
SPECIFICATION Spec
CHECK_DEADLOCK FALSE
INVARIANTS RacesFound

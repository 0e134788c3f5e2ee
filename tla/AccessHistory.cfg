CONSTANTS
  l1 = l1
  l2 = l2
  Locks = {l1, l2}
  NullLockSet = NullLockSet
  None = None
  Stretches <- ProgramStretches
  Before <- ProgramBefore
  Popped <- TeamPopped
  Path <- TeamPath
  Explicit <- TeamExplicit
  MutexTasks <- Empty
  Executions <- TeamAndLocks
SPECIFICATION Spec
CHECK_DEADLOCK FALSE
INVARIANTS TypeOK ReportedOnce ReportsJustified SubsetIsSound
PROPERTIES ImplementsAllAccesses UnlockedNeverForgotten

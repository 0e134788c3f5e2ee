CONSTANTS
  v = v
  w = w
  x = x
  Tasks = {"a", "b", "c"}
  Parents = {"p", "q"}
  Parent <- TwoParents
  Variables = {v, w}
  DepLists <- MutexLists
  None = None
SPECIFICATION Spec
CHECK_DEADLOCK FALSE
INVARIANTS MutexPairsShareVariable

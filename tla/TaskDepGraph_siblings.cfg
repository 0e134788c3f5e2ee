CONSTANTS
  v = v
  w = w
  x = x
  Tasks = {"a", "b", "c"}
  Parents = {"p", "q"}
  Parent <- TwoParents
  Variables = {v}
  DepLists <- SingleLists
  None = None
SPECIFICATION Spec
CHECK_DEADLOCK FALSE
INVARIANTS EarlierSiblingsPrecede

CONSTANTS
  v = v
  w = w
  x = x
  Tasks = {"a", "b", "c", "d"}
  Parents = {"p", "q"}
  Parent <- ThreeAndOne
  Variables = {v, w, x}
  DepLists <- MixedLists
  None = None
SPECIFICATION FairSpec
CHECK_DEADLOCK FALSE
INVARIANTS TypeOK Acyclic EdgesDeclared SearchCorrect
PROPERTIES SearchEnds

CONSTANTS
  Threads = {t1, t2, t3}
  Nil = Nil
SPECIFICATION FairSpec
INVARIANTS TypeOK MutualExclusion NoDanglingNode NoLostSuccessor FreeWhenUnused
PROPERTIES StarvationFree ImplementsFifo

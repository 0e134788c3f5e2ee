CONSTANTS
  t1 = t1
  t2 = t2
  Threads = {t1, t2}
  Producer = t1
  Tasks <- Three
  DependsOn <- FirstThenSecond
  Bytes = {1, 2}
  Setups <- KnownAndFailing
  None = None
SPECIFICATION FairSpec
INVARIANTS RacesFound DependentTasksSilent ReportAccounts
PROPERTIES EveryCallReturns
CHECK_DEADLOCK FALSE

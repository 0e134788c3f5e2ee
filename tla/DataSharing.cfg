SPECIFICATION Spec
CONSTANTS
  ThreadCount = 2
  Levels = 3
  TaskCount = 2
  BlockCount = 2
  Setups <- ProgramsChecked
INVARIANTS SkippedIsPrivate EndedIsDead StrangersRacesFound
CHECK_DEADLOCK FALSE

CONSTANTS
  Programs <- CheckedPrograms
  OffsetLimit = 65536
SPECIFICATION Spec
INVARIANTS TypeOK OrderedSilent ChecksPass DeletedDataNotRead OnlyAncestorsMissed SiblingsSilent
CHECK_DEADLOCK FALSE

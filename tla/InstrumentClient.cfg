SPECIFICATION Spec
CONSTANTS
  Images <- SmallImages
  Archs = {"x86", "x86_64"}
  Kinds = {"file", "process"}
INVARIANTS WrittenIsComplete
CHECK_DEADLOCK FALSE

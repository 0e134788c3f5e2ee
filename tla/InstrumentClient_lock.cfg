SPECIFICATION Spec
CONSTANTS
  Images <- ShortImages
  Archs = {"x86"}
  Kinds = {"file"}
INVARIANT LockPrefixSeen
CHECK_DEADLOCK FALSE

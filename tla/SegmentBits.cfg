CONSTANTS
  Numbers <- BoundaryNumbers
  Ids <- SmallIds
  MaxCalls = 3
SPECIFICATION SegmentSpec
INVARIANTS FieldsIndependent EqualityIsFieldwise
CHECK_DEADLOCK FALSE

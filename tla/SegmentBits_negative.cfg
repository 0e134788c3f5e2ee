CONSTANTS
  Numbers <- BoundaryNumbers
  Ids <- NegativeIds
  MaxCalls = 3
SPECIFICATION SegmentSpec
INVARIANTS FieldsIndependent
CHECK_DEADLOCK FALSE

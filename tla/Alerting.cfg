CONSTANTS
  Files <- SomeFiles
  Threshold <- Twenty
  Values <- SomeValues
  MaxEvents = 3
  None = None
SPECIFICATION Spec
CHECK_DEADLOCK FALSE
INVARIANTS
  TypeOK
  ValueIsAggregate
PROPERTY CorrectionsRealert

CONSTANTS
  Rules <- TwoStreamRules
  DefaultWindow = 60
  Notifiers = 2
  Windows = {"w"}
  MaxBatches = 3
  OutCap = 1
  BatchCap = 1
  Stored = TRUE
  None = None
SPECIFICATION FairSpec
CHECK_DEADLOCK FALSE
INVARIANTS
  TypeOK
  EvaluatedInOrder
PROPERTY SentIsEvaluated

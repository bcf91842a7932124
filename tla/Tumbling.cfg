CONSTANTS
  i1 = i1
  i2 = i2
  i3 = i3
  Ids = {i1, i2, i3}
  Timestamps = {1, 2, 3, 5}
  Groups = {"g"}
  Second = 1
  Size = 2
  Lateness = 1
  OutCap = 1
  StoreMayFail = FALSE
  MaxNow = 6
  MaxStops = 2
  None = None
SPECIFICATION Spec
SYMMETRY ReceiptSymmetry
INVARIANTS
  TypeOK
  RestartTransparent
  AckedNeverLost
  RetainedForHorizon
  OnlyLateEventsCorrect
PROPERTIES
  BatchesAreComplete
  KeepsPromise

CONSTANTS
  i1 = i1
  i2 = i2
  i3 = i3
  Ids = {i1, i2}
  Timestamps = {1, 3, 4}
  Groups = {"g"}
  Second = 1
  Size = 4
  Slide = 2
  OutCap = 1
  MaxNow = 8
  None = None
SPECIFICATION FairSpec
CHECK_DEADLOCK FALSE
INVARIANTS
  TypeOK
  EmittedOnce
  InOrderIsComplete
PROPERTY HeldIsEmitted

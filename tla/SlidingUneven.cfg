CONSTANTS
  i1 = i1
  i2 = i2
  i3 = i3
  Ids = {i1, i2, i3}
  Timestamps = {1, 3, 4, 6}
  Groups = {"g"}
  Second = 1
  Size = 3
  Slide = 2
  OutCap = 1
  MaxNow = 6
  None = None
SPECIFICATION Spec
CHECK_DEADLOCK FALSE
INVARIANT InOrderIsComplete

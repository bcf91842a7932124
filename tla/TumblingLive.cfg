CONSTANTS
  i1 = i1
  i2 = i2
  i3 = i3
  Ids = {i1, i2}
  Timestamps = {1, 2, 5}
  Groups = {"g"}
  Second = 1
  Size = 2
  Lateness = 1
  OutCap = 1
  StoreMayFail = FALSE
  MaxNow = 7
  MaxStops = 1
  None = None
SPECIFICATION FairSpec
PROPERTY AckedIsSent

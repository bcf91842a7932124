CONSTANTS
  Sizes = {"1m0s", "5m0s"}
  Fields <- SomeFields
  Groups <- SomeGroups
  Instants = {0, 3}
  Second = 2
  Messages = {"m"}
  MaxWrites = 3
SPECIFICATION Spec
INVARIANTS
  TypeOK
  RestoreIsOwn
  LookupsAreOwn

CONSTANTS
  Client = {c1}
  MaxClients = 2
  Capacity = 5
  PackageSize = 2
  MaxBytes = 8
  MaxTotal = 8
SPECIFICATION Spec
INVARIANTS InOrder
CHECK_DEADLOCK FALSE

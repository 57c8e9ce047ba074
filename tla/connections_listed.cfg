CONSTANTS
  Client = {c1, c2}
  MaxClients = 2
  Capacity = 5
  PackageSize = 2
  MaxBytes = 5
  MaxTotal = 5
SPECIFICATION Spec
INVARIANTS AllConnectionsListed
CHECK_DEADLOCK FALSE

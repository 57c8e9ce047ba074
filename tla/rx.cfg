CONSTANTS
  Client = {c1, c2}
  MaxClients = 2
  Capacity = 5
  PackageSize = 2
  MaxBytes = 6
  MaxTotal = 6
SPECIFICATION FairSpec
INVARIANTS TypeOK CallbackSafe CallbackInOrder NothingLost WholeAndOrdered
PROPERTIES EventuallyDelivered 
CHECK_DEADLOCK FALSE

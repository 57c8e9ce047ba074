CONSTANTS
  Exchange = {e1, e2, e3}
  GlobalRetries = 1
  Word = 4
  Status = {"ok"}
  MaxUnsolicited = 1
SPECIFICATION Spec
INVARIANTS IntrudersBounded DeliveredOnce
PROPERTY ImplementsService
SYMMETRY Symmetry
CHECK_DEADLOCK FALSE

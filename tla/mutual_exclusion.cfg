CONSTANTS
  Exchange = {e1, e2, e3}
  GlobalRetries = 1
  Word = 4
  Status = {"ok"}
  MaxUnsolicited = 0
SPECIFICATION Spec
INVARIANTS MutualExclusion
SYMMETRY Symmetry
CHECK_DEADLOCK FALSE

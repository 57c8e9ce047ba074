CONSTANTS
  Exchange = {e1, e2}
  GlobalRetries = 1
  Word = 4
  Status = {"ok"}
  MaxUnsolicited = 0
SPECIFICATION Spec
INVARIANTS OwnReplyOnly
CHECK_DEADLOCK FALSE

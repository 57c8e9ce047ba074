CONSTANTS
  Exchange = {e1, e2}
  GlobalRetries = 0
  Word = 2
  Status = {"ok", "error"}
  MaxUnsolicited = 0
SPECIFICATION FairSpec
INVARIANTS TypeOK MutualExclusion RetriesExact ForeignReplyIsLate
PROPERTY EveryExchangeEnds
CHECK_DEADLOCK FALSE

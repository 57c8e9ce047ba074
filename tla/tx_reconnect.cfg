CONSTANTS
  Sender = {s1, s2}
  MaxDesc = 4
  MaxLosses = 3
SPECIFICATION FairSpec
INVARIANTS NoLeak SurvivesSteadyPeer
PROPERTIES LossNoticed Reconnects
CHECK_DEADLOCK FALSE

SPECIFICATION Spec
CONSTANTS
  None = None
  q1 = q1
  q2 = q2
  Requests <- TwoRequests
  CODE_SECONDS = 1
  REFRESH_SECONDS = 3
  GRANT_SECONDS = 5
  REFRESH_GRACE_S = 1
  LEDGER_MARGIN_S = 1
  LastTime = 4
  MaxVersion = 3
  MaxCodes = 1
  MaxConnections = 2
  MaxSteps = 2
INVARIANTS TypeOK CodeConnectsOnce StepsTakenTogether LedgerOutlivesTokens SignInEnds OneKeyAtATime
SYMMETRY Alike
CHECK_DEADLOCK FALSE

SPECIFICATION FairSpec
CONSTANTS
  None = None
  a1 = a1
  q1 = q1
  q2 = q2
  Accounts <- OneAccount
  Requests <- OneRequest
  MONTH = 0
  YEAR = 1
  LastDay = 2
  LastNumber = 2
  ChecksMidOrder = TRUE
PROPERTIES PaidReopens
CHECK_DEADLOCK FALSE

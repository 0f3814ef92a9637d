SPECIFICATION Spec
CONSTANTS
  None = None
  a1 = a1
  q1 = q1
  q2 = q2
  Accounts <- OneAccount
  Requests <- OneRequest
  MONTH = 0
  YEAR = 1
  LastDay = 0
  LastNumber = 2
  ChecksMidOrder = TRUE
INVARIANTS MarkedWhileUnsure
CHECK_DEADLOCK FALSE

SPECIFICATION Spec
CONSTANTS
  None = None
  a1 = a1
  q1 = q1
  q2 = q2
  Accounts <- OneAccount
  Requests <- TwoRequests
  MONTH = 0
  YEAR = 1
  LastDay = 1
  LastNumber = 3
  ChecksMidOrder = FALSE
SYMMETRY RequestSymmetry
INVARIANTS TypeOK MarkedWhileUnsure OneOpenInvoice CreditedOnce OneNumberEach FullMeansInvoiced
PROPERTIES ReopensOnlyItsOwn
CHECK_DEADLOCK FALSE

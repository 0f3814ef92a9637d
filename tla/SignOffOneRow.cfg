SPECIFICATION Spec
CONSTANTS
  Nobody = Nobody
  u1 = u1
  u2 = u2
  q1 = q1
  q2 = q2
  Rows <- OneRow
  Users <- TwoUsers
  Reviewers <- OnlyU2
  Holds <- AllHold
  ModuleRows <- OneRow
  Linked <- NoLinks
  Requests <- TwoRequests
  MaxSignOffs = 3
  MaxChanges = 0
SYMMETRY RequestSymmetry
INVARIANTS TypeOK DecidedUnderLock ChainVouchesForSignature StatusAgreesWithSignature
PROPERTIES LedgerSpec ApprovalWithdrawnByReviewer ClosingLeavesNobodyToSign

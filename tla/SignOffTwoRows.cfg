SPECIFICATION Spec
CONSTANTS
  Nobody = Nobody
  u1 = u1
  u2 = u2
  q1 = q1
  q2 = q2
  Rows <- TwoRows
  Users <- OneUser
  Reviewers <- NoUsers
  Holds <- AllHold
  ModuleRows <- NoRows
  Linked <- FirstCreditsSecond
  Requests <- TwoRequests
  MaxSignOffs = 2
  MaxChanges = 0
SYMMETRY RequestSymmetry
CONSTRAINT FewSignOffs
INVARIANTS ChainVouchesForSignature NoWaitCycle
PROPERTIES LedgerSpec BatchSkipsDecided

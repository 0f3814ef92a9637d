SPECIFICATION Spec
CONSTANTS
  Nobody = Nobody
  u1 = u1
  u2 = u2
  q1 = q1
  q2 = q2
  Rows <- OneRow
  Users <- TwoUsers
  Reviewers <- OnlyU2
  Holds <- AllHold
  ModuleRows <- NoRows
  Linked <- NoLinks
  Requests <- TwoRequests
  MaxSignOffs = 2
  MaxChanges = 0
SYMMETRY RequestSymmetry
PROPERTY BatchLeavesRostersAlone

SPECIFICATION FairSpec
CONSTANTS
  Nobody = Nobody
  u1 = u1
  u2 = u2
  q1 = q1
  q2 = q2
  Rows <- OneRow
  Users <- OneUser
  Reviewers <- OneUser
  Holds <- AllHold
  ModuleRows <- OneRow
  Linked <- NoLinks
  Requests <- TwoRequests
  MaxSignOffs = 2
  MaxChanges = 1
PROPERTIES EveryRequestEnds

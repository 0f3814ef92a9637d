SPECIFICATION FairSpec
CONSTANTS
  None = None
  r1 = r1
  server = server
  endpoint = endpoint
  Rows <- OneRow
  Callers <- ServerAndEndpoint
  Schedules <- OneServer
  PACE = 0
  REVIEW = 1
  REMIND <- OneReminder
  HORIZON = 1
  WEEK = 1
  FORTNIGHT = 1
  MONTH = 1
  P0 <- OneRow
  LastDay = 1
  Lossy <- WhileReminding
  MaxTasks = 1
  MaxAtOnce = 2
INVARIANTS TypeOK RunsOnce LevelsToldOnce
PROPERTIES DueRowsComeUp NewsIsShown
CHECK_DEADLOCK FALSE

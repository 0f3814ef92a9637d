SPECIFICATION Spec
CONSTANTS
  None = None
  q1 = q1
  q2 = q2
  Requests <- TwoRequests
  MAX_ATTEMPTS = 2
  RATE_LIMIT_MAX = 1
  MaxCodes = 3
INVARIANTS TypeOK AttemptsCapped AcceptedOnce NeverWithoutCode RateLimitKept
SYMMETRY Alike
CHECK_DEADLOCK FALSE

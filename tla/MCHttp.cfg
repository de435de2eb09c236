SPECIFICATION Spec
CONSTANTS
  r1 = r1  r2 = r2  r3 = r3  v1 = v1  v2 = v2  None = None  Lost = Lost
  Requests <- Few
  Workloads <- Mixed
  Visitors <- Callers
  MaxAttempts = 2
  BaseBackoff = 1
  Burst = 2
  Rate = 1
  Cost = 2
  Ttl = 4
  WriteTimeout = 2
  MaxNow = 8
INVARIANTS LimiterIsExact CallerErrorsAreFinal AnswersAreTrue
CHECK_DEADLOCK FALSE

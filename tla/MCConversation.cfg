SPECIFICATION Spec
CONSTANTS
  r1 = r1  r2 = r2  r3 = r3  u1 = u1  u2 = u2
  Requests <- Few
  Users <- Both
  MaxHistory = 3
  SummaryEvery = 2
  PruneLimit = 1
  MaxAttempts = 2
  MaxNew = 1
  MaxFaults = 1
SYMMETRY Symmetric
INVARIANTS TurnIsWrittenOnce HistoryKeepsTurns MemoriesArePruned SessionsStayPrivate
PROPERTY SummariesOutliveTurns
CHECK_DEADLOCK FALSE

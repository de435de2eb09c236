SPECIFICATION MCSpec
CONSTANTS
  Malformed = Malformed  None = None
  Scripts <- Answers
  MaxPiece = 2
  MaxSummaryLen = 2
  MaxKeywords = 1
  Hours <- HourTexts
  TimeOf <- Clock
  Values <- SomeValues
  Items <- Advices
  Clean <- Trimmed
  Queries <- Requests
  Texts <- Documents
  Budgets <- Sizes
  TokenRunes = 2
  Inflation = 2
  MaxBatchTokens = 4
INVARIANTS ClientIsUpToDate CompletedIsWhole AdviceIsTrue ChunksHoldTheText
PROPERTIES StreamEnds
CHECK_DEADLOCK FALSE

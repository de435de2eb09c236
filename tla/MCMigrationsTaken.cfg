SPECIFICATION Spec
CONSTANTS
  LegacyDatabases <- LegacyFiles
  Texts = {"a", "c"}
  MaxFaults = 0
INVARIANT AnswersNameTheirQuestion
CHECK_DEADLOCK FALSE

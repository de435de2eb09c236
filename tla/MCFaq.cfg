SPECIFICATION Spec
CONSTANTS
  r1 = r1  r2 = r2  a = a  b = b  c = c  None = None
  Requests <- Few
  Texts <- Asked
  Position <- Line
  Threshold = 2
  Hash <- Buckets
  Canonical <- Normal
  Priors <- Tables
  MaxAttempts = 3
  MaxFaults = 2
  MaxExpiries = 1
SYMMETRY Symmetric
INVARIANTS AnswersItsMatch CountedOnce RetriesAbsorbFaults
CHECK_DEADLOCK FALSE

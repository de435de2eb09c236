SPECIFICATION Spec
CONSTANTS
  r1 = r1  r2 = r2  r3 = r3  x = x  y = y  a = a  b = b  None = None
  Requests <- Few
  Emails = {a, b}
  Subjects = {x, y}
  FirstEmail <- EmailOf
  MaxFaults = 1
  MaxChanges = 0
SYMMETRY Symmetric
INVARIANT SignInAfterFailedSignUp
CHECK_DEADLOCK FALSE

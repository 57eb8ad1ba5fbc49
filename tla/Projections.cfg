CONSTANTS
  Clients = {k1, k2}
  r1 = r1
  r2 = r2
  Records = {r1, r2}
  Contents <- MCContents
  Includes <- MCIncludes
  Limits = {0, 2}
  LimitMax = 3
  ItemBytes <- MCItemBytes
  CursorBytes = 1
  ResponseMax = 3
  MaxCount = 2
  MaxBytes = 9
  Idle = 2
  Absolute = 3
  Horizon = 3
  MaxIssued = 2
  None = None
SPECIFICATION Spec
SYMMETRY ClientSymmetry
CHECK_DEADLOCK FALSE
INVARIANTS
  PagesTile
  AccountingExact
  RetainedForSomeone
  CursorHonoured
PROPERTIES
  ServedWhileAlive

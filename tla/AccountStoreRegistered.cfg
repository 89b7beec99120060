SPECIFICATION Spec
CONSTANTS
  Account = {a}
  Sandbox = {}
  Content = {x}
  None = None
  NoSave = NoSave
  MaxGeneration = 2
  MaxBatchDepth = 1
  FlushAttempts = 2
CHECK_DEADLOCK FALSE
INVARIANTS RegisteredIsAccepted

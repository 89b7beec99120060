SPECIFICATION FlushSpec
CONSTANTS
  Account = {a, s}
  Sandbox = {s}
  Content = {x, y}
  None = None
  NoSave = NoSave
  MaxGeneration = 3
  MaxBatchDepth = 1
  FlushAttempts = 2
CHECK_DEADLOCK FALSE
PROPERTIES ImplementsDurable FlushTerminates QueuedIsFinished

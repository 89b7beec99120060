SPECIFICATION Spec
CONSTANTS
  Account = {a, b}
  Sandbox = {}
  Content = {x, y}
  None = None
  NoSave = NoSave
  MaxGeneration = 3
  MaxBatchDepth = 2
  FlushAttempts = 2
CHECK_DEADLOCK FALSE
SYMMETRY Symmetry
INVARIANTS GenerationsAccounted CachedIsCurrent ShutDownIsDurable
PROPERTIES SnapshotIsExact FlushIsDurable

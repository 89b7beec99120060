SPECIFICATION FairSpec
CONSTANTS
  Entity = {e1}
  Value = {v1, v2}
  Place = {p1}
  None = None
  Ids = 6
  Limit = 1
  Backlog = 1
  BufferLimit = 2
  NetLimit = 1
  AckLimit = 1
PROPERTY EventuallyMirrors

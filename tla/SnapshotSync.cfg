SPECIFICATION Spec
CONSTANTS
  Entity = {e1}
  Value = {v1}
  Place = {p1, p2}
  None = None
  Ids = 6
  Limit = 2
  Backlog = 2
  BufferLimit = 2
  NetLimit = 1
  AckLimit = 1
SYMMETRY Symmetry
INVARIANTS SyncsAgree
PROPERTIES FramesStayWhole IsMirror

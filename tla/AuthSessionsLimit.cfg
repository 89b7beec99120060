SPECIFICATION Spec
CONSTANTS
  MaxId = 2
  Conn = {c1, c2}
  Account = {a1}
  Request = {r1, r2}
  QueueLimit = 2
  UnauthenticatedLimit = 2
  None = None
INVARIANT LimitCountsUnauthenticated

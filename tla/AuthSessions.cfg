SPECIFICATION Spec
CONSTANTS
  MaxId = 2
  Conn = {c1, c2, c3}
  Account = {a1, a2}
  Request = {r1, r2, r3}
  QueueLimit = 2
  UnauthenticatedLimit = 2
  None = None
SYMMETRY Symmetry
INVARIANTS TypeOK OneSession AnswersGoHome RequestsAreTracked
PROPERTY NoBannedLogin

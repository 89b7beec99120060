\* One account and two ids: the requests compete for the account.
SPECIFICATION FairSpec
CONSTANTS
  MaxId = 2
  Conn = {c1, c2}
  Account = {a1}
  Request = {r1, r2, r3}
  QueueLimit = 2
  UnauthenticatedLimit = 2
  None = None
PROPERTY RequestsAreAnswered

SPECIFICATION Spec
CONSTANTS
  Id = {i1}
  Session = {s1, s2}
  Account = {a1, a2}
  Email = {e1, e2}
  Request = {r1, r2, r3}
  Unregistered = Unregistered
  None = None
  QueueLimit = 1
  MaxAttempts = 2
  Cooldown = 1
  Ttl = 1
  SendTimeout = 1
SYMMETRY Symmetry
INVARIANTS AddressesAreExclusive VerifiedWasMailed AnswersGoHome MailsAreTracked
PROPERTY VerifiedIsFinal

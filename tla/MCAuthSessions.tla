--------------------------- MODULE MCAuthSessions ---------------------------
EXTENDS AuthSessions, TLC
Symmetry == Permutations(Conn) \cup Permutations(Account) \cup Permutations(Request)
=============================================================================

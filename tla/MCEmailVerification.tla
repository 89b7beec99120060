------------------------ MODULE MCEmailVerification ------------------------
EXTENDS EmailVerification, TLC
Symmetry == Permutations(Id) \cup Permutations(Session) \cup Permutations(Account)
              \cup Permutations(Email) \cup Permutations(Request)
=============================================================================

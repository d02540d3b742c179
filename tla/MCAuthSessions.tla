--------------------------- MODULE MCAuthSessions ---------------------------
EXTENDS AuthSessions, TLC
Symmetry == Permutations(User) \cup Permutations(Proc) \cup Permutations(Jti)
=============================================================================

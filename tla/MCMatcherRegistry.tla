------------------------- MODULE MCMatcherRegistry -------------------------
EXTENDS MatcherRegistry, TLC
Symmetry == Permutations(User) \cup Permutations(Proc) \cup Permutations(Req)
=============================================================================

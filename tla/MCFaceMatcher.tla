--------------------------- MODULE MCFaceMatcher ---------------------------
EXTENDS FaceMatcher, TLC

\* Three templates on a line; a probe finds those at distance 0 and 1.
MCVector      == 1..3
MCScore(q, v) == 4 - (IF q > v THEN q - v ELSE v - q)
Symmetry      == Permutations(User)
=============================================================================

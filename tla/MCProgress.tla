----------------------------- MODULE MCProgress -----------------------------
(***************************************************************************)
(* What the components of Progress are given in its run.                   *)
(***************************************************************************)
EXTENDS Progress

CONSTANTS a, spacedA, b

\* Two imports that want each other's rows, one with an id twice, but for blanks,
\* the other with a user who has none.
MCStrip    == [id \in Raw |-> IF id = spacedA THEN a ELSE id]
MCRequests == {<<a, b, spacedA>>, <<b, a, NoId>>}
=============================================================================

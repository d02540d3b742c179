---------------------------- MODULE TemplateMap ----------------------------
(***************************************************************************)
(* What inference/matcher.py promises: a map from users to their face      *)
(* templates, and an answer to a probe that is the owner of a best-scoring *)
(* template, or nobody when even the best score is below the threshold.    *)
(***************************************************************************)
EXTENDS Naturals

CONSTANTS User, Vector, NoTemplate,
          Score(_, _),  \* cosine similarity of a probe and a template
          Threshold

VARIABLE template

Enrolled == {u \in User : template[u] # NoTemplate}

Init == template = [u \in User |-> NoTemplate]

\* The map is filled once, from an empty one; then users come and go.
Fill ==
    /\ Enrolled = {}
    /\ template' \in [User -> Vector \cup {NoTemplate}]

Put(u, v) == template' = [template EXCEPT ![u] = v]
Drop(u)   == template' = [template EXCEPT ![u] = NoTemplate]
Empty     == template' = [u \in User |-> NoTemplate]

Next ==
    \/ Fill
    \/ \E u \in User, v \in Vector : Put(u, v)
    \/ \E u \in User : Drop(u)
    \/ Empty

Spec == Init /\ [][Next]_template

\* The users a probe may be answered with.
Nearest(q) ==
    {u \in Enrolled : \A w \in Enrolled : Score(q, template[w]) <= Score(q, template[u])}
Owners(q) == {u \in Nearest(q) : Score(q, template[u]) >= Threshold}
=============================================================================

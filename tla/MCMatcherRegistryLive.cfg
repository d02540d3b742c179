\* One process and three handlers, so that two queue for the lock the third
\* holds, and re-enrolment of a user.  No symmetry: a liveness property is
\* checked.
CONSTANTS
    User = {u1}
    Proc = {w1}
    Req = {h1, h2, h3}
    MaxTemplate = 2
    NotLoaded = NotLoaded
    None = None
SPECIFICATION FairSpec
PROPERTY EveryRequestEnds

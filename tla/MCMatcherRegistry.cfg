\* Two processes, two users and two handlers anywhere, each user enrolled once:
\* an index that misses another process's change, a removal that passes a load,
\* a fresh matcher set over a loaded one.
CONSTANTS
    User = {u1, u2}
    Proc = {w1, w2}
    Req = {h1, h2}
    MaxTemplate = 1
    NotLoaded = NotLoaded
    None = None
SYMMETRY Symmetry
SPECIFICATION Spec
INVARIANT IInv
INVARIANT IndexFollowsTable
INVARIANT LockHeldByLoader

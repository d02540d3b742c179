\* One user, two handlers, two rows and a clock that leaves the window twice; a
\* timestamp in the past or in the future may be sent.
CONSTANTS
    User = {u1}
    Req = {h1, h2}
    Window = 1
    MaxTime = 3
    Stamp = {0, 3}
    MaxRows = 2
    Now = Now
SYMMETRY Symmetry
SPECIFICATION Spec
INVARIANT IInv
INVARIANT StoredOutsideWindow
INVARIANT AnnouncedOnceAfterCommit

\* One user, two handlers in flight, three token pairs, one password change and
\* two revocations: enough for a rotation and a login to be overtaken by two
\* revocations, and for a raced rotation to leave two successors.
CONSTANTS
    User = {u1}
    Proc = {p1, p2}
    Jti = {j1, j2, j3}
    MaxPw = 1
    MaxTv = 2
    MaxExp = 1
SYMMETRY Symmetry
SPECIFICATION Spec
INVARIANT IInv
INVARIANT PasswordChangeEndsSessions
INVARIANT EndedSessionsStayEnded
INVARIANT OneUsableRefreshToken
PROPERTY ImplementsSessionLifecycle

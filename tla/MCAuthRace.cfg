\* One session and no revocation needed: two refreshes of one token.
CONSTANTS
    User = {u1}
    Proc = {p1, p2}
    Jti = {j1, j2, j3}
    MaxPw = 1
    MaxTv = 1
    MaxExp = 1
SYMMETRY Symmetry
SPECIFICATION Spec
INVARIANT RotationLeavesOneRefreshToken

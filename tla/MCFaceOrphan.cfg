\* The same instance: remove the only user, add another, probe.
CONSTANTS
    User = {u1, u2, u3}
    Vector <- MCVector
    Score <- MCScore
    Threshold = 3
    MaxIndex = 4
    NoTemplate = NoTemplate
    NoArray = NoArray
    NoIndex = NoIndex
    NoMatch = NoMatch
    IndexError = IndexError
SYMMETRY Symmetry
SPECIFICATION Spec
INVARIANT ExactMatchReturnsOwner

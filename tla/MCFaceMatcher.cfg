\* Three users and three templates: ties, near and far probes, an index that is
\* emptied and refilled.
CONSTANTS
    User = {u1, u2, u3}
    Vector <- MCVector
    Score <- MCScore
    Threshold = 3
    MaxIndex = 4
    NoTemplate = NoTemplate
    NoArray = NoArray
    NoIndex = NoIndex
    NoMatch = NoMatch
    IndexError = IndexError
SYMMETRY Symmetry
SPECIFICATION Spec
INVARIANT IInv
INVARIANT RowsPaired
INVARIANT AnswersOwnersUnlessOrphaned
PROPERTY ImplementsTemplateMap

\* Two of whatever interleaves: tabs, requests, handlers, administrators.  Two links
\* for one user, three departments, a limit of one with a restart and an outage, and
\* one camera: recognitions share only the settings, the users and the index, which
\* change at any time.  Training: batches of at most four images, three distances.
CONSTANTS
    t1 = t1
    t2 = t2
    Tab = {t1, t2}
    Uses <- MCUses
    MaxPairs = 2
    MaxLoads = 1
    User = {v1}
    Handler = {h1, h2}
    MaxLinks = 2
    NoDept = NoDept
    MaxDepts = 3
    Proc = {p1}
    Request = {r1, r2}
    Limit = 1
    WindowLength = 2
    MaxRestarts = 1
    Admin = {a1, a2}
    Updates <- MCUpdates
    Hours <- MCHours
    Null = Null
    Malformed = Malformed
    u1 = u1
    Person = {u1, u2}
    Camera = {q1}
    Picture <- MCPicture
    PictureLists <- MCPictureLists
    RecognitionSettings <- MCRecognitionSettings
    Floor = 3
    RequireSequence = FALSE
    EyesClosed = 3
    EyesOpen = 6
    TextureMin = 3
    MovementMin = 6
    Thresholds = {0, 7}
    NoThreshold = NoThreshold
    i1 = i1
    i2 = i2
    i3 = i3
    Identity = {i1, i2, i3}
    Trainings <- MCTrainings
    MinImages = 4
    MaxDistance = 2
    MaxScore = 2
    PairLimit = 12
SYMMETRY Symmetry
SPECIFICATION Spec
INVARIANT IInv
INVARIANT AlarmTakesTwoPages
INVARIANT StoredTokenIsCurrent
INVARIANT OnlyNewestLinkWorks
INVARIANT OncePerLink
INVARIANT ThirdLevelOnlyByMove
INVARIANT AdmittedPerMinute
INVARIANT UnracedSaves
INVARIANT MatchesAreGenuine
INVARIANT TripletsAreHardest
INVARIANT ThresholdSeparates
PROPERTY OnlyLateJoinersAreCleared
PROPERTY MarkedWhileActive

\* Two processes, two dashboards and two announced marks around one outage; one job
\* and two workers; two imports.  Once the job has ended and no message of it is
\* left there is nothing to do, so that its part may stop.
CONSTANTS
    Proc = {p1, p2}
    Stream = {s1, s2}
    Publisher = {h1}
    QueueLimit = 1
    MaxEvents = 2
    MaxOutages = 1
    Job = {j1}
    Worker = {w1, w2}
    MaxEpochs = 2
    MaxScore = 2
    MaxSeconds = 2
    MaxRedeliveries = 1
    Handler = {i1, i2}
    a = a
    spacedA = spacedA
    b = b
    NoId = NoId
    Raw = {a, spacedA, b}
    Strip <- MCStrip
    Requests <- MCRequests
    MaxUsers = 2
SPECIFICATION FairSpec
INVARIANT IInv
INVARIANT EveryMissIsAccountedFor
INVARIANT CompleteWhileRedisUp
INVARIANT TrainedByOneWorker
INVARIANT CheckpointHoldsBestEpoch
PROPERTY QuotaKeptByFreshCount
PROPERTY ReportMatchesRows
PROPERTY ImplementsEventFeed
PROPERTY PublishingEnds
PROPERTY JobsEnd
PROPERTY ImportsEnd
CHECK_DEADLOCK FALSE

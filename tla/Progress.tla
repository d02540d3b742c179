------------------------------ MODULE Progress ------------------------------
(***************************************************************************)
(* The components that have something to finish, each with its fairness.   *)
(* They share no variable, so that what holds of one in every behaviour    *)
(* holds whatever the others do: in a behaviour of this module one of      *)
(* them, the part, moves.                                                  *)
(***************************************************************************)
EXTENDS Naturals, Sequences, FiniteSets

CONSTANTS
    Proc, Stream, Publisher, QueueLimit, MaxEvents, MaxOutages,
    Job, Worker, MaxEpochs, MaxScore, MaxSeconds, MaxRedeliveries,
    Handler, Raw, Strip, NoId, Requests, MaxUsers

VARIABLES
    part,
    redisUp, outages, client, publisher, at, home, subs, channel, queue, holding, log, joined,
    shown, latest, dropped,
    creating, row, waiting, worker, runs, files, now, redelivered, stranded,
    limit, stored, blank, handler, stale

-----------------------------------------------------------------------------
Feed  == INSTANCE LiveFeed
Jobs  == INSTANCE TrainingJobs
Users == INSTANCE UserDirectory

ASSUME ProgressAssumption ==
    Feed!LiveFeedAssumption /\ Jobs!TrainingAssumption /\ Users!DirectoryAssumption

feedVars == <<redisUp, outages, client, publisher, at, home, subs, channel, queue, holding, log,
              joined, shown, latest, dropped>>
jobVars  == <<creating, row, waiting, worker, runs, files, now, redelivered, stranded>>
userVars == <<limit, stored, blank, handler, stale>>
vars     == <<part, feedVars, jobVars, userVars>>

Init ==
    /\ part \in {"feed", "jobs", "users"}
    /\ Feed!Init /\ Jobs!Init /\ Users!Init

FeedStep == part = "feed"  /\ Feed!Next  /\ UNCHANGED <<part, jobVars, userVars>>
JobStep  == part = "jobs"  /\ Jobs!Next  /\ UNCHANGED <<part, feedVars, userVars>>
UserStep == part = "users" /\ Users!Next /\ UNCHANGED <<part, feedVars, jobVars>>

Next == FeedStep \/ JobStep \/ UserStep

FairSpec == Init /\ [][Next]_vars /\ Feed!Fairness /\ Jobs!Fairness /\ Users!Fairness

-----------------------------------------------------------------------------
\* The types of the components' variables (events.py, models.py), and what the
\* proofs need to know of what waits for a stream (events.py:71-126), of a job's
\* messages and runs (training_tasks.py:22-107) and of an import's open transaction
\* (users.py:501-590).
IInv == Feed!IInv /\ Jobs!IInv /\ Users!IInv

\* A stream whose process delivers locally misses an event of that process only
\* when its own queue was full (events.py:83-126).
EveryMissIsAccountedFor == Feed!EveryMissIsAccountedFor

\* A stream misses nothing while Redis answers (events.py:29-116).
CompleteWhileRedisUp == Feed!CompleteWhileRedisUp

\* A stream shows events in order and none twice (events.py:97-126).
ImplementsEventFeed == Feed!ImplementsEventFeed

\* Announcing a row ends, whatever Redis does (events.py:72-75).
PublishingEnds == Feed!PublishingEnds

\* A job that is handed out once is trained once, one that is handed out twice
\* never by two workers at a time (training_tasks.py:45-51).
TrainedByOneWorker == Jobs!TrainedByOneWorker

\* A completed job's checkpoint holds its best epoch (trainer.py:201-225).
CheckpointHoldsBestEpoch == Jobs!CheckpointHoldsBestEpoch

\* A job that a failure did not cut off ends (training_tasks.py:1-6).
JobsEnd == Jobs!JobsEnd

\* A handler whose count nobody overtook keeps to max_users (users.py:86-93, 513).
QuotaKeptByFreshCount == Users!QuotaKeptByFreshCount

\* An import reports or imports every row (users.py:588).
ReportMatchesRows == Users!ReportMatchesRows

\* An import ends, whatever others want the same ids (users.py:551-572).
ImportsEnd == Users!ImportsEnd
=============================================================================

# Attendance Tracker in TLA+

TLA+ models of the Attendance Tracker backend (`src/`: FastAPI, SQLAlchemy,
PostgreSQL, Redis, Celery; a React dashboard), their TLC runs, and TLAPS proofs
of every safety property the passing runs check. Paths below are relative to the
repository; `auth_service.py` and the like are under `src/`.

Check a run with `tlc -config MCAuthSessions.cfg MCAuthSessions`, and proofs with
`tlapm AuthSessionsProofs.tla`, likewise for the other seven modules whose names
end in `Proofs`. `PROJECT.json` lists every run, the mutant that shows
each property can fail, the source lines of every definition, the hazards and
the findings.

## The system

| Component | State | Operations | Interacts with |
| --- | --- | --- | --- |
| Login sessions (`services/auth_service.py`, `api/routes/auth.py`) | `refresh_tokens` ledger, `users.token_version`, `users.password_hash`; tokens held by clients | login, refresh (rotation, reuse detection), logout, change password, admin password set, nightly cleanup | every authenticated endpoint, through the token checks |
| Token checks (`api/dependencies.py`) | none | resolve a bearer token or an API key | read `users` |
| Face matcher (`inference/matcher.py`) | matrix, owner list, optional FAISS index | build, update, add, remove, clear, match | owned by the registry |
| Matcher registry (`inference/index_manager.py`) | per process: `_matchers`, `_loading` locks | get (lazy load), upsert, remove, warm-up | reads `users`, `embeddings`; called by recognition and user handlers |
| Enrolment (`api/routes/recognition.py`, `workers/tasks/embedding_tasks.py`) | `embeddings` | register, deregister, recompute in Celery | registry |
| User administration (`api/routes/users.py`) | `users` | create, import, update, deactivate, set password | registry, sessions |
| Attendance marking (`services/attendance_service.py`) | `attendance` | mark, from recognition, kiosk API and manual form | event bus |
| Event bus and live feed (`services/events.py`, `api/routes/dashboard.py`) | subscriber queues, Redis client and its sticky failure flag | publish, subscribe, heartbeat | attendance, dashboard |
| Password reset (`services/password_reset.py`) | `password_reset_tokens` | request, consume | sessions |
| Organization settings, departments, quota | `organizations.settings`, `departments`, `organizations.max_users` | PATCH, create, update | users, recognition thresholds |
| Training jobs (`workers/tasks/training_tasks.py`, `api/routes/admin.py`) | `training_jobs.status` | create, run, report | Celery delivery |
| Training data and evaluation (`training/dataset.py`, `model/losses.py`, `training/evaluator.py`) | split, batch, scores | split, sample, mine triplets, evaluate | training jobs |
| Rate limiter (`api/middleware/rate_limit.py`) | Redis counter, per-process counter | count, refuse | every request |
| Liveness, challenge-response (`anti_spoofing/`) | singleton detector, challenge sessions | check | recognition |
| Dashboard client (`dashboard/src/api/client.ts`) | stored tokens, single-flight refresh | call, refresh, retry, log out | sessions |
| Exports, email, storage, audit, metrics, networks, image preprocessing | – | I/O or numeric code | – |

The API runs in several uvicorn processes that share PostgreSQL and Redis and
nothing else. Inside a process, handlers are coroutines that switch at `await`:
at database statements and commits, at contended locks. Every handler has its
own database session, opened with `expire_on_commit=False`, so the rows it read
stay as it read them, however stale (`database/session.py:44-49`).

What is hard here, and what the properties are about:

- **sessions**: handlers that mint tokens from values read before a revocation
  committed; a check of the ledger in one statement and its update in another;
  two commits where one change is meant (new password, then revocation).
- **registry**: a per-process cache of two tables, changed after the commit by
  whichever process served the request, loaded lazily under a lock that
  removals do not take.
- **matcher**: three structures tied together by position.
- **attendance**: check-then-insert with no constraint behind it, and timestamps
  the caller chooses.
- **live feed**: a failed ping that parts a process from Redis for good, bounded
  queues, a heartbeat that cancels the generator it waits for.
- **training jobs**: late acknowledgement, lost workers and redelivery against a
  status column.
- **directory** (users, departments, settings, reset links): checks in one
  statement and writes in another, deadlocks of the database, a JSON column
  changed in place.
- **dashboard client**: many calls that fail at once, tabs that share one
  rotating token, answers nobody takes.
- **rate limiter**: two counters with different periods.
- **recognition**: an index that is behind the tables, settings that change
  meanwhile, bursts with too few frames.

`PROJECT.json` lists 40 such hazards at their lines with the properties that
watch them; three carry a note instead of a property.

## The modules

| Module | Models | Checked with |
| --- | --- | --- |
| `SessionLifecycle` | what sessions promise: opened once, ended together with all other sessions of the user, never reopened | refined by `AuthSessions` |
| `AuthSessions` | sessions, ledger, token checks | `MCAuthSessions` |
| `AuthSessionsProofs` | theorems about `AuthSessions` | TLAPS |
| `TemplateMap` | what a matcher promises: a map from users to templates, and the owner of a best template | refined by `FaceMatcher` |
| `FaceMatcher` | one `Matcher` object | `MCFaceMatcher` |
| `FaceMatcherProofs` | theorems about `FaceMatcher` | TLAPS |
| `MatcherRegistry` | the index of one organization in every API process, next to the tables | `MCMatcherRegistry` |
| `MatcherRegistryProofs` | theorems about `MatcherRegistry` | TLAPS |
| `Attendance` | `mark_attendance` and its callers | `MCAttendance` |
| `AttendanceProofs` | theorems about `Attendance` | TLAPS |
| `EventFeed` | what the feed promises: events since the subscription, in order, none twice | refined by `LiveFeed` |
| `LiveFeed` | event bus and SSE stream of one organization, in several processes | in `Progress` |
| `TrainingJobs` | training jobs from the admin handler to the checkpoint | in `Progress` |
| `UserDirectory` | creation, import and renaming of users, quota | in `Progress` |
| `Progress` | the three above, side by side, and their fairness | `MCProgress` |
| `FeedProofs`, `ProgressProofs` | theorems about `Progress`: the live feed; jobs and directory | TLAPS |
| `DashboardClient` | the tabs of one browser | in `Handlers` |
| `PasswordReset` | reset links | in `Handlers` |
| `Departments` | the department tree and its members | in `Handlers` |
| `OrgSettings` | the settings column and its two writers | in `Handlers`, `MCSettingsPatch` |
| `RateLimit` | the limiter for one scope and address | in `Handlers` |
| `Recognition` | recognize and batch, with the liveness decision | in `Handlers` |
| `TrainingData` | what a run makes of its photos: split, batches, triplets, evaluation | in `Handlers` |
| `Handlers` | the seven above, side by side | `MCHandlers` |
| `AccountsProofs`, `HandlersProofs` | theorems about `Handlers`: reset links, departments, settings; the other four | TLAPS |

`Handlers` and `Progress` hold several components side by side. The components
share no variable, so a property of one holds in every behaviour of all of them
if and only if it holds when only that one moves; the variable `part` picks the
one that does. What a component shares with another in the program is a
nondeterministic step in each: settings, `is_active` and the index change at
any time in `Recognition`, the server of `DashboardClient` answers as
`AuthSessions` allows. What comes from outside (bursts of pictures, import files,
requests, photos) is a constant: `MCHandlers` and `MCProgress` only give these
constants values, and the theorems are about any.

### AuthSessions

A login *session* is a family: the tokens of one login and of the rotations
that descend from it. `row` is the ledger, `tv` and `pw` are columns of `users`
(a password is counted, not spelt), `refresh` and `access` the JWTs handed out.
`inflight` holds the handlers between two statements, with what each has read:
that is where staleness lives.

| Code | Actions |
| --- | --- |
| `POST /auth/login` | `LoginUser` (read and verify), `LoginMint` (`issue_token_pair`) |
| `POST /auth/refresh` | `RotateRecord`, `RotateUser` or `RotateRefused`, `RotateCommit`; `ReuseDetected`, `RevokeAll` |
| `POST /auth/logout` | `LogoutAuth`, `LogoutRow`, `RevokeAll` |
| `POST /auth/change-password`, `POST /users/{id}/password` | `ChangePasswordAuth` or `SetUserPassword`, `PasswordCommit`, `RevokeAll` |
| `PATCH`/`DELETE /users/{id}` | `SetUserActive` |
| `cleanup_expired_tokens_task`, time | `CleanupExpiredTokens`, `Expire` |
| exceptions, lost connections, killed workers | `Crash` |

Abstractions: the two UPDATEs of `revoke_all_user_tokens` are one step, because
they take effect at one commit. A logout with a refresh token that does not
decode behaves like one whose row is already revoked. Access tokens do not
expire (their expiry only removes behaviours). An administrator's own session
and password-reset tokens are outside. `family`, the `pw` of a token, `ended`,
`settled` and `raced` are history: no guard reads them.

Properties:

- `PasswordChangeEndsSessions`: after a change ran to completion, no access
  token of an older session is accepted, whatever was in flight.
- `EndedSessionsStayEnded`: a session a revocation found open never comes back,
  not even through a rotation that commits later.
- `OneUsableRefreshToken`: without two overlapping rotations of one token, a
  session has one usable refresh token.
- `ImplementsSessionLifecycle`: refinement; a session is open while its tokens
  carry the version in the user's row.
- `IInv`: the inductive invariant of the proofs, checked by TLC as well.

The claim behind the first two is subtle: the code never locks the user's row,
and a login or a rotation may well commit *after* a revocation. What saves it
is that the tokens then carry the version that was read *before*.

### FaceMatcher

One action per mutating method, each atomic (nothing awaits). `Match` is the
set of answers a probe may get, since `argsort` and FAISS break ties freely.
The index is exact, as FAISS is below 1000 users; the approximate IVF-PQ and
HNSW indexes of larger organizations are not modelled. `RowsPaired`,
`AnswersOwnersUnlessOrphaned` and the refinement of `TemplateMap` hold; what
the history variable `orphaned` excuses is a finding (below).

### MatcherRegistry

One organization, several API processes. The abstraction of the index is the
map `TemplateMap` that `FaceMatcher` is shown to implement. An action is the
code between two awaits: `RegisterUserFace`/`RegisterCommit`,
`DeregisterUserFace`, `DeleteUser`/`DeleteCommit`, `UpdateUser`/`UpdateCommit`/
`UpdateIndex`, `Recognize`; then the registry's own steps `UseMatcher`,
`LoadOrg`, `OrgLoaded`, `OrgEmpty`, `FreshMatcher`, `RemoveUser`;
`ComputeEmbeddingTask` in a Celery worker; `Fail`, `Restart` and `RefreshAll`.

The index *does* go stale, by design or not. `drifted` records per process
which users' entries may be wrong and why, and `IndexFollowsTable` says there is
no other way: outside `drifted` the index equals the tables as soon as the
handler that changed them has updated it. The ways are: a commit served by
another process or by a Celery task; PATCH `is_active`; two handlers at work on
one user; a removal that passes a load of the index; `upsert_user` setting a
fresh matcher over one that was loaded meanwhile; a handler that fails between
commit and index update. `LockHeldByLoader` says nobody but a loading coroutine
holds the lock, `EveryRequestEnds` that everything queued behind it ends.

The periodic `refresh_matcher_indexes_task` is no action: it rebuilds the
registry of the Celery worker process it runs in, which no request reads
(README.md:170-171 and docs/deployment.md:94, 99-100 suggest otherwise).
Organizations are always active here.

### Attendance

Three handlers look users up, look for a recent row, insert, announce; the
manual one loops. `Tick` moves the clock anywhere in between. The window is
counted back from *now* even if the row will carry a chosen timestamp, so
`StoredOutsideWindow` compares an earlier row with the time the later one was
*checked* at. `raced` marks users for whom two handlers had both found nothing:
for them duplicates do occur, as there is no constraint in the database.
`AnnouncedOnceAfterCommit` is about the feed. `held` is the session's identity
map: a user whom a handler looks up twice, an administrator in the list she sends
or one named twice, is found as she was read first.

### LiveFeed

An event is its number in the order of announcement. `client` is the pair of
module globals `_redis_client` and `_redis_failed`: the first user of the bus
sets the client *before* it pings, so that others use a client that may turn
out broken. `Publish`, `PublisherPinged`, `RedisPublish` are the steps of
`publish_attendance_event`; `Connect`, `StreamPinged`, `SubscribeChannel`,
`Take`, `Show`, `Heartbeat`, `EndAfterHeartbeat`, `Disconnect` those of a
stream. Redis is external (`RedisDown`, `RedisBack`, `Resubscribe`), `Restart`
ends a process. A stream may miss events, and the question is which:
`EveryMissIsAccountedFor` (a local queue loses only what met it full),
`CompleteWhileRedisUp` (with Redis up, nothing, in whatever order processes
connect and pings are cancelled), `ImplementsEventFeed` (order, no duplicates,
by refinement of `EventFeed`), `PublishingEnds` (marking is never held up).

### TrainingJobs

`CreateTrainingJob` and `Enqueue` are the handler (`EnqueueTwice` when the
broker's answer is lost and Celery publishes again), `Receive` to `Acknowledge`
the Celery task, with the epoch loop of `trainer.py` in `TrainEpoch`,
`SaveCheckpoint` and `ExportOnnx`. `WorkerLost` and `BrokerRedelivers` hand a
message out again. `stranded` records the jobs a failure cut off: the code has
no way of taking up a job that was running when its worker died, nor one whose
message never reached the broker. `TrainedByOneWorker`, `CheckpointHoldsBestEpoch`
and `JobsEnd` say what holds for all others; `redelivered` counts deliveries beyond
the first, a message published twice as two, because two workers may then read the
pending row before either starts. The clock (`now`) is read when a run starts and
moves on in between; it never goes back. `run_<second>` directories are
shared by runs that start in one second, which the second property excepts.

### TrainingData

One run at a time: `BuildDatasets`, then in each epoch `StartEpoch`, a
`SampleBatch`, `MineTriplets` and `NextBatch` per batch, `Evaluate`, `EpochOver`;
`Fails` is the exception that ends a run at any point. Shuffled images are
numbered in the order of the shuffle, so that the split is a count (`Holdout`);
the network is any distances within a batch and any scores of the pairs held
out. `Scored` is the draw of at most `max_pairs` among them. Shares are whole
percentages and exact, where the code multiplies floats. An epoch whose
target leaves no position of the negatives for the threshold fails the run.
`TripletsAreHardest` follows an image from the split through the sampler to the
masks of the loss. `ThresholdSeparates` says what the threshold of an evaluation
does achieve, the tied scores included, and when there is a threshold at all;
`ThresholdKeepsFar`, what its comment says, fails (finding 12).

### UserDirectory

`FindOrganization` reads the limit, then `CountUsers`, `FindId`, `Insert` create a
user; `ImportUsers`, `ImportRow`, `ImportCommit` import many in one transaction with
a savepoint per row, and `RowRefused` is a row that the database refuses for another
reason than its id.
PostgreSQL is external: an insert of a key that an open transaction holds waits
(`Waits`), and `DeadlockDetected` aborts one of two that wait for each other.
Counting and inserting are separate, so handlers that overlap exceed
`max_users` together. `QuotaKeptByFreshCount` says that a handler nobody
overtook never does; `ReportMatchesRows` that the answer of an import adds up;
`ImportsEnd` that it comes.

### DashboardClient

Pages of several tabs, one `localStorage`. A call is answered 401 (`Denied`),
waits for the page's refresh, is sent again. `ServeRefresh` is the server: a
rotated token that comes back ends everything, which is an *alarm*.
`AlarmTakesTwoPages` says the client raises none by itself: only two pages that
share the token, or a page that left without taking its answer (`unanswered`).
`StoredTokenIsCurrent` is its companion for `localStorage`. `Load`, `Forbidden` (the
account is inactive), `StopStream`, `RefreshLost` and `StorageEvent` are the faults.

### PasswordReset, Departments, OrgSettings

Handlers at statement granularity, two at a time. `PasswordReset`:
`ForgotPassword`, `ListPending`, `Issue` and `FindLink`, `FindUser`, `Consume`.
`OnlyNewestLinkWorks` and `OncePerLink` hold except for requests that overlap,
which the code does not exclude (no lock, no condition on `used_at`).
`Departments`: what creation, PATCH, deletion and assignment read, check and
commit, a step for every statement (`UpdateFind`, `UpdateCheck`, `UpdateCommit`;
`DeleteFind`, `DeleteCheck`, `SelectChildren`, `SelectUsers`, `DeleteCommit`): the
flush of a deletion selects children and members before the foreign keys clear the
rest. `ThirdLevelOnlyByMove` and `OnlyLateJoinersAreCleared` name the
only ways in which a deep tree arises and a user loses her department.
`OrgSettings`: `Writes` is when a commit writes the column at all. `UnracedSaves`
is what remains true of saves nobody overtakes; what does not is a finding.

### RateLimit

The clock runs over two minutes by turns. `IncrRedis` counts in Redis,
`FallBack` in the process, whose period starts with a request and not with the
minute; an increment whose answer was lost may have happened.
`AdmittedPerMinute` bounds what a minute lets through: the limit while Redis
answers, and at most three limits more per process, plus one per restart, when
it does not.

### Recognition

From `Recognize` through `LoadSettings`, `Judge`, `RecordSpoof`, `Match`,
`Lookup`, `Mark` to `End`. `Live` is the decision of `LivenessDetector.check`:
frames without a face mesh are passed over (`Seen`), texture is always measured, a blink
from three frames on, movement from five. `MatchesAreGenuine` relates the answer
to the frames: under the default threshold, a face that failed any check it was
long enough for is never named, and no threshold goes below the floor. A
threshold a request names is one of `Thresholds`. A batch fetches the matcher
before it reads the settings; the matcher is the one object that later changes
apply to, unless there was none yet.
`MarkedWhileActive` is about an index that still holds who was deactivated.

## The runs

| Run | Bounds | Shows |
| --- | --- | --- |
| `auth_sessions` | 1 user, 2 handlers, 3 token pairs, 1 password change, 2 revocations, 1 expiry | all session properties |
| `auth_race` | same, 1 revocation | finding 1 |
| `auth_recognition` | same, 1 revocation | finding 2 |
| `face_matcher` | 3 users, 3 templates, at most 4 vectors in the index | alignment, answers, refinement |
| `face_orphan` | same | finding 3 |
| `matcher_registry` | 2 processes, 2 users, 2 handlers, 1 template per user | drift is fully accounted for, no leaked lock |
| `matcher_live` | 1 process, 1 user, 3 handlers, 2 templates | every request ends |
| `matcher_patch` | 1 process, 1 user | finding 4 |
| `attendance` | 1 user, 2 handlers, 2 rows, clock to 3, window 1, timestamps 0 and 3 | rows within the window of a check only where handlers overlapped; announcements |
| `handlers` | 2 tabs, 2 token pairs, 1 reload; 2 handlers, 2 links, 1 user; 3 departments; 1 process, limit 1, 2 requests, 1 restart; 2 administrators; 1 camera, 2 persons, 6 bursts; 5 training runs of at most 3 identities, 3 distances, 3 scores, at most 12 pairs | what overlapping handlers, tabs and requests cannot break; triplets and thresholds of training |
| `progress` | 2 processes, 2 streams, 1 publisher, queues of 1, 2 events, 1 outage; 1 job, 2 workers, 2 epochs, 1 redelivery; 2 imports of 2 or 3 rows, quota up to 2 | accounting for losses, refinement of `EventFeed`, everything ends |
| `settings_patch` | 1 administrator, 2 settings | finding 5 |

Why the bounds are enough for the questions: users do not interact in sessions
and attendance (every guard and update is of one user), so one suffices and the
proofs cover any number. Two handlers in flight are what an overtaking needs;
three token pairs are a login, its rotation and either a second rotation or a
second login; two revocations overtake a handler twice, which is what a stamp
"older than current, yet not the last" needs. Two processes and two users show
foreign commits and entries that a fresh matcher drops. Three handlers make two
queue behind one loader. The clock leaves the window twice, and the boundary
(`exactly one window old`) is reached. The matcher's three templates include a
pair that scores above the threshold with each other, so ties and wrong owners are
possible. In `handlers`, two of everything that overtakes: a chain of three
departments is the shortest third level, two links are a stale one and its
successor, two token pairs a login and its rotation (a third adds another
rotation of the same kind). One camera is enough because recognitions share
only settings, users and index, which change at any time anyway; the bursts
include each way of failing one check. The five training runs have batches of four
images of two identities, a holdout that is large enough for the target and one
that is not, no identity with two images left to train on, and a sampler of
no identities, which fails. In `progress`, one publisher and the
outage meet in every order, two processes disagree about Redis, two workers
compete for a job, and two imports want each other's rows.

Every bound is a constant named `Max...` or the size of a set, except that
`Attendance` takes lists of one or two users. `Window`, `QueueLimit`, `Limit`,
`WindowLength`, `MinImages` and `PairLimit` are parameters of the code. Each
`IInv` of a proof is an invariant of a passing run of its module as well, and
contains the types.

Deadlock is checked in every run but `progress`, where all jobs and all events
may be over. Symmetry is used for safety properties only.

## Fairness

`MatcherRegistry`: strong fairness of the steps of each handler. asyncio runs every ready coroutine, and a lock wakes its waiters
in the order they came, so a waiter is not passed over for ever; a database
statement returns or raises, since connections have timeouts. Weak fairness
would not do: a waiter is disabled whenever somebody holds the lock. Arrivals,
failures and restarts carry no fairness.

`LiveFeed`: weak fairness of a publisher's steps, since a ping or a publish
returns or times out (`socket_timeout`). `TrainingJobs`: weak fairness of
enqueueing (or failing to), of some free worker taking what waits, and of the
steps of a task, as the epoch loop is finite; none of losing a worker or of
redelivery. `UserDirectory`: strong fairness of an import's rows, because a row
that waits for other transactions is enabled again and again as they end, and
PostgreSQL serves lock waiters in order; weak fairness of deadlock detection and
of the commit.

## What is proved

Every safety property of the passing runs, for every value of the constants that
the assumptions of the modules admit: any sets of users, processes, handlers,
tabs, streams and workers, any bounds, and, since they are constants too, any
pictures, settings, files and photos from outside. Each is a theorem of the
module's specification; those of `Handlers` and `Progress` hold in the system of
all their parts.

| Module | Theorem | States |
| --- | --- | --- |
| `AuthSessionsProofs` | `TypeCorrect`, `InvariantHolds` | `Spec => []TypeOK`, `Spec => []IInv` |
| | `PasswordChangeSafe` | `Spec => []PasswordChangeEndsSessions` |
| | `RevocationSafe` | `Spec => []EndedSessionsStayEnded` |
| | `OneTokenWorks` | `Spec => []OneUsableRefreshToken` |
| | `Refinement` | `Spec => ImplementsSessionLifecycle` |
| `MatcherRegistryProofs` | `InvariantHolds` | `Spec => []IInv` |
| | `IndexIsRight` | `Spec => []IndexFollowsTable` |
| | `LockIsReleased` | `Spec => []LockHeldByLoader` |
| `FaceMatcherProofs` | `InvariantHolds` | `Spec => []IInv` |
| | `RowsStayPaired` | `Spec => []RowsPaired` |
| | `AnswersAreOwners` | `Spec => []AnswersOwnersUnlessOrphaned` |
| | `IsATemplateMap` | `Spec => ImplementsTemplateMap` |
| `AttendanceProofs` | `InvariantHolds` | `Spec => []IInv` |
| | `NoRowInWindow` | `Spec => []StoredOutsideWindow` |
| | `AnnouncedOnce` | `Spec => []AnnouncedOnceAfterCommit` |
| `AccountsProofs` | `LinkSetsOnePassword` | `Spec => []OncePerLink` |
| | `NewestLinkWorks` | `Spec => []OnlyNewestLinkWorks` |
| | `CreationKeepsTwoLevels` | `Spec => []ThirdLevelOnlyByMove` |
| | `DeletionClearsLateJoiners` | `Spec => OnlyLateJoinersAreCleared` |
| | `SavesKeepOtherKeys` | `Spec => []UnracedSaves` |
| `HandlersProofs` | `OnePageRaisesNoAlarm` | `Spec => []AlarmTakesTwoPages` |
| | `StoredTokenWorks` | `Spec => []StoredTokenIsCurrent` |
| | `MinuteIsLimited` | `Spec => []AdmittedPerMinute` |
| | `NamesAreGenuine` | `Spec => []MatchesAreGenuine` |
| | `ActiveAreMarked` | `Spec => MarkedWhileActive` |
| | `MinedAreHardest` | `Spec => []TripletsAreHardest` |
| | `ThresholdsSeparate` | `Spec => []ThresholdSeparates` |
| | `InvariantOfHandlers` | `Spec => []IInv` |
| `FeedProofs` | `MissesMetAFullQueue` | `FairSpec => []EveryMissIsAccountedFor` |
| | `NothingMissedWhileRedisAnswers` | `FairSpec => []CompleteWhileRedisUp` |
| | `FeedIsAnEventFeed` | `FairSpec => ImplementsEventFeed` |
| `ProgressProofs` | `OneWorkerTrains` | `FairSpec => []TrainedByOneWorker` |
| | `BestEpochIsSaved` | `FairSpec => []CheckpointHoldsBestEpoch` |
| | `FreshCountsKeepTheQuota` | `FairSpec => QuotaKeptByFreshCount` |
| | `ImportsReportEveryRow` | `FairSpec => ReportMatchesRows` |
| | `InvariantHolds` | `FairSpec => []IInv` |

Hardly any of the properties is inductive: they speak of tables, and a handler
that read a table earlier is about to write it. An `IInv` adds what handlers in
flight know. A proof has three parts: `Init` implies it, each action keeps it (a
lemma per action or group of actions), and it implies the property. Where `Next`
leaves a component alone, one lemma says so (`PartsMove`, `OthersMove`,
`RecogMoves`, `DataMoves`).

### The arguments

**Sessions.** `RequestsRead`: what a handler holds was once in the tables; if the
version it read is still the user's, then the password it verified is at least
the last one whose change is complete. `FamiliesAgree`: all tokens of a family
carry one user and one version, so a revocation that ends one of them ends all,
including the ones to come. `StampsSettled`: the same bound for tokens.
`AccessHasTwin` reduces access tokens to refresh tokens. For
`OneUsableRefreshToken`, `OneRotates`: the rotation in flight of a family that
is not raced is its only one, and holds the one token that works. For the
refinement, `SessionsKept` and `SessionsGrow` say when the mapped state stands
still or grows, and each minting or revoking action is mapped to `Open`,
`OpenTooLate`, a stutter or `EndAll`.

**Registry.** `LoaderHoldsLock` is the converse of `LockHeldByLoader`: one loader
per process. `RowsFollowTable` follows the rows that a load or a start-up has
read, and `UsersKnown` what a handler knows of its own user, until they reach the
index; both hold as long as the entry is not in `drifted` and nobody owes it an
update.

**Matcher.** `IndexRepeatsRows`: the FAISS index is a copy of the matrix until
it is orphaned. The refinement maps `template[u]` to the row at `u`'s position;
that positions are unique comes from the types.

**Attendance.** `StillNoneRecent`: that there was no recent row is still so when a
handler inserts, and `InsertsAlone`: nobody else is about to insert for that user,
unless the user is raced. `AnnouncesOwnRow` for the feed.

**Reset links, departments, settings.** `ConsumesAlone` and `UsedOnceSet`;
`ListsUsable` (a handler that will issue a link has listed every older one that
still works); `CreatesUnderTop` and `ClearsLateJoiners`; `LoadedIsStored` and
`SavedIsStored`.

**Dashboard client.** `HandedOnce`: a pair that is on its way to a page is on its
way to one only, is not stored and was not presented. `Presented` and
`SecondPresents`: whoever is about to present a rotated pair is the second page
to do so, or nobody took the answer.

**Rate limiter.** `AccountedFor`: what a minute let through is at most what the
counters account for. The share of a process is the limit for every period that
can have ended since the minute began (two at most, by `Ended`), plus what the
present one counted; the shares of all processes are added up as the cardinality of
`Shares`, which never exceeds three limits for each.

**Recognition.** `Known`: what a request holds at each of its waits, in
particular that whom it is about to name scored at least the floor and was live
under the settings the request loaded (`Named`). Of one, two or three checks, two
thirds are all but for one (`AllPass`), so a liveness threshold of at least 67
leaves none out.

**Training data.** `Split` and `Sampled`: photos are those of the directory, a
batch those of some usable identities. With two identities, two images and at
most half held out every image has company of both kinds (`BatchIsMixed`); the
greatest of the masked distances is then that of a positive, the least of the
raised ones that of a negative (`PositiveIsFarthest`, `NegativeIsNearest`). An
evaluation cuts an ascending sequence at a position (`CutSeparates`), and which
pairs there are follows from the images held out (`BothKinds`).

**Live feed.** `InOrder`: what waits in a queue is newer than what the stream
holds, and that newer than what it showed; `NothingWhenClosed`; `NobodyGivesUp`:
no process has turned to local delivery while Redis has always answered. The
refinement maps the events announced to the length of `log` and the open streams
to `Reading`; only announcing, subscribing, showing and closing are steps of
`EventFeed`, all others stutter.

**Training jobs.** `OneMessage` and `OneAtATime` place a job's message, its workers
and its row: handed out once it is in one place; handed out twice, one of the
two has done its work or is refused. `RunsApart` and `BestIsSaved`: a running
worker knows the best score and the file with it, and nobody else writes there
unless two runs began in one second.

**Directory.** `RowsAreCounted`: every row of an import is to come, imported or
reported; `InsertsApart`: open inserts are of no committed id; `FreshCounts`: a
handler nobody overtook still knows the room there is.

### What the proofs assume

The `ASSUME`s, which TLC evaluates in the runs: bounds are natural numbers, limits
and windows that the code never has at zero are positive; values that stand for
"none" are no member of the sets they are used with; `FaceMatcherAssumption`:
finitely many users, and scores are integers; `HandlersAssumption`: finitely many
processes and identities, pictures are sequences of frames with their scores,
settings carry numbers for their two thresholds and those of a new organization
require the check, at least three images make an identity (`MinImages`; the code
has 4), percentages of a run are natural numbers; `ProgressAssumption`: there is
a process, import files are sequences of ids or of rows without one. Nothing is
assumed of interleavings. What the models themselves abstract is said above.

### Model-checked only

Liveness: `EveryRequestEnds`, `PublishingEnds`, `JobsEnd`, `ImportsEnd`. Temporal
reasoning under fairness needs `ENABLED`, which the prover does not expand. The
properties of the five runs that must fail are refuted by TLC. Induction is used
in one form only, as the least element of a set of natural numbers (`WFMin`):
the induction theorems of the library take an operator as a parameter and cannot
be instantiated, and no definition that a theorem speaks of is recursive for
that reason (`Seen` numbers the frames that have a mesh instead of filtering
them, `Scored` counts pairs as a cardinality).

## Findings

1. **Overlapping refreshes fork a session** (`auth_race`). README.md:134-136
   promises that every refresh invalidates the presented token and that a
   replay revokes everything. `rotate_refresh_token` reads the row at line 83 and
   updates it by primary key at 117-129: two overlapping refreshes both
   succeed, and two refresh tokens live on.
2. **Revoked access tokens still recognize** (`auth_recognition`). README.md:136-138
   and docs/api-overview.md:15-17 promise immediate rejection;
   `bearer_or_none` (`dependencies.py:239`) does not compare `token_version`.
3. **FAISS answers with the wrong owner** (`face_orphan`). Removing the last user
   skips the rebuild (`matcher.py:224`), so the vector stays at position 0, and
   the next enrolled user is appended behind it. Off by default
   (`ENABLE_FAISS_MATCHING`).
4. **PATCH never revokes the matcher entry** (`matcher_patch`).
   docs/database-schema.md:39 promises it; the condition at `users.py:439` is
   never true for a deactivation. Recognition still refuses the user, because it
   looks `is_active` up again (`recognition.py:207-216`).
5. **Saved settings are not saved** (`settings_patch`). `dashboard.py:339` changes
   the loaded dict in place and assigns the same dict; SQLAlchemy finds nothing
   changed. Only the first PATCH, on an empty column, is written; the test
   (tests/test_api.py:403) makes just one.
6. **The exported model is the last one**, not the best (README.md:184-185,
   `trainer.py:232`). `TrainingJobs.ExportedModelIsBest` states it: add
   `INVARIANT ExportedModelIsBest` for the module to see it fail.
7. **The heartbeat ends the stream** (dashboard.py:397-398 and 414): the cancelled
   generator is finished, the next read ends the response.
8. **A lost refresh signs the user out** (client.ts:130-131 and 163), although the
   comment keeps the tokens on a network failure.
9. **PATCH ignores the two levels of departments** (departments.py:92 and 146).
10. **Two reset links at a time** (password_reset.py:42) when requests overlap.
11. **A malformed setting stops recognition** (org_settings.py:23-24 and 44)
    instead of falling back to the default.
12. **The threshold misses its false accept rate** (evaluator.py:80 and 83): one
    negative too many reaches it, and with fewer than `1 / target_far` negatives
    it is -1.0, every epoch scores 1.0 and `best.pt` is the first. Add
    `INVARIANT ThresholdKeepsFar` for `TrainingData` to see it fail.
13. **The holdout is not identity-disjoint** (README.md:183, trainer.py:4;
    dataset.py:187): each identity is split by image.

Findings 6 to 13 show as what the properties of the passing runs except, or as
actions of the modules.

Noticed without a run: a `null` stored for a setting makes GET
/dashboard/settings fail from then on, since the response schema has no null
(schemas/dashboard.py:68-75); a stopped live feed abandons a refresh whose
failure nobody handles (client.ts:272); `AuthContext.tsx:56` may store display
data after another tab signed out; a deactivated user left in the index shadows
an active look-alike, who is then not recognized. Login answers 403 for a disabled account
(`auth.py:132-134`), docs/api-overview.md:37-38 says 401 for all failures.

## Not modelled

Numeric code (detection, embeddings, landmarks and textures, networks and
optimizers; the losses other than `BatchHardTripletLoss` have no caller in `src/`), pure I/O (email, storage, exports, metrics, logging), configuration,
schemas, migrations, rendering. API keys, organization creation and the
append-only audit log are single-row changes with no interleaving worth
checking. `challenge_response.py` has no caller in `src/`.
The approximate FAISS indexes of large organizations are left out.

## Plan

1. What the properties except could be made tighter: `drifted`, `raced` and
   `stale` are history variables that record a cause; lemmas that bound how long
   an exception lasts (until the next load, the next handler) would say more of
   the registry and of the directory.
2. Composition: that the server of `DashboardClient` answers as `AuthSessions`
   allows, and that `Recognition` reads an index that `MatcherRegistry` admits,
   are read off the modules and not proved.
3. Safety halves of the liveness properties: that a handler which waits for a lock
   or a row waits for one that is in flight (`EveryRequestEnds`, `ImportsEnd`).

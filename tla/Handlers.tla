------------------------------ MODULE Handlers ------------------------------
(***************************************************************************)
(* The components whose handlers overtake each other at the database or at *)
(* a counter, and what a training run makes of its photos.  They share no  *)
(* variable, so that what holds of one in every behaviour holds whatever   *)
(* the others do: in a behaviour of this module one, the part, moves.      *)
(***************************************************************************)
EXTENDS Naturals, Sequences, FiniteSets

CONSTANTS
    Tab, Uses, MaxPairs, MaxLoads,
    User, Handler, MaxLinks, NoDept, MaxDepts,
    Proc, Request, Limit, WindowLength, MaxRestarts,
    Admin, Updates, Hours, Null, Malformed,
    Person, Camera, Picture, PictureLists, RecognitionSettings,
    Floor, RequireSequence, EyesClosed, EyesOpen, TextureMin, MovementMin,
    Thresholds, NoThreshold,
    Identity, Trainings, MinImages, MaxDistance, MaxScore, PairLimit

VARIABLES
    part,
    ledger, accepted, stored, signedIn, call, refresh, event, loads, presented, alarms, unanswered,
    active, links, used, expired, deleted, resetHandler, uses, raced,
    depts, created, parent, member, deptHandler, moved,
    clock, redisCount, memory, age, counted, admitted, failures, restarts,
    column, admin,
    settings, present, index, request,
    config, photos, stage, left, batch, distance, mined, evaluation

-----------------------------------------------------------------------------
Client == INSTANCE DashboardClient
Reset  == INSTANCE PasswordReset WITH handler <- resetHandler
Dept   == INSTANCE Departments WITH handler <- deptHandler, None <- NoDept
Rate   == INSTANCE RateLimit WITH request <- counted
Org    == INSTANCE OrgSettings WITH stored <- column
Recog  == INSTANCE Recognition
            WITH User <- Person, Request <- Camera, active <- present,
                 Batches <- PictureLists, Settings <- RecognitionSettings
Data   == INSTANCE TrainingData

ASSUME HandlersAssumption ==
    /\ Client!ClientAssumption /\ Reset!ResetAssumption
    /\ Dept!DepartmentsAssumption /\ Rate!LimiterAssumption /\ Recog!RecognitionAssumption
    /\ Data!DataAssumption

Init ==
    /\ part \in {"client", "reset", "departments", "rate", "settings", "recognition", "data"}
    /\ Client!Init /\ Reset!Init /\ Dept!Init /\ Rate!Init /\ Org!Init /\ Recog!Init /\ Data!Init

clientVars == <<ledger, accepted, stored, signedIn, call, refresh, event, loads, presented,
                alarms, unanswered>>
resetVars == <<active, links, used, expired, deleted, resetHandler, uses, raced>>
deptVars == <<depts, created, parent, member, deptHandler, moved>>
rateVars == <<clock, redisCount, memory, age, counted, admitted, failures, restarts>>
orgVars == <<column, admin>>
recogVars == <<settings, present, index, request>>
dataVars == <<config, photos, stage, left, batch, distance, mined, evaluation>>
vars == <<part, clientVars, resetVars, deptVars, rateVars, orgVars, recogVars, dataVars>>

ClientStep ==
    /\ part = "client" /\ Client!Next
    /\ UNCHANGED <<part, resetVars, deptVars, rateVars, orgVars, recogVars, dataVars>>
ResetStep ==
    /\ part = "reset" /\ Reset!Next
    /\ UNCHANGED <<part, clientVars, deptVars, rateVars, orgVars, recogVars, dataVars>>
DeptStep ==
    /\ part = "departments" /\ Dept!Next
    /\ UNCHANGED <<part, clientVars, resetVars, rateVars, orgVars, recogVars, dataVars>>
RateStep ==
    /\ part = "rate" /\ Rate!Next
    /\ UNCHANGED <<part, clientVars, resetVars, deptVars, orgVars, recogVars, dataVars>>
OrgStep ==
    /\ part = "settings" /\ Org!Next
    /\ UNCHANGED <<part, clientVars, resetVars, deptVars, rateVars, recogVars, dataVars>>
RecogStep ==
    /\ part = "recognition" /\ Recog!Next
    /\ UNCHANGED <<part, clientVars, resetVars, deptVars, rateVars, orgVars, dataVars>>
DataStep ==
    /\ part = "data" /\ Data!Next
    /\ UNCHANGED <<part, clientVars, resetVars, deptVars, rateVars, orgVars, recogVars>>

Next == ClientStep \/ ResetStep \/ DeptStep \/ RateStep \/ OrgStep \/ RecogStep \/ DataStep

Spec == Init /\ [][Next]_vars

-----------------------------------------------------------------------------
\* The types of the components' variables (models.py, client.ts, rate_limit.py),
\* and what the proofs show to be kept by every step.
IInv ==
    /\ Client!IInv /\ Reset!IInv /\ Dept!IInv
    /\ Rate!IInv /\ Org!IInv /\ Recog!IInv /\ Data!IInv

\* The server takes a rotated token for a stolen one only when two pages presented
\* it or nobody took the answer of its rotation: the calls of one page, however
\* many fail at once, never do that (client.ts:88-171).
AlarmTakesTwoPages == Client!AlarmTakesTwoPages

\* A rotated token stays in localStorage only while a page has yet to take the
\* answer of its rotation, or when nobody took it (client.ts:126-127).
StoredTokenIsCurrent == Client!StoredTokenIsCurrent

\* A link that still works is the newest of its user, except one whose request
\* overlapped that of the newer (password_reset.py:34-61).
OnlyNewestLinkWorks == Reset!OnlyNewestLinkWorks

\* A reset link sets one password, unless two requests that presented it overlapped
\* (password_reset.py:64-92, auth.py:240-285).
OncePerLink == Reset!OncePerLink

\* Creation keeps departments at two levels, PATCH does not (departments.py:92).
ThirdLevelOnlyByMove == Dept!ThirdLevelOnlyByMove

\* A deletion clears the department of late joiners only (departments.py:189).
OnlyLateJoinersAreCleared == Dept!OnlyLateJoinersAreCleared

\* A minute lets the limit through, or a multiple of it without Redis
\* (rate_limit.py:68-107).
AdmittedPerMinute == Rate!AdmittedPerMinute

\* A save that no other overlaps leaves the keys it was not sent as they were, and
\* stores those it was sent when a superadmin sends them or none were stored: on a
\* column that holds any, the dashboard's stores nothing (dashboard.py:324-340,
\* admin.py:156-159).
UnracedSaves == Org!UnracedSaves

\* Whom a recognition names reaches the threshold's floor and, where liveness is
\* checked under a threshold of 0.67 or more, passed every check the frames allowed
\* (recognition.py:142-239, liveness.py:144-205).
MatchesAreGenuine == Recog!MatchesAreGenuine

\* Whom a recognition marks was active when she was found (recognition.py:202).
MarkedWhileActive == Recog!MarkedWhileActive

\* A sampler of two identities and two images gives every image of a batch its
\* hardest positive and negative (dataset.py:125-150, losses.py:109-125).
TripletsAreHardest == Data!TripletsAreHardest

\* The threshold for a false accept rate lets at most that share of the negatives
\* above it, or everything through (evaluator.py:80-86).
ThresholdSeparates == Data!ThresholdSeparates
=============================================================================

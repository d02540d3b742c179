----------------------------- MODULE Recognition -----------------------------
(***************************************************************************)
(* POST /recognize and /recognize/batch (api/routes/recognition.py) with   *)
(* the liveness decision (anti_spoofing/liveness.py), for one organization *)
(* and one process.                                                        *)
(*                                                                         *)
(* Between two awaits a handler runs alone: the detector that all requests *)
(* share is reset and asked in one step.  While it waits for the database, *)
(* settings are saved and users come and go.  What a picture shows is      *)
(* external: the faces found, the eyes, nose and texture of each, and how  *)
(* it scores against each user.                                            *)
(***************************************************************************)
EXTENDS Naturals, Sequences, FiniteSetsExt, SequencesExt

CONSTANTS
    User,
    Request,
    Picture,         \* faces: what the primary frame and the extra ones show;
                     \* score: what the primary face scores against each user
    Batches,         \* the lists of pictures that batches hold
    Settings,        \* what load_org_settings may return
    Floor,           \* intra_org_threshold_floor
    RequireSequence, \* anti_spoof.require_sequence
    EyesClosed, EyesOpen, TextureMin, MovementMin,  \* of the configuration
    Thresholds,      \* what a request may name
    NoThreshold      \* a request that names none

RecognitionAssumption ==
    /\ Floor \in Nat /\ Thresholds \subseteq Nat
    /\ \A p \in Picture :
         /\ p.score \in [User -> Nat]
         /\ p.faces \in Seq([mesh : BOOLEAN, eyes : Nat, nose : Nat, texture : Nat])
    /\ \A b \in Batches : b \in Seq(Picture)
    /\ \A s \in Settings : s.match \in Nat /\ s.liveness \in Nat
    /\ \E s \in Settings : s.required

VARIABLES
    settings, \* of the organization
    active,   \* users.is_active
    index,    \* users in the matcher of this process
    request   \* what a handler is at

vars == <<settings, active, index, request>>

Idle == [at |-> "idle"]

Init ==
    /\ settings = CHOOSE s \in Settings : s.required
    /\ active = User /\ index = User
    /\ request = [r \in Request |-> Idle]

-----------------------------------------------------------------------------
(* LivenessDetector.check.                                                 *)

Distance(a, b) == IF a > b THEN a - b ELSE b - a

TextureSeen(seen) ==
    FoldFunction(+, 0, [i \in DOMAIN seen |-> seen[i].texture]) >= TextureMin * Len(seen)

BlinkSeen(seen) ==
    \E i, j \in DOMAIN seen : i < j /\ seen[i].eyes < EyesClosed /\ seen[j].eyes > EyesOpen

MovementSeen(seen) ==
    FoldFunction(+, 0, [i \in 2 .. Len(seen) |-> Distance(seen[i].nose, seen[i - 1].nose)])
      >= MovementMin

\* The checks that so many frames allow, each with its result.
Measured(seen) ==
    {TextureSeen(seen)} \X {"texture"}
      \cup (IF Len(seen) >= 3 THEN {BlinkSeen(seen)} \X {"blink"} ELSE {})
      \cup (IF Len(seen) >= 5 THEN {MovementSeen(seen)} \X {"movement"} ELSE {})

\* Frames without a face mesh are passed over.
Seen(frames) ==
    LET meshed == {i \in DOMAIN frames : frames[i].mesh}
        Nth(k) == CHOOSE i \in meshed : Cardinality({j \in meshed : j <= i}) = k IN
    [k \in 1 .. Cardinality(meshed) |-> frames[Nth(k)]]

\* Live when enough of the checks pass, by a threshold in hundredths.
Live(frames, threshold) ==
    LET seen   == Seen(frames)
        passed == {c \in Measured(seen) : c[1]} IN
    /\ frames # <<>>
    /\ RequireSequence => Len(frames) >= 2
    /\ seen # <<>>
    /\ 100 * Cardinality(passed) >= threshold * Cardinality(Measured(seen))

-----------------------------------------------------------------------------
(* The matcher and the threshold.                                          *)

Threshold(s, override) == Max({IF override # NoThreshold THEN override ELSE s.match, Floor})

\* The best of the index, when it reaches the threshold.
Candidates(picture, threshold) ==
    LET best == {u \in index : \A v \in index : picture.score[u] >= picture.score[v]} IN
    {u \in best : picture.score[u] >= threshold}
-----------------------------------------------------------------------------
(* The handlers, from one wait to the next.                                *)

\* A batch looks at the first face of a picture only.
FacesOf(batch, picture) ==
    IF batch /\ picture.faces # <<>> THEN <<Head(picture.faces)>> ELSE picture.faces

Goes(r, what) == request' = [request EXCEPT ![r] = what]
Shown(r)      == Head(request[r].todo)
Faces(r)      == FacesOf(request[r].batch, Shown(r))
Checked(r)    == request[r].check /\ request[r].settings.required
Required(r)   == Threshold(request[r].settings, request[r].threshold)

\* A picture is answered, the next one is looked at.
AnswerPicture(r, outcome, user) ==
    Goes(r, [request[r] EXCEPT !.at = "judge", !.todo = Tail(@),
               !.results = Append(@, [picture |-> Shown(r), outcome |-> outcome, user |-> user])])

\* A batch fetches the matcher first.  It is changed in place from then on, unless
\* there was none: an index without users may be absent.
Recognize(r, pictures, batch, check, threshold, mark) ==
    /\ request[r] = Idle
    /\ \E matcher \in IF batch /\ index = {} THEN BOOLEAN ELSE {TRUE} :
         Goes(r, [at |-> "settings", todo |-> pictures, size |-> Len(pictures), batch |-> batch,
                  check |-> check, threshold |-> threshold, mark |-> mark, results |-> <<>>,
                  settings |-> NoThreshold, user |-> NoThreshold, gone |-> {},
                  matcher |-> matcher])
    /\ UNCHANGED <<settings, active, index>>

LoadSettings(r) ==
    /\ request[r].at = "settings"
    /\ Goes(r, [request[r] EXCEPT !.at = "judge", !.settings = settings])
    /\ UNCHANGED <<settings, active, index>>

\* Mutant: the frames sent along are not asked for.
JudgeFirstFrame(r) ==
    /\ request[r].at = "judge" /\ request[r].todo # <<>>
    /\ IF Faces(r) = <<>> THEN AnswerPicture(r, "no_face", NoThreshold)
       ELSE IF Checked(r) /\ ~ Live(<<Head(Faces(r))>>, request[r].settings.liveness)
         THEN Goes(r, [request[r] EXCEPT !.at = "spoof"])
         ELSE Goes(r, [request[r] EXCEPT !.at = "match"])
    /\ UNCHANGED <<settings, active, index>>

Judge(r) ==
    /\ request[r].at = "judge" /\ request[r].todo # <<>>
    /\ IF Faces(r) = <<>> THEN AnswerPicture(r, "no_face", NoThreshold)
       ELSE IF Checked(r) /\ ~ Live(Faces(r), request[r].settings.liveness)
         THEN Goes(r, [request[r] EXCEPT !.at = "spoof"])
         ELSE Goes(r, [request[r] EXCEPT !.at = "match"])
    /\ UNCHANGED <<settings, active, index>>

\* The attempt is committed or, when the commit fails, rolled back and forgotten.
RecordSpoof(r) ==
    /\ request[r].at = "spoof"
    /\ \E outcome \in {"spoof_recorded", "spoof"} : AnswerPicture(r, outcome, NoThreshold)
    /\ UNCHANGED <<settings, active, index>>

Match(r) ==
    LET found == IF request[r].matcher THEN Candidates(Shown(r), Required(r)) ELSE {} IN
    /\ request[r].at = "match"
    /\ IF found = {} THEN AnswerPicture(r, "no_match", NoThreshold)
       ELSE \E u \in found :
              Goes(r, [request[r] EXCEPT !.at = "lookup", !.user = u])
    /\ UNCHANGED <<settings, active, index>>

\* Mutant: whoever is in the index is taken.
LookupUnchecked(r) ==
    /\ request[r].at = "lookup"
    /\ IF request[r].mark
         THEN Goes(r, [request[r] EXCEPT !.at = "mark", !.gone = {}])
         ELSE AnswerPicture(r, "match", request[r].user)
    /\ UNCHANGED <<settings, active, index>>

\* The index may hold users who are not active any more.
Lookup(r) ==
    /\ request[r].at = "lookup"
    /\ IF request[r].user \notin active THEN AnswerPicture(r, "no_match", NoThreshold)
       ELSE IF request[r].mark
         THEN Goes(r, [request[r] EXCEPT !.at = "mark", !.gone = {}])
         ELSE AnswerPicture(r, "match", request[r].user)
    /\ UNCHANGED <<settings, active, index>>

\* mark_attendance, see Attendance.
Mark(r) ==
    /\ request[r].at = "mark"
    /\ AnswerPicture(r, "marked", request[r].user)
    /\ UNCHANGED <<settings, active, index>>

\* The answer, or an error of the database meanwhile.
End(r) ==
    /\ request[r] # Idle
    /\ Goes(r, Idle)
    /\ UNCHANGED <<settings, active, index>>

-----------------------------------------------------------------------------
(* Meanwhile, others.                                                      *)

SaveSettings(s) ==
    /\ s # settings
    /\ settings' = s
    /\ UNCHANGED <<active, index, request>>

\* The index follows later, in another process maybe never.
Deactivate(u) ==
    /\ u \in active
    /\ active' = active \ {u}
    /\ request' = [r \in Request |-> IF request[r].at = "mark"
                                       THEN [request[r] EXCEPT !.gone = @ \cup {u}] ELSE request[r]]
    /\ UNCHANGED <<settings, index>>

Unindex(u) ==
    /\ u \in index \ active
    /\ index' = index \ {u}
    /\ UNCHANGED <<settings, active, request>>

Reactivate(u) ==
    /\ u \notin active
    /\ active' = active \cup {u}
    /\ UNCHANGED <<settings, index, request>>

Enroll(u) ==
    /\ u \in active \ index
    /\ index' = index \cup {u}
    /\ UNCHANGED <<settings, active, request>>

Next ==
    \/ \E r \in Request, p \in Picture, check, mark \in BOOLEAN, t \in {NoThreshold} \cup Thresholds :
          Recognize(r, <<p>>, FALSE, check, t, mark)
    \/ \E r \in Request, b \in Batches, check \in BOOLEAN, t \in {NoThreshold} \cup Thresholds :
          Recognize(r, b, TRUE, check, t, FALSE)
    \/ \E r \in Request : LoadSettings(r)
    \/ \E r \in Request : Judge(r)
    \/ \E r \in Request : RecordSpoof(r)
    \/ \E r \in Request : Match(r)
    \/ \E r \in Request : Lookup(r)
    \/ \E r \in Request : Mark(r)
    \/ \E r \in Request : End(r)
    \/ \E s \in Settings : SaveSettings(s)
    \/ \E u \in User : Deactivate(u)
    \/ \E u \in User : Unindex(u)
    \/ \E u \in User : Reactivate(u)
    \/ \E u \in User : Enroll(u)

Spec == Init /\ [][Next]_vars

-----------------------------------------------------------------------------
Outcome == {"no_face", "spoof_recorded", "spoof", "no_match", "match", "marked"}
Result  == [picture : Picture, outcome : Outcome, user : User \cup {NoThreshold}]
Held    == [at : {"settings", "judge", "spoof", "match", "lookup", "mark"},
            todo : Seq(Picture), size : Nat, batch : BOOLEAN, check : BOOLEAN,
            threshold : {NoThreshold} \cup Nat, mark : BOOLEAN, results : Seq(Result),
            settings : {NoThreshold} \cup Settings, user : {NoThreshold} \cup User,
            gone : SUBSET User, matcher : BOOLEAN]

TypeOK ==
    /\ settings \in Settings
    /\ active \subseteq User /\ index \subseteq User
    /\ request \in [Request -> {Idle} \cup Held]

\* What the documentation asks of a burst: every signal it is long enough for is
\* there, among the frames with a face mesh.
Genuine(frames) ==
    LET seen == Seen(frames) IN
    /\ TextureSeen(seen)
    /\ Len(seen) \in {3, 4} => BlinkSeen(seen)
    /\ Len(seen) >= 5 => BlinkSeen(seen) /\ MovementSeen(seen)

\* Why a request may name a user for a picture.
Named(q, picture, user) ==
    /\ picture.score[user] >= Floor
    /\ q.check /\ q.settings.required =>
         Live(FacesOf(q.batch, picture), q.settings.liveness)

\* What a handler knows that has come so far.
Known(q) ==
    /\ q.at # "settings" => q.settings \in Settings
    /\ q.at = "settings" => q.results = <<>>
    /\ Len(q.todo) + Len(q.results) = q.size
    /\ q.at \in {"spoof", "match", "lookup", "mark"} => q.todo # <<>>
    /\ q.at = "match" /\ q.check /\ q.settings.required =>
         Live(FacesOf(q.batch, Head(q.todo)), q.settings.liveness)
    /\ q.at \in {"lookup", "mark"} => q.user \in User /\ Named(q, Head(q.todo), q.user)
    /\ q.at = "mark" => q.user \in active \cup q.gone
    /\ \A i \in DOMAIN q.results :
         q.results[i].outcome \in {"match", "marked"} =>
           q.results[i].user \in User /\ Named(q, q.results[i].picture, q.results[i].user)

\* The inductive invariant.
IInv == TypeOK /\ \A r \in Request : request[r] # Idle => Known(request[r])

\* Whom a request names or marks (recognition.py:142-239, liveness.py:144-205):
\* under the liveness threshold of the default configuration, 0.67, only a face
\* that passed every check the request allowed - two of three do not reach it -
\* and never below the floor, whatever threshold the settings or the request name.
MatchesAreGenuine ==
    \A r \in Request : request[r].at # "idle" =>
      \A i \in DOMAIN request[r].results :
        LET x == request[r].results[i] IN
        x.outcome \in {"match", "marked"} =>
          /\ x.picture.score[x.user] >= Floor
          /\ request[r].check /\ request[r].settings.required
             /\ request[r].settings.liveness >= 67 =>
               Genuine(IF request[r].batch THEN <<Head(x.picture.faces)>> ELSE x.picture.faces)

\* A user who is marked was active when the request found her, and left, if at
\* all, after that, even when the index still held her (recognition.py:202-224).
MarkedWhileActive ==
    [][\A r \in Request :
         request[r].at = "mark" /\ request'[r].at = "judge" =>
           request[r].user \in active \cup request[r].gone]_vars
=============================================================================

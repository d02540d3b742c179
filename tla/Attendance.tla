----------------------------- MODULE Attendance -----------------------------
(***************************************************************************)
(* Marking attendance: mark_attendance (services/attendance_service.py) and *)
(* the three handlers that call it, POST /recognize with                   *)
(* auto_mark_attendance, POST /attendance and POST /attendance/manual.     *)
(*                                                                         *)
(* A handler looks the user up, asks for a recent row, inserts a row and   *)
(* announces it, and other handlers run between any two of these.  The     *)
(* manual handler does so for one user after the other.                    *)
(***************************************************************************)
EXTENDS Naturals, Sequences, FiniteSets

CONSTANTS
    User,
    Req,        \* handlers that may be in flight at once
    Window,     \* ATTENDANCE_DEDUPE_WINDOW_MINUTES, in ticks of the clock
    MaxTime,    \* bound: the clock
    Stamp,      \* the timestamps an administrator may send
    MaxRows,    \* bound: rows in the table
    Now         \* the request carries no timestamp of its own

ASSUME AttendanceAssumption == Window \in Nat /\ MaxTime \in Nat /\ MaxRows \in Nat
                                 /\ Stamp \subseteq 0 .. MaxTime

VARIABLES
    now,
    active,     \* users.is_active
    attendance, \* the table, in the order of the commits
    inflight,   \* handlers, with what each has read and what it still has to do
    events,     \* rows announced to the live feed, in order
    raced       \* history: users for whom two handlers had both found no recent row

vars == <<now, active, attendance, inflight, events, raced>>

Time  == 0 .. MaxTime
RowId == 1 .. MaxRows

\* `checked' is history: the time at which the handler found no recent row.
Row == [user : User, at : Time, checked : Time, spoof : BOOLEAN]

List == Seq(User) \ {<<>>}

\* The users a session has loaded, and whether they were active then.
Loaded == SUBSET (User \X BOOLEAN)

\* `todo' holds the users still to be marked, the current one first; `at' is
\* the timestamp to store.
Request ==
    [id : Req, step : {"user", "find"}, todo : List, at : Time \cup {Now},
     spoof : BOOLEAN, held : Loaded]
      \cup
    [id : Req, step : {"insert"}, todo : List, at : Time \cup {Now},
     spoof : BOOLEAN, held : Loaded, checked : Time]
      \cup
    [id : Req, step : {"publish"}, todo : List, at : Time \cup {Now},
     spoof : BOOLEAN, held : Loaded, row : RowId]

TypeOK ==
    /\ now \in Time
    /\ active \in [User -> BOOLEAN]
    /\ attendance \in Seq(Row)
    /\ inflight \in SUBSET Request
    /\ events \in Seq(RowId)
    /\ raced \in SUBSET User

Init ==
    /\ now = 0
    /\ active = [u \in User |-> TRUE]
    /\ attendance = <<>>
    /\ inflight = {}
    /\ events = <<>>
    /\ raced = {}

-----------------------------------------------------------------------------
Begin(r)      == (\A s \in inflight : s.id # r.id) /\ inflight' = inflight \cup {r}
Proceed(r, s) == inflight' = (inflight \ {r}) \cup {s}

Current(r) == Head(r.todo)

\* A session returns a user it still holds as it read her first: the
\* administrator herself and, in lists of two, the user before.
Holding(r) ==
    IF \E b \in BOOLEAN : <<Current(r), b>> \in r.held
      THEN r.held
      ELSE r.held \cup {<<Current(r), active[Current(r)]>>}

AtStep(r, step) ==
    [id |-> r.id, step |-> step, todo |-> r.todo, at |-> r.at, spoof |-> r.spoof,
     held |-> Holding(r)]

\* The current user is done with: the next one, or the answer.
NextUser(r) ==
    IF Len(r.todo) = 1
      THEN inflight' = inflight \ {r}
      ELSE Proceed(r, [AtStep(r, "user") EXCEPT !.todo = Tail(@)])

-----------------------------------------------------------------------------
\* POST /recognize: a face matched u (MatcherRegistry), and it is not a spoof,
\* or the handler would have stopped.
RecognizeMark(i, u) ==
    /\ Begin([id |-> i, step |-> "user", todo |-> <<u>>, at |-> Now, spoof |-> FALSE,
              held |-> {}])
    /\ UNCHANGED <<now, active, attendance, events, raced>>

\* POST /attendance: the terminal says whether it saw a spoof.
MarkEndpoint(i, u, spoof) ==
    /\ Begin([id |-> i, step |-> "user", todo |-> <<u>>, at |-> Now, spoof |-> spoof,
              held |-> {}])
    /\ UNCHANGED <<now, active, attendance, events, raced>>

\* POST /attendance/manual: a list that may repeat a user, and a timestamp that
\* may be any time; without one, the time of the request.  The session has loaded
\* the administrator, who may be one of the users.
ManualMark(i, us, at, held) ==
    /\ \A x \in held : x[2] = active[x[1]]
    /\ Begin([id |-> i, step |-> "user", todo |-> us, at |-> at, spoof |-> FALSE,
              held |-> held])
    /\ UNCHANGED <<now, active, attendance, events, raced>>

\* All three refuse an unknown or inactive user; the manual one goes on to the
\* next.
FindUser(r) ==
    /\ r.step = "user"
    /\ IF <<Current(r), TRUE>> \in Holding(r) THEN Proceed(r, AtStep(r, "find")) ELSE NextUser(r)
    /\ UNCHANGED <<now, active, attendance, events, raced>>

-----------------------------------------------------------------------------
(* mark_attendance.                                                        *)

\* Mutant: a row exactly one window old no longer counts.
IsRecentExclusive(row, u) == row.user = u /\ ~ row.spoof /\ row.at + Window > now

\* find_recent_attendance, with the window counted back from now, not from the
\* timestamp to be stored.  Rows dated in the future are recent, too.
IsRecent(row, u) == row.user = u /\ ~ row.spoof /\ row.at + Window >= now
HasRecent(u)     == \E k \in DOMAIN attendance : IsRecent(attendance[k], u)

Racing(r) ==
    \E s \in inflight \ {r} : s.step = "insert" /\ Current(s) = Current(r) /\ ~ s.spoof

FindRecent(r) ==
    /\ r.step = "find"
    /\ IF ~ r.spoof /\ Window > 0 /\ HasRecent(Current(r))
         THEN NextUser(r) /\ UNCHANGED raced
         ELSE /\ Proceed(r, [id |-> r.id, step |-> "insert", todo |-> r.todo,
                             at |-> r.at, spoof |-> r.spoof, held |-> r.held, checked |-> now])
              /\ raced' = IF Racing(r) THEN raced \cup {Current(r)} ELSE raced
    /\ UNCHANGED <<now, active, attendance, events>>

\* Mutant: the row is read back by its user, who may have an older one.
InsertRowReread(r) ==
    /\ r.step = "insert"
    /\ Len(attendance) < MaxRows
    /\ attendance' = Append(attendance,
         [user |-> Current(r), at |-> IF r.at = Now THEN r.checked ELSE r.at,
          checked |-> r.checked, spoof |-> r.spoof])
    /\ \E row \in DOMAIN attendance' :
         /\ attendance'[row].user = Current(r)
         /\ Proceed(r, [id |-> r.id, step |-> "publish", todo |-> r.todo, at |-> r.at,
                        spoof |-> r.spoof, held |-> r.held, row |-> row])
    /\ UNCHANGED <<now, active, events, raced>>

\* Insert and commit.
InsertRow(r) ==
    /\ r.step = "insert"
    /\ Len(attendance) < MaxRows
    /\ attendance' = Append(attendance,
         [user |-> Current(r), at |-> IF r.at = Now THEN r.checked ELSE r.at,
          checked |-> r.checked, spoof |-> r.spoof])
    /\ Proceed(r, [id |-> r.id, step |-> "publish", todo |-> r.todo, at |-> r.at,
                   spoof |-> r.spoof, held |-> r.held, row |-> Len(attendance) + 1])
    /\ UNCHANGED <<now, active, events, raced>>

\* Mutant: a retried publish announces the row again.
PublishAndRepeat(r) ==
    /\ r.step = "publish"
    /\ events' = Append(events, r.row)
    /\ UNCHANGED <<now, active, attendance, inflight, raced>>

\* publish_attendance_event never raises.
Publish(r) ==
    /\ r.step = "publish"
    /\ events' = Append(events, r.row)
    /\ NextUser(r)
    /\ UNCHANGED <<now, active, attendance, raced>>

-----------------------------------------------------------------------------
\* A statement raises or the process dies.  What the manual handler marked
\* before stays marked.
Fail(r) ==
    /\ inflight' = inflight \ {r}
    /\ UNCHANGED <<now, active, attendance, events, raced>>

SetUserActive(u, b) ==
    /\ active[u] # b
    /\ active' = [active EXCEPT ![u] = b]
    /\ UNCHANGED <<now, attendance, inflight, events, raced>>

Tick ==
    /\ now < MaxTime
    /\ now' = now + 1
    /\ UNCHANGED <<active, attendance, inflight, events, raced>>

-----------------------------------------------------------------------------
\* The lists an administrator sends: everybody, one, or one twice.
Lists == UNION {[1 .. n -> User] : n \in 1 .. 2}

\* No user of the lists, or one who is active.
Administrators == {{}} \cup {{<<u, TRUE>>} : u \in User}

Arrive(i) ==
    \/ \E u \in User : RecognizeMark(i, u)
    \/ \E u \in User, spoof \in BOOLEAN : MarkEndpoint(i, u, spoof)
    \/ \E us \in Lists, at \in Stamp, held \in Administrators : ManualMark(i, us, at, held)

Run(r) == FindUser(r) \/ FindRecent(r) \/ InsertRow(r) \/ Publish(r)

Next ==
    \/ \E i \in Req : Arrive(i)
    \/ \E r \in inflight : Run(r)
    \/ \E r \in inflight : Fail(r)
    \/ \E u \in User, b \in BOOLEAN : SetUserActive(u, b)
    \/ Tick

Spec == Init /\ [][Next]_vars

-----------------------------------------------------------------------------
\* Unless two handlers for one user overlapped between the lookup and the
\* insert, no row is stored while an earlier row of the user lies in the window,
\* whichever of the three handlers, live or with a chosen timestamp, stored
\* either; a window of 0 asks for no such thing (attendance_service.py:66-90).
StoredOutsideWindow ==
    \A k \in DOMAIN attendance : \A j \in 1 .. (k - 1) :
        LET earlier == attendance[j] later == attendance[k] IN
        /\ Window > 0
        /\ earlier.user = later.user
        /\ later.user \notin raced
        /\ ~ earlier.spoof /\ ~ later.spoof
        => earlier.at + Window < later.checked

\* The feed announces rows that are committed, each once
\* (attendance_service.py:90, 106-117).
AnnouncedOnceAfterCommit ==
    /\ \A k \in DOMAIN events : events[k] \in DOMAIN attendance
    /\ \A j, k \in DOMAIN events : events[j] = events[k] => j = k

-----------------------------------------------------------------------------
(* The inductive invariant behind them.                                    *)

\* What a handler found when it looked still holds when it inserts, and nobody
\* else is about to insert for the same user.
StillNoneRecent ==
    \A r \in inflight : r.step = "insert" /\ ~ r.spoof /\ Current(r) \notin raced =>
        \A k \in DOMAIN attendance :
            Window > 0 /\ attendance[k].user = Current(r) /\ ~ attendance[k].spoof
              => attendance[k].at + Window < r.checked
InsertsAlone ==
    \A r, s \in inflight :
        /\ r.step = "insert" /\ ~ r.spoof /\ s.step = "insert" /\ ~ s.spoof
        /\ Current(r) = Current(s) /\ Current(r) \notin raced
        => r = s

\* A handler about to announce a row is the only one, and the first.
AnnouncesOwnRow ==
    \A r \in inflight : r.step = "publish" =>
        /\ r.row \in DOMAIN attendance
        /\ \A k \in DOMAIN events : events[k] # r.row
        /\ \A s \in inflight : s.step = "publish" /\ s.row = r.row => s = r

IInv ==
    /\ TypeOK
    /\ StillNoneRecent /\ InsertsAlone /\ StoredOutsideWindow
    /\ AnnouncesOwnRow /\ AnnouncedOnceAfterCommit
=============================================================================

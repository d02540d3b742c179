-------------------------- MODULE AttendanceProofs --------------------------
(***************************************************************************)
(* Proofs about Attendance for any number of users and handlers and any    *)
(* window.                                                                 *)
(***************************************************************************)
EXTENDS Attendance, SequenceTheorems, TLAPS

LEMMA RequestShape ==
    ASSUME NEW r \in Request
    PROVE  /\ r.id \in Req /\ r.todo \in List /\ r.at \in Time \cup {Now}
           /\ r.spoof \in BOOLEAN /\ r.held \in Loaded
           /\ r.step \in {"user", "find", "insert", "publish"}
           /\ r.step = "insert" => r.checked \in Time
           /\ r.step = "publish" => r.row \in RowId
BY DEF Request

LEMMA CurrentTyped == ASSUME NEW r \in Request PROVE Current(r) \in User
<1>1. r.todo \in Seq(User) /\ r.todo # <<>>
  BY RequestShape DEF List
<1>2. QED
  BY <1>1 DEF Current

LEMMA HoldingTyped == ASSUME TypeOK, NEW r \in Request PROVE Holding(r) \in Loaded
<1>1. r.held \in Loaded /\ Current(r) \in User
  BY RequestShape, CurrentTyped
<1>2. active[Current(r)] \in BOOLEAN
  BY <1>1 DEF TypeOK
<1>3. r.held \cup {<<Current(r), active[Current(r)]>>} \in Loaded
  BY <1>1, <1>2 DEF Loaded
<1>4. QED
  BY <1>1, <1>3 DEF Holding

LEMMA AtStepTyped ==
    ASSUME TypeOK, NEW r \in Request, NEW step \in {"user", "find"}
    PROVE  AtStep(r, step) \in Request
<1>1. /\ r.id \in Req /\ r.todo \in List /\ r.at \in Time \cup {Now} /\ r.spoof \in BOOLEAN
  BY RequestShape
<1>2. QED
  BY <1>1, HoldingTyped DEF AtStep, Request

\* The handler ends, or goes on to look for its next user.
LEMMA NextUserMoves ==
    ASSUME TypeOK, NEW r \in inflight, NextUser(r)
    PROVE  \A s \in inflight' : s \in inflight \/ (s \in Request /\ s.step = "user")
<1>1. r \in Request
  BY DEF TypeOK
<1>2. CASE Len(r.todo) = 1
  BY <1>2 DEF NextUser
<1>3. CASE Len(r.todo) # 1
  <2>1. r.todo \in Seq(User) /\ r.todo # <<>>
    BY <1>1, RequestShape DEF List
  <2>2. Tail(r.todo) \in List
    <3>1. Tail(r.todo) \in Seq(User) /\ Len(Tail(r.todo)) = Len(r.todo) - 1
      BY <2>1
    <3>2. Len(r.todo) \in Nat /\ Len(r.todo) # 0
      BY <2>1, EmptySeq
    <3>3. Len(Tail(r.todo)) # 0
      BY <1>3, <3>1, <3>2
    <3>4. Tail(r.todo) # <<>>
      <4>1. Len(<<>>) = 0
        BY EmptySeq
      <4>2. QED
        BY <3>3, <4>1, Zenon
    <3>5. QED
      BY <3>1, <3>4 DEF List
  <2>3. PICK t : t = [AtStep(r, "user") EXCEPT !.todo = Tail(@)]
    OBVIOUS
  <2>4. t = [id |-> r.id, step |-> "user", todo |-> Tail(r.todo), at |-> r.at,
             spoof |-> r.spoof, held |-> Holding(r)]
    BY <2>3 DEF AtStep
  <2>5. t \in Request /\ t.step = "user"
    BY <1>1, <2>2, <2>4, RequestShape, HoldingTyped DEF Request
  <2>6. inflight' = (inflight \ {r}) \cup {t}
    BY <1>3, <2>3 DEF NextUser, Proceed
  <2>7. QED
    BY <2>5, <2>6
<1>4. QED
  BY <1>2, <1>3

LEMMA NextUserTyped ==
    ASSUME TypeOK, NEW r \in inflight, NextUser(r)
    PROVE  inflight' \in SUBSET Request
BY NextUserMoves DEF TypeOK

\* A handler that arrives starts with its first user.
LEMMA ArrivalTyped ==
    ASSUME TypeOK, NEW i \in Req, Arrive(i)
    PROVE  /\ \A s \in inflight' : s \in inflight \/ (s \in Request /\ s.step = "user")
           /\ UNCHANGED <<now, active, attendance, events, raced>>
<1>1. ASSUME NEW us \in List, NEW at \in Time \cup {Now}, NEW spoof \in BOOLEAN,
             NEW held \in Loaded,
             Begin([id |-> i, step |-> "user", todo |-> us, at |-> at, spoof |-> spoof,
                    held |-> held])
      PROVE  \A s \in inflight' : s \in inflight \/ (s \in Request /\ s.step = "user")
  BY <1>1 DEF Begin, Request
<1>2. ASSUME NEW u \in User, RecognizeMark(i, u)
      PROVE  \A s \in inflight' : s \in inflight \/ (s \in Request /\ s.step = "user")
  <2>1. <<u>> \in List /\ {} \in Loaded
    BY DEF List, Loaded
  <2>2. QED
    BY <1>1, <1>2, <2>1 DEF RecognizeMark
<1>3. ASSUME NEW u \in User, NEW spoof \in BOOLEAN, MarkEndpoint(i, u, spoof)
      PROVE  \A s \in inflight' : s \in inflight \/ (s \in Request /\ s.step = "user")
  <2>1. <<u>> \in List /\ {} \in Loaded
    BY DEF List, Loaded
  <2>2. QED
    BY <1>1, <1>3, <2>1 DEF MarkEndpoint
<1>4. ASSUME NEW us \in Lists, NEW at \in Stamp, NEW held \in Administrators,
             ManualMark(i, us, at, held)
      PROVE  \A s \in inflight' : s \in inflight \/ (s \in Request /\ s.step = "user")
  <2>1. us \in List
    <3>1. PICK n \in 1 .. 2 : us \in [1 .. n -> User]
      BY DEF Lists
    <3>2. us \in Seq(User)
      BY <3>1, SeqDef
    <3>3. Len(us) = n
      BY <3>1, <3>2, LenProperties
    <3>4. QED
      BY <3>1, <3>2, <3>3, EmptySeq DEF List
  <2>2. at \in Time
    BY AttendanceAssumption DEF Time
  <2>3. held \in Loaded
    <3>1. CASE held = {}
      BY <3>1 DEF Loaded
    <3>2. ASSUME NEW u \in User, held = {<<u, TRUE>>} PROVE held \in Loaded
      <4>1. <<u, TRUE>> \in User \X BOOLEAN
        OBVIOUS
      <4>2. {<<u, TRUE>>} \subseteq User \X BOOLEAN
        BY <4>1, Zenon
      <4>3. QED
        BY <3>2, <4>2 DEF Loaded
    <3>3. QED
      BY <3>1, <3>2 DEF Administrators
  <2>4. QED
    BY <1>1, <1>4, <2>1, <2>2, <2>3 DEF ManualMark
<1>5. QED
  BY <1>2, <1>3, <1>4 DEF Arrive, RecognizeMark, MarkEndpoint, ManualMark

LEMMA TypeStep == TypeOK /\ [Next]_vars => TypeOK'
<1> SUFFICES ASSUME TypeOK, [Next]_vars PROVE TypeOK'
  OBVIOUS
<1> USE DEF TypeOK
<1>1. ASSUME NEW i \in Req, Arrive(i) PROVE TypeOK'
  BY <1>1, ArrivalTyped
<1>2. ASSUME NEW r \in inflight, FindUser(r) PROVE TypeOK'
  <2>1. r \in Request
    OBVIOUS
  <2>2. CASE Proceed(r, AtStep(r, "find"))
    BY <1>2, <2>1, <2>2, AtStepTyped DEF FindUser, Proceed
  <2>3. CASE NextUser(r)
    BY <1>2, <2>3, NextUserTyped DEF FindUser
  <2>4. QED
    BY <1>2, <2>2, <2>3 DEF FindUser
<1>3. ASSUME NEW r \in inflight, FindRecent(r) PROVE TypeOK'
  <2>1. r \in Request
    OBVIOUS
  <2>2. CASE NextUser(r) /\ UNCHANGED raced
    BY <1>3, <2>2, NextUserTyped DEF FindRecent
  <2>3. CASE /\ Proceed(r, [id |-> r.id, step |-> "insert", todo |-> r.todo,
                            at |-> r.at, spoof |-> r.spoof, held |-> r.held, checked |-> now])
             /\ raced' = IF Racing(r) THEN raced \cup {Current(r)} ELSE raced
    <3>1. [id |-> r.id, step |-> "insert", todo |-> r.todo, at |-> r.at,
           spoof |-> r.spoof, held |-> r.held, checked |-> now] \in Request
      BY <2>1, RequestShape DEF Request
    <3>2. raced' \in SUBSET User
      BY <2>1, <2>3, CurrentTyped
    <3>3. QED
      BY <1>3, <2>3, <3>1, <3>2 DEF FindRecent, Proceed
  <2>4. QED
    BY <1>3, <2>2, <2>3 DEF FindRecent
<1>4. ASSUME NEW r \in inflight, InsertRow(r) PROVE TypeOK'
  <2>1. r \in Request /\ r.checked \in Time /\ Current(r) \in User
    BY <1>4, RequestShape, CurrentTyped DEF InsertRow
  <2>2. [user |-> Current(r), at |-> IF r.at = Now THEN r.checked ELSE r.at,
         checked |-> r.checked, spoof |-> r.spoof] \in Row
    BY <2>1, RequestShape DEF Row
  <2>3. attendance' \in Seq(Row)
    BY <1>4, <2>2 DEF InsertRow
  <2>4. Len(attendance) + 1 \in RowId
    BY <1>4, AttendanceAssumption DEF InsertRow, RowId
  <2>5. [id |-> r.id, step |-> "publish", todo |-> r.todo, at |-> r.at,
         spoof |-> r.spoof, held |-> r.held, row |-> Len(attendance) + 1] \in Request
    BY <2>1, <2>4, RequestShape DEF Request
  <2>6. QED
    BY <1>4, <2>3, <2>5 DEF InsertRow, Proceed
<1>5. ASSUME NEW r \in inflight, Publish(r) PROVE TypeOK'
  <2>1. r.row \in RowId
    BY <1>5, RequestShape DEF Publish
  <2>2. QED
    BY <1>5, <2>1, NextUserTyped DEF Publish
<1>6. ASSUME NEW r \in inflight, Fail(r) PROVE TypeOK'
  BY <1>6 DEF Fail
<1>7. ASSUME NEW u \in User, NEW b \in BOOLEAN, SetUserActive(u, b) PROVE TypeOK'
  BY <1>7 DEF SetUserActive
<1>8. CASE Tick
  BY <1>8, AttendanceAssumption DEF Tick, Time
<1>9. CASE UNCHANGED vars
  BY <1>9 DEF vars
<1>10. QED
  BY <1>1, <1>2, <1>3, <1>4, <1>5, <1>6, <1>7, <1>8, <1>9 DEF Next, Run

-----------------------------------------------------------------------------
(***************************************************************************)
(* Who is about to insert, and what it found.                              *)
(***************************************************************************)
Deduplicates == StillNoneRecent /\ InsertsAlone /\ StoredOutsideWindow

\* Steps that store nothing, start no insert and forget no race.
LEMMA NoInsertKeepsDeduplicates ==
    ASSUME Deduplicates, UNCHANGED <<attendance, raced>>,
           \A s \in inflight' : s \in inflight \/ s.step # "insert"
    PROVE  Deduplicates'
<1>1. StillNoneRecent'
  BY DEF Deduplicates, StillNoneRecent, Current
<1>2. InsertsAlone'
  BY DEF Deduplicates, InsertsAlone, Current
<1>3. StoredOutsideWindow'
  BY DEF Deduplicates, StoredOutsideWindow
<1>4. QED
  BY <1>1, <1>2, <1>3 DEF Deduplicates

LEMMA DeduplicatesStep == TypeOK /\ Deduplicates /\ [Next]_vars => Deduplicates'
<1> SUFFICES ASSUME TypeOK, Deduplicates, [Next]_vars PROVE Deduplicates'
  OBVIOUS
<1>1. ASSUME NEW i \in Req, Arrive(i) PROVE Deduplicates'
  BY <1>1, ArrivalTyped, NoInsertKeepsDeduplicates
<1>2. ASSUME NEW r \in inflight, FindUser(r) PROVE Deduplicates'
  <2>1. \A s \in inflight' : s \in inflight \/ s.step # "insert"
    <3>1. CASE NextUser(r)
      BY <3>1, NextUserMoves
    <3>2. CASE Proceed(r, AtStep(r, "find"))
      BY <3>2 DEF Proceed, AtStep
    <3>3. QED
      BY <1>2, <3>1, <3>2 DEF FindUser
  <2>2. QED
    BY <1>2, <2>1, NoInsertKeepsDeduplicates DEF FindUser
<1>3. ASSUME NEW r \in inflight, FindRecent(r) PROVE Deduplicates'
  <2>1. CASE NextUser(r) /\ UNCHANGED raced
    <3>1. \A s \in inflight' : s \in inflight \/ s.step # "insert"
      BY <2>1, NextUserMoves
    <3>2. QED
      BY <1>3, <2>1, <3>1, NoInsertKeepsDeduplicates DEF FindRecent
  <2>2. CASE ~ (NextUser(r) /\ UNCHANGED raced)
    <3>1. /\ r.step = "find"
          /\ r.spoof \/ ~ (Window > 0) \/ ~ HasRecent(Current(r))
          /\ raced' = IF Racing(r) THEN raced \cup {Current(r)} ELSE raced
          /\ attendance' = attendance
      BY <1>3, <2>2 DEF FindRecent
    <3>2. PICK t : t = [id |-> r.id, step |-> "insert", todo |-> r.todo,
                        at |-> r.at, spoof |-> r.spoof, held |-> r.held, checked |-> now]
      OBVIOUS
    <3>3. inflight' = (inflight \ {r}) \cup {t}
      BY <1>3, <2>2, <3>2 DEF FindRecent, Proceed
    <3>4. t.spoof = r.spoof /\ t.checked = now /\ Current(t) = Current(r)
      BY <3>2 DEF Current
    <3>5. \A u : u \notin raced' => u \notin raced
      BY <3>1
    <3>6. ASSUME NEW s \in inflight, s # r, s.step = "insert", ~ s.spoof,
                 Current(s) = Current(r)
          PROVE  Current(r) \in raced'
      BY <3>1, <3>6 DEF Racing
    <3>7. StillNoneRecent'
      <4> SUFFICES ASSUME NEW s \in inflight', s.step = "insert", ~ s.spoof,
                          Current(s) \notin raced', NEW k \in DOMAIN attendance, Window > 0,
                          attendance[k].user = Current(s), ~ attendance[k].spoof
                   PROVE  attendance[k].at + Window < s.checked
        BY <3>1 DEF StillNoneRecent, Current
      <4>1. CASE s = t
        <5>1. ~ HasRecent(Current(r))
          BY <3>1, <3>4, <4>1
        <5>2. ~ (attendance[k].at + Window >= now)
          BY <3>4, <4>1, <5>1 DEF HasRecent, IsRecent
        <5>3. attendance[k].at \in Nat /\ now \in Nat /\ Window \in Nat
          <6>1. attendance[k] \in Row
            BY DEF TypeOK
          <6>2. QED
            BY <6>1, AttendanceAssumption DEF TypeOK, Row, Time
        <5>4. QED
          BY <3>4, <4>1, <5>2, <5>3
      <4>2. CASE s \in inflight
        BY <3>5, <4>2 DEF Deduplicates, StillNoneRecent
      <4>3. QED
        BY <3>3, <4>1, <4>2
    <3>8. InsertsAlone'
      <4> SUFFICES ASSUME NEW x \in inflight', NEW y \in inflight',
                          x.step = "insert", ~ x.spoof, y.step = "insert", ~ y.spoof,
                          Current(x) = Current(y), Current(x) \notin raced'
                   PROVE  x = y
        BY DEF InsertsAlone, Current
      <4>1. CASE x \in inflight /\ y \in inflight
        BY <3>5, <4>1 DEF Deduplicates, InsertsAlone
      <4>2. CASE x = t /\ y # t
        BY <3>1, <3>3, <3>4, <3>6, <4>2
      <4>3. CASE y = t /\ x # t
        BY <3>1, <3>3, <3>4, <3>6, <4>3
      <4>4. QED
        BY <3>3, <4>1, <4>2, <4>3
    <3>9. StoredOutsideWindow'
      BY <3>1, <3>5 DEF Deduplicates, StoredOutsideWindow
    <3>10. QED
      BY <3>7, <3>8, <3>9 DEF Deduplicates
  <2>3. QED
    BY <2>1, <2>2
<1>4. ASSUME NEW r \in inflight, InsertRow(r) PROVE Deduplicates'
  <2>1. PICK row : row = [user |-> Current(r), at |-> IF r.at = Now THEN r.checked ELSE r.at,
                          checked |-> r.checked, spoof |-> r.spoof]
    OBVIOUS
  <2>2. r \in Request /\ r.step = "insert"
    BY <1>4 DEF InsertRow, TypeOK
  <2>3. row \in Row
    BY <2>1, <2>2, RequestShape, CurrentTyped DEF Row
  <2>4. attendance' = Append(attendance, row) /\ attendance \in Seq(Row)
    BY <1>4, <2>1 DEF InsertRow, TypeOK
  <2>5. /\ DOMAIN attendance' = 1 .. Len(attendance) + 1
        /\ DOMAIN attendance = 1 .. Len(attendance) /\ Len(attendance) \in Nat
        /\ \A k \in 1 .. Len(attendance) : attendance'[k] = attendance[k]
        /\ attendance'[Len(attendance) + 1] = row
    BY <2>3, <2>4
  <2>6. raced' = raced /\ \A s \in inflight' : s.step = "insert" => s \in inflight /\ s # r
    BY <1>4 DEF InsertRow, Proceed
  <2>7. row.user = Current(r) /\ row.checked = r.checked /\ row.spoof = r.spoof
    BY <2>1
  <2>8. StillNoneRecent'
    <3> SUFFICES ASSUME NEW s \in inflight', s.step = "insert", ~ s.spoof,
                        Current(s) \notin raced, NEW k \in DOMAIN attendance', Window > 0,
                        attendance'[k].user = Current(s), ~ attendance'[k].spoof
                 PROVE  attendance'[k].at + Window < s.checked
      BY <2>6 DEF StillNoneRecent, Current
    <3>1. k # Len(attendance) + 1
      <4>1. ~ (Current(s) = Current(r) /\ ~ r.spoof)
        BY <2>2, <2>6 DEF Deduplicates, InsertsAlone
      <4>2. QED
        BY <2>5, <2>7, <4>1
    <3>2. k \in DOMAIN attendance /\ attendance'[k] = attendance[k]
      BY <2>5, <3>1
    <3>3. QED
      BY <2>6, <3>2 DEF Deduplicates, StillNoneRecent
  <2>9. InsertsAlone'
    BY <2>6 DEF Deduplicates, InsertsAlone, Current
  <2>10. StoredOutsideWindow'
    <3> SUFFICES ASSUME NEW k \in DOMAIN attendance', NEW j \in 1 .. (k - 1), Window > 0,
                        attendance'[j].user = attendance'[k].user,
                        attendance'[k].user \notin raced,
                        ~ attendance'[j].spoof, ~ attendance'[k].spoof
                 PROVE  attendance'[j].at + Window < attendance'[k].checked
      BY <2>6 DEF StoredOutsideWindow
    <3>1. j \in DOMAIN attendance /\ attendance'[j] = attendance[j]
      BY <2>5
    <3>2. CASE k \in DOMAIN attendance
      BY <2>5, <3>1, <3>2 DEF Deduplicates, StoredOutsideWindow
    <3>3. CASE k = Len(attendance) + 1
      BY <2>2, <2>5, <2>7, <3>1, <3>3 DEF Deduplicates, StillNoneRecent
    <3>4. QED
      BY <2>5, <3>2, <3>3
  <2>11. QED
    BY <2>8, <2>9, <2>10 DEF Deduplicates
<1>5. ASSUME NEW r \in inflight, Publish(r) PROVE Deduplicates'
  <2>1. \A s \in inflight' : s \in inflight \/ s.step # "insert"
    BY <1>5, NextUserMoves DEF Publish
  <2>2. QED
    BY <1>5, <2>1, NoInsertKeepsDeduplicates DEF Publish
<1>6. ASSUME NEW r \in inflight, Fail(r) PROVE Deduplicates'
  BY <1>6, NoInsertKeepsDeduplicates DEF Fail
<1>7. ASSUME NEW u \in User, NEW b \in BOOLEAN, SetUserActive(u, b) PROVE Deduplicates'
  BY <1>7, NoInsertKeepsDeduplicates DEF SetUserActive
<1>8. CASE Tick
  BY <1>8, NoInsertKeepsDeduplicates DEF Tick
<1>9. CASE UNCHANGED vars
  BY <1>9, NoInsertKeepsDeduplicates DEF vars
<1>10. QED
  BY <1>1, <1>2, <1>3, <1>4, <1>5, <1>6, <1>7, <1>8, <1>9 DEF Next, Run

-----------------------------------------------------------------------------
(***************************************************************************)
(* The announcements.                                                      *)
(***************************************************************************)
Announces == AnnouncesOwnRow /\ AnnouncedOnceAfterCommit

LEMMA NoPublishKeepsAnnounces ==
    ASSUME Announces, UNCHANGED <<attendance, events>>,
           \A s \in inflight' : s \in inflight \/ s.step # "publish"
    PROVE  Announces'
BY DEF Announces, AnnouncesOwnRow, AnnouncedOnceAfterCommit

LEMMA AnnouncesStep == TypeOK /\ Announces /\ [Next]_vars => Announces'
<1> SUFFICES ASSUME TypeOK, Announces, [Next]_vars PROVE Announces'
  OBVIOUS
<1>1. ASSUME NEW i \in Req, Arrive(i) PROVE Announces'
  BY <1>1, ArrivalTyped, NoPublishKeepsAnnounces
<1>2. ASSUME NEW r \in inflight, FindUser(r) \/ FindRecent(r) PROVE Announces'
  <2>1. \A s \in inflight' : s \in inflight \/ s.step # "publish"
    <3>1. CASE NextUser(r)
      BY <3>1, NextUserMoves
    <3>2. CASE Proceed(r, AtStep(r, "find"))
      BY <3>2 DEF Proceed, AtStep
    <3>3. CASE Proceed(r, [id |-> r.id, step |-> "insert", todo |-> r.todo,
                           at |-> r.at, spoof |-> r.spoof, held |-> r.held, checked |-> now])
      BY <3>3 DEF Proceed
    <3>4. QED
      BY <1>2, <3>1, <3>2, <3>3 DEF FindUser, FindRecent
  <2>2. QED
    BY <1>2, <2>1, NoPublishKeepsAnnounces DEF FindUser, FindRecent
<1>3. ASSUME NEW r \in inflight, InsertRow(r) PROVE Announces'
  <2>1. PICK t : /\ t.step = "publish" /\ t.row = Len(attendance) + 1
                 /\ inflight' = (inflight \ {r}) \cup {t}
    BY <1>3 DEF InsertRow, Proceed
  <2>2. PICK row : attendance' = Append(attendance, row)
    BY <1>3 DEF InsertRow
  <2>3. /\ DOMAIN attendance = 1 .. Len(attendance) /\ Len(attendance) \in Nat
        /\ DOMAIN attendance' = 1 .. Len(attendance) + 1
    BY <2>2 DEF TypeOK
  <2>4. events' = events
    BY <1>3 DEF InsertRow
  <2>5. QED
    BY <2>1, <2>3, <2>4 DEF Announces, AnnouncesOwnRow, AnnouncedOnceAfterCommit
<1>4. ASSUME NEW r \in inflight, Publish(r) PROVE Announces'
  <2>1. \A s \in inflight' : s.step = "publish" => s \in inflight /\ s # r
    <3>1. CASE Len(r.todo) = 1
      BY <1>4, <3>1 DEF Publish, NextUser
    <3>2. CASE Len(r.todo) # 1
      BY <1>4, <3>2 DEF Publish, NextUser, Proceed, AtStep
    <3>3. QED
      BY <3>1, <3>2
  <2>2. r.step = "publish" /\ r.row \in RowId
    BY <1>4, RequestShape DEF Publish, TypeOK
  <2>3. events \in Seq(RowId) /\ events' = Append(events, r.row) /\ attendance' = attendance
    BY <1>4 DEF Publish, TypeOK
  <2>4. /\ DOMAIN events = 1 .. Len(events) /\ Len(events) \in Nat
        /\ DOMAIN events' = 1 .. Len(events) + 1
        /\ \A k \in 1 .. Len(events) : events'[k] = events[k]
        /\ events'[Len(events) + 1] = r.row
    BY <2>2, <2>3
  <2>5. AnnouncesOwnRow'
    <3> SUFFICES ASSUME NEW s \in inflight', s.step = "publish"
                 PROVE  /\ s.row \in DOMAIN attendance
                        /\ \A k \in DOMAIN events' : events'[k] # s.row
                        /\ \A x \in inflight' : x.step = "publish" /\ x.row = s.row => x = s
      BY <2>3 DEF AnnouncesOwnRow
    <3>1. s \in inflight /\ s # r
      BY <2>1
    <3>2. s.row # r.row
      BY <2>2, <3>1 DEF Announces, AnnouncesOwnRow
    <3>3. QED
      BY <2>1, <2>4, <3>1, <3>2 DEF Announces, AnnouncesOwnRow
  <2>6. AnnouncedOnceAfterCommit'
    <3>1. r.row \in DOMAIN attendance /\ \A k \in DOMAIN events : events[k] # r.row
      BY <2>2 DEF Announces, AnnouncesOwnRow
    <3>2. QED
      BY <2>3, <2>4, <3>1 DEF Announces, AnnouncedOnceAfterCommit
  <2>7. QED
    BY <2>5, <2>6 DEF Announces
<1>5. ASSUME NEW r \in inflight, Fail(r) PROVE Announces'
  BY <1>5, NoPublishKeepsAnnounces DEF Fail
<1>6. ASSUME NEW u \in User, NEW b \in BOOLEAN, SetUserActive(u, b) PROVE Announces'
  BY <1>6, NoPublishKeepsAnnounces DEF SetUserActive
<1>7. CASE Tick
  BY <1>7, NoPublishKeepsAnnounces DEF Tick
<1>8. CASE UNCHANGED vars
  BY <1>8, NoPublishKeepsAnnounces DEF vars
<1>9. QED
  BY <1>1, <1>2, <1>3, <1>4, <1>5, <1>6, <1>7, <1>8 DEF Next, Run

-----------------------------------------------------------------------------
LEMMA InitHolds == Init => IInv
<1> SUFFICES ASSUME Init PROVE IInv
  OBVIOUS
<1>1. TypeOK
  BY AttendanceAssumption DEF Init, TypeOK, Time
<1>2. DOMAIN attendance = {} /\ DOMAIN events = {} /\ inflight = {}
  BY DEF Init
<1>3. QED
  BY <1>1, <1>2 DEF IInv, StillNoneRecent, InsertsAlone, StoredOutsideWindow,
     AnnouncesOwnRow, AnnouncedOnceAfterCommit

\* The inductive invariant of marking: what a handler found before it inserts is
\* still so, and each row is announced by the handler that stored it
\* (services/attendance_service.py:42-118).
THEOREM InvariantHolds == Spec => []IInv
<1>1. IInv /\ [Next]_vars => IInv'
  BY TypeStep, DeduplicatesStep, AnnouncesStep DEF IInv, Deduplicates, Announces
<1>2. QED
  BY InitHolds, <1>1, PTL DEF Spec

\* Without an overlap of lookup and insert, no two genuine rows of a user lie in
\* one window, for any number of handlers and users, any window and any
\* timestamps an administrator sends (attendance_service.py:66-90).
THEOREM NoRowInWindow == Spec => []StoredOutsideWindow
<1>1. IInv => StoredOutsideWindow
  BY DEF IInv
<1>2. QED
  BY InvariantHolds, <1>1, PTL

\* The feed never announces a row that is not committed, nor a row twice
\* (attendance_service.py:90, 106-117).
THEOREM AnnouncedOnce == Spec => []AnnouncedOnceAfterCommit
<1>1. IInv => AnnouncedOnceAfterCommit
  BY DEF IInv
<1>2. QED
  BY InvariantHolds, <1>1, PTL
=============================================================================

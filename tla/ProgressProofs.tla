--------------------------- MODULE ProgressProofs ---------------------------
(***************************************************************************)
(* Proofs about UserDirectory and TrainingJobs, in the system that         *)
(* Progress composes, for any constants that its assumption admits, and    *)
(* with FeedProofs the invariant of the whole system.                      *)
(***************************************************************************)
EXTENDS FeedProofs, SequenceTheorems, FiniteSetTheorems

\* One part moves and the others stay: each component takes its own steps only.
LEMMA PartsMove == [Next]_vars => [Users!Next]_(Users!vars) /\ [Jobs!Next]_(Jobs!vars)
BY DEF Next, FeedStep, JobStep, UserStep, vars, userVars, Users!vars, jobVars, Jobs!vars

-----------------------------------------------------------------------------
(***************************************************************************)
(* UserDirectory.                                                          *)
(***************************************************************************)

\* An instance names the operators of the modules it extends anew.
LEMMA SameSets ==
    \A S : /\ Users!Cardinality(S) = Cardinality(S) /\ (Users!IsFiniteSet(S) <=> IsFiniteSet(S))
          /\ Jobs!Cardinality(S) = Cardinality(S)
BY DEF Users!Cardinality, Cardinality, Users!IsFiniteSet, IsFiniteSet, Jobs!Cardinality

LEMMA UserHandlerShape ==
    ASSUME Users!TypeOK, NEW h \in Handler
    PROVE  /\ handler[h].at \in {"idle", "count", "find", "insert", "rows", "rename"}
           /\ handler[h].at = "idle" <=> handler[h] = Users!Idle
           /\ handler[h].at = "rows" => handler[h] \in Users!ImportState
           /\ handler[h].at \in {"find", "insert"} =>
                handler[h].id \in Users!Id /\ handler[h].limit \in 1 .. MaxUsers
           /\ handler[h].at = "count" => handler[h].limit \in 1 .. MaxUsers
           /\ handler[h].at = "rename" => handler[h].old \in Raw /\ handler[h].id \in Raw
<1>1. handler[h] \in Users!HandlerState
  BY DEF Users!TypeOK
<1>2. QED
  BY <1>1 DEF Users!HandlerState, Users!ImportState, Users!Idle

LEMMA UserGoes ==
    ASSUME Users!TypeOK, NEW h \in Handler, NEW what \in Users!HandlerState,
           Users!Goes(h, what)
    PROVE  /\ handler' \in [Handler -> Users!HandlerState]
           /\ \A g \in Handler : handler'[g] = IF g = h THEN what ELSE handler[g]
BY DEF Users!TypeOK, Users!Goes

LEMMA CountIsNatural ==
    ASSUME Users!TypeOK PROVE Cardinality(stored) \in Nat /\ Users!Count \in Nat
<1>1. Cardinality(stored) \in Nat /\ blank \in Nat
  BY FS_CardinalityType, SameSets DEF Users!TypeOK
<1>2. QED
  BY <1>1, SameSets DEF Users!Count

\* What a handler that goes on must see to.
Accounted(r) ==
    r.at = "rows" =>
      /\ Len(r.todo) + r.imported + r.failed = r.size
      /\ IsFiniteSet(r.mine) /\ Cardinality(r.mine) + r.blanks = r.imported
      /\ r.imported <= r.slots
Apart(h, r) ==
    r.at = "rows" =>
      /\ r.mine \cap stored = {}
      /\ \A x \in Handler : x # h /\ Users!Importing(x) => r.mine \cap handler[x].mine = {}
Fresh(r) ==
    /\ r.at = "rows" /\ r.slots > 0 => Users!Count + r.slots = r.limit
    /\ r.at \in {"find", "insert"} => Users!Count < r.limit

LEMMA GoesOnKeeps ==
    ASSUME Users!IInv, NEW h \in Handler, NEW what \in Users!HandlerState,
           Users!Goes(h, what), UNCHANGED <<limit, stored, blank, stale>>,
           Accounted(what), Apart(h, what), h \notin stale => Fresh(what),
           h \in stale => what.at \in {"rows", "find", "insert"}
    PROVE  Users!IInv'
<1> USE DEF Users!IInv, Users!Importing
<1>1. /\ handler' \in [Handler -> Users!HandlerState]
      /\ \A g \in Handler : handler'[g] = IF g = h THEN what ELSE handler[g]
  BY UserGoes
<1>2. Users!TypeOK'
  <2>1. stale \subseteq Users!Counted'
    BY <1>1 DEF Users!TypeOK, Users!Counted, Users!Idle
  <2>2. QED
    BY <1>1, <2>1 DEF Users!TypeOK
<1>3. Users!RowsAreCounted'
  <2> SUFFICES ASSUME NEW g \in Handler, handler'[g].at = "rows" PROVE Accounted(handler'[g])
    BY SameSets DEF Users!RowsAreCounted, Accounted
  <2>1. CASE g = h
    BY <1>1, <2>1
  <2>2. CASE g # h
    BY <1>1, <2>2, SameSets DEF Users!RowsAreCounted, Accounted
  <2>3. QED
    BY <2>1, <2>2
<1>4. Users!InsertsApart'
  BY <1>1 DEF Users!InsertsApart, Apart
<1>5. Users!FreshCounts'
  <2> SUFFICES ASSUME NEW g \in Handler, g \notin stale,
                      handler'[g].at \in {"find", "insert", "rows"}
               PROVE  IF handler'[g].at = "rows"
                        THEN handler'[g].slots > 0 => Users!Count + handler'[g].slots = handler'[g].limit
                        ELSE Users!Count < handler'[g].limit
    BY DEF Users!FreshCounts, Users!Counted, Users!Count
  <2>1. CASE g = h
    <3>1. handler'[g] = what
      BY <1>1, <2>1
    <3>2. what.at \in {"rows", "find", "insert"}
      BY <3>1 DEF Users!HandlerState, Users!ImportState, Users!Idle
    <3>3. QED
      BY <2>1, <3>1, <3>2 DEF Fresh
  <2>2. CASE g # h
    BY <1>1, <2>2 DEF Users!FreshCounts, Users!Counted
  <2>3. QED
    BY <2>1, <2>2
<1>6. QED
  BY <1>2, <1>3, <1>4, <1>5

LEMMA EndKeeps ==
    ASSUME Users!IInv, NEW h \in Handler, Users!Ends(h), limit' = limit,
           stored' \subseteq Raw, IsFiniteSet(stored'), blank' \in Nat,
           \A x \in Handler : x # h /\ Users!Importing(x) => handler[x].mine \cap stored' = {}
    PROVE  Users!IInv'
<1> USE DEF Users!IInv, Users!Importing
<1>1. /\ handler' \in [Handler -> Users!HandlerState]
      /\ \A g \in Handler : handler'[g] = IF g = h THEN Users!Idle ELSE handler[g]
  BY UserGoes DEF Users!Ends, Users!HandlerState
<1>2. /\ stale' = (IF stored' # stored \/ blank' # blank
                     THEN stale \cup Users!Counted ELSE stale) \ {h}
      /\ Users!Idle.at = "idle"
  BY DEF Users!Ends, Users!Idle
<1>3. Users!TypeOK'
  <2>1. stale' \subseteq Users!Counted'
    BY <1>1, <1>2 DEF Users!TypeOK, Users!Counted
  <2>2. limit' \in 1 .. MaxUsers /\ Users!HandlerState' = Users!HandlerState
    BY DEF Users!TypeOK, Users!HandlerState, Users!ImportState
  <2>3. QED
    BY <1>1, <2>1, <2>2, SameSets DEF Users!TypeOK
<1>4. Users!RowsAreCounted'
  BY <1>1, <1>2 DEF Users!RowsAreCounted
<1>5. Users!InsertsApart'
  BY <1>1, <1>2 DEF Users!InsertsApart
<1>6. Users!FreshCounts'
  <2> SUFFICES ASSUME NEW g \in Handler, g \notin stale',
                      handler'[g].at \in {"find", "insert", "rows"}
               PROVE  IF handler'[g].at = "rows"
                        THEN handler'[g].slots > 0 => Users!Count' + handler'[g].slots = handler'[g].limit
                        ELSE Users!Count' < handler'[g].limit
    BY DEF Users!FreshCounts, Users!Counted
  <2>1. g # h /\ handler'[g] = handler[g] /\ g \in Users!Counted
    BY <1>1, <1>2 DEF Users!Counted
  <2>2. stored' = stored /\ blank' = blank /\ g \notin stale
    BY <1>2, <2>1
  <2>3. QED
    BY <2>1, <2>2 DEF Users!FreshCounts, Users!Count
<1>7. QED
  BY <1>3, <1>4, <1>5, <1>6

LEMMA InsertKeeps ==
    ASSUME Users!IInv, NEW h \in Handler, Users!Insert(h)
    PROVE  Users!IInv'
<1>1. /\ handler[h].at = "insert" /\ handler[h].id \in Users!Id
      /\ handler[h].id \notin stored /\ Users!Holders(handler[h].id) = {}
      /\ Users!Ends(h) /\ limit' = limit
      /\ stored' = IF handler[h].id = NoId THEN stored ELSE stored \cup {handler[h].id}
      /\ blank'  = IF handler[h].id = NoId THEN blank + 1 ELSE blank
  BY UserHandlerShape DEF Users!Insert, Users!IInv
<1>2. stored' \subseteq Raw /\ blank' \in Nat
  BY <1>1 DEF Users!IInv, Users!TypeOK, Users!Id
<1>3. IsFiniteSet(stored')
  BY <1>1, FS_AddElement, SameSets DEF Users!IInv, Users!TypeOK
<1>4. \A x \in Handler : x # h /\ Users!Importing(x) => handler[x].mine \cap stored' = {}
  BY <1>1 DEF Users!IInv, Users!InsertsApart, Users!Holders
<1>5. QED
  BY <1>1, <1>2, <1>3, <1>4, EndKeeps

LEMMA CommitKeeps ==
    ASSUME Users!IInv, NEW h \in Handler, Users!ImportCommit(h)
    PROVE  Users!IInv'
<1>1. /\ Users!Importing(h) /\ handler[h] \in Users!ImportState /\ IsFiniteSet(handler[h].mine)
      /\ Users!Ends(h) /\ limit' = limit
      /\ stored' = stored \cup handler[h].mine /\ blank' = blank + handler[h].blanks
  BY UserHandlerShape, SameSets DEF Users!ImportCommit, Users!IInv, Users!Importing, Users!RowsAreCounted
<1>2. handler[h].mine \subseteq Raw /\ handler[h].blanks \in Nat
  BY <1>1 DEF Users!ImportState
<1>3. stored' \subseteq Raw /\ blank' \in Nat
  BY <1>1, <1>2 DEF Users!IInv, Users!TypeOK
<1>4. IsFiniteSet(stored')
  BY <1>1, FS_Union, SameSets DEF Users!IInv, Users!TypeOK
<1>5. \A x \in Handler : x # h /\ Users!Importing(x) => handler[x].mine \cap stored' = {}
  BY <1>1 DEF Users!IInv, Users!InsertsApart
<1>6. QED
  BY <1>1, <1>3, <1>4, <1>5, EndKeeps

LEMMA FailKeeps ==
    ASSUME Users!IInv, NEW h \in Handler, Users!Fail(h)
    PROVE  Users!IInv'
<1>1. Users!Ends(h) /\ UNCHANGED <<limit, stored, blank>>
  BY DEF Users!Fail, Users!Ends
<1>2. \A x \in Handler : x # h /\ Users!Importing(x) => handler[x].mine \cap stored' = {}
  BY <1>1 DEF Users!IInv, Users!InsertsApart
<1>3. QED
  BY <1>1, <1>2, EndKeeps, SameSets DEF Users!IInv, Users!TypeOK

\* A rename leaves as many users as there were.
LEMMA RenameKeepsCount ==
    ASSUME Users!TypeOK, NEW h \in Handler, Users!RenameCommit(h)
    PROVE  IsFiniteSet(stored') /\ Users!Count' = Users!Count
<1>1. /\ handler[h].old \in stored /\ handler[h].id \notin stored /\ blank' = blank
      /\ stored' = (stored \ {handler[h].old}) \cup {handler[h].id}
      /\ IsFiniteSet(stored)
  BY SameSets DEF Users!RenameCommit, Users!TypeOK
<1>2. PICK rest : rest = stored \ {handler[h].old}
  OBVIOUS
<1>3. IsFiniteSet(rest) /\ Cardinality(rest) = Cardinality(stored) - 1
  BY <1>1, <1>2, FS_RemoveElement
<1>4. handler[h].id \notin rest /\ stored' = rest \cup {handler[h].id}
  BY <1>1, <1>2
<1>5. IsFiniteSet(stored') /\ Cardinality(stored') = Cardinality(rest) + 1
  BY <1>3, <1>4, FS_AddElement
<1>6. Cardinality(stored') = Cardinality(stored)
  BY <1>3, <1>5, CountIsNatural
<1>7. QED
  BY <1>1, <1>5, <1>6, SameSets DEF Users!Count

LEMMA RenameKeeps ==
    ASSUME Users!IInv, NEW h \in Handler, Users!RenameCommit(h)
    PROVE  Users!IInv'
<1> USE DEF Users!IInv, Users!Importing
<1>1. /\ handler[h].at = "rename" /\ handler[h].id \in Raw
      /\ Users!Holders(handler[h].id) = {} /\ UNCHANGED <<limit, blank, stale>>
      /\ stored' = (stored \ {handler[h].old}) \cup {handler[h].id}
  BY UserHandlerShape DEF Users!RenameCommit
<1>2. /\ handler' \in [Handler -> Users!HandlerState]
      /\ \A g \in Handler : handler'[g] = IF g = h THEN Users!Idle ELSE handler[g]
      /\ Users!Idle.at = "idle"
  BY UserGoes DEF Users!RenameCommit, Users!HandlerState, Users!Idle
<1>3. IsFiniteSet(stored') /\ Users!Count' = Users!Count
  BY RenameKeepsCount
<1>4. Users!TypeOK'
  <2>1. stale \subseteq Users!Counted' /\ stored' \subseteq Raw
    BY <1>1, <1>2 DEF Users!TypeOK, Users!Counted
  <2>2. QED
    BY <1>1, <1>2, <1>3, <2>1, SameSets DEF Users!TypeOK
<1>5. Users!RowsAreCounted'
  BY <1>1, <1>2 DEF Users!RowsAreCounted
<1>6. Users!InsertsApart'
  BY <1>1, <1>2 DEF Users!InsertsApart, Users!Holders
<1>7. Users!FreshCounts'
  BY <1>1, <1>2, <1>3 DEF Users!FreshCounts, Users!Counted
<1>8. QED
  BY <1>4, <1>5, <1>6, <1>7

LEMMA CreationGoesOn ==
    ASSUME Users!IInv, NEW h \in Handler, NEW id \in Users!Id, Users!CountUsers(h, id)
    PROVE  Users!IInv'
<1>1. PICK what, most :
        most = handler[h].limit /\ what = [at |-> "find", id |-> id, limit |-> most]
  OBVIOUS
<1>2. most \in 1 .. MaxUsers
  BY <1>1, UserHandlerShape DEF Users!CountUsers, Users!IInv
<1>3. /\ what \in Users!HandlerState /\ what.at = "find" /\ what.limit = most
      /\ Accounted(what) /\ Apart(h, what)
  BY <1>1, <1>2 DEF Users!HandlerState, Accounted, Apart
<1>4. Users!Goes(h, what) /\ Users!Count < most /\ UNCHANGED <<limit, stored, blank, stale>>
  BY <1>1 DEF Users!CountUsers
<1>5. Fresh(what)
  BY <1>3, <1>4 DEF Fresh
<1>6. QED
  BY <1>3, <1>4, <1>5, GoesOnKeeps

LEMMA OrganizationGoesOn ==
    ASSUME Users!IInv, NEW h \in Handler, Users!FindOrganization(h)
    PROVE  Users!IInv'
<1>1. PICK what : what = [at |-> "count", limit |-> limit]
  OBVIOUS
<1>2. what \in Users!HandlerState /\ Accounted(what) /\ Apart(h, what) /\ Fresh(what)
  BY <1>1 DEF Users!HandlerState, Users!IInv, Users!TypeOK, Accounted, Apart, Fresh
<1>3. h \notin stale
  BY DEF Users!FindOrganization, Users!IInv, Users!TypeOK, Users!Counted, Users!Idle
<1>4. QED
  BY <1>1, <1>2, <1>3, GoesOnKeeps DEF Users!FindOrganization

LEMMA FindGoesOn ==
    ASSUME Users!IInv, NEW h \in Handler, Users!FindId(h)
    PROVE  Users!IInv'
<1>1. PICK r : r = handler[h]
  OBVIOUS
<1>2. r \in [at : {"find", "insert"}, id : Users!Id, limit : 1 .. MaxUsers] /\ r.at = "find"
  BY <1>1 DEF Users!FindId, Users!IInv, Users!TypeOK, Users!HandlerState, Users!ImportState,
     Users!Idle
<1>3. PICK what : what = [r EXCEPT !.at = "insert"]
  OBVIOUS
<1>4. /\ what \in Users!HandlerState /\ what.at = "insert" /\ what.limit = r.limit
      /\ Accounted(what) /\ Apart(h, what)
  BY <1>2, <1>3 DEF Users!HandlerState, Accounted, Apart
<1>5. Users!Goes(h, what) /\ UNCHANGED <<limit, stored, blank, stale>>
  BY <1>1, <1>3 DEF Users!FindId
<1>6. h \notin stale => Fresh(what)
  BY <1>1, <1>2, <1>4 DEF Fresh, Users!IInv, Users!FreshCounts, Users!Counted, Users!Importing,
     Users!Idle
<1>7. QED
  BY <1>4, <1>5, <1>6, GoesOnKeeps

LEMMA ImportGoesOn ==
    ASSUME ProgressAssumption, Users!IInv, NEW h \in Handler, NEW rows \in Requests,
           Users!ImportUsers(h, rows)
    PROVE  Users!IInv'
<1>1. PICK slots, most :
        most = handler[h].limit /\ slots = IF most > Users!Count THEN most - Users!Count ELSE 0
  OBVIOUS
<1>2. most \in 1 .. MaxUsers /\ MaxUsers \in Nat /\ Users!Count \in Nat /\ slots \in Nat
  BY <1>1, CountIsNatural, UserHandlerShape DEF Users!ImportUsers, Users!IInv, ProgressAssumption,
     Users!DirectoryAssumption
<1>3. rows \in Seq(Users!Id) /\ Len(rows) \in Nat
  BY DEF ProgressAssumption, Users!DirectoryAssumption
<1>4. PICK what :
        what = [at |-> "rows", todo |-> rows, size |-> Len(rows), limit |-> most,
                slots |-> slots, mine |-> {}, blanks |-> 0, seen |-> {}, imported |-> 0,
                failed |-> 0]
  OBVIOUS
<1>5. what \in Users!HandlerState /\ what.at = "rows"
  BY <1>2, <1>3, <1>4 DEF Users!HandlerState, Users!ImportState
<1>6. Users!Goes(h, what) /\ UNCHANGED <<limit, stored, blank, stale>>
  BY <1>1, <1>4 DEF Users!ImportUsers
<1>7. Accounted(what)
  BY <1>2, <1>3, <1>4, FS_EmptySet DEF Accounted
<1>8. Apart(h, what)
  BY <1>4 DEF Apart
<1>9. Fresh(what)
  BY <1>1, <1>2, <1>4 DEF Fresh
<1>10. QED
  BY <1>5, <1>6, <1>7, <1>8, <1>9, GoesOnKeeps

\* What ImportState says, field by field.
LEMMA ImportFields ==
    ASSUME Users!IInv, NEW h \in Handler, Users!Importing(h), NEW r, r = handler[h]
    PROVE  /\ r \in Users!ImportState /\ r.at = "rows" /\ r.todo \in Seq(Users!Id) /\ r.size \in Nat /\ r.limit \in 1 .. MaxUsers
           /\ r.slots \in Nat /\ r.mine \subseteq Raw /\ r.blanks \in Nat
           /\ r.seen \subseteq {Strip[id] : id \in Raw} /\ r.imported \in Nat /\ r.failed \in Nat
           /\ Accounted(r) /\ Apart(h, r)
           /\ h \notin stale => Fresh(r)
<1>1. r \in Users!ImportState /\ r.at = "rows"
  BY UserHandlerShape DEF Users!IInv, Users!Importing
<1>2. Accounted(r)
  BY <1>1, SameSets DEF Users!IInv, Users!RowsAreCounted, Accounted
<1>3. Apart(h, r)
  BY DEF Users!IInv, Users!InsertsApart, Apart
<1>4. h \notin stale => Fresh(r)
  BY <1>1 DEF Users!IInv, Users!FreshCounts, Users!Counted, Users!Importing, Users!Idle, Fresh
<1>5. QED
  BY <1>1, <1>2, <1>3, <1>4 DEF Users!ImportState

LEMMA OneRowFewer ==
    ASSUME NEW n \in Nat, NEW k \in Nat, NEW f \in Nat, NEW size \in Nat, NEW m, m = n - 1,
           n + k + f = size
    PROVE  m + k + (f + 1) = size /\ m + (k + 1) + f = size
OBVIOUS

LEMMA RowFailsKeeps ==
    ASSUME Users!IInv, NEW h \in Handler, Users!Importing(h), handler[h].todo # <<>>,
           Users!RowFails(h), UNCHANGED <<limit, stored, blank, stale>>
    PROVE  Users!IInv'
<1>1. PICK r, todo, failed : r = handler[h] /\ todo = Tail(r.todo) /\ failed = r.failed + 1
  OBVIOUS
<1>2. /\ r \in Users!ImportState /\ Accounted(r) /\ Apart(h, r) /\ (h \notin stale => Fresh(r))
      /\ r.at = "rows" /\ r.imported \in Nat /\ r.failed \in Nat /\ r.size \in Nat
      /\ r.todo \in Seq(Users!Id) /\ r.todo # <<>>
  BY <1>1, ImportFields
<1>3. todo \in Seq(Users!Id) /\ Len(todo) = Len(r.todo) - 1 /\ Len(r.todo) \in Nat
  BY <1>1, <1>2
<1>4. PICK what : what = [r EXCEPT !.todo = todo, !.failed = failed]
  OBVIOUS
<1>5. what \in Users!ImportState
  <2>1. failed \in Nat
    BY <1>1, <1>2
  <2>2. r \in Users!ImportState
    BY <1>2
  <2>3. QED
    BY <1>3, <1>4, <2>1, <2>2 DEF Users!ImportState
<1>6. /\ what.at = "rows" /\ what.todo = todo /\ what.failed = failed
      /\ what.size = r.size /\ what.limit = r.limit /\ what.slots = r.slots
      /\ what.mine = r.mine /\ what.blanks = r.blanks /\ what.imported = r.imported
  BY <1>2, <1>4 DEF Users!ImportState
<1>7. Accounted(what)
  <2>1. Len(r.todo) + r.imported + r.failed = r.size
    BY <1>2 DEF Accounted
  <2>2. Len(todo) + r.imported + failed = r.size
    <3>1. r.imported \in Nat /\ r.failed \in Nat /\ r.size \in Nat /\ Len(r.todo) \in Nat
      BY <1>2, <1>3
    <3>2. Len(todo) = Len(r.todo) - 1 /\ failed = r.failed + 1
      BY <1>1, <1>3
    <3>3. PICK n, k, f : n = Len(r.todo) /\ k = r.imported /\ f = r.failed
      OBVIOUS
    <3>4. n \in Nat /\ k \in Nat /\ f \in Nat /\ n + k + f = r.size
      BY <2>1, <3>1, <3>3
    <3>5. (n - 1) + k + (f + 1) = n + k + f
      BY <3>4
    <3>6. QED
      BY <3>2, <3>3, <3>4, <3>5
  <2>3. QED
    BY <1>2, <1>6, <2>2 DEF Accounted
<1>8. Apart(h, what) /\ (h \notin stale => Fresh(what))
  BY <1>2, <1>6 DEF Apart, Fresh
<1>9. Users!Goes(h, what)
  BY <1>1, <1>4 DEF Users!RowFails
<1>10. QED
  BY <1>5, <1>6, <1>7, <1>8, <1>9, GoesOnKeeps DEF Users!HandlerState

\* A row that is written opens an insert that no one else has.
LEMMA RowWrittenKeeps ==
    ASSUME Users!IInv, NEW h \in Handler, Users!ImportRow(h),
           ~ Users!Skipped(h), ~ Users!Conflicts(h)
    PROVE  Users!IInv'
<1>1. PICK r, id, todo, imported :
        /\ r = handler[h] /\ id = Head(r.todo) /\ todo = Tail(r.todo)
        /\ imported = r.imported + 1
  OBVIOUS
<1>2. /\ r.at = "rows" /\ r.todo # <<>> /\ Users!Importing(h)
      /\ UNCHANGED <<limit, stored, blank, stale>>
  BY <1>1 DEF Users!ImportRow, Users!Importing
<1>3. /\ r \in Users!ImportState /\ Accounted(r) /\ Apart(h, r) /\ (h \notin stale => Fresh(r))
      /\ r.mine \subseteq Raw /\ r.blanks \in Nat /\ r.seen \subseteq {Strip[i] : i \in Raw}
      /\ r.imported \in Nat /\ r.failed \in Nat /\ r.size \in Nat /\ r.slots \in Nat
      /\ r.todo \in Seq(Users!Id)
  BY <1>1, <1>2, ImportFields
<1>4. /\ todo \in Seq(Users!Id) /\ Len(todo) = Len(r.todo) - 1
      /\ Len(r.todo) \in Nat /\ id \in Users!Id
  BY <1>1, <1>2, <1>3
<1>5. PICK mine, blanks, seen :
        /\ mine   = IF id = NoId THEN r.mine ELSE r.mine \cup {id}
        /\ blanks = IF id = NoId THEN r.blanks + 1 ELSE r.blanks
        /\ seen   = IF id = NoId THEN r.seen ELSE r.seen \cup {Strip[id]}
  OBVIOUS
<1>6. PICK what : what = [r EXCEPT !.todo = todo, !.imported = imported, !.mine = mine,
                            !.blanks = blanks, !.seen = seen]
  OBVIOUS
<1>7. Users!Goes(h, what)
  BY <1>1, <1>3, <1>5, <1>6 DEF Users!ImportRow, Users!Row
<1>8. mine \subseteq Raw /\ blanks \in Nat /\ seen \subseteq {Strip[i] : i \in Raw}
  <2>1. id # NoId => id \in Raw /\ Strip[id] \in {Strip[i] : i \in Raw}
    BY <1>4 DEF Users!Id
  <2>2. QED
    BY <1>3, <1>5, <2>1
<1>9. /\ what \in Users!ImportState
      /\ what.at = "rows" /\ what.todo = todo /\ what.imported = imported /\ what.mine = mine
      /\ what.blanks = blanks /\ what.size = r.size /\ what.limit = r.limit
      /\ what.slots = r.slots /\ what.failed = r.failed
  <2>1. r \in Users!ImportState /\ imported \in Nat
    BY <1>1, <1>3
  <2>2. QED
    BY <1>4, <1>6, <1>8, <2>1 DEF Users!ImportState
<1>10. r.imported < r.slots /\ (id # NoId => id \notin stored \cup r.mine)
  BY <1>1, <1>2, <1>3 DEF Users!Skipped, Users!Conflicts, Users!Row
<1>11. IsFiniteSet(mine) /\ Cardinality(mine) + blanks = r.imported + 1
  <2>1. /\ IsFiniteSet(r.mine) /\ Cardinality(r.mine) + r.blanks = r.imported
        /\ Cardinality(r.mine) \in Nat
    BY <1>2, <1>3, FS_CardinalityType DEF Accounted
  <2>2. CASE id = NoId
    BY <1>3, <1>5, <2>1, <2>2
  <2>3. CASE id # NoId
    <3>1. IsFiniteSet(mine) /\ Cardinality(mine) = Cardinality(r.mine) + 1
      BY <1>5, <1>10, <2>1, <2>3, FS_AddElement
    <3>2. QED
      BY <1>3, <1>5, <2>1, <2>3, <3>1
  <2>4. QED
    BY <2>2, <2>3
<1>12. Accounted(what)
  <2>1. Len(r.todo) + r.imported + r.failed = r.size
    BY <1>2, <1>3 DEF Accounted
  <2>2. Len(todo) + imported + r.failed = r.size
    BY <1>1, <1>3, <1>4, <2>1, OneRowFewer
  <2>3. imported <= r.slots
    BY <1>1, <1>3, <1>10
  <2>4. QED
    BY <1>1, <1>9, <1>11, <2>2, <2>3 DEF Accounted
<1>13. Apart(h, what)
  <2>1. \A x \in Handler : x # h /\ Users!Importing(x) /\ id # NoId => id \notin handler[x].mine
    BY <1>1, <1>2 DEF Users!ImportRow, Users!Waits, Users!Holders, Users!Row
  <2>2. QED
    BY <1>2, <1>3, <1>5, <1>9, <1>10, <2>1 DEF Apart
<1>14. h \notin stale => Fresh(what)
  BY <1>2, <1>3, <1>9 DEF Fresh
<1>15. QED
  BY <1>2, <1>7, <1>9, <1>12, <1>13, <1>14, GoesOnKeeps DEF Users!HandlerState

LEMMA FindOtherKeeps ==
    ASSUME Users!IInv, NEW h \in Handler, NEW old \in Raw, NEW new \in Raw,
           Users!FindOther(h, old, new)
    PROVE  Users!IInv'
<1>1. PICK what : what = [at |-> "rename", old |-> old, id |-> new]
  OBVIOUS
<1>2. what \in Users!HandlerState /\ Accounted(what) /\ Apart(h, what) /\ Fresh(what)
  BY <1>1 DEF Users!HandlerState, Accounted, Apart, Fresh
<1>3. h \notin stale
  BY DEF Users!FindOther, Users!IInv, Users!TypeOK, Users!Counted, Users!Idle
<1>4. QED
  BY <1>1, <1>2, <1>3, GoesOnKeeps DEF Users!FindOther

LEMMA UsersKept ==
    ProgressAssumption /\ Users!IInv /\ [Users!Next]_(Users!vars) => Users!IInv'
<1> SUFFICES ASSUME ProgressAssumption, Users!IInv, [Users!Next]_(Users!vars) PROVE Users!IInv'
  OBVIOUS
<1>1. ASSUME NEW h \in Handler, Users!ImportRow(h) PROVE Users!IInv'
  <2>1. CASE Users!Skipped(h) \/ Users!Conflicts(h)
    BY <1>1, <2>1, RowFailsKeeps DEF Users!ImportRow
  <2>2. QED
    BY <1>1, <2>1, RowWrittenKeeps
<1>2. ASSUME NEW h \in Handler, Users!DeadlockDetected(h) \/ Users!RowRefused(h)
      PROVE  Users!IInv'
  BY <1>2, RowFailsKeeps DEF Users!DeadlockDetected, Users!RowRefused, Users!Waits
<1>3. ASSUME NEW n \in 1 .. MaxUsers, Users!UpdateOrganization(n) PROVE Users!IInv'
  BY <1>3 DEF Users!UpdateOrganization, Users!IInv, Users!TypeOK, Users!RowsAreCounted,
     Users!InsertsApart, Users!FreshCounts, Users!Counted, Users!Importing, Users!Count
<1>4. CASE UNCHANGED Users!vars
  BY <1>4 DEF Users!vars, Users!IInv, Users!TypeOK, Users!RowsAreCounted,
     Users!InsertsApart, Users!FreshCounts, Users!Counted, Users!Importing, Users!Count
<1>5. QED
  BY <1>1, <1>2, <1>3, <1>4, OrganizationGoesOn, CreationGoesOn, FindGoesOn, InsertKeeps, ImportGoesOn, CommitKeeps,
     FindOtherKeeps, RenameKeeps, FailKeeps DEF Users!Next

LEMMA UsersInit == ProgressAssumption /\ Users!Init => Users!IInv
<1> SUFFICES ASSUME ProgressAssumption, Users!Init PROVE Users!IInv
  OBVIOUS
<1>1. MaxUsers \in 1 .. MaxUsers
  BY DEF ProgressAssumption, Users!DirectoryAssumption
<1>2. Users!TypeOK
  BY <1>1, FS_EmptySet, SameSets DEF Users!Init, Users!TypeOK, Users!HandlerState
<1>3. Users!RowsAreCounted /\ Users!InsertsApart /\ Users!FreshCounts
  BY DEF Users!Init, Users!RowsAreCounted, Users!InsertsApart, Users!FreshCounts,
     Users!Importing, Users!Counted, Users!Idle
<1>4. QED
  BY <1>2, <1>3 DEF Users!IInv

\* The inductive invariant of the users.
LEMMA UsersInvariant == FairSpec => []Users!IInv
<1>1. Init => Users!IInv
  BY ProgressAssumption, UsersInit DEF Init
<1>2. Users!IInv /\ [Next]_vars => Users!IInv'
  BY ProgressAssumption, PartsMove, UsersKept
<1>3. QED
  BY <1>1, <1>2, PTL DEF FairSpec

LEMMA CountIsNaturalNext == ASSUME Users!TypeOK' PROVE Users!Count' \in Nat
<1>1. Cardinality(stored') \in Nat /\ blank' \in Nat
  BY FS_CardinalityType, SameSets DEF Users!TypeOK
<1>2. QED
  BY <1>1, SameSets DEF Users!Count

\* An insert adds one user, within the limit that was read.
LEMMA InsertCounts ==
    ASSUME Users!IInv, NEW h \in Handler, h \notin stale, Users!Insert(h)
    PROVE  Users!Count' <= handler[h].limit
<1>1. /\ IsFiniteSet(stored) /\ Cardinality(stored) \in Nat /\ blank \in Nat
      /\ Users!Count = Cardinality(stored) + blank
      /\ Users!Count' = Cardinality(stored') + blank'
  BY CountIsNatural, SameSets DEF Users!IInv, Users!TypeOK, Users!Count
<1>2. /\ handler[h].id \notin stored
      /\ stored' = IF handler[h].id = NoId THEN stored ELSE stored \cup {handler[h].id}
      /\ blank'  = IF handler[h].id = NoId THEN blank + 1 ELSE blank
  BY DEF Users!Insert
<1>3. Users!Count' = Users!Count + 1
  <2>1. CASE handler[h].id = NoId
    BY <1>1, <1>2, <2>1
  <2>2. CASE handler[h].id # NoId
    <3>1. Cardinality(stored') = Cardinality(stored) + 1
      BY <1>1, <1>2, <2>2, FS_AddElement
    <3>2. QED
      BY <1>1, <1>2, <2>2, <3>1
  <2>3. QED
    BY <2>1, <2>2
<1>4. handler[h].at = "insert" /\ Users!Count < handler[h].limit /\ handler[h].limit \in 1 .. MaxUsers
  BY UserHandlerShape DEF Users!Insert, Users!IInv, Users!FreshCounts, Users!Counted, Users!Importing, Users!Idle
<1>5. handler[h].limit \in Nat /\ Users!Count \in Nat
  BY <1>1, <1>4 DEF Users!IInv, Users!TypeOK
<1>6. QED
  BY <1>3, <1>4, <1>5

\* A commit adds the rows that the import counted.
LEMMA CommitAdds ==
    ASSUME Users!IInv, NEW h \in Handler, Users!ImportCommit(h)
    PROVE  Users!Count' = Users!Count + handler[h].imported
<1>1. PICK mine, blanks : mine = handler[h].mine /\ blanks = handler[h].blanks
  OBVIOUS
<1>2. /\ IsFiniteSet(stored) /\ Cardinality(stored) \in Nat /\ blank \in Nat
      /\ Users!Count = Cardinality(stored) + blank
      /\ Users!Count' = Cardinality(stored') + blank'
  BY CountIsNatural, SameSets DEF Users!IInv, Users!TypeOK, Users!Count
<1>3. /\ Users!Importing(h) /\ stored' = stored \cup mine /\ blank' = blank + blanks
  BY <1>1 DEF Users!ImportCommit
<1>4. /\ IsFiniteSet(mine) /\ Cardinality(mine) + blanks = handler[h].imported
      /\ blanks \in Nat /\ mine \cap stored = {}
  BY <1>1, <1>3, ImportFields DEF Accounted, Apart
<1>5. Cardinality(mine) \in Nat
  BY <1>4, FS_CardinalityType
<1>6. stored \cap mine = {} /\ Cardinality({}) = 0
  BY <1>4, FS_EmptySet
<1>7. Cardinality(stored') = Cardinality(stored) + Cardinality(mine)
  <2>1. Cardinality(stored') = Cardinality(stored) + Cardinality(mine) - Cardinality(stored \cap mine)
    BY <1>2, <1>3, <1>4, FS_Union
  <2>2. QED
    BY <1>2, <1>5, <1>6, <2>1
<1>8. QED
  BY <1>2, <1>3, <1>4, <1>5, <1>7

LEMMA CommitCounts ==
    ASSUME Users!IInv, NEW h \in Handler, h \notin stale, Users!ImportCommit(h),
           Users!Count' > Users!Count
    PROVE  Users!Count' <= handler[h].limit
<1>1. PICK r : r = handler[h]
  OBVIOUS
<1>2. /\ r.imported \in Nat /\ r.slots \in Nat /\ r.limit \in 1 .. MaxUsers /\ r.imported <= r.slots
      /\ r.slots > 0 => Users!Count + r.slots = r.limit
  BY <1>1, ImportFields DEF Users!ImportCommit, Accounted, Fresh
<1>3. Users!Count \in Nat /\ Users!Count' = Users!Count + r.imported
  BY <1>1, CountIsNatural, CommitAdds DEF Users!IInv
<1>4. r.slots > 0
  BY <1>2, <1>3
<1>5. QED
  BY <1>1, <1>2, <1>3, <1>4

-----------------------------------------------------------------------------
\* A handler that nobody overtook since it counted leaves no more users behind
\* than the limit it read, for any limits, requests and handlers (users.py:86-93,
\* 513).
THEOREM FreshCountsKeepTheQuota == FairSpec => QuotaKeptByFreshCount
<1>1. ASSUME Users!IInv, [Next]_vars
      PROVE  [\A h \in Handler \ stale :
                h \in Users!Counted /\ handler'[h] = Users!Idle /\ Users!Count' > Users!Count
                  => Users!Count' <= handler[h].limit]_(Users!vars)
  <2> SUFFICES ASSUME Users!Next, NEW h \in Handler, h \notin stale, h \in Users!Counted,
                      handler'[h] = Users!Idle, Users!Count' > Users!Count
               PROVE  Users!Count' <= handler[h].limit
    BY <1>1, PartsMove
  <2>1. Users!TypeOK /\ Users!TypeOK' /\ Users!Count \in Nat /\ Users!Count' \in Nat
    <3>1. Users!IInv'
      BY <1>1, ProgressAssumption, PartsMove, UsersKept
    <3>2. QED
      BY <1>1, <3>1, CountIsNatural, CountIsNaturalNext DEF Users!IInv
  <2>2. stored' # stored \/ blank' # blank
    BY <2>1 DEF Users!Count
  <2>3. PICK g \in Handler : Users!Insert(g) \/ Users!ImportCommit(g) \/ Users!RenameCommit(g)
    BY <2>2 DEF Users!Next, Users!FindOrganization, Users!CountUsers, Users!FindId, Users!ImportUsers, Users!ImportRow,
       Users!DeadlockDetected, Users!RowRefused, Users!RowFails, Users!FindOther, Users!Fail,
       Users!UpdateOrganization
  <2>4. ~ Users!RenameCommit(g)
    BY <1>1, <2>1, RenameKeepsCount
  <2>5. g = h
    <3>1. Users!Goes(g, Users!Idle)
      BY <2>3, <2>4 DEF Users!Insert, Users!ImportCommit, Users!Ends
    <3>2. QED
      BY <2>1, <3>1 DEF Users!Goes, Users!TypeOK, Users!Counted, Users!Idle
  <2>6. CASE Users!Insert(h)
    BY <1>1, <2>1, <2>6, InsertCounts DEF Users!IInv
  <2>7. CASE Users!ImportCommit(h)
    BY <1>1, <2>1, <2>7, CommitCounts
  <2>8. QED
    BY <2>3, <2>4, <2>5, <2>6, <2>7
<1>2. QED
  BY UsersInvariant, <1>1, PTL DEF FairSpec, QuotaKeptByFreshCount, Users!QuotaKeptByFreshCount

\* What an import reports adds up: it created as many users as it says, and every
\* other row of the request is reported, for any requests (users.py:588).
THEOREM ImportsReportEveryRow == FairSpec => ReportMatchesRows
<1>1. ASSUME Users!IInv, [Next]_vars
      PROVE  [\A h \in Handler :
                Users!Importing(h) /\ handler'[h] = Users!Idle /\ Users!Count' # Users!Count =>
                  /\ Users!Count' - Users!Count = handler[h].imported
                  /\ handler[h].imported + handler[h].failed = handler[h].size]_(Users!vars)
  <2> SUFFICES ASSUME Users!Next, NEW h \in Handler, Users!Importing(h),
                      handler'[h] = Users!Idle, Users!Count' # Users!Count
               PROVE  /\ Users!Count' - Users!Count = handler[h].imported
                      /\ handler[h].imported + handler[h].failed = handler[h].size
    BY <1>1, PartsMove
  <2>1. stored' # stored \/ blank' # blank
    BY DEF Users!Count
  <2>2. PICK g \in Handler : Users!Insert(g) \/ Users!ImportCommit(g) \/ Users!RenameCommit(g)
    BY <2>1 DEF Users!Next, Users!FindOrganization, Users!CountUsers, Users!FindId, Users!ImportUsers, Users!ImportRow,
       Users!DeadlockDetected, Users!RowRefused, Users!RowFails, Users!FindOther, Users!Fail,
       Users!UpdateOrganization
  <2>3. ~ Users!RenameCommit(g)
    BY <1>1, RenameKeepsCount DEF Users!IInv
  <2>4. g = h
    <3>1. Users!Goes(g, Users!Idle)
      BY <2>2, <2>3 DEF Users!Insert, Users!ImportCommit, Users!Ends
    <3>2. QED
      BY <1>1, <3>1 DEF Users!Goes, Users!IInv, Users!TypeOK, Users!Importing, Users!Idle
  <2>5. Users!ImportCommit(h) /\ handler[h].todo = <<>>
    BY <2>2, <2>3, <2>4 DEF Users!Insert, Users!Importing, Users!ImportCommit
  <2>6. Users!Count' = Users!Count + handler[h].imported
    BY <1>1, <2>5, CommitAdds
  <2>7. PICK r : r = handler[h]
    OBVIOUS
  <2>8. /\ Len(r.todo) + r.imported + r.failed = r.size /\ r.todo = <<>>
        /\ r.imported \in Nat /\ r.failed \in Nat
    BY <1>1, <2>5, <2>7, ImportFields DEF Accounted
  <2>9. Len(r.todo) = 0
    BY <2>8, EmptySeq
  <2>10. Users!Count \in Nat
    BY <1>1, CountIsNatural DEF Users!IInv
  <2>11. QED
    BY <2>6, <2>7, <2>8, <2>9, <2>10
<1>2. QED
  BY UsersInvariant, <1>1, PTL DEF FairSpec, ReportMatchesRows, Users!ReportMatchesRows

-----------------------------------------------------------------------------
(***************************************************************************)
(* TrainingJobs.                                                           *)
(***************************************************************************)

LEMMA WorkerShape ==
    ASSUME Jobs!TypeOK, NEW w \in Worker
    PROVE  /\ worker[w].at \in {"free", "starting", "loading", "failing", "acknowledging"} \cup Jobs!Trains
           /\ worker[w] = Jobs!Free <=> worker[w].at = "free"
           /\ worker[w].at # "free" => worker[w].job \in Job
           /\ worker[w].at \in {"starting", "loading"} =>
                worker[w] \in [at : {"starting", "loading", "failing", "acknowledging"}, job : Job]
           /\ worker[w].at \in Jobs!Trains =>
                /\ worker[w] \in [at : Jobs!Trains \cup {"failing", "acknowledging"}, job : Job,
                                  run : DOMAIN runs, best : 0 .. MaxScore, name : Jobs!Name]
                /\ worker[w].run \in DOMAIN runs /\ worker[w].best \in 0 .. MaxScore
                /\ worker[w].name \in Jobs!Name
<1>1. worker[w] \in Jobs!WorkerState
  BY DEF Jobs!TypeOK
<1>2. QED
  BY <1>1 DEF Jobs!WorkerState, Jobs!Free, Jobs!Trains

\* A task goes on: its worker is at the next place, for the same job and run.
LEMMA TaskGoes ==
    ASSUME Jobs!TypeOK, NEW w \in Worker, worker[w].at # "free",
           NEW where \in {"loading", "failing", "acknowledging"} \cup Jobs!Trains,
           where = "loading" => worker[w].at = "starting",
           where \in Jobs!Trains => worker[w].at \in Jobs!Trains,
           Jobs!Goes(w, where)
    PROVE  /\ worker' \in [Worker -> Jobs!WorkerState]
           /\ \A x \in Worker : x # w => worker'[x] = worker[x]
           /\ worker'[w] # Jobs!Free /\ worker'[w].at = where
           /\ worker'[w].job = worker[w].job
           /\ worker[w].at \in Jobs!Trains =>
                /\ worker'[w].run = worker[w].run /\ worker'[w].best = worker[w].best
                /\ worker'[w].name = worker[w].name
<1>1. PICK what : what = [worker[w] EXCEPT !.at = where]
  OBVIOUS
<1>2. /\ worker[w] \in Jobs!WorkerState /\ worker[w] # Jobs!Free
      /\ \A x \in Worker : worker'[x] = IF x = w THEN what ELSE worker[x]
      /\ worker' = [worker EXCEPT ![w] = what]
  BY <1>1, WorkerShape DEF Jobs!Goes, Jobs!TypeOK
<1>3. /\ what \in Jobs!WorkerState /\ what.at = where /\ what.job = worker[w].job
      /\ worker[w].at \in Jobs!Trains =>
           /\ what.run = worker[w].run /\ what.best = worker[w].best
           /\ what.name = worker[w].name
  <2>1. CASE worker[w] \in [at : {"starting", "loading", "failing", "acknowledging"}, job : Job]
    BY <1>1, <2>1 DEF Jobs!WorkerState, Jobs!Trains
  <2>2. CASE worker[w] \in [at : Jobs!Trains \cup {"failing", "acknowledging"}, job : Job,
                            run : DOMAIN runs, best : 0 .. MaxScore, name : Jobs!Name]
    <3>1. what \in [at : Jobs!Trains \cup {"failing", "acknowledging"}, job : Job,
                    run : DOMAIN runs, best : 0 .. MaxScore, name : Jobs!Name]
      BY <1>1, <2>2 DEF Jobs!Trains
    <3>2. QED
      BY <1>1, <2>2, <3>1 DEF Jobs!WorkerState
  <2>3. QED
    BY <1>2, <2>1, <2>2 DEF Jobs!WorkerState
<1>4. what # Jobs!Free
  BY <1>3 DEF Jobs!Free, Jobs!Trains
<1>5. QED
  BY <1>2, <1>3, <1>4 DEF Jobs!TypeOK

\* Where the messages of the jobs are.
Messages == Jobs!NothingBeforeCreation /\ Jobs!OneMessage /\ Jobs!OneAtATime

\* A worker goes on with its job.
LEMMA GoesOnKeepsMessages ==
    ASSUME Jobs!TypeOK, Messages, NEW w \in Worker, worker[w] # Jobs!Free,
           \A x \in Worker : x # w => worker'[x] = worker[x],
           worker'[w] # Jobs!Free, worker'[w].job = worker[w].job,
           UNCHANGED <<creating, waiting, redelivered>>,
           \A j \in Job : j # worker[w].job => row'[j] = row[j],
           row'[worker[w].job].status # "absent",
           row' = row \/ worker[w].at # "acknowledging",
           \A j \in Job : Jobs!RunsOf(j)' = Jobs!RunsOf(j),
           worker'[w].at # "starting",
           worker'[w].at = "loading" =>
             worker[w].at = "starting" /\ row'[worker[w].job].status = "running",
           worker'[w].at \in {"failing"} \cup Jobs!Trains =>
             worker[w].at \in {"loading", "failing"} \cup Jobs!Trains /\ row' = row
    PROVE  Messages'
<1> USE DEF Messages
<1>1. Jobs!NothingBeforeCreation'
  BY DEF Jobs!NothingBeforeCreation, Jobs!Of
<1>2. Jobs!OneMessage'
  BY DEF Jobs!OneMessage, Jobs!Of
<1>3. Jobs!OneAtATime'
  <2> SUFFICES ASSUME NEW k \in Job, redelivered[k] <= 1
               PROVE  /\ waiting[k] <= 1 /\ (waiting[k] = 1 => Jobs!Begun(k)' = {})
                      /\ \A x, y \in Jobs!Begun(k)' \cup Jobs!Busy(k)' : x = y
                      /\ Jobs!Busy(k)' # {} => row'[k].status = "running"
    BY DEF Jobs!OneAtATime
  <2>1. /\ waiting[k] <= 1 /\ (waiting[k] = 1 => Jobs!Begun(k) = {})
        /\ \A x, y \in Jobs!Begun(k) \cup Jobs!Busy(k) : x = y
        /\ Jobs!Busy(k) # {} => row[k].status = "running"
    BY DEF Jobs!OneAtATime
  <2>2. Jobs!Begun(k)' \subseteq Jobs!Begun(k)
    BY DEF Jobs!Begun, Jobs!Of
  <2>3. Jobs!Busy(k)' \subseteq Jobs!Begun(k) \cup Jobs!Busy(k)
    BY DEF Jobs!Begun, Jobs!Busy, Jobs!Of
  <2>4. ASSUME NEW x \in Jobs!Busy(k)' PROVE row'[k].status = "running"
    <3>1. CASE x # w
      <4>1. x \in Jobs!Busy(k)
        BY <2>4, <3>1 DEF Jobs!Busy, Jobs!Of
      <4>2. CASE k # worker[w].job
        BY <2>1, <4>1, <4>2
      <4>3. CASE k = worker[w].job
        <5>1. w \notin Jobs!Begun(k) \cup Jobs!Busy(k)
          BY <2>1, <3>1, <4>1
        <5>2. worker[w].at = "acknowledging"
          BY <4>3, <5>1, WorkerShape DEF Jobs!Begun, Jobs!Busy, Jobs!Of
        <5>3. QED
          BY <2>1, <4>1, <5>2
      <4>4. QED
        BY <4>2, <4>3
    <3>2. CASE x = w
      <4>1. k = worker[w].job /\ worker'[w].at \in {"loading", "failing"} \cup Jobs!Trains
        BY <2>4, <3>2 DEF Jobs!Busy, Jobs!Of
      <4>2. CASE worker'[w].at = "loading"
        BY <4>1, <4>2
      <4>3. CASE worker'[w].at # "loading"
        <5>1. w \in Jobs!Busy(k) /\ row' = row
          BY <4>1, <4>3 DEF Jobs!Busy, Jobs!Of
        <5>2. QED
          BY <2>1, <5>1
      <4>4. QED
        BY <4>2, <4>3
    <3>3. QED
      BY <3>1, <3>2
  <2>5. QED
    BY <2>1, <2>2, <2>3, <2>4
<1>4. QED
  BY <1>1, <1>2, <1>3

\* A worker is through with its job.
LEMMA EndKeepsMessages ==
    ASSUME Jobs!TypeOK, Messages, NEW w \in Worker, worker[w] # Jobs!Free,
           worker' = [worker EXCEPT ![w] = Jobs!Free],
           UNCHANGED <<creating, waiting, redelivered, row, runs>>
    PROVE  Messages'
<1> USE DEF Messages
<1>1. \A x \in Worker : worker'[x] = IF x = w THEN Jobs!Free ELSE worker[x]
  BY DEF Jobs!TypeOK
<1>2. \A j \in Job : Jobs!RunsOf(j)' = Jobs!RunsOf(j)
  BY DEF Jobs!RunsOf
<1>3. Jobs!NothingBeforeCreation'
  BY <1>1, <1>2 DEF Jobs!NothingBeforeCreation, Jobs!Of
<1>4. Jobs!OneMessage'
  BY <1>1, <1>2 DEF Jobs!OneMessage, Jobs!Of
<1>5. Jobs!OneAtATime'
  BY <1>1 DEF Jobs!OneAtATime, Jobs!Begun, Jobs!Busy, Jobs!Of
<1>6. QED
  BY <1>3, <1>4, <1>5

LEMMA ReceiveKeepsMessages ==
    ASSUME Jobs!TypeOK, Messages, NEW w \in Worker, NEW j \in Job, Jobs!Receive(w, j)
    PROVE  Messages'
<1> USE DEF Messages
<1>1. /\ worker[w] = Jobs!Free /\ waiting[j] > 0 /\ UNCHANGED <<creating, row, redelivered>>
      /\ waiting'[j] = waiting[j] - 1 /\ \A k \in Job : k # j => waiting'[k] = waiting[k]
      /\ waiting[j] \in Nat
  BY DEF Jobs!Receive, Jobs!TypeOK
<1>2. \A k \in Job : Jobs!RunsOf(k)' = Jobs!RunsOf(k)
  BY DEF Jobs!RunsOf, Jobs!Receive
<1>3. /\ \A x \in Worker : x # w => worker'[x] = worker[x]
      /\ IF row[j].status = "running" THEN worker'[w] = worker[w]
         ELSE worker'[w].at = "starting" /\ worker'[w].job = j
  BY DEF Jobs!Receive, Jobs!TypeOK
<1>4. Jobs!NothingBeforeCreation'
  BY <1>1, <1>2, <1>3 DEF Jobs!NothingBeforeCreation, Jobs!Of
<1>5. Jobs!OneMessage'
  BY <1>1, <1>2, <1>3 DEF Jobs!OneMessage, Jobs!Of
<1>6. Jobs!OneAtATime'
  <2> SUFFICES ASSUME NEW k \in Job, redelivered'[k] <= 1
               PROVE  /\ waiting'[k] <= 1 /\ (waiting'[k] = 1 => Jobs!Begun(k)' = {})
                      /\ \A x, y \in Jobs!Begun(k)' \cup Jobs!Busy(k)' : x = y
                      /\ Jobs!Busy(k)' # {} => row'[k].status = "running"
    BY DEF Jobs!OneAtATime
  <2>1. /\ waiting[k] <= 1 /\ (waiting[k] = 1 => Jobs!Begun(k) = {})
        /\ \A x, y \in Jobs!Begun(k) \cup Jobs!Busy(k) : x = y
        /\ Jobs!Busy(k) # {} => row[k].status = "running"
    BY <1>1 DEF Jobs!OneAtATime
  <2>2. Jobs!Busy(k)' = Jobs!Busy(k)
    BY <1>1, <1>3 DEF Jobs!Busy, Jobs!Of, Jobs!Trains, Jobs!Free
  <2>3. CASE k # j \/ row[j].status = "running"
    <3>1. Jobs!Begun(k)' \subseteq Jobs!Begun(k)
      BY <1>1, <1>3, <2>3 DEF Jobs!Begun, Jobs!Of
    <3>2. waiting'[k] \in Nat /\ waiting'[k] <= waiting[k] /\ waiting[k] \in Nat
      BY <1>1 DEF Jobs!TypeOK
    <3>3. QED
      BY <1>1, <2>1, <2>2, <3>1, <3>2
  <2>4. CASE k = j /\ row[j].status # "running"
    <3>1. Jobs!Busy(k) = {} /\ Jobs!Begun(k) = {} /\ waiting'[k] = 0
      BY <1>1, <2>1, <2>4
    <3>2. Jobs!Begun(k)' \subseteq {w}
      BY <1>3, <3>1 DEF Jobs!Begun, Jobs!Of
    <3>3. QED
      BY <2>2, <3>1, <3>2
  <2>5. QED
    BY <2>3, <2>4
<1>7. QED
  BY <1>4, <1>5, <1>6

\* A message is handed out again: while its worker trains, or when it is lost.
LEMMA RedeliveryKeepsMessages ==
    ASSUME Jobs!TypeOK, Messages, NEW w \in Worker, worker[w] # Jobs!Free,
           Jobs!Redeliveries(worker[w].job), UNCHANGED <<creating, row, runs>>,
           \/ worker[w].at # "starting" /\ worker' = worker
           \/ worker' = [worker EXCEPT ![w] = Jobs!Free]
    PROVE  Messages'
<1> USE DEF Messages
<1>1. PICK j \in Job : j = worker[w].job
  BY WorkerShape
<1>2. /\ redelivered[j] \in Nat /\ redelivered'[j] = redelivered[j] + 1
      /\ waiting[j] \in Nat /\ waiting'[j] = waiting[j] + 1
      /\ \A k \in Job : k # j => redelivered'[k] = redelivered[k] /\ waiting'[k] = waiting[k]
  BY <1>1 DEF Jobs!Redeliveries, Jobs!TypeOK
<1>3. \A k \in Job : Jobs!RunsOf(k)' = Jobs!RunsOf(k)
  BY DEF Jobs!RunsOf
<1>4. \A x \in Worker : x # w => worker'[x] = worker[x]
  BY DEF Jobs!TypeOK
<1>5. \/ worker[w].at # "starting" /\ worker'[w] = worker[w]
      \/ worker'[w] = Jobs!Free
  BY DEF Jobs!TypeOK
<1>6. Jobs!NothingBeforeCreation'
  BY <1>1, <1>2, <1>3, <1>4, <1>5 DEF Jobs!NothingBeforeCreation, Jobs!Of
<1>7. Jobs!OneMessage'
  BY <1>1, <1>2, <1>3, <1>4, <1>5 DEF Jobs!OneMessage, Jobs!Of
<1>8. Jobs!OneAtATime'
  BY <1>1, <1>2, <1>4, <1>5 DEF Jobs!OneAtATime, Jobs!OneMessage, Jobs!Begun, Jobs!Busy, Jobs!Of
<1>9. QED
  BY <1>6, <1>7, <1>8

\* The first epoch is ahead: the run is the only one of a message handed out once.
LEMMA BeginKeepsMessages ==
    ASSUME Jobs!TypeOK, Messages, NEW w \in Worker, Jobs!BeginTraining(w)
    PROVE  Messages'
<1> USE DEF Messages
<1>1. /\ worker[w].at = "loading" /\ worker[w] # Jobs!Free
      /\ UNCHANGED <<creating, row, waiting, redelivered>>
      /\ \A x \in Worker : x # w => worker'[x] = worker[x]
      /\ worker'[w].at = "training" /\ worker'[w].job = worker[w].job
      /\ worker'[w] # Jobs!Free /\ worker[w].job \in Job
  BY WorkerShape DEF Jobs!BeginTraining, Jobs!TypeOK, Jobs!Free
<1>2. PICK j \in Job : j = worker[w].job
  BY <1>1
<1>3. /\ \A k \in Job : k # j => Jobs!RunsOf(k)' = Jobs!RunsOf(k)
      /\ Jobs!RunsOf(j)' = Jobs!RunsOf(j) \cup {Len(runs) + 1}
  <2>1. PICK new : new = [job |-> worker[w].job, second |-> now', scores |-> <<>>]
    OBVIOUS
  <2>2. /\ runs' = Append(runs, new) /\ new.job = j /\ runs \in Seq(Jobs!Run) /\ new \in Jobs!Run
    <3>1. now' \in 1 .. MaxSeconds
      BY DEF Jobs!BeginTraining, Jobs!TypeOK
    <3>2. QED
      BY <1>1, <1>2, <2>1, <3>1 DEF Jobs!BeginTraining, Jobs!TypeOK, Jobs!Run
  <2>3. /\ DOMAIN runs' = DOMAIN runs \cup {Len(runs) + 1}
        /\ \A r \in DOMAIN runs : runs'[r] = runs[r]
        /\ runs'[Len(runs) + 1].job = j
    BY <2>2
  <2>4. Len(runs) + 1 \notin DOMAIN runs
    BY <2>2
  <2>5. QED
    BY <2>3, <2>4 DEF Jobs!RunsOf
<1>4. Jobs!NothingBeforeCreation'
  BY <1>1, <1>2, <1>3 DEF Jobs!NothingBeforeCreation, Jobs!Of
<1>5. Jobs!OneMessage'
  BY <1>1, <1>2, <1>3 DEF Jobs!OneMessage, Jobs!Of
<1>6. Jobs!OneAtATime'
  <2>1. \A k \in Job : Jobs!Begun(k)' = Jobs!Begun(k) /\ Jobs!Busy(k)' = Jobs!Busy(k)
    BY <1>1 DEF Jobs!Begun, Jobs!Busy, Jobs!Of, Jobs!Trains
  <2>2. QED
    BY <1>1, <2>1 DEF Jobs!OneAtATime
<1>7. QED
  BY <1>4, <1>5, <1>6

\* The API handler creates the row, and then the message.
LEMMA CreationKeepsMessages ==
    ASSUME Jobs!TypeOK, Messages, NEW j \in Job,
           \/ Jobs!CreateTrainingJob(j) \/ Jobs!Enqueue(j)
           \/ Jobs!EnqueueTwice(j) \/ Jobs!EnqueueFails(j)
    PROVE  Messages'
<1> USE DEF Messages
<1>1. /\ UNCHANGED <<worker, runs>>
      /\ \A k \in Job : k # j => /\ row'[k] = row[k] /\ waiting'[k] = waiting[k]
                                 /\ redelivered'[k] = redelivered[k]
                                 /\ k \in creating' <=> k \in creating
      /\ waiting[j] \in Nat
  BY DEF Jobs!CreateTrainingJob, Jobs!Enqueue, Jobs!EnqueueTwice, Jobs!EnqueueFails,
         Jobs!SetStatus, Jobs!TypeOK
<1>2. /\ \A k \in Job : Jobs!RunsOf(k)' = Jobs!RunsOf(k)
      /\ \A k \in Job : Jobs!Begun(k)' = Jobs!Begun(k) /\ Jobs!Busy(k)' = Jobs!Busy(k)
  BY <1>1 DEF Jobs!RunsOf, Jobs!Begun, Jobs!Busy, Jobs!Of
<1>3. /\ waiting[j] = 0 /\ Jobs!RunsOf(j) = {} /\ \A w \in Worker : ~ Jobs!Of(j, w)
      /\ waiting'[j] \in {0, 1} \/ redelivered'[j] = 2
      /\ row'[j].status # "absent" /\ (j \in creating' => waiting'[j] = 0)
  BY DEF Jobs!CreateTrainingJob, Jobs!Enqueue, Jobs!EnqueueTwice, Jobs!EnqueueFails,
     Jobs!SetStatus, Jobs!TypeOK, Jobs!NothingBeforeCreation
<1>4. Jobs!Begun(j) = {} /\ Jobs!Busy(j) = {}
  BY <1>3 DEF Jobs!Begun, Jobs!Busy
<1>5. Jobs!NothingBeforeCreation'
  BY <1>1, <1>2, <1>3 DEF Jobs!NothingBeforeCreation, Jobs!Of
<1>6. Jobs!OneMessage'
  BY <1>1, <1>2, <1>3 DEF Jobs!OneMessage, Jobs!Of
<1>7. Jobs!OneAtATime'
  BY <1>1, <1>2, <1>3, <1>4 DEF Jobs!OneAtATime
<1>8. QED
  BY <1>5, <1>6, <1>7

\* What an epoch changes: the scores of its run, and what its worker remembers.
Scored(w, r, best, name, score) ==
    /\ worker[w].at = "training" /\ r \in DOMAIN runs /\ Len(runs[r].scores) < MaxEpochs
    /\ UNCHANGED <<creating, row, waiting, now, redelivered, stranded>>
    /\ runs' \in Seq(Jobs!Run) /\ DOMAIN runs' = DOMAIN runs
    /\ \A q \in DOMAIN runs : /\ runs'[q].job = runs[q].job /\ runs'[q].second = runs[q].second
                              /\ q # r => runs'[q] = runs[q]
    /\ runs'[r].scores = Append(runs[r].scores, score)
    /\ worker' \in [Worker -> Jobs!WorkerState]
    /\ \A x \in Worker : x # w => worker'[x] = worker[x]
    /\ worker'[w] # Jobs!Free
    /\ worker'[w].at = "training" /\ worker'[w].job = worker[w].job /\ worker'[w].run = r
    /\ worker'[w].best = (IF score > best THEN score ELSE best)
    /\ worker'[w].name = (IF score > best THEN "best.pt" ELSE name)
    /\ files' = IF score > best
                  THEN [files EXCEPT ![runs[r].second]["best.pt"] =
                          [run |-> r, epoch |-> Len(runs[r].scores) + 1]]
                  ELSE files

LEMMA EpochScored ==
    ASSUME Jobs!TypeOK, NEW w \in Worker, NEW r, r = worker[w].run, NEW best, best = worker[w].best,
           NEW name, name = worker[w].name, Jobs!TrainEpoch(w)
    PROVE  \E score \in 0 .. MaxScore : Scored(w, r, best, name, score)
<1>1. PICK score \in 0 .. MaxScore :
        /\ runs' = [runs EXCEPT ![r].scores = Append(@, score)]
        /\ IF score > worker[w].best
             THEN /\ worker' = [worker EXCEPT ![w].best = score, ![w].name = "best.pt"]
                  /\ files' = [files EXCEPT ![runs[r].second]["best.pt"] =
                                 [run |-> r, epoch |-> Len(runs[r].scores) + 1]]
             ELSE UNCHANGED <<worker, files>>
  BY DEF Jobs!TrainEpoch, Jobs!Save, Jobs!Epoch
<1>2. /\ worker[w].at = "training" /\ Len(runs[r].scores) < MaxEpochs
      /\ UNCHANGED <<creating, row, waiting, now, redelivered, stranded>>
  BY DEF Jobs!TrainEpoch, Jobs!Epoch
<1>3. PICK task : task = worker[w]
  OBVIOUS
<1>4. /\ task \in [at : Jobs!Trains \cup {"failing", "acknowledging"}, job : Job,
                   run : DOMAIN runs, best : 0 .. MaxScore, name : Jobs!Name]
      /\ r = task.run /\ r \in DOMAIN runs /\ task.at = "training"
  BY <1>2, <1>3, WorkerShape DEF Jobs!Trains
<1>5. PICK old, scores : old = runs[r] /\ scores = Append(old.scores, score)
  OBVIOUS
<1>6. old \in Jobs!Run /\ scores \in Seq(0 .. MaxScore)
  <2>1. old \in Jobs!Run
    BY <1>4, <1>5 DEF Jobs!TypeOK
  <2>2. old.scores \in Seq(0 .. MaxScore)
    BY <2>1 DEF Jobs!Run
  <2>3. QED
    BY <1>5, <2>1, <2>2
<1>7. PICK new : new = [old EXCEPT !.scores = scores]
  OBVIOUS
<1>8. new \in Jobs!Run /\ new.job = old.job /\ new.second = old.second /\ new.scores = scores
  BY <1>6, <1>7 DEF Jobs!Run
<1>9. runs' = [runs EXCEPT ![r] = new] /\ runs \in Seq(Jobs!Run)
  BY <1>1, <1>5, <1>7 DEF Jobs!TypeOK
<1>10. /\ runs' \in Seq(Jobs!Run) /\ DOMAIN runs' = DOMAIN runs
       /\ \A q \in DOMAIN runs : runs'[q] = IF q = r THEN new ELSE runs[q]
  BY <1>4, <1>8, <1>9
<1>11. PICK next : next = [task EXCEPT !.best = score, !.name = "best.pt"]
  OBVIOUS
<1>12. /\ next \in [at : Jobs!Trains \cup {"failing", "acknowledging"}, job : Job,
                    run : DOMAIN runs, best : 0 .. MaxScore, name : Jobs!Name]
       /\ next.at = "training" /\ next.job = task.job /\ next.run = r /\ next.best = score
       /\ next.name = "best.pt"
  BY <1>4, <1>11 DEF Jobs!Name
<1>13. next \in Jobs!WorkerState /\ next # Jobs!Free /\ task # Jobs!Free
  BY <1>4, <1>12 DEF Jobs!WorkerState, Jobs!Free
<1>14. /\ worker' \in [Worker -> Jobs!WorkerState]
       /\ \A x \in Worker : x # w => worker'[x] = worker[x]
       /\ worker'[w] = IF score > task.best THEN next ELSE task
  <2>1. worker' = IF score > task.best THEN [worker EXCEPT ![w] = next] ELSE worker
    BY <1>1, <1>3, <1>11, ZenonT(60)
  <2>2. QED
    BY <1>3, <1>13, <2>1 DEF Jobs!TypeOK
<1>15. QED
  BY <1>1, <1>2, <1>3, <1>4, <1>5, <1>8, <1>10, <1>12, <1>13, <1>14 DEF Scored

LEMMA MessagesKept ==
    Jobs!TypeOK /\ Messages /\ [Jobs!Next]_(Jobs!vars) => Messages'
<1> SUFFICES ASSUME Jobs!TypeOK, Messages, [Jobs!Next]_(Jobs!vars) PROVE Messages'
  OBVIOUS
<1>1. ASSUME NEW w \in Worker, Jobs!StartCommit(w) PROVE Messages'
  <2>1. /\ worker[w].at = "starting" /\ Jobs!Goes(w, "loading") /\ UNCHANGED <<creating, waiting, runs, redelivered>>
        /\ row' = [row EXCEPT ![worker[w].job] = [status |-> "running"]]
    BY <1>1 DEF Jobs!StartCommit, Jobs!SetStatus
  <2>2. worker[w] # Jobs!Free /\ worker[w].job \in Job
    BY <2>1, WorkerShape
  <2>3. /\ \A j \in Job : j # worker[w].job => row'[j] = row[j]
        /\ row'[worker[w].job].status = "running"
    BY <2>1, <2>2 DEF Jobs!TypeOK
  <2>4. /\ \A x \in Worker : x # w => worker'[x] = worker[x]
        /\ worker'[w] # Jobs!Free /\ worker'[w].at = "loading" /\ worker'[w].job = worker[w].job
    BY <2>1, TaskGoes DEF Jobs!Trains
  <2>5. \A j \in Job : Jobs!RunsOf(j)' = Jobs!RunsOf(j)
    BY <2>1 DEF Jobs!RunsOf
  <2>6. QED
    BY <2>1, <2>2, <2>3, <2>4, <2>5, GoesOnKeepsMessages DEF Jobs!Trains
<1>2. ASSUME NEW w \in Worker, Jobs!StartFails(w) \/ Jobs!FailFails(w) \/ Jobs!Acknowledge(w)
      PROVE  Messages'
  <2>1. worker[w] # Jobs!Free
    BY <1>2, WorkerShape DEF Jobs!StartFails, Jobs!FailFails, Jobs!Acknowledge
  <2>2. QED
    BY <1>2, <2>1, EndKeepsMessages DEF Jobs!StartFails, Jobs!FailFails, Jobs!Acknowledge
<1>3. ASSUME NEW w \in Worker, Jobs!TrainEpoch(w) PROVE Messages'
  <2>1. /\ worker[w].at = "training" /\ UNCHANGED <<creating, row, waiting, redelivered>>
        /\ DOMAIN runs' = DOMAIN runs /\ \A q \in DOMAIN runs : runs'[q].job = runs[q].job
        /\ \A x \in Worker : x # w => worker'[x] = worker[x]
        /\ worker'[w] # Jobs!Free /\ worker'[w].at = "training" /\ worker'[w].job = worker[w].job
    BY <1>3, EpochScored DEF Scored
  <2>2. worker[w] # Jobs!Free /\ worker[w].job \in Job
    BY <2>1, WorkerShape
  <2>3. \A j \in Job : Jobs!RunsOf(j)' = Jobs!RunsOf(j)
    BY <2>1 DEF Jobs!RunsOf
  <2>4. row[worker[w].job].status # "absent"
    BY <2>2 DEF Messages, Jobs!NothingBeforeCreation, Jobs!Of
  <2>5. QED
    BY <2>1, <2>2, <2>3, <2>4, GoesOnKeepsMessages DEF Jobs!Trains
<1>4. ASSUME NEW w \in Worker, Jobs!SaveCheckpoint(w) \/ Jobs!ExportOnnx(w) \/ Jobs!RunFails(w)
      PROVE  Messages'
  <2>1. PICK where \in {"exporting", "finishing", "failing"} :
          /\ Jobs!Goes(w, where) /\ worker[w].at \in {"loading"} \cup Jobs!Trains
          /\ where \in Jobs!Trains => worker[w].at \in Jobs!Trains
          /\ UNCHANGED <<creating, row, waiting, runs, redelivered>>
    BY <1>4 DEF Jobs!SaveCheckpoint, Jobs!ExportOnnx, Jobs!RunFails, Jobs!Trains
  <2>2. worker[w] # Jobs!Free /\ worker[w].job \in Job /\ worker[w].at # "free"
    BY <2>1, WorkerShape DEF Jobs!Trains
  <2>3. /\ \A x \in Worker : x # w => worker'[x] = worker[x]
        /\ worker'[w] # Jobs!Free /\ worker'[w].at = where /\ worker'[w].job = worker[w].job
    BY <2>1, <2>2, TaskGoes DEF Jobs!Trains
  <2>4. \A j \in Job : Jobs!RunsOf(j)' = Jobs!RunsOf(j)
    BY <2>1 DEF Jobs!RunsOf
  <2>5. row[worker[w].job].status # "absent"
    BY <2>2 DEF Messages, Jobs!NothingBeforeCreation, Jobs!Of
  <2>6. QED
    BY <2>1, <2>2, <2>3, <2>4, <2>5, GoesOnKeepsMessages
<1>5. ASSUME NEW w \in Worker, Jobs!CompleteCommit(w) \/ Jobs!FailCommit(w) PROVE Messages'
  <2>1. PICK new \in [status : {"failed"}] \cup [status : {"completed"}, run : {worker[w].run}, name : {worker[w].name}] :
          /\ Jobs!Goes(w, "acknowledging") /\ worker[w].at \in {"finishing", "failing"}
          /\ row' = [row EXCEPT ![worker[w].job] = new]
          /\ UNCHANGED <<creating, waiting, runs, redelivered>>
    BY <1>5 DEF Jobs!CompleteCommit, Jobs!FailCommit, Jobs!SetStatus
  <2>2. worker[w] # Jobs!Free /\ worker[w].job \in Job /\ worker[w].at # "free"
    BY <2>1, WorkerShape
  <2>3. /\ \A x \in Worker : x # w => worker'[x] = worker[x]
        /\ worker'[w] # Jobs!Free /\ worker'[w].at = "acknowledging" /\ worker'[w].job = worker[w].job
    BY <2>1, <2>2, TaskGoes DEF Jobs!Trains
  <2>4. \A j \in Job : Jobs!RunsOf(j)' = Jobs!RunsOf(j)
    BY <2>1 DEF Jobs!RunsOf
  <2>5. /\ \A j \in Job : j # worker[w].job => row'[j] = row[j]
        /\ row'[worker[w].job].status # "absent"
    BY <2>1, <2>2 DEF Jobs!TypeOK
  <2>6. QED
    BY <2>1, <2>2, <2>3, <2>4, <2>5, GoesOnKeepsMessages DEF Jobs!Trains
<1>6. ASSUME NEW w \in Worker, Jobs!WorkerLost(w) PROVE Messages'
  BY <1>6, RedeliveryKeepsMessages DEF Jobs!WorkerLost
<1>7. ASSUME NEW j \in Job, Jobs!BrokerRedelivers(j) PROVE Messages'
  <2>1. PICK w \in Worker : Jobs!Of(j, w) /\ worker[w].at # "starting"
    BY <1>7 DEF Jobs!BrokerRedelivers
  <2>2. QED
    BY <1>7, <2>1, RedeliveryKeepsMessages DEF Jobs!BrokerRedelivers, Jobs!Of
<1>8. CASE UNCHANGED Jobs!vars
  BY <1>8 DEF Jobs!vars, Messages, Jobs!NothingBeforeCreation, Jobs!OneMessage,
     Jobs!OneAtATime, Jobs!RunsOf, Jobs!Begun, Jobs!Busy, Jobs!Of
<1>9. QED
  BY <1>1, <1>2, <1>3, <1>4, <1>5, <1>6, <1>7, <1>8, CreationKeepsMessages, ReceiveKeepsMessages,
     BeginKeepsMessages DEF Jobs!Next, Jobs!Work

LEMMA RowShape ==
    ASSUME Jobs!TypeOK, NEW j \in Job
    PROVE  /\ row[j].status \in Jobs!Status
           /\ row[j].status = "completed" => row[j].run \in DOMAIN runs /\ row[j].name \in Jobs!Name
<1>1. row[j] \in Jobs!RowState
  BY DEF Jobs!TypeOK
<1>2. QED
  BY <1>1 DEF Jobs!RowState, Jobs!Status

LEMMA RunShape ==
    ASSUME Jobs!TypeOK, NEW r \in DOMAIN runs
    PROVE  /\ r \in Nat /\ runs[r].job \in Job /\ runs[r].second \in 1 .. MaxSeconds
           /\ runs[r].scores \in Seq(0 .. MaxScore)
           /\ Len(runs[r].scores) \in Nat /\ Len(runs[r].scores) <= MaxEpochs
<1>1. runs \in Seq(Jobs!Run) /\ r \in 1 .. Len(runs) /\ Len(runs[r].scores) <= MaxEpochs
  BY DEF Jobs!TypeOK
<1>2. runs[r] \in Jobs!Run
  BY <1>1
<1>3. QED
  BY <1>1, <1>2 DEF Jobs!Run

\* A file is written into the directory of the worker's run.
LEMMA SaveWrites ==
    ASSUME Jobs!TypeOK, NEW w \in Worker, worker[w].at \in Jobs!Trains,
           NEW name \in DOMAIN Jobs!Empty, NEW epoch \in 0 .. MaxEpochs, Jobs!Save(w, name, epoch)
    PROVE  /\ files' \in [1 .. MaxSeconds -> [DOMAIN Jobs!Empty -> [run : Nat, epoch : 0 .. MaxEpochs]]]
           /\ \A d \in 1 .. MaxSeconds, n \in DOMAIN Jobs!Empty :
                files'[d][n] = IF d = runs[worker[w].run].second /\ n = name
                                 THEN [run |-> worker[w].run, epoch |-> epoch] ELSE files[d][n]
<1>1. PICK file, second : file = [run |-> worker[w].run, epoch |-> epoch]
                            /\ second = runs[worker[w].run].second
  OBVIOUS
<1>2. worker[w].run \in DOMAIN runs
  BY WorkerShape
<1>3. file \in [run : Nat, epoch : 0 .. MaxEpochs] /\ second \in 1 .. MaxSeconds
  BY <1>1, <1>2, RunShape
<1>4. files' = [files EXCEPT ![second][name] = file]
  BY <1>1 DEF Jobs!Save
<1>5. QED
  BY <1>1, <1>3, <1>4 DEF Jobs!TypeOK

LEMMA SaveLeaves ==
    ASSUME Jobs!TypeOK, NEW w \in Worker, worker[w].at \in Jobs!Trains,
           NEW name \in DOMAIN Jobs!Empty, NEW epoch \in 0 .. MaxEpochs, Jobs!Save(w, name, epoch),
           NEW d \in 1 .. MaxSeconds, NEW n \in DOMAIN Jobs!Empty,
           d # runs[worker[w].run].second \/ n # name
    PROVE  files'[d][n] = files[d][n]
<1>1. PICK file, second : file = [run |-> worker[w].run, epoch |-> epoch]
                            /\ second = runs[worker[w].run].second
  OBVIOUS
<1>2. second \in 1 .. MaxSeconds
  BY <1>1, WorkerShape, RunShape
<1>3. files' = [files EXCEPT ![second][name] = file]
  BY <1>1 DEF Jobs!Save
<1>4. QED
  BY <1>1, <1>2, <1>3 DEF Jobs!TypeOK

LEMMA ScoresAre ==
    ASSUME NEW S, NEW s \in Seq(S)
    PROVE  DOMAIN s = 1 .. Len(s) /\ \A k \in DOMAIN s : s[k] \in S
OBVIOUS

LEMMA NamesAreFiles == "best.pt" \in DOMAIN Jobs!Empty /\ "last.pt" \in DOMAIN Jobs!Empty
                         /\ "onnx" \in DOMAIN Jobs!Empty /\ Jobs!Name \subseteq DOMAIN Jobs!Empty
BY DEF Jobs!Empty, Jobs!Name

LEMMA EndTyped ==
    ASSUME Jobs!TypeOK, NEW w \in Worker, worker' = [worker EXCEPT ![w] = Jobs!Free]
    PROVE  worker' \in [Worker -> Jobs!WorkerState]
BY DEF Jobs!TypeOK, Jobs!WorkerState

LEMMA BeginTyped ==
    ASSUME ProgressAssumption, Jobs!TypeOK, NEW w \in Worker, Jobs!BeginTraining(w)
    PROVE  Jobs!TypeOK'
<1>1. worker[w].at = "loading" /\ worker[w].job \in Job /\ now' \in 1 .. MaxSeconds
  BY WorkerShape DEF Jobs!BeginTraining, Jobs!TypeOK
<1>2. PICK new, task :
        /\ new = [job |-> worker[w].job, second |-> now', scores |-> <<>>]
        /\ task = [at |-> "training", job |-> worker[w].job, run |-> Len(runs) + 1,
                   best |-> 0, name |-> "last.pt"]
  OBVIOUS
<1>3. /\ runs' = Append(runs, new) /\ worker' = [worker EXCEPT ![w] = task]
      /\ UNCHANGED <<creating, row, waiting, files, redelivered, stranded>>
  BY <1>2 DEF Jobs!BeginTraining
<1>4. new \in Jobs!Run /\ Len(new.scores) = 0
  BY <1>1, <1>2, EmptySeq DEF Jobs!Run
<1>5. /\ runs' \in Seq(Jobs!Run) /\ DOMAIN runs' = DOMAIN runs \cup {Len(runs) + 1}
      /\ \A r \in DOMAIN runs : runs'[r] = runs[r]
      /\ runs'[Len(runs) + 1] = new /\ Len(runs) + 1 \in DOMAIN runs'
  BY <1>3, <1>4 DEF Jobs!TypeOK
<1>6. task \in [at : Jobs!Trains \cup {"failing", "acknowledging"}, job : Job,
                run : DOMAIN runs', best : 0 .. MaxScore, name : Jobs!Name]
  BY <1>1, <1>2, <1>5, ProgressAssumption DEF Jobs!Trains, Jobs!Name, ProgressAssumption,
     Jobs!TrainingAssumption
<1>7. Jobs!WorkerState \subseteq Jobs!WorkerState' /\ Jobs!RowState \subseteq Jobs!RowState'
  BY <1>5 DEF Jobs!WorkerState, Jobs!RowState
<1>8. worker' \in [Worker -> Jobs!WorkerState'] /\ row' \in [Job -> Jobs!RowState']
  BY <1>3, <1>6, <1>7 DEF Jobs!TypeOK, Jobs!WorkerState
<1>9. \A r \in DOMAIN runs' : Len(runs'[r].scores) <= MaxEpochs
  BY <1>4, <1>5, ProgressAssumption DEF Jobs!TypeOK, ProgressAssumption, Jobs!TrainingAssumption
<1>10. QED
  BY <1>1, <1>3, <1>5, <1>8, <1>9 DEF Jobs!TypeOK

LEMMA JobsTypeStep ==
    ProgressAssumption /\ Jobs!TypeOK /\ [Jobs!Next]_(Jobs!vars) => Jobs!TypeOK'
<1> SUFFICES ASSUME ProgressAssumption, Jobs!TypeOK, [Jobs!Next]_(Jobs!vars) PROVE Jobs!TypeOK'
  OBVIOUS
<1>1. ASSUME UNCHANGED runs
      PROVE  Jobs!WorkerState' = Jobs!WorkerState /\ Jobs!RowState' = Jobs!RowState
  BY <1>1 DEF Jobs!WorkerState, Jobs!RowState
<1>2. /\ [status |-> "pending"] \in Jobs!RowState /\ [status |-> "running"] \in Jobs!RowState
      /\ [status |-> "failed"] \in Jobs!RowState
  BY DEF Jobs!RowState, Jobs!Status
<1>3. ASSUME NEW j \in Job,
             \/ Jobs!CreateTrainingJob(j) \/ Jobs!Enqueue(j)
             \/ Jobs!EnqueueTwice(j) \/ Jobs!EnqueueFails(j)
      PROVE  Jobs!TypeOK'
  <2>1. /\ UNCHANGED <<worker, runs, files, now>>
        /\ creating' \subseteq Job /\ stranded' \subseteq Job
        /\ redelivered' = redelivered \/ redelivered' = [redelivered EXCEPT ![j] = 2]
        /\ \/ waiting' = waiting \/ waiting' = [waiting EXCEPT ![j] = @ + 1]
           \/ waiting' = [waiting EXCEPT ![j] = @ + 2]
    BY <1>3 DEF Jobs!CreateTrainingJob, Jobs!Enqueue, Jobs!EnqueueTwice, Jobs!EnqueueFails,
       Jobs!TypeOK
  <2>2. waiting' \in [Job -> Nat] /\ redelivered' \in [Job -> Nat]
    <3>1. /\ waiting \in [Job -> Nat] /\ waiting[j] + 1 \in Nat /\ waiting[j] + 2 \in Nat
          /\ redelivered \in [Job -> Nat]
      BY DEF Jobs!TypeOK
    <3>2. QED
      BY <2>1, <3>1
  <2>3. row' \in [Job -> Jobs!RowState]
    BY <1>2, <1>3 DEF Jobs!CreateTrainingJob, Jobs!Enqueue, Jobs!EnqueueTwice, Jobs!EnqueueFails,
       Jobs!SetStatus, Jobs!TypeOK
  <2>4. QED
    BY <1>1, <2>1, <2>2, <2>3 DEF Jobs!TypeOK
<1>4. ASSUME NEW w \in Worker, NEW j \in Job, Jobs!Receive(w, j) PROVE Jobs!TypeOK'
  <2>1. [at |-> "starting", job |-> j] \in Jobs!WorkerState
    BY DEF Jobs!WorkerState
  <2>2. worker' \in [Worker -> Jobs!WorkerState]
    BY <1>4, <2>1 DEF Jobs!Receive, Jobs!TypeOK
  <2>3. waiting' \in [Job -> Nat]
    <3>1. waiting[j] - 1 \in Nat
      BY <1>4 DEF Jobs!Receive, Jobs!TypeOK
    <3>2. QED
      BY <1>4, <3>1 DEF Jobs!Receive, Jobs!TypeOK
  <2>4. QED
    BY <1>1, <1>4, <2>2, <2>3 DEF Jobs!Receive, Jobs!TypeOK
<1>5. ASSUME NEW w \in Worker, Jobs!StartCommit(w) \/ Jobs!RunFails(w) \/ Jobs!FailCommit(w)
      PROVE  Jobs!TypeOK'
  <2>1. worker[w].at # "free" /\ worker[w].job \in Job
    BY <1>5, WorkerShape DEF Jobs!StartCommit, Jobs!RunFails, Jobs!FailCommit
  <2>2. worker' \in [Worker -> Jobs!WorkerState]
    BY <1>5, <2>1, TaskGoes DEF Jobs!StartCommit, Jobs!RunFails, Jobs!FailCommit, Jobs!Trains
  <2>3. row' \in [Job -> Jobs!RowState]
    BY <1>2, <1>5, <2>1 DEF Jobs!StartCommit, Jobs!RunFails, Jobs!FailCommit, Jobs!SetStatus,
       Jobs!TypeOK
  <2>4. QED
    BY <1>1, <1>5, <2>2, <2>3 DEF Jobs!StartCommit, Jobs!RunFails, Jobs!FailCommit, Jobs!TypeOK
<1>6. ASSUME NEW w \in Worker, Jobs!StartFails(w) \/ Jobs!FailFails(w) \/ Jobs!Acknowledge(w)
      PROVE  Jobs!TypeOK'
  <2>1. worker[w].job \in Job
    BY <1>6, WorkerShape DEF Jobs!StartFails, Jobs!FailFails, Jobs!Acknowledge
  <2>2. QED
    BY <1>1, <1>6, <2>1, EndTyped DEF Jobs!StartFails, Jobs!FailFails, Jobs!Acknowledge, Jobs!TypeOK
<1>7. ASSUME NEW w \in Worker, Jobs!TrainEpoch(w) PROVE Jobs!TypeOK'
  <2>1. PICK r, best, name : r = worker[w].run /\ best = worker[w].best /\ name = worker[w].name
    OBVIOUS
  <2>0. PICK score \in 0 .. MaxScore : Scored(w, r, best, name, score)
    BY <1>7, <2>1, EpochScored
  <2>2. /\ worker[w].at = "training" /\ r \in DOMAIN runs /\ Len(runs[r].scores) < MaxEpochs
        /\ UNCHANGED <<creating, row, waiting, now, redelivered, stranded>>
        /\ runs' \in Seq(Jobs!Run) /\ DOMAIN runs' = DOMAIN runs
        /\ \A q \in DOMAIN runs : q # r => runs'[q] = runs[q]
        /\ runs'[r].scores = Append(runs[r].scores, score)
        /\ worker' \in [Worker -> Jobs!WorkerState]
        /\ \/ files' = [files EXCEPT ![runs[r].second]["best.pt"] =
                          [run |-> r, epoch |-> Len(runs[r].scores) + 1]]
           \/ files' = files
    BY <2>0 DEF Scored
  <2>3. runs[r].scores \in Seq(0 .. MaxScore) /\ Len(runs[r].scores) \in Nat
    BY <2>2, RunShape
  <2>4. Len(runs'[r].scores) = Len(runs[r].scores) + 1 /\ Len(runs[r].scores) + 1 \in 0 .. MaxEpochs
    BY <2>2, <2>3, ProgressAssumption DEF ProgressAssumption, Jobs!TrainingAssumption
  <2>5. \A q \in DOMAIN runs' : Len(runs'[q].scores) <= MaxEpochs
    <3>1. ASSUME NEW q \in DOMAIN runs, q # r PROVE Len(runs'[q].scores) <= MaxEpochs
      BY <2>2, <3>1, RunShape
    <3>2. Len(runs'[r].scores) <= MaxEpochs
      BY <2>4, ProgressAssumption DEF ProgressAssumption, Jobs!TrainingAssumption
    <3>3. QED
      BY <2>2, <3>1, <3>2
  <2>6. files' \in [1 .. MaxSeconds -> [DOMAIN Jobs!Empty -> [run : Nat, epoch : 0 .. MaxEpochs]]]
    BY <2>1, <2>2, <2>4, SaveWrites, NamesAreFiles DEF Jobs!Save, Jobs!Trains, Jobs!TypeOK
  <2>7. Jobs!WorkerState' = Jobs!WorkerState /\ Jobs!RowState' = Jobs!RowState
    BY <2>2 DEF Jobs!WorkerState, Jobs!RowState
  <2>8. QED
    BY <2>2, <2>5, <2>6, <2>7 DEF Jobs!TypeOK
<1>8. ASSUME NEW w \in Worker, Jobs!SaveCheckpoint(w) \/ Jobs!ExportOnnx(w) PROVE Jobs!TypeOK'
  <2>1. worker[w].at \in Jobs!Trains /\ worker[w].at # "free" /\ MaxEpochs \in 0 .. MaxEpochs
    BY <1>8, ProgressAssumption DEF Jobs!SaveCheckpoint, Jobs!ExportOnnx, Jobs!Trains,
       ProgressAssumption, Jobs!TrainingAssumption
  <2>2. worker' \in [Worker -> Jobs!WorkerState]
    BY <1>8, <2>1, TaskGoes DEF Jobs!SaveCheckpoint, Jobs!ExportOnnx, Jobs!Trains
  <2>3. files' \in [1 .. MaxSeconds -> [DOMAIN Jobs!Empty -> [run : Nat, epoch : 0 .. MaxEpochs]]]
    BY <1>8, <2>1, SaveWrites, NamesAreFiles DEF Jobs!SaveCheckpoint, Jobs!ExportOnnx, Jobs!TypeOK
  <2>4. QED
    BY <1>1, <1>8, <2>2, <2>3 DEF Jobs!SaveCheckpoint, Jobs!ExportOnnx, Jobs!TypeOK
<1>9. ASSUME NEW w \in Worker, Jobs!CompleteCommit(w) PROVE Jobs!TypeOK'
  <2>1. worker[w].at = "finishing" /\ worker[w].at \in Jobs!Trains /\ worker[w].job \in Job
    BY <1>9, WorkerShape DEF Jobs!CompleteCommit, Jobs!Trains
  <2>2. worker' \in [Worker -> Jobs!WorkerState]
    BY <1>9, <2>1, TaskGoes DEF Jobs!CompleteCommit, Jobs!Trains
  <2>3. [status |-> "completed", run |-> worker[w].run, name |-> worker[w].name] \in Jobs!RowState
    BY <2>1, WorkerShape DEF Jobs!RowState
  <2>4. QED
    BY <1>1, <1>9, <2>1, <2>2, <2>3 DEF Jobs!CompleteCommit, Jobs!TypeOK
<1>10. ASSUME NEW j \in Job, Jobs!Redeliveries(j)
       PROVE  redelivered' \in [Job -> Nat] /\ waiting' \in [Job -> Nat]
  BY <1>10 DEF Jobs!Redeliveries, Jobs!TypeOK
<1>11. ASSUME NEW w \in Worker, Jobs!WorkerLost(w) PROVE Jobs!TypeOK'
  <2>1. worker[w].job \in Job
    BY <1>11, WorkerShape DEF Jobs!WorkerLost
  <2>2. QED
    BY <1>1, <1>10, <1>11, <2>1, EndTyped DEF Jobs!WorkerLost, Jobs!TypeOK
<1>12. ASSUME NEW j \in Job, Jobs!BrokerRedelivers(j) PROVE Jobs!TypeOK'
  BY <1>1, <1>10, <1>12 DEF Jobs!BrokerRedelivers, Jobs!TypeOK
<1>13. CASE UNCHANGED Jobs!vars
  BY <1>1, <1>13 DEF Jobs!vars, Jobs!TypeOK
<1>14. QED
  BY <1>3, <1>4, <1>5, <1>6, <1>7, <1>8, <1>9, <1>11, <1>12, <1>13, BeginTyped
     DEF Jobs!Next, Jobs!Work

\* What a worker knows of its run, and what the row of a job says of the run that
\* completed it, by the run and the name of its file.
BestOf(r, best, name, over) ==
    LET scores == runs[r].scores
        file   == files[runs[r].second][name] IN
    /\ \A k \in DOMAIN scores : scores[k] <= best
    /\ over => Len(scores) = MaxEpochs
    /\ IF best = 0
         THEN name = "last.pt" /\ (over /\ Jobs!Alone(r) => file = [run |-> r, epoch |-> MaxEpochs])
         ELSE /\ name = "best.pt"
              /\ Jobs!Alone(r) => /\ file.run = r /\ file.epoch \in DOMAIN scores
                                  /\ scores[file.epoch] = best
Holds(r, name) ==
    Jobs!Alone(r) =>
      /\ files[runs[r].second][name].run = r
      /\ Jobs!IsBest(r, files[runs[r].second][name].epoch)

Trains(w)  == worker[w] # Jobs!Free /\ worker[w].at \in Jobs!Trains
Knows(w)   == BestOf(worker[w].run, worker[w].best, worker[w].name, worker[w].at # "training")
Records(j) == Holds(row[j].run, row[j].name)

Checkpoints ==
    /\ Jobs!RunsApart
    /\ \A w \in Worker : Trains(w) => Knows(w)
    /\ \A j \in Job : row[j].status = "completed" => Records(j)

LEMMA CheckpointsAre ==
    Checkpoints <=> Jobs!RunsApart /\ Jobs!BestIsSaved /\ Jobs!CheckpointHoldsBestEpoch
<1>1. (\A w \in Worker : Trains(w) => Knows(w)) <=> Jobs!BestIsSaved
  BY DEF Trains, Knows, BestOf, Jobs!BestIsSaved
<1>2. (\A j \in Job : row[j].status = "completed" => Records(j)) <=> Jobs!CheckpointHoldsBestEpoch
  BY DEF Records, Holds, Jobs!CheckpointHoldsBestEpoch, Jobs!Stored
<1>3. QED
  BY <1>1, <1>2 DEF Checkpoints

LEMMA BestStays ==
    ASSUME NEW r, NEW best, NEW name, NEW over, NEW over2, BestOf(r, best, name, over),
           over2 => over,
           runs'[r] = runs[r], Jobs!Alone(r)' => Jobs!Alone(r),
           Jobs!Alone(r)' => files'[runs[r].second][name] = files[runs[r].second][name]
    PROVE  BestOf(r, best, name, over2)'
BY DEF BestOf

LEMMA HoldsStays ==
    ASSUME NEW r, NEW name, Holds(r, name),
           runs'[r] = runs[r], Jobs!Alone(r)' => Jobs!Alone(r),
           Jobs!Alone(r)' => files'[runs[r].second][name] = files[runs[r].second][name]
    PROVE  Holds(r, name)'
BY DEF Holds, Jobs!IsBest

\* Nothing is written, and workers go on with their runs or let go of them.
LEMMA QuietKeepsCheckpoints ==
    ASSUME Jobs!TypeOK, Checkpoints, UNCHANGED <<runs, files>>,
           \A x \in Worker :
             \/ worker'[x] = Jobs!Free
             \/ worker'[x].at \notin Jobs!Trains
             \/ worker'[x] = worker[x]
             \/ /\ worker[x].at \in Jobs!Trains /\ worker[x] # Jobs!Free
                /\ worker[x].at # "training"
                /\ worker'[x].run = worker[x].run /\ worker'[x].best = worker[x].best
                /\ worker'[x].name = worker[x].name,
           \A j \in Job : row'[j] = row[j] \/ row'[j].status # "completed"
    PROVE  Checkpoints'
<1> USE DEF Checkpoints
<1>1. ASSUME NEW x \in Worker, Trains(x)'
      PROVE  /\ Trains(x)
             /\ worker'[x].run = worker[x].run /\ worker'[x].best = worker[x].best
             /\ worker'[x].name = worker[x].name
             /\ worker'[x].at # "training" => worker[x].at # "training"
  BY <1>1 DEF Trains
<1>2. Jobs!RunsApart'
  <2>1. Jobs!RunsApart
    OBVIOUS
  <2>2. QED
    BY <1>1, <2>1 DEF Jobs!RunsApart, Trains
<1>3. ASSUME NEW x \in Worker, Trains(x)' PROVE Knows(x)'
  <2>1. PICK r, best, name, over, over2 :
          /\ r = worker[x].run /\ best = worker[x].best /\ name = worker[x].name
          /\ over = (worker[x].at # "training") /\ over2 = (worker'[x].at # "training")
    OBVIOUS
  <2>2. BestOf(r, best, name, over) /\ (over2 => over)
    BY <1>1, <1>3, <2>1 DEF Knows
  <2>3. BestOf(r, best, name, over2)'
    BY <2>2, BestStays DEF Jobs!Alone
  <2>4. QED
    BY <1>1, <1>3, <2>1, <2>3 DEF Knows
<1>4. ASSUME NEW j \in Job, row'[j].status = "completed" PROVE Records(j)'
  <2>1. row'[j] = row[j]
    BY <1>4
  <2>2. PICK r, name : r = row[j].run /\ name = row[j].name
    OBVIOUS
  <2>3. Holds(r, name)
    BY <1>4, <2>1, <2>2 DEF Records
  <2>4. Holds(r, name)'
    BY <2>3, HoldsStays DEF Jobs!Alone
  <2>5. QED
    BY <2>1, <2>2, <2>4 DEF Records
<1>5. QED
  BY <1>2, <1>3, <1>4

\* A new run starts with no scores; the others stay.
LEMMA BeginKeepsCheckpoints ==
    ASSUME Jobs!TypeOK, Checkpoints, NEW w \in Worker, Jobs!BeginTraining(w)
    PROVE  Checkpoints'
<1> USE DEF Checkpoints
<1>1. PICK n : n = Len(runs) + 1
  OBVIOUS
<1>2. /\ worker'[w].at = "training" /\ worker'[w].run = n /\ worker'[w].best = 0
      /\ worker'[w].name = "last.pt" /\ worker'[w] # Jobs!Free
      /\ \A x \in Worker : x # w => worker'[x] = worker[x]
      /\ UNCHANGED <<row, files>>
  BY <1>1 DEF Jobs!BeginTraining, Jobs!TypeOK, Jobs!Free
<1>3. /\ n \notin DOMAIN runs /\ DOMAIN runs' = DOMAIN runs \cup {n}
      /\ \A r \in DOMAIN runs : runs'[r] = runs[r]
      /\ runs'[n].scores = <<>>
  <2>1. PICK new : new = [job |-> worker[w].job, second |-> now', scores |-> <<>>]
    OBVIOUS
  <2>2. runs' = Append(runs, new) /\ new.scores = <<>> /\ runs \in Seq(Jobs!Run) /\ Len(runs) \in Nat
    BY <2>1 DEF Jobs!BeginTraining, Jobs!TypeOK
  <2>3. DOMAIN runs = 1 .. Len(runs) /\ DOMAIN runs' = 1 .. Len(runs) + 1 /\ runs'[Len(runs) + 1] = new
    BY <2>2
  <2>4. \A r \in DOMAIN runs : runs'[r] = runs[r]
    BY <2>2
  <2>5. QED
    BY <1>1, <2>2, <2>3, <2>4
<1>4. \A r \in DOMAIN runs : Jobs!Alone(r)' => Jobs!Alone(r)
  BY <1>3 DEF Jobs!Alone
<1>5. \A x \in Worker : x # w /\ Trains(x)' => Trains(x) /\ worker[x].run \in DOMAIN runs
  BY <1>2, WorkerShape DEF Trains
<1>6. \A j \in Job : row[j].status = "completed" => row[j].run \in DOMAIN runs
  BY RowShape
<1>7. Jobs!RunsApart'
  <2>1. Jobs!RunsApart
    OBVIOUS
  <2>2. QED
    BY <1>2, <1>3, <1>5, <1>6, <2>1 DEF Jobs!RunsApart, Trains
<1>8. ASSUME NEW x \in Worker, Trains(x)' PROVE Knows(x)'
  <2>1. CASE x = w
    <3>1. BestOf(n, 0, "last.pt", FALSE)'
      BY <1>3, EmptySeq DEF BestOf
    <3>2. QED
      BY <1>2, <2>1, <3>1 DEF Knows
  <2>2. CASE x # w
    <3>1. PICK r, best, name, over :
            /\ r = worker[x].run /\ best = worker[x].best /\ name = worker[x].name
            /\ over = (worker[x].at # "training")
      OBVIOUS
    <3>2. BestOf(r, best, name, over) /\ r \in DOMAIN runs
      BY <1>5, <1>8, <2>2, <3>1 DEF Knows
    <3>3. BestOf(r, best, name, over)'
      BY <1>2, <1>3, <1>4, <3>2, BestStays
    <3>4. QED
      BY <1>2, <2>2, <3>1, <3>3 DEF Knows
  <2>3. QED
    BY <2>1, <2>2
<1>9. ASSUME NEW j \in Job, row'[j].status = "completed" PROVE Records(j)'
  <2>1. PICK r, name : r = row[j].run /\ name = row[j].name
    OBVIOUS
  <2>2. Holds(r, name) /\ r \in DOMAIN runs
    BY <1>2, <1>6, <1>9, <2>1 DEF Records
  <2>3. Holds(r, name)'
    BY <1>2, <1>3, <1>4, <2>2, HoldsStays
  <2>4. QED
    BY <1>2, <2>1, <2>3 DEF Records
<1>10. QED
  BY <1>7, <1>8, <1>9

\* A worker writes to the directory of its run: what others know stays.
LEMMA OthersKeepCheckpoints ==
    ASSUME Jobs!TypeOK, Checkpoints, NEW w \in Worker, Trains(w), Trains(w)',
           row' = row, worker'[w].run = worker[w].run,
           \A x \in Worker : x # w => worker'[x] = worker[x],
           DOMAIN runs' = DOMAIN runs,
           \A q \in DOMAIN runs :
             runs'[q].second = runs[q].second /\ (q # worker[w].run => runs'[q] = runs[q]),
           \A d \in 1 .. MaxSeconds, n \in DOMAIN Jobs!Empty :
             d # runs[worker[w].run].second => files'[d][n] = files[d][n],
           Knows(w)'
    PROVE  Checkpoints'
<1> USE DEF Checkpoints
<1>1. PICK s \in DOMAIN runs : s = worker[w].run
  BY WorkerShape DEF Trains
<1>2. \A r \in DOMAIN runs : Jobs!Alone(r)' => Jobs!Alone(r)
  BY DEF Jobs!Alone
<1>3. \A x \in Worker : x # w /\ Trains(x)' =>
        Trains(x) /\ worker[x].run \in DOMAIN runs /\ worker[x].run # s /\ worker[x].name \in Jobs!Name
  BY <1>1, WorkerShape DEF Trains, Jobs!RunsApart
<1>4. \A j \in Job : row[j].status = "completed" =>
        row[j].run \in DOMAIN runs /\ row[j].run # s /\ row[j].name \in Jobs!Name
  BY <1>1, RowShape DEF Trains, Jobs!RunsApart
<1>5. \A r \in DOMAIN runs, n \in Jobs!Name :
        r # s /\ Jobs!Alone(r)' => files'[runs[r].second][n] = files[runs[r].second][n]
  BY <1>1, <1>2, NamesAreFiles, RunShape DEF Jobs!Alone
<1>6. Jobs!RunsApart'
  <2>1. Jobs!RunsApart
    OBVIOUS
  <2>2. QED
    BY <1>1, <1>3, <1>4, <2>1 DEF Jobs!RunsApart, Trains
<1>7. ASSUME NEW x \in Worker, Trains(x)' PROVE Knows(x)'
  <2>1. CASE x # w
    <3>1. PICK r, best, name, over :
            /\ r = worker[x].run /\ best = worker[x].best /\ name = worker[x].name
            /\ over = (worker[x].at # "training")
      OBVIOUS
    <3>2. BestOf(r, best, name, over) /\ r \in DOMAIN runs /\ r # s /\ name \in Jobs!Name
      BY <1>3, <1>7, <2>1, <3>1 DEF Knows
    <3>3. BestOf(r, best, name, over)'
      BY <1>1, <1>2, <1>5, <3>2, BestStays
    <3>4. QED
      BY <2>1, <3>1, <3>3 DEF Knows
  <2>2. QED
    BY <2>1
<1>8. ASSUME NEW j \in Job, row'[j].status = "completed" PROVE Records(j)'
  <2>1. PICK r, name : r = row[j].run /\ name = row[j].name
    OBVIOUS
  <2>2. Holds(r, name) /\ r \in DOMAIN runs /\ r # s /\ name \in Jobs!Name
    BY <1>4, <1>8, <2>1 DEF Records
  <2>3. Holds(r, name)'
    BY <1>1, <1>2, <1>5, <2>2, HoldsStays
  <2>4. QED
    BY <2>1, <2>3 DEF Records
<1>9. QED
  BY <1>6, <1>7, <1>8

\* An epoch that beats the others is saved, one that does not leaves the file.
LEMMA EpochKeepsCheckpoints ==
    ASSUME Jobs!TypeOK, Checkpoints, NEW w \in Worker, Jobs!TrainEpoch(w)
    PROVE  Checkpoints'
<1>1. PICK r, best, name : r = worker[w].run /\ best = worker[w].best /\ name = worker[w].name
  OBVIOUS
<1>0. PICK score \in 0 .. MaxScore : Scored(w, r, best, name, score)
  BY <1>1, EpochScored
<1>2. /\ worker[w].at = "training" /\ r \in DOMAIN runs /\ row' = row /\ DOMAIN runs' = DOMAIN runs
      /\ \A q \in DOMAIN runs : /\ runs'[q].second = runs[q].second
                                /\ q # r => runs'[q] = runs[q]
      /\ runs'[r].scores = Append(runs[r].scores, score)
      /\ \A x \in Worker : x # w => worker'[x] = worker[x]
      /\ worker'[w] # Jobs!Free /\ worker'[w].at = "training" /\ worker'[w].run = r
      /\ worker'[w].best = (IF score > best THEN score ELSE best)
      /\ worker'[w].name = (IF score > best THEN "best.pt" ELSE name)
      /\ files' = IF score > best
                    THEN [files EXCEPT ![runs[r].second]["best.pt"] =
                            [run |-> r, epoch |-> Len(runs[r].scores) + 1]]
                    ELSE files
  BY <1>0 DEF Scored
<1>3. PICK n, scores, d : n = Len(runs[r].scores) /\ scores = runs[r].scores /\ d = runs[r].second
  OBVIOUS
<1>4. /\ scores \in Seq(0 .. MaxScore) /\ n \in Nat /\ DOMAIN scores = 1 .. n /\ d \in 1 .. MaxSeconds
      /\ runs'[r].scores = Append(scores, score) /\ runs'[r].second = d
  BY <1>2, <1>3, RunShape
<1>5. /\ DOMAIN runs'[r].scores = 1 .. n + 1 /\ runs'[r].scores[n + 1] = score
      /\ \A k \in 1 .. n : runs'[r].scores[k] = scores[k]
      /\ \A k \in 1 .. n : scores[k] \in 0 .. MaxScore
  <2>1. Len(scores) = n /\ score \in 0 .. MaxScore
    BY <1>0, <1>3
  <2>2. PICK longer : longer = Append(scores, score)
    OBVIOUS
  <2>3. /\ longer[n + 1] = score /\ longer \in Seq(0 .. MaxScore) /\ Len(longer) = n + 1
        /\ \A k \in 1 .. n : longer[k] = scores[k]
    BY <1>4, <2>1, <2>2
  <2>4. QED
    BY <1>4, <2>1, <2>2, <2>3, ScoresAre
<1>6. best \in 0 .. MaxScore /\ score \in 0 .. MaxScore /\ name \in Jobs!Name /\ Trains(w)
  BY <1>1, <1>2, WorkerShape DEF Trains, Jobs!Trains
<1>7. BestOf(r, best, name, FALSE)
  BY <1>1, <1>2, <1>6 DEF Checkpoints, Knows
<1>8. Jobs!Alone(r)' => Jobs!Alone(r)
  BY <1>2 DEF Jobs!Alone
<1>9. Knows(w)'
  <2>1. CASE score > best
    <3>1. \A k \in 1 .. n + 1 : runs'[r].scores[k] <= score
      <4>1. \A k \in 1 .. n : scores[k] <= best
        BY <1>3, <1>4, <1>7 DEF BestOf
      <4>2. ASSUME NEW k \in 1 .. n + 1 PROVE runs'[r].scores[k] <= score
        <5>1. CASE k = n + 1
          BY <1>5, <1>6, <5>1
        <5>2. CASE k # n + 1
          <6>1. k \in 1 .. n
            BY <1>4, <5>2
          <6>2. scores[k] <= best /\ runs'[r].scores[k] = scores[k] /\ scores[k] \in 0 .. MaxScore
            BY <1>5, <4>1, <6>1
          <6>3. QED
            BY <1>6, <2>1, <6>2
        <5>3. QED
          BY <5>1, <5>2
      <4>3. QED
        BY <4>2
    <3>2. files'[d]["best.pt"] = [run |-> r, epoch |-> n + 1]
      <4>1. PICK file : file = [run |-> r, epoch |-> n + 1]
        OBVIOUS
      <4>2. files' = [files EXCEPT ![d]["best.pt"] = file]
        BY <1>2, <1>3, <2>1, <4>1
      <4>3. QED
        BY <1>4, <4>1, <4>2, NamesAreFiles DEF Jobs!TypeOK
    <3>3. n + 1 \in 1 .. n + 1 /\ score # 0
      BY <1>4, <1>6, <2>1
    <3>4. BestOf(r, score, "best.pt", FALSE)'
      BY <1>4, <1>5, <3>1, <3>2, <3>3 DEF BestOf
    <3>5. QED
      BY <1>2, <2>1, <3>4 DEF Knows
  <2>2. CASE ~ (score > best)
    <3>1. score <= best /\ files' = files
      BY <1>2, <1>6, <2>2
    <3>2. \A k \in 1 .. n + 1 : runs'[r].scores[k] <= best
      <4>1. \A k \in 1 .. n : scores[k] <= best
        BY <1>3, <1>4, <1>7 DEF BestOf
      <4>2. ASSUME NEW k \in 1 .. n + 1, k # n + 1 PROVE runs'[r].scores[k] <= best
        <5>1. k \in 1 .. n
          BY <1>4, <4>2
        <5>2. QED
          BY <1>5, <4>1, <5>1
      <4>3. QED
        BY <1>5, <3>1, <4>2
    <3>3. BestOf(r, best, name, FALSE)'
      <4>1. CASE best = 0
        BY <1>5, <1>7, <3>2, <4>1 DEF BestOf
      <4>2. CASE best # 0
        <5>1. name = "best.pt"
          BY <1>7, <4>2 DEF BestOf
        <5>2. ASSUME Jobs!Alone(r)'
              PROVE  /\ files'[d][name].run = r /\ files'[d][name].epoch \in 1 .. n + 1
                     /\ runs'[r].scores[files'[d][name].epoch] = best
          <6>1. /\ files[d][name].run = r /\ files[d][name].epoch \in 1 .. n
                /\ scores[files[d][name].epoch] = best
            BY <1>3, <1>4, <1>7, <1>8, <4>2, <5>2 DEF BestOf
          <6>2. files[d][name].epoch \in 1 .. n + 1
            BY <1>4, <6>1
          <6>3. QED
            BY <1>5, <3>1, <6>1, <6>2
        <5>3. QED
          BY <1>4, <1>5, <3>2, <4>2, <5>1, <5>2 DEF BestOf
      <4>3. QED
        BY <4>1, <4>2
    <3>4. QED
      BY <1>2, <2>2, <3>3 DEF Knows
  <2>3. QED
    BY <2>1, <2>2
<1>10. Trains(w)'
  BY <1>2 DEF Trains, Jobs!Trains
<1>11. ASSUME NEW q \in DOMAIN runs, q # r PROVE runs'[q] = runs[q]
  BY <1>2, <1>11
<1>12. ASSUME NEW e \in 1 .. MaxSeconds, NEW f \in DOMAIN Jobs!Empty, e # d
       PROVE  files'[e][f] = files[e][f]
  BY <1>2, <1>3, <1>12 DEF Jobs!TypeOK
<1>13. QED
  BY <1>1, <1>2, <1>3, <1>6, <1>9, <1>10, <1>11, <1>12, OthersKeepCheckpoints

\* The file of a run without a valid epoch, and the export, are in its directory.
LEMMA SaveKeepsCheckpoints ==
    ASSUME ProgressAssumption, Jobs!TypeOK, Checkpoints, NEW w \in Worker,
           \/ Jobs!SaveCheckpoint(w)
           \/ Jobs!ExportOnnx(w) /\ Jobs!Save(w, "onnx", MaxEpochs)
    PROVE  Checkpoints'
<1>1. PICK r, best, name : r = worker[w].run /\ best = worker[w].best /\ name = worker[w].name
  OBVIOUS
<1>2. /\ worker[w].at \in {"training", "exporting"} /\ worker[w].at \in Jobs!Trains
      /\ UNCHANGED <<row, runs>>
  BY DEF Jobs!SaveCheckpoint, Jobs!ExportOnnx, Jobs!Trains
<1>3. /\ worker[w].at # "free" /\ Trains(w) /\ r \in DOMAIN runs /\ best \in 0 .. MaxScore
      /\ name \in Jobs!Name
  BY <1>1, <1>2, WorkerShape DEF Trains, Jobs!Trains
<1>4. /\ \A x \in Worker : x # w => worker'[x] = worker[x]
      /\ worker'[w] # Jobs!Free /\ worker'[w].at \in {"exporting", "finishing"}
      /\ worker'[w].run = r /\ worker'[w].best = best /\ worker'[w].name = name
  BY <1>1, <1>2, <1>3, TaskGoes DEF Jobs!SaveCheckpoint, Jobs!ExportOnnx, Jobs!Trains
<1>5. PICK d : d = runs[r].second
  OBVIOUS
<1>6. MaxEpochs \in 0 .. MaxEpochs
  BY ProgressAssumption DEF ProgressAssumption, Jobs!TrainingAssumption
<1>7. ASSUME NEW e \in 1 .. MaxSeconds, NEW f \in DOMAIN Jobs!Empty, e # d
      PROVE  files'[e][f] = files[e][f]
  <2>1. CASE files' = files
    BY <2>1
  <2>2. ASSUME NEW n \in {"last.pt", "onnx"}, Jobs!Save(w, n, MaxEpochs)
        PROVE  files'[e][f] = files[e][f]
    <3>1. n \in DOMAIN Jobs!Empty
      BY NamesAreFiles
    <3>2. QED
      BY <1>1, <1>2, <1>5, <1>6, <1>7, <2>2, <3>1, SaveLeaves
  <2>3. QED
    BY <2>1, <2>2 DEF Jobs!SaveCheckpoint
<1>8. Knows(w)'
  <2>1. CASE Jobs!SaveCheckpoint(w)
    <3>1. BestOf(r, best, name, FALSE) /\ Len(runs[r].scores) = MaxEpochs
      BY <1>1, <1>3, <2>1 DEF Checkpoints, Knows, Jobs!SaveCheckpoint, Jobs!Epoch
    <3>2. CASE name = "last.pt"
      <4>1. Jobs!Save(w, "last.pt", MaxEpochs) /\ d \in 1 .. MaxSeconds
        BY <1>1, <1>3, <1>5, <2>1, <3>2, RunShape DEF Jobs!SaveCheckpoint
      <4>2. files'[d]["last.pt"] = [run |-> r, epoch |-> MaxEpochs]
        BY <1>1, <1>2, <1>5, <1>6, <4>1, SaveWrites, NamesAreFiles
      <4>3. best = 0
        BY <3>1, <3>2 DEF BestOf
      <4>4. BestOf(r, best, name, TRUE)'
        BY <1>2, <1>5, <3>1, <3>2, <4>2, <4>3 DEF BestOf
      <4>5. QED
        BY <1>4, <4>4 DEF Knows
    <3>3. CASE name # "last.pt"
      <4>1. files' = files
        BY <1>1, <2>1, <3>3 DEF Jobs!SaveCheckpoint
      <4>2. best # 0
        BY <3>1, <3>3 DEF BestOf
      <4>3. BestOf(r, best, name, TRUE)'
        BY <1>2, <3>1, <4>1, <4>2 DEF BestOf, Jobs!Alone
      <4>4. QED
        BY <1>4, <4>3 DEF Knows
    <3>4. QED
      BY <3>2, <3>3
  <2>2. CASE Jobs!ExportOnnx(w) /\ Jobs!Save(w, "onnx", MaxEpochs)
    <3>1. BestOf(r, best, name, TRUE)
      BY <1>1, <1>3, <2>2 DEF Checkpoints, Knows, Jobs!ExportOnnx
    <3>2. files'[d][name] = files[d][name]
      <4>1. name # "onnx" /\ name \in DOMAIN Jobs!Empty /\ d \in 1 .. MaxSeconds
        BY <1>3, <1>5, NamesAreFiles, RunShape DEF Jobs!Name
      <4>2. "onnx" \in DOMAIN Jobs!Empty /\ Jobs!Save(w, "onnx", MaxEpochs)
        BY <2>2, NamesAreFiles
      <4>3. QED
        BY <1>2, <1>6, <4>1, <4>2, SaveLeaves
    <3>3. BestOf(r, best, name, TRUE)'
      BY <1>2, <1>5, <3>1, <3>2, BestStays DEF Jobs!Alone
    <3>4. QED
      BY <1>4, <3>3 DEF Knows
  <2>3. QED
    BY <2>1, <2>2
<1>9. Trains(w)'
  BY <1>4 DEF Trains, Jobs!Trains
<1>10. QED
  BY <1>1, <1>2, <1>3, <1>4, <1>5, <1>7, <1>8, <1>9, OthersKeepCheckpoints

\* What the worker knows of its run is what the row records.
LEMMA CompleteKeepsCheckpoints ==
    ASSUME ProgressAssumption, Jobs!TypeOK, Checkpoints, NEW w \in Worker, Jobs!CompleteCommit(w)
    PROVE  Checkpoints'
<1>1. PICK r, best, name, j :
        r = worker[w].run /\ best = worker[w].best /\ name = worker[w].name /\ j = worker[w].job
  OBVIOUS
<1>2. /\ worker[w].at = "finishing" /\ UNCHANGED <<runs, files>>
      /\ row' = [row EXCEPT ![j] = [status |-> "completed", run |-> r, name |-> name]]
  BY <1>1 DEF Jobs!CompleteCommit
<1>3. /\ worker[w].at # "free" /\ Trains(w) /\ r \in DOMAIN runs /\ best \in 0 .. MaxScore /\ j \in Job
  BY <1>1, <1>2, WorkerShape DEF Trains, Jobs!Trains
<1>4. /\ \A x \in Worker : x # w => worker'[x] = worker[x]
      /\ worker'[w].at = "acknowledging"
  BY <1>3, TaskGoes DEF Jobs!CompleteCommit, Jobs!Trains
<1>5. /\ row'[j].run = r /\ row'[j].name = name
      /\ \A k \in Job : k # j => row'[k] = row[k]
  BY <1>2, <1>3 DEF Jobs!TypeOK
<1>6. \A x \in Worker : Trains(x)' => x # w /\ Trains(x) /\ worker'[x] = worker[x]
  BY <1>4 DEF Trains, Jobs!Trains
<1>7. Jobs!RunsApart'
  <2>1. Jobs!RunsApart
    BY DEF Checkpoints
  <2>2. QED
    BY <1>1, <1>3, <1>5, <1>6, <2>1 DEF Jobs!RunsApart, Trains
<1>8. ASSUME NEW x \in Worker, Trains(x)' PROVE Knows(x)'
  <2>1. PICK q, most, file, over :
          /\ q = worker[x].run /\ most = worker[x].best /\ file = worker[x].name
          /\ over = (worker[x].at # "training")
    OBVIOUS
  <2>2. BestOf(q, most, file, over)
    BY <1>6, <1>8, <2>1 DEF Checkpoints, Knows
  <2>3. BestOf(q, most, file, over)'
    BY <1>2, <2>2, BestStays DEF Jobs!Alone
  <2>4. QED
    BY <1>6, <1>8, <2>1, <2>3 DEF Knows
<1>9. ASSUME NEW k \in Job, row'[k].status = "completed" PROVE Records(k)'
  <2>1. CASE k = j
    <3>1. BestOf(r, best, name, TRUE)
      BY <1>1, <1>2, <1>3 DEF Checkpoints, Knows
    <3>2. PICK scores, file : scores = runs[r].scores /\ file = files[runs[r].second][name]
      OBVIOUS
    <3>3. /\ \A i \in DOMAIN scores : scores[i] <= best
          /\ DOMAIN scores = 1 .. Len(scores) /\ Len(scores) = MaxEpochs
          /\ \A i \in DOMAIN scores : scores[i] \in 0 .. MaxScore
      <4>1. scores \in Seq(0 .. MaxScore)
        BY <1>3, <3>2, RunShape
      <4>2. (\A i \in DOMAIN scores : scores[i] <= best) /\ Len(scores) = MaxEpochs
        BY <3>1, <3>2 DEF BestOf
      <4>3. QED
        BY <4>1, <4>2, ScoresAre
    <3>4. ASSUME Jobs!Alone(r)
          PROVE  file.run = r /\ \A i \in DOMAIN scores : scores[i] <= scores[file.epoch]
      <4>1. CASE best = 0
        <5>1. file.run = r /\ file.epoch = MaxEpochs
          BY <3>1, <3>2, <3>4, <4>1 DEF BestOf
        <5>2. MaxEpochs \in DOMAIN scores
          BY <3>3, ProgressAssumption DEF ProgressAssumption, Jobs!TrainingAssumption
        <5>3. scores[MaxEpochs] = 0
          BY <3>3, <4>1, <5>2
        <5>4. QED
          BY <3>3, <4>1, <5>1, <5>3
      <4>2. CASE best # 0
        BY <3>1, <3>2, <3>3, <3>4, <4>2 DEF BestOf
      <4>3. QED
        BY <4>1, <4>2
    <3>5. Holds(r, name)
      BY <3>2, <3>4 DEF Holds, Jobs!IsBest
    <3>6. Holds(r, name)'
      BY <1>2, <3>5, HoldsStays DEF Jobs!Alone
    <3>7. QED
      BY <1>5, <2>1, <3>6 DEF Records
  <2>2. CASE k # j
    <3>1. PICK q, file : q = row[k].run /\ file = row[k].name
      OBVIOUS
    <3>2. Holds(q, file)
      BY <1>5, <1>9, <2>2, <3>1 DEF Checkpoints, Records
    <3>3. Holds(q, file)'
      BY <1>2, <3>2, HoldsStays DEF Jobs!Alone
    <3>4. QED
      BY <1>5, <2>2, <3>1, <3>3 DEF Records
  <2>3. QED
    BY <2>1, <2>2
<1>10. QED
  BY <1>7, <1>8, <1>9 DEF Checkpoints

LEMMA CheckpointsKept ==
    ProgressAssumption /\ Jobs!TypeOK /\ Checkpoints /\ [Jobs!Next]_(Jobs!vars) => Checkpoints'
<1> SUFFICES ASSUME ProgressAssumption, Jobs!TypeOK, Checkpoints, [Jobs!Next]_(Jobs!vars)
             PROVE  Checkpoints'
  OBVIOUS
<1>1. ASSUME NEW j \in Job,
             \/ Jobs!CreateTrainingJob(j) \/ Jobs!Enqueue(j)
             \/ Jobs!EnqueueTwice(j) \/ Jobs!EnqueueFails(j)
      PROVE  Checkpoints'
  <2>1. /\ UNCHANGED <<runs, files, worker>>
        /\ \A k \in Job : row'[k] = row[k] \/ row'[k].status # "completed"
    BY <1>1 DEF Jobs!CreateTrainingJob, Jobs!Enqueue, Jobs!EnqueueTwice, Jobs!EnqueueFails,
       Jobs!SetStatus, Jobs!TypeOK
  <2>2. QED
    BY <2>1, QuietKeepsCheckpoints
<1>2. ASSUME NEW w \in Worker, NEW j \in Job, Jobs!Receive(w, j) PROVE Checkpoints'
  <2>1. /\ UNCHANGED <<runs, files, row>>
        /\ \A x \in Worker : worker'[x] = worker[x] \/ worker'[x].at = "starting"
    BY <1>2 DEF Jobs!Receive, Jobs!TypeOK
  <2>2. QED
    BY <2>1, QuietKeepsCheckpoints DEF Jobs!Trains
<1>3. ASSUME NEW w \in Worker, Jobs!StartCommit(w) \/ Jobs!RunFails(w) \/ Jobs!FailCommit(w)
      PROVE  Checkpoints'
  <2>1. worker[w].at # "free"
    BY <1>3 DEF Jobs!StartCommit, Jobs!RunFails, Jobs!FailCommit
  <2>2. /\ \A x \in Worker : x # w => worker'[x] = worker[x]
        /\ worker'[w].at \notin Jobs!Trains
    BY <1>3, <2>1, TaskGoes DEF Jobs!StartCommit, Jobs!RunFails, Jobs!FailCommit, Jobs!Trains
  <2>3. /\ UNCHANGED <<runs, files>>
        /\ \A k \in Job : row'[k] = row[k] \/ row'[k].status # "completed"
    BY <1>3 DEF Jobs!StartCommit, Jobs!RunFails, Jobs!FailCommit, Jobs!SetStatus, Jobs!TypeOK
  <2>4. QED
    BY <2>2, <2>3, QuietKeepsCheckpoints
<1>4. ASSUME NEW w \in Worker,
             \/ Jobs!StartFails(w) \/ Jobs!FailFails(w) \/ Jobs!Acknowledge(w) \/ Jobs!WorkerLost(w)
      PROVE  Checkpoints'
  <2>1. /\ UNCHANGED <<runs, files, row>>
        /\ \A x \in Worker : worker'[x] = worker[x] \/ worker'[x] = Jobs!Free
    BY <1>4 DEF Jobs!StartFails, Jobs!FailFails, Jobs!Acknowledge, Jobs!WorkerLost, Jobs!TypeOK
  <2>2. QED
    BY <2>1, QuietKeepsCheckpoints
<1>5. ASSUME NEW w \in Worker, Jobs!ExportOnnx(w) PROVE Checkpoints'
  <2>1. CASE Jobs!Save(w, "onnx", MaxEpochs)
    BY <1>5, <2>1, SaveKeepsCheckpoints
  <2>2. CASE UNCHANGED files
    <3>1. worker[w].at = "exporting" /\ worker[w].at \in Jobs!Trains /\ worker[w].at # "free"
      BY <1>5 DEF Jobs!ExportOnnx, Jobs!Trains
    <3>2. /\ \A x \in Worker : x # w => worker'[x] = worker[x]
          /\ worker'[w].run = worker[w].run /\ worker'[w].best = worker[w].best
          /\ worker'[w].name = worker[w].name /\ worker[w] # Jobs!Free
      BY <1>5, <3>1, TaskGoes, WorkerShape DEF Jobs!ExportOnnx, Jobs!Trains
    <3>3. QED
      BY <1>5, <2>2, <3>1, <3>2, QuietKeepsCheckpoints DEF Jobs!ExportOnnx
  <2>3. QED
    BY <1>5, <2>1, <2>2 DEF Jobs!ExportOnnx
<1>6. CASE (\E j \in Job : Jobs!BrokerRedelivers(j)) \/ UNCHANGED Jobs!vars
  BY <1>6, QuietKeepsCheckpoints DEF Jobs!BrokerRedelivers, Jobs!vars
<1>7. QED
  BY <1>1, <1>2, <1>3, <1>4, <1>5, <1>6, BeginKeepsCheckpoints, EpochKeepsCheckpoints,
     SaveKeepsCheckpoints, CompleteKeepsCheckpoints DEF Jobs!Next, Jobs!Work

LEMMA JobsInit == ProgressAssumption /\ Jobs!Init => Jobs!IInv
<1> SUFFICES ASSUME ProgressAssumption, Jobs!Init PROVE Jobs!IInv
  OBVIOUS
<1>1. /\ MaxSeconds \in Nat \ {0} /\ MaxEpochs \in Nat \ {0} /\ MaxScore \in Nat
  BY DEF ProgressAssumption, Jobs!TrainingAssumption
<1>2. runs = <<>> /\ DOMAIN runs = {} /\ runs \in Seq(Jobs!Run)
  BY EmptySeq DEF Jobs!Init
<1>3. files \in [1 .. MaxSeconds -> [DOMAIN Jobs!Empty -> [run : Nat, epoch : 0 .. MaxEpochs]]]
  <2>1. Jobs!Empty \in [DOMAIN Jobs!Empty -> [run : Nat, epoch : 0 .. MaxEpochs]]
    BY <1>1 DEF Jobs!Empty, Jobs!NoFile
  <2>2. QED
    BY <2>1 DEF Jobs!Init
<1>4. [status |-> "absent"] \in Jobs!RowState /\ Jobs!Free \in Jobs!WorkerState
  BY DEF Jobs!RowState, Jobs!Status, Jobs!WorkerState
<1>5. Jobs!TypeOK
  BY <1>1, <1>2, <1>3, <1>4 DEF Jobs!Init, Jobs!TypeOK
<1>6. /\ \A w \in Worker : worker[w] = Jobs!Free
      /\ \A j \in Job : row[j].status = "absent" /\ waiting[j] = 0
      /\ creating = {}
  BY DEF Jobs!Init
<1>7. \A j \in Job : Jobs!RunsOf(j) = {} /\ Jobs!Begun(j) = {} /\ Jobs!Busy(j) = {}
  BY <1>2, <1>6 DEF Jobs!RunsOf, Jobs!Begun, Jobs!Busy, Jobs!Of
<1>8. Messages
  BY <1>6, <1>7 DEF Messages, Jobs!NothingBeforeCreation, Jobs!OneMessage, Jobs!OneAtATime, Jobs!Of
<1>9. Checkpoints
  BY <1>6 DEF Checkpoints, Jobs!RunsApart, Trains
<1>10. QED
  BY <1>5, <1>8, <1>9, CheckpointsAre DEF Jobs!IInv, Messages

\* The inductive invariant of the training jobs.
LEMMA JobsInvariant == FairSpec => []Jobs!IInv
<1>1. Init => Jobs!IInv
  BY ProgressAssumption, JobsInit DEF Init
<1>2. Jobs!IInv /\ [Next]_vars => Jobs!IInv'
  <2> SUFFICES ASSUME Jobs!IInv, [Next]_vars PROVE Jobs!IInv'
    OBVIOUS
  <2>1. Jobs!TypeOK /\ Messages /\ Checkpoints /\ [Jobs!Next]_(Jobs!vars)
    BY PartsMove, CheckpointsAre DEF Jobs!IInv, Messages
  <2>2. Jobs!TypeOK' /\ Messages' /\ Checkpoints'
    BY <2>1, ProgressAssumption, JobsTypeStep, MessagesKept, CheckpointsKept
  <2>3. (Jobs!RunsApart /\ Jobs!BestIsSaved /\ Jobs!CheckpointHoldsBestEpoch)'
    BY <2>2, CheckpointsAre, PTL
  <2>4. QED
    BY <2>2, <2>3 DEF Jobs!IInv, Messages
<1>3. QED
  BY <1>1, <1>2, PTL DEF FairSpec

LEMMA AtMostOne ==
    ASSUME NEW S, \A x, y \in S : x = y
    PROVE  Jobs!Cardinality(S) <= 1
<1>1. CASE S = {}
  BY <1>1, FS_EmptySet, SameSets
<1>2. CASE S # {}
  <2>1. PICK x \in S : S = {x}
    BY <1>2
  <2>2. QED
    BY <2>1, FS_Singleton, SameSets
<1>3. QED
  BY <1>1, <1>2

\* A job whose message is handed out once is trained once, and one whose message is
\* handed out twice never by two workers at a time, for any jobs, workers, epochs
\* and redeliveries (training_tasks.py:45-51).
THEOREM OneWorkerTrains == FairSpec => []TrainedByOneWorker
<1>1. Jobs!IInv => TrainedByOneWorker
  <2> SUFFICES ASSUME Jobs!IInv, NEW j \in Job
               PROVE  /\ redelivered[j] = 0 => Jobs!Cardinality(Jobs!RunsOf(j)) <= 1
                      /\ redelivered[j] <= 1 => Jobs!Cardinality(Jobs!Training(j)) <= 1
    BY DEF TrainedByOneWorker, Jobs!TrainedByOneWorker
  <2>1. ASSUME redelivered[j] = 0 PROVE \A q, r \in Jobs!RunsOf(j) : q = r
    BY <2>1 DEF Jobs!IInv, Jobs!OneMessage
  <2>2. ASSUME redelivered[j] <= 1 PROVE \A w, x \in Jobs!Training(j) : w = x
    <3>1. Jobs!Training(j) \subseteq Jobs!Busy(j)
      BY DEF Jobs!Training, Jobs!Busy
    <3>2. QED
      BY <2>2, <3>1 DEF Jobs!IInv, Jobs!OneAtATime
  <2>3. QED
    BY <2>1, <2>2, AtMostOne
<1>2. QED
  BY JobsInvariant, <1>1, PTL

\* The checkpoint that the row of a completed job names holds the best epoch of the
\* very run that completed it, unless another run started in the same second, for
\* any scores, epochs, workers and failures (trainer.py:128-129, 201-225).
THEOREM BestEpochIsSaved == FairSpec => []CheckpointHoldsBestEpoch
<1>1. Jobs!IInv => CheckpointHoldsBestEpoch
  BY DEF Jobs!IInv, CheckpointHoldsBestEpoch
<1>2. QED
  BY JobsInvariant, <1>1, PTL

-----------------------------------------------------------------------------
\* The invariants of the three components hold in the system they make up, for any
\* constants: the types, and with them all that the run of the system checks of each
\* (events.py, training_tasks.py, trainer.py, users.py).
THEOREM InvariantHolds == FairSpec => []IInv
<1>1. FeedInv /\ Jobs!IInv /\ Users!IInv => IInv
  BY FeedInvIs DEF IInv
<1>2. QED
  BY FeedInvariant, JobsInvariant, UsersInvariant, <1>1, PTL

=============================================================================

--------------------------- MODULE UserDirectory ---------------------------
(***************************************************************************)
(* The users of one organization: creation, bulk import and change of the  *)
(* external id (api/routes/users.py), against max_users, which the         *)
(* superadmin sets (api/routes/admin.py).                                  *)
(*                                                                         *)
(* The external id stands for the e-mail address too, which has a unique   *)
(* index of its own.  PostgreSQL is external: under READ COMMITTED a       *)
(* statement sees what is committed, an insert of a key that an open       *)
(* transaction has inserted waits for it, and of handlers that wait for    *)
(* each other one has its statement aborted.                               *)
(***************************************************************************)
EXTENDS Naturals, Sequences, FiniteSets

CONSTANTS
    Handler,
    Raw,      \* external ids as they are sent
    Strip,    \* what str.strip makes of them
    NoId,     \* a row without external id
    Requests, \* the lists of rows that are imported
    MaxUsers  \* bound: values of max_users

Id == Raw \cup {NoId}

DirectoryAssumption ==
    /\ NoId \notin Raw /\ DOMAIN Strip = Raw
    /\ Requests \subseteq Seq(Id)
    /\ MaxUsers \in Nat \ {0}

VARIABLES
    limit,   \* organizations.max_users
    stored,  \* external ids of committed users
    blank,   \* committed users without one
    handler, \* what a handler is at
    stale    \* history: handlers that have counted, and rows were committed since

vars == <<limit, stored, blank, handler, stale>>

Idle  == [at |-> "idle"]
Count == Cardinality(stored) + blank
Goes(h, what)  == handler' = [handler EXCEPT ![h] = what]
Importing(h)   == handler[h].at = "rows"
Counted        == {h \in Handler : handler[h].at \in {"find", "insert", "rows"}}

\* A commit changes the count: whoever has counted is behind.
Ends(h) ==
    /\ Goes(h, Idle)
    /\ stale' = (IF stored' # stored \/ blank' # blank THEN stale \cup Counted ELSE stale) \ {h}

Init ==
    /\ limit = MaxUsers
    /\ stored = {} /\ blank = 0
    /\ handler = [h \in Handler |-> Idle]
    /\ stale = {}

-----------------------------------------------------------------------------
(* POST /users.                                                            *)

\* The organization's row is read, here and by an import, and then its users are
\* counted.
FindOrganization(h) ==
    /\ handler[h] = Idle
    /\ Goes(h, [at |-> "count", limit |-> limit])
    /\ UNCHANGED <<limit, stored, blank, stale>>

\* Mutant: one too many.
CountUsersInclusive(h, id) ==
    /\ handler[h].at = "count"
    /\ Count <= handler[h].limit
    /\ Goes(h, [at |-> "find", id |-> id, limit |-> handler[h].limit])
    /\ UNCHANGED <<limit, stored, blank, stale>>

\* Refused when the organization is full.
CountUsers(h, id) ==
    /\ handler[h].at = "count"
    /\ Count < handler[h].limit
    /\ Goes(h, [at |-> "find", id |-> id, limit |-> handler[h].limit])
    /\ UNCHANGED <<limit, stored, blank, stale>>

\* Refused when the id is taken.
FindId(h) ==
    /\ handler[h].at = "find"
    /\ handler[h].id \notin stored
    /\ Goes(h, [handler[h] EXCEPT !.at = "insert"])
    /\ UNCHANGED <<limit, stored, blank, stale>>

\* Handlers with an open insert of the same id.
Holders(id) == {x \in Handler : Importing(x) /\ id \in handler[x].mine}

\* The unique index refuses an id that was committed meanwhile: Fail.
Insert(h) ==
    LET id == handler[h].id IN
    /\ handler[h].at = "insert"
    /\ id \notin stored /\ Holders(id) = {}
    /\ stored' = IF id = NoId THEN stored ELSE stored \cup {id}
    /\ blank'  = IF id = NoId THEN blank + 1 ELSE blank
    /\ Ends(h)
    /\ UNCHANGED limit

-----------------------------------------------------------------------------
(* POST /users/bulk-import: one transaction, a savepoint for every row.    *)

ImportUsers(h, rows) ==
    LET most == handler[h].limit IN
    /\ handler[h].at = "count"
    /\ Goes(h, [at |-> "rows", todo |-> rows, size |-> Len(rows), limit |-> most,
                slots |-> IF most > Count THEN most - Count ELSE 0,
                mine |-> {}, blanks |-> 0, seen |-> {}, imported |-> 0, failed |-> 0])
    /\ UNCHANGED <<limit, stored, blank, stale>>

Row(h)       == Head(handler[h].todo)
Skipped(h)   == \/ handler[h].imported >= handler[h].slots
                \/ Row(h) # NoId /\ Strip[Row(h)] \in handler[h].seen
Conflicts(h) == Row(h) # NoId /\ Row(h) \in stored \cup handler[h].mine
Waits(h, x)  == /\ Importing(h) /\ handler[h].todo # <<>> /\ ~ Skipped(h) /\ ~ Conflicts(h)
                /\ x # h /\ Row(h) # NoId /\ x \in Holders(Row(h))

RowFails(h) == Goes(h, [handler[h] EXCEPT !.todo = Tail(@), !.failed = @ + 1])

\* Mutant: the row is counted before it is written.
ImportRowEarly(h) ==
    LET r == handler[h] IN
    /\ Importing(h) /\ r.todo # <<>>
    /\ \A x \in Handler : ~ Waits(h, x)
    /\ IF Skipped(h) THEN RowFails(h)
       ELSE IF Conflicts(h)
         THEN Goes(h, [r EXCEPT !.todo = Tail(@), !.failed = @ + 1, !.imported = @ + 1])
         ELSE Goes(h, [r EXCEPT !.todo = Tail(@), !.imported = @ + 1,
                         !.mine   = IF Row(h) = NoId THEN @ ELSE @ \cup {Row(h)},
                         !.blanks = IF Row(h) = NoId THEN @ + 1 ELSE @,
                         !.seen   = IF Row(h) = NoId THEN @ ELSE @ \cup {Strip[Row(h)]}])
    /\ UNCHANGED <<limit, stored, blank, stale>>

\* Mutant: a row that conflicts is tried again.
ImportRowRetried(h) ==
    LET r == handler[h] IN
    /\ Importing(h) /\ r.todo # <<>>
    /\ \A x \in Handler : ~ Waits(h, x)
    /\ ~ Conflicts(h)
    /\ IF Skipped(h) THEN RowFails(h)
       ELSE Goes(h, [r EXCEPT !.todo = Tail(@), !.imported = @ + 1,
                       !.mine   = IF Row(h) = NoId THEN @ ELSE @ \cup {Row(h)},
                       !.blanks = IF Row(h) = NoId THEN @ + 1 ELSE @,
                       !.seen   = IF Row(h) = NoId THEN @ ELSE @ \cup {Strip[Row(h)]}])
    /\ UNCHANGED <<limit, stored, blank, stale>>

\* A row over the limit, a repeated one and one that the index refuses are
\* reported; the repeated ones are recognized stripped, the row is stored raw.
ImportRow(h) ==
    LET r == handler[h] IN
    /\ Importing(h) /\ r.todo # <<>>
    /\ \A x \in Handler : ~ Waits(h, x)
    /\ IF Skipped(h) \/ Conflicts(h) THEN RowFails(h)
       ELSE Goes(h, [r EXCEPT !.todo = Tail(@), !.imported = @ + 1,
                       !.mine   = IF Row(h) = NoId THEN @ ELSE @ \cup {Row(h)},
                       !.blanks = IF Row(h) = NoId THEN @ + 1 ELSE @,
                       !.seen   = IF Row(h) = NoId THEN @ ELSE @ \cup {Strip[Row(h)]}])
    /\ UNCHANGED <<limit, stored, blank, stale>>

\* The database aborts the row of one of two imports that wait for each other.
DeadlockDetected(h) ==
    /\ \E x \in Handler : Waits(h, x) /\ Waits(x, h)
    /\ RowFails(h)
    /\ UNCHANGED <<limit, stored, blank, stale>>

\* The database may refuse a row for any other reason, such as a department that
\* was deleted meanwhile: that is reported too.
RowRefused(h) ==
    /\ Importing(h) /\ handler[h].todo # <<>> /\ ~ Skipped(h)
    /\ RowFails(h)
    /\ UNCHANGED <<limit, stored, blank, stale>>

ImportCommit(h) ==
    /\ Importing(h) /\ handler[h].todo = <<>>
    /\ stored' = stored \cup handler[h].mine
    /\ blank' = blank + handler[h].blanks
    /\ Ends(h)
    /\ UNCHANGED limit

-----------------------------------------------------------------------------
(* PATCH /users/{id} with an external id, and everything else.             *)

FindOther(h, old, new) ==
    /\ handler[h] = Idle
    /\ old \in stored /\ new \in Raw \ stored
    /\ Goes(h, [at |-> "rename", old |-> old, id |-> new])
    /\ UNCHANGED <<limit, stored, blank, stale>>

RenameCommit(h) ==
    LET r == handler[h] IN
    /\ r.at = "rename"
    /\ r.old \in stored /\ r.id \notin stored /\ Holders(r.id) = {}
    /\ stored' = (stored \ {r.old}) \cup {r.id}
    /\ Goes(h, Idle)
    /\ UNCHANGED <<limit, blank, stale>>

\* A refusal, an error of the database or the end of the process: the open
\* transaction rolls back.
Fail(h) ==
    /\ handler[h] # Idle
    /\ Goes(h, Idle)
    /\ stale' = stale \ {h}
    /\ UNCHANGED <<limit, stored, blank>>

UpdateOrganization(n) ==
    /\ n # limit
    /\ limit' = n
    /\ UNCHANGED <<stored, blank, handler, stale>>

-----------------------------------------------------------------------------
Next ==
    \/ \E h \in Handler, id \in Id : CountUsers(h, id)
    \/ \E h \in Handler : FindOrganization(h) \/ FindId(h) \/ Insert(h)
    \/ \E h \in Handler, rows \in Requests : ImportUsers(h, rows)
    \/ \E h \in Handler : ImportRow(h) \/ DeadlockDetected(h) \/ RowRefused(h) \/ ImportCommit(h)
    \/ \E h \in Handler, old, new \in Raw : FindOther(h, old, new)
    \/ \E h \in Handler : RenameCommit(h) \/ Fail(h)
    \/ \E n \in 1 .. MaxUsers : UpdateOrganization(n)

Spec == Init /\ [][Next]_vars

\* A statement that does not wait is executed, deadlocks are detected, and who
\* waits for a transaction is served when it ends, others' inserts or not.
Fairness ==
    \A h \in Handler :
      /\ SF_vars(ImportRow(h))
      /\ WF_vars(DeadlockDetected(h)) /\ WF_vars(ImportCommit(h))

FairSpec == Spec /\ Fairness

-----------------------------------------------------------------------------
ImportState ==
    [at : {"rows"}, todo : Seq(Id), size : Nat, limit : 1 .. MaxUsers, slots : Nat,
     mine : SUBSET Raw, blanks : Nat, seen : SUBSET {Strip[id] : id \in Raw},
     imported : Nat, failed : Nat]
HandlerState ==
    {Idle} \cup ImportState
    \cup [at : {"count"}, limit : 1 .. MaxUsers]
    \cup [at : {"find", "insert"}, id : Id, limit : 1 .. MaxUsers]
    \cup [at : {"rename"}, old : Raw, id : Raw]

TypeOK ==
    /\ limit \in 1 .. MaxUsers
    /\ stored \subseteq Raw /\ IsFiniteSet(stored) /\ blank \in Nat
    /\ handler \in [Handler -> HandlerState]
    /\ stale \subseteq Counted

\* Every row of an import is to come, written or reported, within the quota.
RowsAreCounted ==
    \A h \in Handler : Importing(h) =>
      LET r == handler[h] IN
      /\ Len(r.todo) + r.imported + r.failed = r.size
      /\ IsFiniteSet(r.mine) /\ Cardinality(r.mine) + r.blanks = r.imported
      /\ r.imported <= r.slots

\* Open inserts are nobody else's, and of no committed id.
InsertsApart ==
    /\ \A h \in Handler : Importing(h) => handler[h].mine \cap stored = {}
    /\ \A h, x \in Handler : Importing(h) /\ Importing(x) /\ h # x =>
         handler[h].mine \cap handler[x].mine = {}

\* A handler that nobody overtook still knows the room there is.
FreshCounts ==
    \A h \in Counted \ stale :
      IF Importing(h)
        THEN handler[h].slots > 0 => Count + handler[h].slots = handler[h].limit
        ELSE Count < handler[h].limit

IInv == TypeOK /\ RowsAreCounted /\ InsertsApart /\ FreshCounts

\* The quota (users.py:86-93, 513): a handler since whose count nobody committed
\* rows never leaves more users behind than the limit it read, however many
\* rows it brings.  Handlers that overlap may exceed it together.
QuotaKeptByFreshCount ==
    [][\A h \in Handler \ stale :
         h \in Counted /\ handler'[h] = Idle /\ Count' > Count => Count' <= handler[h].limit]_vars

\* The answer of an import (users.py:588): every row of the request is either a
\* new user or reported, none is both or neither.
ReportMatchesRows ==
    [][\A h \in Handler :
         Importing(h) /\ handler'[h] = Idle /\ Count' # Count =>
           /\ Count' - Count = handler[h].imported
           /\ handler[h].imported + handler[h].failed = handler[h].size]_vars

\* An import ends, with whatever others it shares ids (users.py:551-572).
ImportsEnd == \A h \in Handler : Importing(h) ~> ~ Importing(h)
=============================================================================

----------------------------- MODULE Departments -----------------------------
(***************************************************************************)
(* The departments of one organization (api/routes/departments.py) and the *)
(* users in them (users.py, PATCH and creation with a department).         *)
(*                                                                         *)
(* A handler reads, checks, and commits at the end; two may be in flight.  *)
(* PostgreSQL is external: foreign keys hold at every commit, and ON       *)
(* DELETE SET NULL clears those of a deleted department.  Names are left   *)
(* out: a name that is taken is one more refusal.                          *)
(***************************************************************************)
EXTENDS Naturals, FiniteSets

CONSTANTS
    User,
    Handler,
    None,
    MaxDepts \* bound: departments ever created

\* The ids are random; they are numbered as they are handed out.
Dept == 1 .. MaxDepts

DepartmentsAssumption == MaxDepts \in Nat /\ None \notin Dept

VARIABLES
    depts,   \* committed departments
    created, \* how many there have been
    parent,  \* departments.parent_id
    member,  \* users.department_id
    handler,
    moved    \* history: departments that a PATCH gave a parent

vars == <<depts, created, parent, member, handler, moved>>

Idle == [at |-> "idle"]
Goes(h, what) == handler' = [handler EXCEPT ![h] = what]
In(d)         == {u \in User : member[u] = d}
Children(d)   == {c \in depts : parent[c] = d}

Init ==
    /\ depts = {} /\ created = 0
    /\ parent = [d \in Dept |-> None]
    /\ member = [u \in User |-> None]
    /\ handler = [h \in Handler |-> Idle]
    /\ moved = {}

-----------------------------------------------------------------------------
(* POST /departments.                                                      *)

\* Mutant: the parent's own parent is not looked at.
CreateCheckAnyParent(h, p) ==
    /\ handler[h] = Idle
    /\ p = None \/ p \in depts
    /\ Goes(h, [at |-> "create", parent |-> p])
    /\ UNCHANGED <<depts, created, parent, member, moved>>

\* A parent must exist and be at the top.
CreateCheck(h, p) ==
    /\ handler[h] = Idle
    /\ p = None \/ (p \in depts /\ parent[p] = None)
    /\ Goes(h, [at |-> "create", parent |-> p])
    /\ UNCHANGED <<depts, created, parent, member, moved>>

CreateCommit(h) ==
    LET d == created + 1 IN
    /\ handler[h].at = "create"
    /\ created < MaxDepts
    /\ handler[h].parent \in depts \cup {None}
    /\ depts' = depts \cup {d} /\ created' = d
    /\ parent' = [parent EXCEPT ![d] = handler[h].parent]
    /\ Goes(h, Idle)
    /\ UNCHANGED <<member, moved>>

-----------------------------------------------------------------------------
(* PATCH /departments/{id} with a parent.                                  *)

\* Any department but itself will do.
UpdateFind(h, d, p) ==
    /\ handler[h] = Idle
    /\ d \in depts /\ p # d
    /\ Goes(h, [at |-> "loaded", dept |-> d, parent |-> p, loaded |-> parent[d]])
    /\ UNCHANGED <<depts, created, parent, member, moved>>

UpdateCheck(h) ==
    LET r == handler[h] IN
    /\ r.at = "loaded"
    /\ r.parent \in depts
    /\ Goes(h, [at |-> "update", dept |-> r.dept, parent |-> r.parent, loaded |-> r.loaded])
    /\ UNCHANGED <<depts, created, parent, member, moved>>

\* A parent equal to the one that was loaded is not written.
UpdateCommit(h) ==
    LET r == handler[h] IN
    /\ r.at = "update"
    /\ IF r.parent = r.loaded
         THEN UNCHANGED <<parent, moved>>
         ELSE /\ {r.dept, r.parent} \subseteq depts
              /\ parent' = [parent EXCEPT ![r.dept] = r.parent]
              /\ moved' = moved \cup {r.dept}
    /\ Goes(h, Idle)
    /\ UNCHANGED <<depts, created, member>>

-----------------------------------------------------------------------------
(* DELETE /departments/{id}.                                               *)

DeleteFind(h, d) ==
    /\ handler[h] = Idle
    /\ d \in depts
    /\ Goes(h, [at |-> "found", dept |-> d])
    /\ UNCHANGED <<depts, created, parent, member, moved>>

\* Mutant: users are not counted.
DeleteCheckUncounted(h) ==
    /\ handler[h].at = "found"
    /\ Goes(h, [at |-> "delete", dept |-> handler[h].dept, joined |-> {}])
    /\ UNCHANGED <<depts, created, parent, member, moved>>

\* Refused while it has users.
DeleteCheck(h) ==
    /\ handler[h].at = "found"
    /\ In(handler[h].dept) = {}
    /\ Goes(h, [at |-> "delete", dept |-> handler[h].dept, joined |-> {}])
    /\ UNCHANGED <<depts, created, parent, member, moved>>

\* The flush selects the children that are there now, and then the users.
SelectChildren(h) ==
    LET r == handler[h] IN
    /\ r.at = "delete"
    /\ Goes(h, [at |-> "flushing", dept |-> r.dept, joined |-> r.joined,
                children |-> Children(r.dept)])
    /\ UNCHANGED <<depts, created, parent, member, moved>>

SelectUsers(h) ==
    LET r == handler[h] IN
    /\ r.at = "flushing"
    /\ Goes(h, [at |-> "flushed", dept |-> r.dept, joined |-> r.joined,
                children |-> r.children, users |-> In(r.dept)])
    /\ UNCHANGED <<depts, created, parent, member, moved>>

\* Mutant: the foreign keys do nothing.
DeleteCommitSelected(h) ==
    LET r == handler[h] IN
    /\ r.at = "flushed"
    /\ r.children \subseteq depts
    /\ depts' = depts \ {r.dept}
    /\ parent' = [d \in Dept |-> IF d \in r.children \cup {r.dept} THEN None ELSE parent[d]]
    /\ member' = [u \in User |-> IF u \in r.users THEN None ELSE member[u]]
    /\ moved' = moved \ {r.dept}
    /\ Goes(h, Idle)
    /\ UNCHANGED created

\* It clears what it selected, by key, wherever those have gone meanwhile; the
\* foreign keys clear the rest.
DeleteCommit(h) ==
    LET r == handler[h]
        left == Children(r.dept) \cup r.children IN
    /\ r.at = "flushed"
    /\ r.children \subseteq depts
    /\ depts' = depts \ {r.dept}
    /\ parent' = [d \in Dept |-> IF d \in left \cup {r.dept} THEN None ELSE parent[d]]
    /\ member' = [u \in User |-> IF u \in In(r.dept) \cup r.users THEN None ELSE member[u]]
    /\ moved' = moved \ {r.dept}
    /\ Goes(h, Idle)
    /\ UNCHANGED created

-----------------------------------------------------------------------------
(* A user is created in a department, or a PATCH moves one there.          *)

\* Handlers that have counted the users of a department and are to delete it.
Counted == {"delete", "flushing", "flushed"}

AssignCheck(h, u, d) ==
    /\ handler[h] = Idle
    /\ d \in depts
    /\ Goes(h, [at |-> "assign", user |-> u, dept |-> d])
    /\ UNCHANGED <<depts, created, parent, member, moved>>

\* A deletion in flight that has counted does not see the user.
AssignCommit(h) ==
    LET r == handler[h] IN
    /\ r.at = "assign"
    /\ r.dept \in depts
    /\ member' = [member EXCEPT ![r.user] = r.dept]
    /\ handler' = [x \in Handler |->
         IF x = h THEN Idle
         ELSE IF handler[x].at \in Counted /\ handler[x].dept = r.dept
           THEN [handler[x] EXCEPT !.joined = @ \cup {r.user}]
           ELSE handler[x]]
    /\ UNCHANGED <<depts, created, parent, moved>>

\* A refusal, an error of the database (a foreign key whose department is gone,
\* a row that an UPDATE no longer finds) or the end of the process.
Fail(h) ==
    /\ handler[h] # Idle
    /\ Goes(h, Idle)
    /\ UNCHANGED <<depts, created, parent, member, moved>>

-----------------------------------------------------------------------------
Next ==
    \/ \E h \in Handler, p \in Dept \cup {None} : CreateCheck(h, p)
    \/ \E h \in Handler : CreateCommit(h)
    \/ \E h \in Handler, d, p \in Dept : UpdateFind(h, d, p)
    \/ \E h \in Handler : UpdateCheck(h)
    \/ \E h \in Handler : UpdateCommit(h)
    \/ \E h \in Handler, d \in Dept : DeleteFind(h, d)
    \/ \E h \in Handler : DeleteCheck(h)
    \/ \E h \in Handler : SelectChildren(h)
    \/ \E h \in Handler : SelectUsers(h)
    \/ \E h \in Handler : DeleteCommit(h)
    \/ \E h \in Handler, u \in User, d \in Dept : AssignCheck(h, u, d)
    \/ \E h \in Handler : AssignCommit(h)
    \/ \E h \in Handler : Fail(h)

Spec == Init /\ [][Next]_vars

-----------------------------------------------------------------------------
\* What a handler may hold: it names departments that have been created, but for
\* a parent that has not been looked up.
HandlerState ==
    LET Known == 1 .. created IN
    {Idle} \cup [at : {"create"}, parent : Known \cup {None}]
      \cup [at : {"loaded"}, dept : Known, parent : Dept, loaded : Known \cup {None}]
      \cup [at : {"update"}, dept : Known, parent : Known, loaded : Known \cup {None}]
      \cup [at : {"found"}, dept : Known]
      \cup [at : {"delete"}, dept : Known, joined : SUBSET User]
      \cup [at : {"flushing"}, dept : Known, joined : SUBSET User, children : SUBSET Known]
      \cup [at : {"flushed"}, dept : Known, joined : SUBSET User,
            children : SUBSET Known, users : SUBSET User]
      \cup [at : {"assign"}, user : User, dept : Known]

TypeOK ==
    /\ created \in 0 .. MaxDepts /\ depts \subseteq 1 .. created
    /\ parent \in [Dept -> depts \cup {None}]
    /\ \A d \in Dept \ depts : parent[d] = None
    /\ member \in [User -> depts \cup {None}]
    /\ handler \in [Handler -> HandlerState]
    /\ moved \subseteq depts

\* Creation alone keeps the hierarchy at two levels (departments.py:92-98),
\* whatever else is in flight: below a third level there is always a department
\* that a PATCH moved, as PATCH does not look at levels.
ThirdLevelOnlyByMove ==
    \A d \in depts : parent[d] # None /\ parent[parent[d]] # None =>
      {d, parent[d]} \cap moved # {}

\* A creation in flight found its parent at the top: if it is no longer there,
\* a PATCH moved it.
CreatesUnderTop ==
    \A h \in Handler : handler[h].at = "create" /\ handler[h].parent # None
      /\ parent[handler[h].parent] # None => handler[h].parent \in moved

\* A deletion in flight found no user: those it is to clear came later.
ClearsLateJoiners ==
    \A h \in Handler :
      /\ handler[h].at \in Counted => In(handler[h].dept) \subseteq handler[h].joined
      /\ handler[h].at = "flushed" => handler[h].users \subseteq handler[h].joined

IInv == TypeOK /\ ThirdLevelOnlyByMove /\ CreatesUnderTop /\ ClearsLateJoiners

\* Deleting a department takes no user's department away (departments.py:189-197)
\* but from users who joined the department after its users were counted.
OnlyLateJoinersAreCleared ==
    [][\A u \in User : member[u] # None /\ member'[u] = None =>
         \E h \in Handler : handler[h].at = "flushed" /\ u \in handler[h].joined]_vars
=============================================================================

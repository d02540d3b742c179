----------------------------- MODULE OrgSettings -----------------------------
(***************************************************************************)
(* organizations.settings, one JSON column, and its two writers: PATCH     *)
(* /dashboard/settings (api/routes/dashboard.py) and PATCH                 *)
(* /admin/organizations/{id} (api/routes/admin.py).                        *)
(*                                                                         *)
(* Both load the row, change it and commit.  SQLAlchemy is external: a     *)
(* commit writes the column, whole, when the value assigned differs from   *)
(* the value loaded.  The dashboard handler changes the loaded dict in     *)
(* place and assigns that same dict, so that they never differ, but for an *)
(* empty one, which it replaces by a new dict.                             *)
(***************************************************************************)
EXTENDS Naturals, FiniteSets, Functions

CONSTANTS
    Admin,     \* handlers in flight
    Updates,   \* what is sent: functions from keys to values
    Hours,     \* keys that hold a time of day
    Null,      \* null, sent explicitly
    Malformed  \* a value that is no number, no time and no flag

VARIABLES
    stored, \* organizations.settings
    admin   \* what a handler has loaded and is to save

vars == <<stored, admin>>

Idle     == [at |-> "idle"]
NoneSet  == [k \in {} |-> Null]
Merge(old, new) ==
    [k \in DOMAIN old \cup DOMAIN new |-> IF k \in DOMAIN new THEN new[k] ELSE old[k]]

Init ==
    /\ stored = NoneSet
    /\ admin = [h \in Admin |-> Idle]

Load(h, who, updates) ==
    /\ admin[h] = Idle
    /\ admin' = [admin EXCEPT ![h] =
                   [at |-> who, seen |-> stored, updates |-> updates, by |-> who, raced |-> FALSE]]
    /\ UNCHANGED stored

\* The schema refuses malformed values, strptime those of the hours, null
\* included; null passes for the other keys.
LoadForDashboard(h, updates) ==
    /\ Malformed \notin Range(updates)
    /\ \A k \in DOMAIN updates \cap Hours : updates[k] # Null
    /\ Load(h, "dashboard", updates)

\* A superadmin may send anything.
LoadForSuperadmin(h, updates) == Load(h, "superadmin", updates)

\* Mutant: what was sent replaces what was stored.
MergedReplaced(r) == r.updates

\* The value the handler assigns to the column.
Merged(r) == Merge(r.seen, r.updates)

\* Whether the commit writes the column.
Writes(r) ==
    /\ Merged(r) # r.seen
    /\ r.by = "dashboard" => r.seen = NoneSet

Commit(h) ==
    LET r == admin[h] IN
    /\ r.at \in {"dashboard", "superadmin"}
    /\ stored' = IF Writes(r) THEN Merged(r) ELSE stored
    /\ admin' = [x \in Admin |->
         IF x = h THEN [r EXCEPT !.at = "saved"]
         ELSE IF admin[x] # Idle /\ stored' # stored THEN [admin[x] EXCEPT !.raced = TRUE]
         ELSE admin[x]]

\* The dashboard handler answers what it reads back.
Answer(h) ==
    /\ admin[h].at = "saved"
    /\ admin' = [admin EXCEPT ![h] = Idle]
    /\ UNCHANGED stored

\* An error of the database or the end of the process before the commit.
Fail(h) ==
    /\ admin[h].at \in {"dashboard", "superadmin"}
    /\ admin' = [admin EXCEPT ![h] = Idle]
    /\ UNCHANGED stored

Next ==
    \/ \E h \in Admin, updates \in Updates : LoadForDashboard(h, updates)
    \/ \E h \in Admin, updates \in Updates : LoadForSuperadmin(h, updates)
    \/ \E h \in Admin : Commit(h)
    \/ \E h \in Admin : Answer(h)
    \/ \E h \in Admin : Fail(h)

Spec == Init /\ [][Next]_vars

-----------------------------------------------------------------------------
Key      == UNION {DOMAIN u : u \in Updates}
Value    == UNION {{u[k] : k \in DOMAIN u} : u \in Updates}
Settings == UNION {[K -> Value] : K \in SUBSET Key}

HandlerState ==
    {Idle} \cup [at : {"dashboard", "superadmin", "saved"}, seen : Settings, updates : Updates,
                 by : {"dashboard", "superadmin"}, raced : BOOLEAN]

TypeOK == stored \in Settings /\ admin \in [Admin -> HandlerState]

Saved(h)         == admin[h].at = "saved" /\ ~ admin[h].raced
IsStored(h)      == \A k \in DOMAIN admin[h].updates :
                       k \in DOMAIN stored /\ stored[k] = admin[h].updates[k]

\* A save that no other overlaps leaves the keys it was not sent as they were,
\* and stores those it was sent when a superadmin sends them or none were stored
\* (dashboard.py:324-340, admin.py:156-159).
UnracedSaves ==
    \A h \in Admin : Saved(h) =>
      /\ Restrict(stored, DOMAIN stored \ DOMAIN admin[h].updates)
           = Restrict(admin[h].seen, DOMAIN admin[h].seen \ DOMAIN admin[h].updates)
      /\ admin[h].by = "superadmin" \/ admin[h].seen = NoneSet => IsStored(h)

\* What a handler loaded is still stored until another saves something else.
LoadedIsStored ==
    \A h \in Admin : admin[h].at \in {"dashboard", "superadmin"} =>
      admin[h].by = admin[h].at /\ (~ admin[h].raced => stored = admin[h].seen)

\* What is stored after a save is the outcome of that save, until another's.
SavedIsStored ==
    \A h \in Admin : Saved(h) =>
      stored = IF Writes(admin[h]) THEN Merged(admin[h]) ELSE admin[h].seen

IInv == TypeOK /\ LoadedIsStored /\ SavedIsStored

\* test_api.py:405 "test_org_settings_update_persists"; docs/api-overview.md:118:
\* what is "set via PATCH" is "applied to subsequent" requests.  What a handler
\* answers as saved is stored.
PatchTakesEffect == \A h \in Admin : Saved(h) => IsStored(h)
=============================================================================

-------------------------- MODULE MatcherRegistry --------------------------
(***************************************************************************)
(* The per-organization face index of every API process, next to the       *)
(* embeddings and users tables it is a copy of (inference/index_manager.py *)
(* and the handlers of api/routes/recognition.py and api/routes/users.py   *)
(* that change either side).                                               *)
(*                                                                         *)
(* The processes share the database and nothing else.  Inside a process    *)
(* coroutines switch only where they await: at a database statement, at a  *)
(* commit, and at a lock somebody holds.  One action is the code between   *)
(* two such points.  One organization is modelled: its index and its lock  *)
(* are keyed by organization and touch no other.                           *)
(*                                                                         *)
(* FaceMatcher models what is inside one index; here it is the map it      *)
(* stands for (TemplateMap).  A template is numbered by the registration   *)
(* that wrote it; 0 is no template.                                        *)
(***************************************************************************)
EXTENDS Naturals, FiniteSets

CONSTANTS
    User,
    Proc,        \* API processes
    Req,         \* request handlers that may be in flight at once
    MaxTemplate, \* bound: templates written per user
    NotLoaded,   \* the organization has no key in _matchers
    None         \* nobody holds the lock

VARIABLES
    active,     \* users.is_active
    template,   \* embeddings.vector
    written,    \* templates written so far, to number the next one
    index,      \* _matchers[org] of every process
    lock,       \* who holds _lock_for(org) in every process
    inflight,   \* handlers between two awaits, with what each has read
    drifted     \* history: users whose index entry a process may have wrong

table == <<active, template, written>>
vars  == <<table, index, lock, inflight, drifted>>

Template == Nat
Entries  == [User -> Template]

ASSUME RegistryAssumption ==
    MaxTemplate \in Nat /\ None \notin User \cup Req /\ NotLoaded \notin Entries

\* What an index built from the tables contains: embeddings of active users.
Wanted  == [u \in User |-> IF active[u] THEN template[u] ELSE 0]
IsEmpty(rows) == \A u \in User : rows[u] = 0

(***************************************************************************)
(* A handler in flight: what it does next, and what it has read.  `user' is *)
(* whose template or account it changes, None for a recognition and for a   *)
(* start-up, which only fill the index.                                     *)
(***************************************************************************)
RegisterReq == [id : Req, proc : Proc, step : {"register_commit"}, user : User]
DeleteReq   == [id : Req, proc : Proc, step : {"delete_commit"}, user : User,
                wasActive : BOOLEAN, enrolled : BOOLEAN]
UpdateReq   == [id : Req, proc : Proc, step : {"update_commit"}, user : User,
                wasActive : BOOLEAN, to : BOOLEAN]
UpdatedReq  == [id : Req, proc : Proc, step : {"update_index"}, user : User,
                to : BOOLEAN]
RemoveReq   == [id : Req, proc : Proc, step : {"remove_user"}, user : User]
MatcherReq  == [id : Req, proc : Proc, step : {"get_matcher", "fresh_matcher"},
                user : User \cup {None}, template : Template]
LoadReq     == [id : Req, proc : Proc, step : {"load_org"},
                user : User \cup {None}, template : Template, rows : Entries]
StartReq    == [id : Req, proc : Proc, step : {"refresh_all"}, user : {None},
                rows : Entries]
Request     == RegisterReq \cup DeleteReq \cup UpdateReq \cup UpdatedReq
                 \cup RemoveReq \cup MatcherReq \cup LoadReq \cup StartReq

TypeOK ==
    /\ active \in [User -> BOOLEAN]
    /\ template \in Entries
    /\ written \in Entries
    /\ index \in [Proc -> Entries \cup {NotLoaded}]
    /\ lock \in [Proc -> Req \cup {None}]
    /\ inflight \in SUBSET Request
    /\ drifted \in [Proc -> SUBSET User]

\* A new deployment: nobody is enrolled, so no index has been built.
Init ==
    /\ active = [u \in User |-> TRUE]
    /\ template = [u \in User |-> 0]
    /\ written = [u \in User |-> 0]
    /\ index = [p \in Proc |-> NotLoaded]
    /\ lock = [p \in Proc |-> None]
    /\ inflight = {}
    /\ drifted = [p \in Proc |-> {}]

-----------------------------------------------------------------------------
\* Start-up ends before the process accepts requests.
Serving(p) == \A r \in inflight : r.proc = p => r.step # "refresh_all"
Begin(r) ==
    /\ \A s \in inflight : s.id # r.id
    /\ Serving(r.proc)
    /\ inflight' = inflight \cup {r}
Proceed(r, s) == inflight' = (inflight \ {r}) \cup {s}
Finish(r)     == inflight' = inflight \ {r}

\* History: a commit on u's rows leaves the entry in doubt where no index
\* update will follow it, and everywhere if another handler is working on u.
Drift(u, others, unaware) ==
    drifted' = [p \in Proc |->
        IF \/ \E s \in others : s.user = u
           \/ p \in unaware /\ Wanted'[u] # Wanted[u]
          THEN drifted[p] \cup {u} ELSE drifted[p]]
Others(p) == Proc \ {p}

MayWrite(u) ==
    written[u] + Cardinality({r \in inflight : r.user = u /\ r.step = "register_commit"})
      < MaxTemplate
Write(u) ==
    /\ written' = [written EXCEPT ![u] = @ + 1]
    /\ template' = [template EXCEPT ![u] = written[u] + 1]
    /\ UNCHANGED active

-----------------------------------------------------------------------------
(* POST /recognize/users/{id}/register.  The faces are processed between    *)
(* the two statements, and nothing asks again whether the user is active.   *)

RegisterUserFace(i, p, u) ==
    /\ active[u]
    /\ MayWrite(u)
    /\ Begin([id |-> i, proc |-> p, step |-> "register_commit", user |-> u])
    /\ UNCHANGED <<table, index, lock, drifted>>

\* Insert or update, then commit; a row inserted or deleted by somebody else
\* between the lookup and the flush makes it fail (Fail).
RegisterCommit(r) ==
    /\ r.step = "register_commit"
    /\ Write(r.user)
    /\ Proceed(r, [id |-> r.id, proc |-> r.proc, step |-> "get_matcher",
                   user |-> r.user, template |-> written[r.user] + 1])
    /\ Drift(r.user, inflight \ {r}, Others(r.proc))
    /\ UNCHANGED <<index, lock>>

\* compute_embedding_task, in a Celery worker: the table only.
ComputeEmbeddingTask(u) ==
    /\ MayWrite(u)
    /\ Write(u)
    /\ Drift(u, inflight, Proc)
    /\ UNCHANGED <<index, lock, inflight>>

\* DELETE /recognize/users/{id}/register.
DeregisterUserFace(i, p, u) ==
    /\ Begin([id |-> i, proc |-> p, step |-> "remove_user", user |-> u])
    /\ template' = [template EXCEPT ![u] = 0]
    /\ UNCHANGED <<active, written, index, lock>>
    /\ Drift(u, inflight, Others(p))

-----------------------------------------------------------------------------
(* DELETE /users/{id} and PATCH /users/{id}.  A column set to the value the *)
(* handler had read is not written.                                         *)

DeleteUser(i, p, u) ==
    /\ Begin([id |-> i, proc |-> p, step |-> "delete_commit", user |-> u,
              wasActive |-> active[u], enrolled |-> template[u] # 0])
    /\ UNCHANGED <<table, index, lock, drifted>>

DeleteCommit(r) ==
    /\ r.step = "delete_commit"
    /\ active' = [active EXCEPT ![r.user] = @ /\ ~ r.wasActive]
    /\ IF r.wasActive /\ r.enrolled
         THEN Proceed(r, [id |-> r.id, proc |-> r.proc, step |-> "remove_user",
                          user |-> r.user])
         ELSE Finish(r)
    /\ UNCHANGED <<template, written, index, lock>>
    /\ Drift(r.user, inflight \ {r}, Others(r.proc))

UpdateUser(i, p, u, b) ==
    /\ Begin([id |-> i, proc |-> p, step |-> "update_commit", user |-> u,
              wasActive |-> active[u], to |-> b])
    /\ UNCHANGED <<table, index, lock, drifted>>

UpdateCommit(r) ==
    /\ r.step = "update_commit"
    /\ active' = [active EXCEPT ![r.user] = IF r.wasActive = r.to THEN @ ELSE r.to]
    /\ Proceed(r, [id |-> r.id, proc |-> r.proc, step |-> "update_index",
                   user |-> r.user, to |-> r.to])
    /\ UNCHANGED <<template, written, index, lock>>
    /\ Drift(r.user, inflight \ {r}, Proc)

\* `changes.get("is_active") and not user.is_active': both are the requested
\* value, so the entry is never removed.
UpdateIndex(r) ==
    /\ r.step = "update_index"
    /\ Finish(r)
    /\ UNCHANGED <<table, index, lock, drifted>>

-----------------------------------------------------------------------------
(* MatcherRegistry.                                                        *)

Put(entries, r) == IF r.user = None THEN entries ELSE [entries EXCEPT ![r.user] = r.template]

\* POST /recognize and /recognize/batch.  What a match is used for is in
\* Attendance; here it only makes the index load.
Recognize(i, p) ==
    /\ Begin([id |-> i, proc |-> p, step |-> "get_matcher", user |-> None, template |-> 0])
    /\ UNCHANGED <<table, index, lock, drifted>>

\* get_matcher finds the index; upsert_user updates it without awaiting.
UseMatcher(r) ==
    /\ r.step = "get_matcher"
    /\ lock[r.proc] = None
    /\ index[r.proc] # NotLoaded
    /\ index' = [index EXCEPT ![r.proc] = Put(@, r)]
    /\ Finish(r)
    /\ UNCHANGED <<table, lock, drifted>>

\* History: a fresh query settles an entry, unless a handler of the process
\* will write the index from what it knew before.
InDoubt(p, u) ==
    \E s \in inflight : s.proc = p /\ (s.user = u \/ s.step = "fresh_matcher")

\* Mutant: a load does not queue behind another one.
LoadOrgUnqueued(r) ==
    /\ r.step = "get_matcher"
    /\ index[r.proc] = NotLoaded
    /\ lock' = [lock EXCEPT ![r.proc] = r.id]
    /\ Proceed(r, [id |-> r.id, proc |-> r.proc, step |-> "load_org", user |-> r.user,
                   template |-> r.template, rows |-> Wanted])
    /\ drifted' = [drifted EXCEPT ![r.proc] = {u \in @ : InDoubt(r.proc, u)}]
    /\ UNCHANGED <<table, index>>

\* get_matcher does not: take the lock and query the tables.
LoadOrg(r) ==
    /\ r.step = "get_matcher"
    /\ lock[r.proc] = None
    /\ index[r.proc] = NotLoaded
    /\ lock' = [lock EXCEPT ![r.proc] = r.id]
    /\ Proceed(r, [id |-> r.id, proc |-> r.proc, step |-> "load_org", user |-> r.user,
                   template |-> r.template, rows |-> Wanted])
    /\ drifted' = [drifted EXCEPT ![r.proc] = {u \in @ : InDoubt(r.proc, u)}]
    /\ UNCHANGED <<table, index>>

Unlock(p) == lock' = [lock EXCEPT ![p] = None]

OrgLoaded(r) ==
    /\ r.step = "load_org"
    /\ ~ IsEmpty(r.rows)
    /\ index' = [index EXCEPT ![r.proc] = Put(r.rows, r)]
    /\ Unlock(r.proc)
    /\ Finish(r)
    /\ UNCHANGED <<table, drifted>>

\* Mutant: the early return for an organization without embeddings skips the
\* release of the lock.
OrgEmptyLocked(r) ==
    /\ r.step = "load_org"
    /\ IsEmpty(r.rows)
    /\ IF r.user = None
         THEN Finish(r)
         ELSE Proceed(r, [id |-> r.id, proc |-> r.proc, step |-> "fresh_matcher",
                          user |-> r.user, template |-> r.template])
    /\ UNCHANGED <<table, index, lock, drifted>>

\* There is nothing to load: no key is set, upsert_user will set its own.
OrgEmpty(r) ==
    /\ r.step = "load_org"
    /\ IsEmpty(r.rows)
    /\ IF r.user = None
         THEN Finish(r)
         ELSE Proceed(r, [id |-> r.id, proc |-> r.proc, step |-> "fresh_matcher",
                          user |-> r.user, template |-> r.template])
    /\ Unlock(r.proc)
    /\ UNCHANGED <<table, index, drifted>>

\* upsert_user sets a new matcher, over the one that whoever held the lock
\* meanwhile may have loaded.  (The lock is taken at once unless somebody
\* queues for it; then the coroutine queues too.)
FreshMatcher(r) ==
    /\ r.step = "fresh_matcher"
    /\ lock[r.proc] = None
    /\ index' = [index EXCEPT ![r.proc] = Put([u \in User |-> 0], r)]
    /\ Finish(r)
    /\ drifted' = [drifted EXCEPT ![r.proc] = IF index[r.proc] = NotLoaded THEN @ ELSE User]
    /\ UNCHANGED <<table, lock>>

\* Mutant: remove_user looks the index up but does not touch it.
RemoveUserSkipped(r) ==
    /\ r.step = "remove_user"
    /\ Finish(r)
    /\ UNCHANGED <<table, index, lock, drifted>>

\* remove_user takes no lock: an index that is being loaded is not there yet,
\* and is installed afterwards with the entry in it.
Loads(p, u) ==
    \E s \in inflight : s.proc = p /\ s.step = "load_org" /\ s.rows[u] # 0
RemoveUser(r) ==
    /\ r.step = "remove_user"
    /\ index' = IF index[r.proc] = NotLoaded THEN index
                  ELSE [index EXCEPT ![r.proc] = [@ EXCEPT ![r.user] = 0]]
    /\ Finish(r)
    /\ drifted' = IF Loads(r.proc, r.user)
                    THEN [drifted EXCEPT ![r.proc] = @ \cup {r.user}] ELSE drifted
    /\ UNCHANGED <<table, lock>>

-----------------------------------------------------------------------------
(* Failures and restarts.                                                  *)

\* The index update that a committed change still owes.
IndexSteps == {"get_matcher", "load_org", "fresh_matcher", "remove_user"}
Owes(r, p, u) == r.proc = p /\ r.user = u /\ r.step \in IndexSteps

\* A statement raises: the transaction rolls back, `async with' releases the
\* lock, the handler answers 500.
Fail(r) ==
    /\ Finish(r)
    /\ lock' = [p \in Proc |-> IF lock[p] = r.id THEN None ELSE lock[p]]
    /\ drifted' = [p \in Proc |-> drifted[p] \cup {u \in User : Owes(r, p, u)}]
    /\ UNCHANGED <<table, index>>

\* The process dies and comes back; before it serves, it reads every index.
Restart(i, p) ==
    /\ \A s \in inflight : s.id = i => s.proc = p
    /\ inflight' = {s \in inflight : s.proc # p} \cup
         {[id |-> i, proc |-> p, step |-> "refresh_all", user |-> None, rows |-> Wanted]}
    /\ index' = [index EXCEPT ![p] = NotLoaded]
    /\ lock' = [lock EXCEPT ![p] = None]
    /\ drifted' = [drifted EXCEPT ![p] = {}]
    /\ UNCHANGED table

\* An organization without rows gets no key.
RefreshAll(r) ==
    /\ r.step = "refresh_all"
    /\ index' = [index EXCEPT ![r.proc] = IF IsEmpty(r.rows) THEN NotLoaded ELSE r.rows]
    /\ Finish(r)
    /\ UNCHANGED <<table, lock, drifted>>

-----------------------------------------------------------------------------
Arrive(i) ==
    \/ \E p \in Proc : Recognize(i, p)
    \/ \E p \in Proc, u \in User :
         \/ RegisterUserFace(i, p, u)
         \/ DeregisterUserFace(i, p, u)
         \/ DeleteUser(i, p, u)
         \/ \E b \in BOOLEAN : UpdateUser(i, p, u, b)

Run(r) ==
    \/ RegisterCommit(r)
    \/ DeleteCommit(r)
    \/ UpdateCommit(r)
    \/ UpdateIndex(r)
    \/ UseMatcher(r)
    \/ LoadOrg(r)
    \/ OrgLoaded(r)
    \/ OrgEmpty(r)
    \/ FreshMatcher(r)
    \/ RemoveUser(r)
    \/ RefreshAll(r)

Step(i) == \E r \in inflight : r.id = i /\ Run(r)

Next ==
    \/ \E i \in Req : Arrive(i) \/ Step(i)
    \/ \E u \in User : ComputeEmbeddingTask(u)
    \/ \E r \in inflight : Fail(r)
    \/ \E i \in Req, p \in Proc : Restart(i, p)

Spec == Init /\ [][Next]_vars

\* The event loop runs every coroutine that is ready and wakes the waiters of
\* a lock in the order they came, so none is passed over for ever; a database
\* statement returns or raises.
Fairness == \A i \in Req : SF_vars(Step(i))
FairSpec == Spec /\ Fairness

-----------------------------------------------------------------------------
(* Properties.                                                             *)

\* The index of every process agrees with the tables on every user, as soon as
\* the handlers that changed the user have updated it.  The exceptions are
\* those recorded in drifted: a change committed by another process or a
\* Celery task, PATCH is_active, two handlers at work on one user, a removal
\* that passes a load, a fresh matcher set over a loaded one, and a handler
\* that fails between its commit and its index update
\* (index_manager.py:128-187, recognition.py:454-458, 507-510, users.py:458-468).
IndexFollowsTable ==
    \A p \in Proc : index[p] # NotLoaded =>
        \A u \in User \ drifted[p] :
            (\A r \in inflight : ~ Owes(r, p, u)) => index[p][u] = Wanted[u]

\* Only the coroutine that is loading the index holds its lock: no path leaves
\* it locked (index_manager.py:128-137).
LockHeldByLoader ==
    \A p \in Proc : lock[p] # None =>
        \E r \in inflight : r.id = lock[p] /\ r.proc = p /\ r.step = "load_org"

\* Every request and every start-up comes to an end, whatever it queues behind.
InFlight(i) == \E r \in inflight : r.id = i
EveryRequestEnds == \A i \in Req : InFlight(i) ~> ~ InFlight(i)

-----------------------------------------------------------------------------
(* The inductive invariant behind them.                                    *)

\* A handler has one identity, holds the lock while it loads, and is not started
\* before its process is.
IdsDiffer       == \A r, s \in inflight : r.id = s.id => r = s
LoaderHoldsLock == \A r \in inflight : r.step = "load_org" => lock[r.proc] = r.id
StartsAlone     ==
    \A r, s \in inflight : r.step = "refresh_all" /\ s.proc = r.proc => s = r

\* What a handler knows of its user is still so, unless the entry has drifted.
KnowsUser(r) ==
    r.user \notin drifted[r.proc] =>
      /\ r.step = "register_commit" => active[r.user]
      /\ r.step = "delete_commit" /\ ~ r.enrolled => template[r.user] = 0
      /\ r.step = "remove_user" => Wanted[r.user] = 0
      /\ r.step \in {"get_matcher", "load_org", "fresh_matcher"} /\ r.user # None =>
           r.template = Wanted[r.user]
UsersKnown == \A r \in inflight : KnowsUser(r)

\* The entry of u neither has drifted nor awaits an update; then the rows of a
\* load or a start-up agree with the tables, and a fresh matcher that is about to
\* be the first misses nobody.
Settled(p, u) == u \notin drifted[p] /\ \A r \in inflight : ~ Owes(r, p, u)
RowsFollowTable ==
    \A r \in inflight, u \in User : Settled(r.proc, u) =>
      /\ r.step \in {"load_org", "refresh_all"} => r.rows[u] = Wanted[u]
      /\ r.step = "fresh_matcher" /\ index[r.proc] = NotLoaded => Wanted[u] = 0

IInv ==
    /\ TypeOK
    /\ IdsDiffer /\ LoaderHoldsLock /\ LockHeldByLoader /\ StartsAlone
    /\ UsersKnown /\ RowsFollowTable /\ IndexFollowsTable

-----------------------------------------------------------------------------
\* docs/database-schema.md:39: "deactivation revokes matcher entry";
\* README.md:170-171: indexes "update instantly on registration/deactivation".
\* When PATCH /users/{id} has deactivated a user and is about to answer, the
\* process that served it still has the user's template in its index.
DeactivationRevokesEntry ==
    [][\A r \in inflight :
         UpdateIndex(r) /\ ~ r.to => index'[r.proc] = NotLoaded \/ index'[r.proc][r.user] = 0]_vars
=============================================================================

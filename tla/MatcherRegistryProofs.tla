----------------------- MODULE MatcherRegistryProofs -----------------------
(***************************************************************************)
(* Proofs about MatcherRegistry for any number of processes, users and     *)
(* handlers.                                                               *)
(***************************************************************************)
EXTENDS MatcherRegistry, TLAPS

(***************************************************************************)
(* What the step of a handler says of its record.                          *)
(***************************************************************************)
LEMMA RequestShape ==
    ASSUME NEW r \in Request
    PROVE  /\ r.id \in Req /\ r.proc \in Proc /\ r.user \in User \cup {None}
           /\ r.step = "register_commit" => r \in RegisterReq
           /\ r.step = "delete_commit" => r \in DeleteReq
           /\ r.step = "update_commit" => r \in UpdateReq
           /\ r.step = "update_index" => r \in UpdatedReq
           /\ r.step = "remove_user" => r \in RemoveReq
           /\ r.step \in {"get_matcher", "fresh_matcher"} => r \in MatcherReq
           /\ r.step = "load_org" => r \in LoadReq
           /\ r.step = "refresh_all" => r \in StartReq
BY DEF Request, RegisterReq, DeleteReq, UpdateReq, UpdatedReq, RemoveReq, MatcherReq,
   LoadReq, StartReq

LEMMA WantedTyped == TypeOK => Wanted \in Entries
BY DEF TypeOK, Wanted, Entries, Template

LEMMA PutTyped ==
    ASSUME NEW e \in Entries, NEW r \in MatcherReq \cup LoadReq
    PROVE  Put(e, r) \in Entries
BY DEF Put, Entries, MatcherReq, LoadReq

\* Every step of every handler writes values of the declared kinds.
LEMMA TypeStep == TypeOK /\ [Next]_vars => TypeOK'
<1> SUFFICES ASSUME TypeOK, [Next]_vars PROVE TypeOK'
  OBVIOUS
<1> USE DEF TypeOK
<1>1. ASSUME NEW i \in Req, Arrive(i) PROVE TypeOK'
  <2>1. ASSUME NEW p \in Proc, Recognize(i, p) PROVE TypeOK'
    <3>1. [id |-> i, proc |-> p, step |-> "get_matcher", user |-> None, template |-> 0]
            \in Request
      BY DEF Request, MatcherReq, Template
    <3>2. QED
      BY <2>1, <3>1 DEF Recognize, Begin, table
  <2>2. ASSUME NEW p \in Proc, NEW u \in User, RegisterUserFace(i, p, u) PROVE TypeOK'
    <3>1. [id |-> i, proc |-> p, step |-> "register_commit", user |-> u] \in Request
      BY DEF Request, RegisterReq
    <3>2. QED
      BY <2>2, <3>1 DEF RegisterUserFace, Begin, table
  <2>3. ASSUME NEW p \in Proc, NEW u \in User, DeregisterUserFace(i, p, u) PROVE TypeOK'
    <3>1. [id |-> i, proc |-> p, step |-> "remove_user", user |-> u] \in Request
      BY DEF Request, RemoveReq
    <3>2. QED
      BY <2>3, <3>1 DEF DeregisterUserFace, Begin, Drift, Entries, Template
  <2>4. ASSUME NEW p \in Proc, NEW u \in User, DeleteUser(i, p, u) PROVE TypeOK'
    <3>1. [id |-> i, proc |-> p, step |-> "delete_commit", user |-> u,
           wasActive |-> active[u], enrolled |-> template[u] # 0] \in Request
      BY DEF Request, DeleteReq
    <3>2. QED
      BY <2>4, <3>1 DEF DeleteUser, Begin, table
  <2>5. ASSUME NEW p \in Proc, NEW u \in User, NEW b \in BOOLEAN, UpdateUser(i, p, u, b)
        PROVE TypeOK'
    <3>1. [id |-> i, proc |-> p, step |-> "update_commit", user |-> u,
           wasActive |-> active[u], to |-> b] \in Request
      BY DEF Request, UpdateReq
    <3>2. QED
      BY <2>5, <3>1 DEF UpdateUser, Begin, table
  <2>6. QED
    BY <1>1, <2>1, <2>2, <2>3, <2>4, <2>5 DEF Arrive
<1>2. ASSUME NEW r \in inflight, Run(r) PROVE TypeOK'
  <2>1. CASE RegisterCommit(r)
    <3>1. r \in RegisterReq
      BY <2>1, RequestShape DEF RegisterCommit
    <3>2. written' \in Entries /\ template' \in Entries
      BY <2>1, <3>1 DEF RegisterCommit, Write, Entries, Template, RegisterReq
    <3>3. [id |-> r.id, proc |-> r.proc, step |-> "get_matcher", user |-> r.user,
           template |-> written[r.user] + 1] \in Request
      BY <3>1 DEF Request, RegisterReq, MatcherReq, Entries, Template
    <3>4. QED
      BY <2>1, <3>1, <3>2, <3>3 DEF RegisterCommit, Write, Proceed, Drift, RegisterReq
  <2>2. CASE DeleteCommit(r)
    <3>1. r \in DeleteReq
      BY <2>2, RequestShape DEF DeleteCommit
    <3>2. [id |-> r.id, proc |-> r.proc, step |-> "remove_user", user |-> r.user]
            \in Request
      BY <3>1 DEF Request, DeleteReq, RemoveReq
    <3>3. active' \in [User -> BOOLEAN]
      BY <2>2, <3>1 DEF DeleteCommit, DeleteReq
    <3>4. QED
      BY <2>2, <3>1, <3>2, <3>3 DEF DeleteCommit, Proceed, Finish, Drift, DeleteReq
  <2>3. CASE UpdateCommit(r)
    <3>1. r \in UpdateReq
      BY <2>3, RequestShape DEF UpdateCommit
    <3>2. [id |-> r.id, proc |-> r.proc, step |-> "update_index", user |-> r.user,
           to |-> r.to] \in Request
      BY <3>1 DEF Request, UpdateReq, UpdatedReq
    <3>3. active' \in [User -> BOOLEAN]
      BY <2>3, <3>1 DEF UpdateCommit, UpdateReq
    <3>4. QED
      BY <2>3, <3>1, <3>2, <3>3 DEF UpdateCommit, Proceed, Drift, UpdateReq
  <2>4. CASE UpdateIndex(r)
    BY <2>4 DEF UpdateIndex, Finish, table
  <2>5. CASE UseMatcher(r)
    <3>1. r \in MatcherReq /\ r.proc \in Proc
      BY <2>5, RequestShape DEF UseMatcher
    <3>2. Put(index[r.proc], r) \in Entries
      BY <2>5, <3>1, PutTyped DEF UseMatcher
    <3>3. QED
      BY <2>5, <3>1, <3>2 DEF UseMatcher, Finish, table
  <2>6. CASE LoadOrg(r)
    <3>1. r \in MatcherReq /\ r.proc \in Proc
      BY <2>6, RequestShape DEF LoadOrg
    <3>2. [id |-> r.id, proc |-> r.proc, step |-> "load_org", user |-> r.user,
           template |-> r.template, rows |-> Wanted] \in Request
      BY <3>1, WantedTyped DEF Request, MatcherReq, LoadReq
    <3>3. QED
      BY <2>6, <3>1, <3>2 DEF LoadOrg, Proceed, table, MatcherReq
  <2>7. CASE OrgLoaded(r)
    <3>1. r \in LoadReq
      BY <2>7, RequestShape DEF OrgLoaded
    <3>2. Put(r.rows, r) \in Entries
      BY <3>1, PutTyped DEF LoadReq
    <3>3. QED
      BY <2>7, <3>1, <3>2 DEF OrgLoaded, Unlock, Finish, table
  <2>8. CASE OrgEmpty(r)
    <3>1. r \in LoadReq
      BY <2>8, RequestShape DEF OrgEmpty
    <3>2. [id |-> r.id, proc |-> r.proc, step |-> "fresh_matcher", user |-> r.user,
           template |-> r.template] \in Request
      BY <3>1 DEF Request, MatcherReq, LoadReq
    <3>3. QED
      BY <2>8, <3>1, <3>2 DEF OrgEmpty, Unlock, Finish, Proceed, table
  <2>9. CASE FreshMatcher(r)
    <3>1. r \in MatcherReq /\ r.proc \in Proc
      BY <2>9, RequestShape DEF FreshMatcher
    <3>2. Put([u \in User |-> 0], r) \in Entries
      BY <3>1, PutTyped DEF Entries, Template
    <3>3. QED
      BY <2>9, <3>1, <3>2 DEF FreshMatcher, Finish, table
  <2>10. CASE RemoveUser(r)
    <3>1. r \in RemoveReq
      BY <2>10, RequestShape DEF RemoveUser
    <3>2. index' \in [Proc -> Entries \cup {NotLoaded}]
      BY <2>10, <3>1 DEF RemoveUser, RemoveReq, Entries, Template
    <3>3. drifted' \in [Proc -> SUBSET User]
      BY <2>10, <3>1 DEF RemoveUser, RemoveReq
    <3>4. QED
      BY <2>10, <3>2, <3>3 DEF RemoveUser, Finish, table
  <2>11. CASE RefreshAll(r)
    <3>1. r \in StartReq
      BY <2>11, RequestShape DEF RefreshAll
    <3>2. QED
      BY <2>11, <3>1 DEF RefreshAll, Finish, StartReq, table
  <2>12. QED
    BY <1>2, <2>1, <2>2, <2>3, <2>4, <2>5, <2>6, <2>7, <2>8, <2>9, <2>10, <2>11 DEF Run
<1>3. ASSUME NEW u \in User, ComputeEmbeddingTask(u) PROVE TypeOK'
  <2>1. written' \in Entries /\ template' \in Entries
    BY <1>3 DEF ComputeEmbeddingTask, Write, Entries, Template
  <2>2. QED
    BY <1>3, <2>1 DEF ComputeEmbeddingTask, Write, Drift
<1>4. ASSUME NEW r \in inflight, Fail(r) PROVE TypeOK'
  BY <1>4 DEF Fail, Finish, table
<1>5. ASSUME NEW i \in Req, NEW p \in Proc, Restart(i, p) PROVE TypeOK'
  <2>1. [id |-> i, proc |-> p, step |-> "refresh_all", user |-> None, rows |-> Wanted]
          \in Request
    BY WantedTyped DEF Request, StartReq
  <2>2. QED
    BY <1>5, <2>1 DEF Restart, table
<1>6. CASE UNCHANGED vars
  BY <1>6 DEF vars, table
<1>7. QED
  BY <1>1, <1>2, <1>3, <1>4, <1>5, <1>6 DEF Next, Step

-----------------------------------------------------------------------------
(***************************************************************************)
(* Who is in flight, and who holds the lock.                               *)
(***************************************************************************)
Discipline == IdsDiffer /\ LoaderHoldsLock /\ LockHeldByLoader /\ StartsAlone

\* A handler arrives, goes on or ends without touching the lock it may hold.
LEMMA QuietStepKeepsDiscipline ==
    ASSUME TypeOK, Discipline, lock' = lock, NEW r,
           \/ Begin(r) /\ r.step \notin {"load_org", "refresh_all"}
           \/ Finish(r) /\ r \in inflight /\ r.step # "load_org"
           \/ \E s : /\ Proceed(r, s) /\ r \in inflight /\ r.step # "load_org"
                     /\ s.id = r.id /\ s.proc = r.proc
                     /\ s.step \notin {"load_org", "refresh_all"}
    PROVE  Discipline'
<1> USE DEF Discipline, IdsDiffer, LoaderHoldsLock, LockHeldByLoader, StartsAlone
<1>1. CASE Begin(r) /\ r.step \notin {"load_org", "refresh_all"}
  BY <1>1 DEF Begin, Serving
<1>2. CASE Finish(r) /\ r \in inflight /\ r.step # "load_org"
  BY <1>2 DEF Finish
<1>3. ASSUME NEW s, Proceed(r, s), r \in inflight, r.step # "load_org",
             s.id = r.id, s.proc = r.proc, s.step \notin {"load_org", "refresh_all"}
      PROVE  Discipline'
  BY <1>3 DEF Proceed
<1>4. QED
  BY <1>1, <1>2, <1>3

LEMMA DisciplineStep == TypeOK /\ Discipline /\ [Next]_vars => Discipline'
<1> SUFFICES ASSUME TypeOK, Discipline, [Next]_vars PROVE Discipline'
  OBVIOUS
<1> USE DEF Discipline, IdsDiffer, LoaderHoldsLock, LockHeldByLoader, StartsAlone
<1>1. ASSUME NEW i \in Req, Arrive(i) PROVE Discipline'
  <2>1. PICK r : Begin(r) /\ r.step \notin {"load_org", "refresh_all"} /\ lock' = lock
    BY <1>1 DEF Arrive, Recognize, RegisterUserFace, DeregisterUserFace, DeleteUser,
       UpdateUser
  <2>2. QED
    BY <2>1, QuietStepKeepsDiscipline
<1>2. ASSUME NEW r \in inflight, Run(r) PROVE Discipline'
  <2>0. r \in Request /\ r.proc \in Proc /\ r.id \in Req
    BY RequestShape DEF TypeOK
  <2>1. CASE \/ RegisterCommit(r) \/ DeleteCommit(r) \/ UpdateCommit(r) \/ UpdateIndex(r)
             \/ UseMatcher(r) \/ FreshMatcher(r) \/ RemoveUser(r) \/ RefreshAll(r)
    <3>1. /\ lock' = lock
          /\ r.step # "load_org"
          /\ \/ Finish(r)
             \/ \E s : /\ Proceed(r, s) /\ s.id = r.id /\ s.proc = r.proc
                       /\ s.step \notin {"load_org", "refresh_all"}
      BY <2>1 DEF RegisterCommit, DeleteCommit, UpdateCommit, UpdateIndex, UseMatcher,
         FreshMatcher, RemoveUser, RefreshAll
    <3>2. QED
      BY <3>1, QuietStepKeepsDiscipline
  <2>2. CASE LoadOrg(r)
    <3>1. \A s \in inflight : s.proc = r.proc => s.step # "load_org"
      BY <2>0, <2>2, RequestShape, RegistryAssumption DEF TypeOK, LoadOrg
    <3>2. lock' = [lock EXCEPT ![r.proc] = r.id] /\ lock \in [Proc -> Req \cup {None}]
      BY <2>2 DEF LoadOrg, TypeOK
    <3>3. \A p \in Proc : lock'[p] = IF p = r.proc THEN r.id ELSE lock[p]
      BY <3>2
    <3>4. \A s \in inflight : s.proc \in Proc
      BY RequestShape DEF TypeOK
    <3>5. PICK t : /\ t.id = r.id /\ t.proc = r.proc /\ t.step = "load_org"
                   /\ inflight' = (inflight \ {r}) \cup {t}
      BY <2>2 DEF LoadOrg, Proceed
    <3>6. r.step # "refresh_all" /\ lock[r.proc] = None
      BY <2>2 DEF LoadOrg
    <3>7. QED
      BY <2>0, <3>1, <3>3, <3>4, <3>5, <3>6
  <2>3. CASE OrgLoaded(r) \/ OrgEmpty(r)
    <3>1. \A s \in inflight : s.proc = r.proc /\ s.step = "load_org" => s = r
      BY <2>0, <2>3 DEF OrgLoaded, OrgEmpty
    <3>2. lock' = [lock EXCEPT ![r.proc] = None] /\ lock \in [Proc -> Req \cup {None}]
      BY <2>3 DEF OrgLoaded, OrgEmpty, Unlock, TypeOK
    <3>3. \A p \in Proc : lock'[p] = IF p = r.proc THEN None ELSE lock[p]
      BY <3>2
    <3>4. \A s \in inflight : s.proc \in Proc
      BY RequestShape DEF TypeOK
    <3>5. CASE Finish(r)
      BY <3>1, <3>3, <3>4, <3>5 DEF Finish
    <3>6. ASSUME NEW s, Proceed(r, s), s.id = r.id, s.proc = r.proc,
                 s.step = "fresh_matcher"
          PROVE  Discipline'
      BY <2>0, <2>3, <3>1, <3>3, <3>4, <3>6 DEF Proceed, OrgLoaded, OrgEmpty
    <3>7. QED
      BY <2>3, <3>5, <3>6 DEF OrgLoaded, OrgEmpty
  <2>4. QED
    BY <1>2, <2>1, <2>2, <2>3 DEF Run
<1>3. ASSUME NEW u \in User, ComputeEmbeddingTask(u) PROVE Discipline'
  BY <1>3 DEF ComputeEmbeddingTask
<1>4. ASSUME NEW r \in inflight, Fail(r) PROVE Discipline'
  <2>1. \A s \in inflight : s.id \in Req /\ s.proc \in Proc
    BY RequestShape DEF TypeOK
  <2>2. \A p \in Proc : lock'[p] = IF lock[p] = r.id THEN None ELSE lock[p]
    BY <1>4 DEF Fail
  <2>3. inflight' = inflight \ {r}
    BY <1>4 DEF Fail, Finish
  <2>4. QED
    BY <2>1, <2>2, <2>3
<1>5. ASSUME NEW i \in Req, NEW p \in Proc, Restart(i, p) PROVE Discipline'
  <2>1. \A s \in inflight : s.proc \in Proc
    BY RequestShape DEF TypeOK
  <2>2. \A q \in Proc : lock'[q] = IF q = p THEN None ELSE lock[q]
    BY <1>5 DEF Restart, TypeOK
  <2>3. PICK t : /\ t.id = i /\ t.proc = p /\ t.step = "refresh_all"
                 /\ inflight' = {s \in inflight : s.proc # p} \cup {t}
    BY <1>5 DEF Restart
  <2>4. \A s \in inflight : s.id = i => s.proc = p
    BY <1>5 DEF Restart
  <2>5. QED
    BY <2>1, <2>2, <2>3, <2>4
<1>6. CASE UNCHANGED vars
  BY <1>6 DEF vars, table
<1>7. QED
  BY <1>1, <1>2, <1>3, <1>4, <1>5, <1>6 DEF Next, Step

-----------------------------------------------------------------------------
(***************************************************************************)
(* The index and the tables.                                               *)
(***************************************************************************)
Agreement == UsersKnown /\ RowsFollowTable /\ IndexFollowsTable

LEMMA WantedIs ==
    /\ \A v \in User : Wanted[v] = IF active[v] THEN template[v] ELSE 0
    /\ \A v \in User : Wanted'[v] = IF active'[v] THEN template'[v] ELSE 0
BY DEF Wanted

\* A commit on the rows of u puts the entry in doubt wherever it matters.
LEMMA DriftCovers ==
    ASSUME TypeOK, NEW u \in User, NEW others, NEW unaware, Drift(u, others, unaware)
    PROVE  \A p \in Proc :
             /\ drifted[p] \subseteq drifted'[p]
             /\ (\E s \in others : s.user = u) => u \in drifted'[p]
             /\ p \in unaware /\ Wanted'[u] # Wanted[u] => u \in drifted'[p]
BY DEF TypeOK, Drift

\* The steps that leave the index alone.  u is the user whose rows change, if
\* any do; what a handler that arrives or goes on knows is right; the entry of u
\* has drifted if another handler is at work on u, or where the rows really
\* change and no index update follows.
LEMMA TableStepKeepsAgreement ==
    ASSUME TypeOK, Agreement, UNCHANGED index, NEW u \in User \cup {None},
           \A s \in inflight : s \in inflight' \/ s.step \notin IndexSteps,
           \A s \in inflight' :
             \/ s \in inflight
             \/ KnowsUser(s)' /\ s.step \notin {"load_org", "refresh_all", "fresh_matcher"},
           \A v \in User \ {u} : active'[v] = active[v] /\ template'[v] = template[v],
           \A p \in Proc : drifted[p] \subseteq drifted'[p],
           u \in User => \A p \in Proc :
             /\ (\E s \in inflight : s \in inflight' /\ s.user = u) => u \in drifted'[p]
             /\ Wanted'[u] # Wanted[u] =>
                  u \in drifted'[p] \/ \E s \in inflight' : Owes(s, p, u)
    PROVE  Agreement'
<1> USE DEF Agreement
<1>1. \A v \in User \ {u} : Wanted'[v] = Wanted[v]
  BY WantedIs
<1>2. \A s \in inflight : s.proc \in Proc /\ s.user \in User \cup {None}
  BY RequestShape DEF TypeOK
<1>3. \A p \in Proc, v \in User : Settled(p, v)' => Settled(p, v) /\ Wanted'[v] = Wanted[v]
  <2> SUFFICES ASSUME NEW p \in Proc, NEW v \in User, Settled(p, v)'
               PROVE  Settled(p, v) /\ Wanted'[v] = Wanted[v]
    OBVIOUS
  <2>1. v \notin drifted[p]
    BY DEF Settled
  <2>2. ASSUME NEW t \in inflight PROVE ~ Owes(t, p, v)
    BY DEF Settled, Owes
  <2>3. Wanted'[v] = Wanted[v]
    BY <1>1 DEF Settled, Owes
  <2>4. QED
    BY <2>1, <2>2, <2>3 DEF Settled
<1>4. UsersKnown'
  <2> SUFFICES ASSUME NEW s \in inflight' PROVE KnowsUser(s)'
    BY DEF UsersKnown
  <2>1. CASE s \notin inflight
    BY <2>1
  <2>2. CASE s \in inflight /\ s.user = u /\ u \in User
    BY <1>2, <2>2 DEF KnowsUser
  <2>3. CASE s \in inflight /\ ~ (s.user = u /\ u \in User)
    <3>1. KnowsUser(s)
      BY <2>3 DEF UsersKnown
    <3>2. s.user \in User => /\ active'[s.user] = active[s.user]
                            /\ template'[s.user] = template[s.user]
                            /\ Wanted'[s.user] = Wanted[s.user]
      BY <1>1, <2>3
    <3>3. s \in Request
      BY <2>3 DEF TypeOK
    <3>4. s.step \in {"register_commit", "delete_commit", "remove_user"} => s.user \in User
      BY <3>3, RequestShape DEF RegisterReq, DeleteReq, RemoveReq
    <3>5. s.user \notin drifted'[s.proc] => s.user \notin drifted[s.proc]
      BY <1>2, <2>3
    <3>6. s.user \in User \/ s.user = None
      BY <1>2, <2>3
    <3>7. QED
      BY <3>1, <3>2, <3>4, <3>5, <3>6 DEF KnowsUser
  <2>4. QED
    BY <2>1, <2>2, <2>3
<1>5. RowsFollowTable'
  BY <1>2, <1>3 DEF RowsFollowTable, Settled
<1>6. IndexFollowsTable'
  <2> SUFFICES ASSUME NEW p \in Proc, index'[p] # NotLoaded,
                      NEW v \in User \ drifted'[p], \A t \in inflight' : ~ Owes(t, p, v)'
               PROVE  index'[p][v] = Wanted'[v]
    BY DEF IndexFollowsTable, Owes
  <2>1. Settled(p, v)'
    BY DEF Settled, Owes
  <2>2. QED
    BY <1>3, <2>1 DEF Settled, IndexFollowsTable
<1>7. QED
  BY <1>4, <1>5, <1>6

\* The steps that write the index leave the tables alone.  Those of one process:
\* q is the process, and elsewhere nothing changes.
LEMMA IndexStepKeepsAgreement ==
    ASSUME TypeOK, Discipline, Agreement, NEW r \in inflight, UNCHANGED table,
           UseMatcher(r) \/ LoadOrg(r) \/ OrgLoaded(r) \/ OrgEmpty(r)
             \/ FreshMatcher(r) \/ RemoveUser(r) \/ RefreshAll(r)
    PROVE  Agreement'
<1> DEFINE q == r.proc
<1>1. \A s \in inflight : s.proc \in Proc /\ s.user \in User \cup {None} /\ s.id \in Req
  BY RequestShape DEF TypeOK
<1>2. r \in Request /\ q \in Proc
  BY <1>1 DEF TypeOK
<1>3. \A v \in User : Wanted'[v] = Wanted[v]
  BY WantedIs DEF table
<1>4. active' = active /\ template' = template
  BY DEF table
<1>5. KnowsUser(r) /\ \A s \in inflight : KnowsUser(s)
  BY DEF Agreement, UsersKnown
<1>6. ASSUME NEW s \in inflight
      PROVE  s.step \in {"register_commit", "delete_commit", "remove_user"} => s.user \in User
  BY RequestShape DEF TypeOK, RegisterReq, DeleteReq, RemoveReq
<1>7. ASSUME lock[q] = None, NEW s \in inflight, s.proc = q
      PROVE  s.step # "load_org"
  BY <1>1, <1>7, RegistryAssumption DEF Discipline, LoaderHoldsLock
<1>8. ASSUME r.step # "refresh_all", NEW s \in inflight, s.proc = q
      PROVE  s.step # "refresh_all"
  BY <1>8 DEF Discipline, StartsAlone
<1>9. ASSUME r.step = "load_org", NEW s \in inflight, s.proc = q, s.step = "load_org"
      PROVE  s = r
  BY <1>9 DEF Discipline, LoaderHoldsLock, IdsDiffer
<1>10. CASE UseMatcher(r)
  <2>1. r \in MatcherReq
    BY <1>2, <1>10, RequestShape DEF UseMatcher
  <2>2. index[q] \in Entries /\ Put(index[q], r) \in Entries
    BY <1>2, <1>10, <2>1, PutTyped DEF UseMatcher, TypeOK
  <2>3. \A p \in Proc : index'[p] = IF p = q THEN Put(index[q], r) ELSE index[p]
    BY <1>2, <1>10 DEF UseMatcher, TypeOK
  <2>4. index'[q] # NotLoaded
    BY <1>2, <2>2, <2>3, RegistryAssumption
  <2>5. inflight' = inflight \ {r} /\ drifted' = drifted
    BY <1>10 DEF UseMatcher, Finish
  <2>6. \A p \in Proc, v \in User : Settled(p, v)' => Settled(p, v) \/ (p = q /\ v = r.user)
    BY <2>5 DEF Settled, Owes
  <2>7. UsersKnown'
    BY <1>1, <1>3, <1>4, <1>5, <1>6, <2>5 DEF UsersKnown, KnowsUser
  <2>8. RowsFollowTable'
    BY <1>1, <1>3, <1>7, <1>8, <1>10, <2>3, <2>4, <2>5, <2>6
       DEF RowsFollowTable, Agreement, UseMatcher
  <2>9. IndexFollowsTable'
    <3> SUFFICES ASSUME NEW p \in Proc, index'[p] # NotLoaded, NEW v \in User, Settled(p, v)'
                 PROVE  index'[p][v] = Wanted'[v]
      BY DEF IndexFollowsTable, Settled, Owes
    <3>1. CASE Settled(p, v) /\ ~ (p = q /\ v = r.user)
      BY <1>3, <1>10, <2>2, <2>3, <3>1
         DEF Settled, IndexFollowsTable, Agreement, Put, UseMatcher, Entries
    <3>2. CASE p = q /\ v = r.user
      <4>1. r.template = Wanted[v]
        BY <1>5, <1>10, <2>5, <3>2, RegistryAssumption DEF KnowsUser, Settled, UseMatcher
      <4>2. QED
        BY <1>3, <2>2, <2>3, <3>2, <4>1, RegistryAssumption DEF Put, Entries
    <3>3. QED
      BY <2>6, <3>1, <3>2
  <2>10. QED
    BY <2>7, <2>8, <2>9 DEF Agreement
<1>11. CASE LoadOrg(r)
  <2>1. PICK t : /\ t.id = r.id /\ t.proc = q /\ t.step = "load_org" /\ t.user = r.user
                 /\ t.template = r.template /\ t.rows = Wanted
                 /\ inflight' = (inflight \ {r}) \cup {t}
    BY <1>11 DEF LoadOrg, Proceed
  <2>2. \A p \in Proc : drifted'[p] = IF p = q THEN {u \in drifted[q] : InDoubt(q, u)}
                                               ELSE drifted[p]
    BY <1>2, <1>11 DEF LoadOrg, TypeOK
  <2>3. \A s \in inflight : s.user \notin drifted'[s.proc] => s.user \notin drifted[s.proc]
    BY <1>1, <2>2 DEF InDoubt
  <2>4. UsersKnown'
    <3> SUFFICES ASSUME NEW s \in inflight' PROVE KnowsUser(s)'
      BY DEF UsersKnown
    <3>1. CASE s = t
      BY <1>1, <1>2, <1>3, <1>5, <1>11, <2>1, <2>3, <3>1 DEF KnowsUser, LoadOrg
    <3>2. CASE s \in inflight
      BY <1>1, <1>3, <1>4, <1>5, <1>6, <2>3, <3>2 DEF KnowsUser
    <3>3. QED
      BY <2>1, <3>1, <3>2
  <2>5. RowsFollowTable'
    <3> SUFFICES ASSUME NEW s \in inflight', NEW v \in User, Settled(s.proc, v)'
                 PROVE  /\ s.step \in {"load_org", "refresh_all"} => s.rows[v] = Wanted'[v]
                        /\ s.step = "fresh_matcher" /\ index'[s.proc] = NotLoaded
                             => Wanted'[v] = 0
      BY DEF RowsFollowTable
    <3>1. CASE s = t
      BY <1>3, <2>1, <3>1
    <3>2. CASE s \in inflight /\ s.proc = q
      <4>1. s.step \notin {"load_org", "refresh_all"}
        BY <1>7, <1>8, <1>11, <3>2 DEF LoadOrg
      <4>2. ASSUME s.step = "fresh_matcher", index'[q] = NotLoaded PROVE Wanted'[v] = 0
        <5>1. v \notin drifted[q]
          BY <1>2, <2>2, <3>2, <4>2 DEF Settled, InDoubt
        <5>2. \A x \in inflight : ~ Owes(x, q, v)
          BY <1>11, <2>1, <3>2 DEF Settled, Owes, LoadOrg, IndexSteps
        <5>3. QED
          BY <1>3, <1>11, <3>2, <4>2, <5>1, <5>2
             DEF Agreement, RowsFollowTable, Settled, LoadOrg
      <4>3. QED
        BY <3>2, <4>1, <4>2
    <3>3. CASE s \in inflight /\ s.proc # q
      <4>1. Settled(s.proc, v)
        BY <1>1, <2>1, <2>2, <3>3 DEF Settled, Owes
      <4>2. QED
        BY <1>3, <1>11, <3>3, <4>1 DEF Agreement, RowsFollowTable, LoadOrg
    <3>4. QED
      BY <2>1, <3>1, <3>2, <3>3
  <2>6. IndexFollowsTable'
    <3> SUFFICES ASSUME NEW p \in Proc, index[p] # NotLoaded, NEW v \in User, Settled(p, v)'
                 PROVE  index[p][v] = Wanted[v]
      BY <1>3, <1>11 DEF IndexFollowsTable, Settled, Owes, LoadOrg
    <3>1. p # q
      BY <1>11 DEF LoadOrg
    <3>2. Settled(p, v)
      BY <2>1, <2>2, <3>1 DEF Settled, Owes
    <3>3. QED
      BY <3>2 DEF Agreement, IndexFollowsTable, Settled
  <2>7. QED
    BY <2>4, <2>5, <2>6 DEF Agreement
<1>12. CASE OrgLoaded(r)
  <2>1. r \in LoadReq
    BY <1>2, <1>12, RequestShape DEF OrgLoaded
  <2>2. r.rows \in Entries /\ Put(r.rows, r) \in Entries
    BY <2>1, PutTyped DEF LoadReq
  <2>3. \A p \in Proc : index'[p] = IF p = q THEN Put(r.rows, r) ELSE index[p]
    BY <1>2, <1>12 DEF OrgLoaded, TypeOK
  <2>4. index'[q] # NotLoaded
    BY <1>2, <2>2, <2>3, RegistryAssumption
  <2>5. inflight' = inflight \ {r} /\ drifted' = drifted /\ r.step = "load_org"
    BY <1>12 DEF OrgLoaded, Finish
  <2>6. \A p \in Proc, v \in User : Settled(p, v)' => Settled(p, v) \/ (p = q /\ v = r.user)
    BY <2>5 DEF Settled, Owes
  <2>7. UsersKnown'
    BY <1>1, <1>3, <1>4, <1>5, <1>6, <2>5 DEF UsersKnown, KnowsUser
  <2>8. RowsFollowTable'
    BY <1>1, <1>3, <1>8, <1>9, <2>3, <2>4, <2>5, <2>6 DEF RowsFollowTable, Agreement
  <2>9. IndexFollowsTable'
    <3> SUFFICES ASSUME NEW p \in Proc, index'[p] # NotLoaded, NEW v \in User, Settled(p, v)'
                 PROVE  index'[p][v] = Wanted'[v]
      BY DEF IndexFollowsTable, Settled, Owes
    <3>1. CASE p # q
      BY <1>3, <2>3, <2>6, <3>1 DEF Settled, IndexFollowsTable, Agreement
    <3>2. CASE p = q /\ v # r.user
      <4>1. r.rows[v] = Wanted[v]
        BY <2>5, <2>6, <3>2 DEF Agreement, RowsFollowTable
      <4>2. QED
        BY <1>3, <2>2, <2>3, <3>2, <4>1 DEF Put, Entries
    <3>3. CASE p = q /\ v = r.user
      <4>1. r.template = Wanted[v]
        BY <1>5, <2>5, <3>3, RegistryAssumption DEF KnowsUser, Settled
      <4>2. QED
        BY <1>3, <2>2, <2>3, <3>3, <4>1, RegistryAssumption DEF Put, Entries
    <3>4. QED
      BY <3>1, <3>2, <3>3
  <2>10. QED
    BY <2>7, <2>8, <2>9 DEF Agreement
<1>13. CASE OrgEmpty(r)
  <2>1. r.step = "load_org" /\ index' = index /\ drifted' = drifted
    BY <1>13 DEF OrgEmpty
  <2>2. /\ \A s \in inflight : s = r \/ s \in inflight'
        /\ \A t \in inflight' : \/ t \in inflight
                                \/ /\ r.user # None
                                   /\ t.proc = q /\ t.step = "fresh_matcher"
                                   /\ t.user = r.user /\ t.template = r.template
        /\ r.user # None => \E t \in inflight' : /\ t.proc = q /\ t.step = "fresh_matcher"
                                                 /\ t.user = r.user
    <3>1. CASE r.user = None
      BY <1>13, <3>1 DEF OrgEmpty, Finish
    <3>2. CASE r.user # None
      <4>1. PICK t : /\ t.proc = q /\ t.step = "fresh_matcher" /\ t.user = r.user
                     /\ t.template = r.template /\ inflight' = (inflight \ {r}) \cup {t}
        BY <1>13, <3>2 DEF OrgEmpty, Proceed
      <4>2. QED
        BY <3>2, <4>1
    <3>3. QED
      BY <3>1, <3>2
  <2>3. \A p \in Proc, v \in User : Settled(p, v)' => Settled(p, v)
    BY <2>1, <2>2, RegistryAssumption DEF Settled, Owes, IndexSteps
  <2>4. UsersKnown'
    <3> SUFFICES ASSUME NEW s \in inflight' PROVE KnowsUser(s)'
      BY DEF UsersKnown
    <3>1. CASE s \in inflight
      BY <1>1, <1>3, <1>4, <1>5, <1>6, <2>1, <3>1 DEF KnowsUser
    <3>2. CASE s \notin inflight
      <4>1. s.proc = q /\ s.step = "fresh_matcher" /\ s.user = r.user
            /\ s.template = r.template /\ r.user \in User
        BY <1>1, <2>2, <3>2
      <4>2. QED
        BY <1>3, <1>5, <2>1, <4>1 DEF KnowsUser
    <3>3. QED
      BY <3>1, <3>2
  <2>5. RowsFollowTable'
    <3> SUFFICES ASSUME NEW s \in inflight', NEW v \in User, Settled(s.proc, v)'
                 PROVE  /\ s.step \in {"load_org", "refresh_all"} => s.rows[v] = Wanted'[v]
                        /\ s.step = "fresh_matcher" /\ index'[s.proc] = NotLoaded
                             => Wanted'[v] = 0
      BY DEF RowsFollowTable
    <3>1. CASE s \in inflight
      BY <1>1, <1>3, <2>1, <2>3, <3>1 DEF Agreement, RowsFollowTable
    <3>2. CASE s \notin inflight
      <4>1. s.proc = q /\ s.step = "fresh_matcher"
        BY <2>2, <3>2
      <4>2. r.rows[v] = Wanted[v]
        BY <1>2, <2>1, <2>3, <4>1 DEF Agreement, RowsFollowTable
      <4>3. r.rows[v] = 0
        BY <1>13 DEF OrgEmpty, IsEmpty
      <4>4. QED
        BY <1>3, <4>1, <4>2, <4>3
    <3>3. QED
      BY <3>1, <3>2
  <2>6. IndexFollowsTable'
    <3> SUFFICES ASSUME NEW p \in Proc, index[p] # NotLoaded, NEW v \in User, Settled(p, v)'
                 PROVE  index[p][v] = Wanted[v]
      BY <1>3, <2>1 DEF IndexFollowsTable, Settled, Owes
    <3>1. QED
      BY <2>3 DEF Agreement, IndexFollowsTable, Settled
  <2>7. QED
    BY <2>4, <2>5, <2>6 DEF Agreement
<1>14. CASE FreshMatcher(r)
  <2>1. r \in MatcherReq
    BY <1>2, <1>14, RequestShape DEF FreshMatcher
  <2>2. Put([u \in User |-> 0], r) \in Entries
    BY <2>1, PutTyped DEF Entries, Template
  <2>3. \A p \in Proc : index'[p] = IF p = q THEN Put([u \in User |-> 0], r) ELSE index[p]
    BY <1>2, <1>14 DEF FreshMatcher, TypeOK
  <2>4. index'[q] # NotLoaded
    BY <1>2, <2>2, <2>3, RegistryAssumption
  <2>5. inflight' = inflight \ {r} /\ lock[q] = None /\ r.step = "fresh_matcher"
    BY <1>14 DEF FreshMatcher, Finish
  <2>6. \A p \in Proc : drifted'[p] = IF p = q /\ index[p] # NotLoaded THEN User ELSE drifted[p]
    BY <1>2, <1>14 DEF FreshMatcher, TypeOK
  <2>7. \A p \in Proc : drifted[p] \subseteq drifted'[p]
    BY <2>6 DEF TypeOK
  <2>8. \A p \in Proc, v \in User : Settled(p, v)' => Settled(p, v) \/ (p = q /\ v = r.user)
    BY <2>5, <2>7 DEF Settled, Owes
  <2>9. UsersKnown'
    BY <1>1, <1>3, <1>4, <1>5, <1>6, <2>5, <2>7 DEF UsersKnown, KnowsUser
  <2>10. RowsFollowTable'
    BY <1>1, <1>3, <1>7, <1>8, <2>3, <2>4, <2>5, <2>8 DEF RowsFollowTable, Agreement
  <2>11. IndexFollowsTable'
    <3> SUFFICES ASSUME NEW p \in Proc, index'[p] # NotLoaded, NEW v \in User, Settled(p, v)'
                 PROVE  index'[p][v] = Wanted'[v]
      BY DEF IndexFollowsTable, Settled, Owes
    <3>1. CASE p # q
      BY <1>3, <2>3, <2>8, <3>1 DEF Settled, IndexFollowsTable, Agreement
    <3>2. CASE p = q
      <4>1. index[q] = NotLoaded /\ v \notin drifted[q]
        BY <2>6, <3>2 DEF Settled
      <4>2. CASE v # r.user
        <5>1. Wanted[v] = 0
          BY <2>5, <2>8, <3>2, <4>1, <4>2 DEF Agreement, RowsFollowTable
        <5>2. QED
          BY <1>3, <2>3, <3>2, <4>2, <5>1 DEF Put
      <4>3. CASE v = r.user
        <5>1. r.template = Wanted[v]
          BY <1>5, <2>5, <4>1, <4>3, RegistryAssumption DEF KnowsUser
        <5>2. QED
          BY <1>3, <2>3, <3>2, <4>3, <5>1, RegistryAssumption DEF Put
      <4>4. QED
        BY <4>2, <4>3
    <3>3. QED
      BY <3>1, <3>2
  <2>12. QED
    BY <2>9, <2>10, <2>11 DEF Agreement
<1>15. CASE RemoveUser(r)
  <2>1. r.user \in User /\ r.step = "remove_user" /\ inflight' = inflight \ {r}
    BY <1>6, <1>15 DEF RemoveUser, Finish
  <2>2. \A p \in Proc : index'[p] = IF p = q /\ index[p] # NotLoaded
                                      THEN [index[p] EXCEPT ![r.user] = 0] ELSE index[p]
    BY <1>2, <1>15 DEF RemoveUser, TypeOK
  <2>3. \A p \in Proc : drifted'[p] = IF p = q /\ Loads(p, r.user)
                                        THEN drifted[p] \cup {r.user} ELSE drifted[p]
    BY <1>2, <1>15 DEF RemoveUser, TypeOK
  <2>4. \A p \in Proc, v \in User : Settled(p, v)' => Settled(p, v) \/ (p = q /\ v = r.user)
    BY <2>1, <2>3 DEF Settled, Owes
  <2>5. r.user \notin drifted'[q] => Wanted[r.user] = 0 /\ ~ Loads(q, r.user)
    BY <1>2, <1>5, <2>1, <2>3 DEF KnowsUser
  <2>6. \A p \in Proc : drifted[p] \subseteq drifted'[p]
    BY <2>3
  <2>7. UsersKnown'
    BY <1>1, <1>3, <1>4, <1>5, <1>6, <2>1, <2>6 DEF UsersKnown, KnowsUser
  <2>8. \A p \in Proc : p # q => index'[p] = index[p]
    BY <2>2
  <2>9. index[q] \in Entries \/ index[q] = NotLoaded
    BY <1>2 DEF TypeOK
  <2>10. index'[q] = NotLoaded => index[q] = NotLoaded
    <3>1. index[q] \in Entries => [index[q] EXCEPT ![r.user] = 0] \in Entries
      BY DEF Entries, Template
    <3>2. QED
      BY <1>2, <2>2, <2>9, <3>1, RegistryAssumption
  <2>11. RowsFollowTable'
    <3> SUFFICES ASSUME NEW s \in inflight', NEW v \in User, Settled(s.proc, v)'
                 PROVE  /\ s.step \in {"load_org", "refresh_all"} => s.rows[v] = Wanted'[v]
                        /\ s.step = "fresh_matcher" /\ index'[s.proc] = NotLoaded
                             => Wanted'[v] = 0
      BY DEF RowsFollowTable
    <3>1. s \in inflight /\ s.proc \in Proc
      BY <1>1, <2>1
    <3>2. CASE Settled(s.proc, v)
      BY <1>3, <2>8, <2>10, <3>1, <3>2 DEF Agreement, RowsFollowTable
    <3>3. CASE s.proc = q /\ v = r.user
      <4>1. Wanted'[v] = 0 /\ ~ Loads(q, v)
        BY <1>3, <2>5, <3>3 DEF Settled
      <4>2. s.step # "refresh_all"
        BY <1>8, <2>1, <3>1, <3>3
      <4>3. QED
        BY <3>1, <3>3, <4>1, <4>2 DEF Loads
    <3>4. QED
      BY <2>4, <3>1, <3>2, <3>3
  <2>12. IndexFollowsTable'
    <3> SUFFICES ASSUME NEW p \in Proc, index'[p] # NotLoaded, NEW v \in User, Settled(p, v)'
                 PROVE  index'[p][v] = Wanted'[v]
      BY DEF IndexFollowsTable, Settled, Owes
    <3>1. CASE p # q
      BY <1>3, <2>4, <2>8, <3>1 DEF Settled, IndexFollowsTable, Agreement
    <3>2. CASE p = q
      <4>1. index[q] # NotLoaded /\ index[q] \in Entries
        BY <2>2, <2>9, <3>2
      <4>2. index'[q] = [index[q] EXCEPT ![r.user] = 0]
        BY <1>2, <2>2, <4>1
      <4>3. CASE v = r.user
        BY <1>3, <2>1, <2>5, <3>2, <4>1, <4>2, <4>3 DEF Settled, Entries
      <4>4. CASE v # r.user
        <5>1. index[q][v] = Wanted[v]
          BY <2>4, <3>2, <4>1, <4>4 DEF Settled, IndexFollowsTable, Agreement
        <5>2. QED
          BY <1>3, <3>2, <4>1, <4>2, <4>4, <5>1 DEF Entries
      <4>5. QED
        BY <4>3, <4>4
    <3>3. QED
      BY <3>1, <3>2
  <2>13. QED
    BY <2>7, <2>11, <2>12 DEF Agreement
<1>16. CASE RefreshAll(r)
  <2>1. /\ r.step = "refresh_all" /\ r.user = None /\ r.rows \in Entries
        /\ inflight' = inflight \ {r} /\ drifted' = drifted
    BY <1>2, <1>16, RequestShape DEF RefreshAll, Finish, StartReq
  <2>2. \A p \in Proc : index'[p] = IF p = q THEN (IF IsEmpty(r.rows) THEN NotLoaded ELSE r.rows)
                                             ELSE index[p]
    BY <1>2, <1>16 DEF RefreshAll, TypeOK
  <2>3. \A p \in Proc, v \in User : Settled(p, v)' => Settled(p, v)
    BY <2>1, RegistryAssumption DEF Settled, Owes
  <2>4. \A s \in inflight' : s.proc # q
    BY <2>1 DEF Discipline, StartsAlone
  <2>5. UsersKnown'
    BY <1>1, <1>3, <1>4, <1>5, <1>6, <2>1 DEF UsersKnown, KnowsUser
  <2>6. RowsFollowTable'
    BY <1>1, <1>3, <2>1, <2>2, <2>3, <2>4 DEF RowsFollowTable, Agreement
  <2>7. IndexFollowsTable'
    <3> SUFFICES ASSUME NEW p \in Proc, index'[p] # NotLoaded, NEW v \in User, Settled(p, v)'
                 PROVE  index'[p][v] = Wanted'[v]
      BY DEF IndexFollowsTable, Settled, Owes
    <3>1. CASE p # q
      BY <1>3, <2>2, <2>3, <3>1 DEF Settled, IndexFollowsTable, Agreement
    <3>2. CASE p = q
      BY <1>3, <2>1, <2>2, <2>3, <3>2 DEF RowsFollowTable, Agreement
    <3>3. QED
      BY <3>1, <3>2
  <2>8. QED
    BY <2>5, <2>6, <2>7 DEF Agreement
<1>17. QED
  BY <1>10, <1>11, <1>12, <1>13, <1>14, <1>15, <1>16

\* A handler that fails leaves a drift where it still owed an update; a process
\* that restarts has read the tables and knows of no handler.
LEMMA FailureKeepsAgreement ==
    ASSUME TypeOK, Agreement,
           \/ \E r \in inflight : Fail(r)
           \/ \E i \in Req, p \in Proc : Restart(i, p)
    PROVE  Agreement'
<1>1. \A s \in inflight : s.proc \in Proc /\ s.user \in User \cup {None}
  BY RequestShape DEF TypeOK
<1>2. UNCHANGED table
  BY DEF Fail, Restart
<1>3. \A v \in User : Wanted'[v] = Wanted[v]
  BY <1>2, WantedIs DEF table
<1>4. ASSUME NEW s \in inflight
      PROVE  s.step \in {"register_commit", "delete_commit", "remove_user"} => s.user \in User
  BY RequestShape DEF TypeOK, RegisterReq, DeleteReq, RemoveReq
<1>5. ASSUME NEW r \in inflight, Fail(r) PROVE Agreement'
  <2>1. inflight' = inflight \ {r} /\ index' = index
    BY <1>5 DEF Fail, Finish
  <2>2. \A p \in Proc : drifted'[p] = drifted[p] \cup {u \in User : Owes(r, p, u)}
    BY <1>5 DEF Fail
  <2>3. \A p \in Proc, v \in User : Settled(p, v)' => Settled(p, v)
    BY <2>1, <2>2 DEF Settled, Owes
  <2>4. UsersKnown'
    BY <1>1, <1>2, <1>3, <1>4, <2>1, <2>2 DEF UsersKnown, KnowsUser, Agreement, table
  <2>5. RowsFollowTable' /\ IndexFollowsTable'
    BY <1>1, <1>3, <2>1, <2>3
       DEF RowsFollowTable, IndexFollowsTable, Agreement, Settled, Owes
  <2>6. QED
    BY <2>4, <2>5 DEF Agreement
<1>6. ASSUME NEW i \in Req, NEW p \in Proc, Restart(i, p) PROVE Agreement'
  <2>1. PICK t : /\ t.proc = p /\ t.step = "refresh_all" /\ t.user = None /\ t.rows = Wanted
                 /\ inflight' = {s \in inflight : s.proc # p} \cup {t}
    BY <1>6 DEF Restart
  <2>2. \A o \in Proc : o # p => drifted'[o] = drifted[o] /\ index'[o] = index[o]
    BY <1>6 DEF Restart, TypeOK
  <2>3. index'[p] = NotLoaded
    BY <1>6 DEF Restart, TypeOK
  <2>4. \A o \in Proc, v \in User : o # p /\ Settled(o, v)' => Settled(o, v)
    BY <2>1, <2>2 DEF Settled, Owes
  <2>5. UsersKnown'
    <3> SUFFICES ASSUME NEW s \in inflight' PROVE KnowsUser(s)'
      BY DEF UsersKnown
    <3>1. CASE s = t
      BY <2>1, <3>1 DEF KnowsUser
    <3>2. CASE s \in inflight /\ s.proc # p
      BY <1>1, <1>2, <1>3, <1>4, <2>2, <3>2 DEF UsersKnown, KnowsUser, Agreement, table
    <3>3. QED
      BY <2>1, <3>1, <3>2
  <2>6. RowsFollowTable'
    BY <1>1, <1>3, <2>1, <2>2, <2>4 DEF RowsFollowTable, Agreement
  <2>7. IndexFollowsTable'
    <3> SUFFICES ASSUME NEW o \in Proc, index'[o] # NotLoaded, NEW v \in User, Settled(o, v)'
                 PROVE  index'[o][v] = Wanted'[v]
      BY DEF IndexFollowsTable, Settled, Owes
    <3>1. QED
      BY <1>3, <2>2, <2>3, <2>4 DEF Settled, IndexFollowsTable, Agreement
  <2>8. QED
    BY <2>5, <2>6, <2>7 DEF Agreement
<1>7. QED
  BY <1>5, <1>6

LEMMA AgreementStep == TypeOK /\ Discipline /\ Agreement /\ [Next]_vars => Agreement'
<1> SUFFICES ASSUME TypeOK, Discipline, Agreement, [Next]_vars PROVE Agreement'
  OBVIOUS
<1>1. \A r \in inflight : r \in Request
  BY DEF TypeOK
<1>2. ASSUME NEW r \in inflight PROVE KnowsUser(r)
  BY DEF Agreement, UsersKnown
<1>3. None \notin User
  BY RegistryAssumption
<1>4. ASSUME UNCHANGED <<table, index, drifted>>,
             \A s \in inflight : s \in inflight' \/ s.step \notin IndexSteps,
             \A s \in inflight' :
               \/ s \in inflight
               \/ KnowsUser(s)' /\ s.step \notin {"load_org", "refresh_all", "fresh_matcher"}
      PROVE  Agreement'
  <2>1. \A v \in User \ {None} : active'[v] = active[v] /\ template'[v] = template[v]
    BY <1>4 DEF table
  <2>2. QED
    BY <1>3, <1>4, <2>1, TableStepKeepsAgreement
<1>5. ASSUME NEW i \in Req, Arrive(i) PROVE Agreement'
  <2>1. ASSUME NEW p \in Proc, Recognize(i, p) PROVE Agreement'
    BY <1>4, <2>1 DEF Recognize, Begin, KnowsUser
  <2>2. ASSUME NEW p \in Proc, NEW u \in User, RegisterUserFace(i, p, u) PROVE Agreement'
    <3>1. active'[u]
      BY <2>2 DEF RegisterUserFace, table
    <3>2. QED
      BY <1>4, <2>2, <3>1 DEF RegisterUserFace, Begin, KnowsUser
  <2>3. ASSUME NEW p \in Proc, NEW u \in User, DeregisterUserFace(i, p, u) PROVE Agreement'
    <3>1. PICK t : /\ t.user = u /\ t.proc = p /\ t.step = "remove_user"
                   /\ t \notin inflight /\ inflight' = inflight \cup {t}
      BY <2>3 DEF DeregisterUserFace, Begin
    <3>2. /\ active' = active /\ index' = index
          /\ \A v \in User : template'[v] = IF v = u THEN 0 ELSE template[v]
          /\ Drift(u, inflight, Others(p))
      BY <2>3 DEF DeregisterUserFace, TypeOK, Entries
    <3>3. \A o \in Proc : /\ drifted[o] \subseteq drifted'[o]
                          /\ (\E s \in inflight : s.user = u) => u \in drifted'[o]
                          /\ o # p /\ Wanted'[u] # Wanted[u] => u \in drifted'[o]
      BY <3>2, DriftCovers DEF Others
    <3>4. KnowsUser(t)'
      BY <3>1, <3>2, WantedIs DEF KnowsUser
    <3>5. Owes(t, p, u)
      BY <3>1 DEF Owes, IndexSteps
    <3>6. QED
      BY <3>1, <3>2, <3>3, <3>4, <3>5, TableStepKeepsAgreement
  <2>4. ASSUME NEW p \in Proc, NEW u \in User, DeleteUser(i, p, u) PROVE Agreement'
    <3>1. PICK t : t = [id |-> i, proc |-> p, step |-> "delete_commit", user |-> u,
                        wasActive |-> active[u], enrolled |-> template[u] # 0]
      OBVIOUS
    <3>2. inflight' = inflight \cup {t} /\ UNCHANGED <<table, index, drifted>>
      BY <2>4, <3>1 DEF DeleteUser, Begin
    <3>3. t.user = u /\ t.step = "delete_commit" /\ (template[u] = 0 \/ t.enrolled)
      BY <3>1
    <3>4. KnowsUser(t)'
      BY <3>2, <3>3 DEF KnowsUser, table
    <3>5. QED
      BY <1>4, <3>2, <3>3, <3>4
  <2>5. ASSUME NEW p \in Proc, NEW u \in User, NEW b \in BOOLEAN, UpdateUser(i, p, u, b)
        PROVE  Agreement'
    BY <1>4, <2>5 DEF UpdateUser, Begin, KnowsUser
  <2>6. QED
    BY <1>5, <2>1, <2>2, <2>3, <2>4, <2>5 DEF Arrive
<1>6. ASSUME NEW r \in inflight, Run(r) PROVE Agreement'
  <2>1. CASE RegisterCommit(r)
    <3>1. r.user \in User /\ r.proc \in Proc /\ r.step = "register_commit"
      BY <1>1, <2>1, RequestShape DEF RegisterCommit, RegisterReq
    <3>2. PICK t : /\ t.user = r.user /\ t.proc = r.proc /\ t.step = "get_matcher"
                   /\ t.template = written[r.user] + 1
                   /\ inflight' = (inflight \ {r}) \cup {t}
      BY <2>1 DEF RegisterCommit, Proceed
    <3>3. /\ active' = active /\ index' = index
          /\ \A v \in User : template'[v] = IF v = r.user THEN written[r.user] + 1
                                                         ELSE template[v]
          /\ Drift(r.user, inflight \ {r}, Others(r.proc))
      BY <2>1 DEF RegisterCommit, Write, TypeOK, Entries
    <3>4. \A o \in Proc : /\ drifted[o] \subseteq drifted'[o]
                          /\ (\E s \in inflight \ {r} : s.user = r.user) => r.user \in drifted'[o]
                          /\ o # r.proc /\ Wanted'[r.user] # Wanted[r.user] => r.user \in drifted'[o]
      BY <3>1, <3>3, DriftCovers DEF Others
    <3>5. KnowsUser(t)'
      BY <1>2, <3>1, <3>2, <3>3, <3>4, WantedIs DEF KnowsUser
    <3>6. Owes(t, r.proc, r.user) /\ t # r
      BY <3>1, <3>2 DEF Owes, IndexSteps
    <3>7. r.step \notin IndexSteps
      BY <3>1 DEF IndexSteps
    <3>8. t.step \notin {"load_org", "refresh_all", "fresh_matcher"}
      BY <3>2
    <3>9. CASE t \in inflight
      <4>1. \A p \in Proc : r.user \in drifted'[p]
        BY <3>2, <3>4, <3>6, <3>9
      <4>2. QED
        BY <3>1, <3>2, <3>3, <3>4, <3>7, <3>9, <4>1, TableStepKeepsAgreement
    <3>10. CASE t \notin inflight
      BY <3>1, <3>2, <3>3, <3>4, <3>5, <3>6, <3>7, <3>8, <3>10, TableStepKeepsAgreement
    <3>11. QED
      BY <3>9, <3>10
  <2>2. CASE DeleteCommit(r)
    <3>1. r \in DeleteReq /\ r.user \in User /\ r.proc \in Proc /\ r.step = "delete_commit"
      BY <1>1, <2>2, RequestShape DEF DeleteCommit, DeleteReq
    <3>2. /\ template' = template /\ index' = index
          /\ \A v \in User : active'[v] = IF v = r.user THEN active[v] /\ ~ r.wasActive
                                                       ELSE active[v]
          /\ Drift(r.user, inflight \ {r}, Others(r.proc))
      BY <2>2 DEF DeleteCommit, TypeOK
    <3>3. \A o \in Proc : /\ drifted[o] \subseteq drifted'[o]
                          /\ (\E s \in inflight \ {r} : s.user = r.user) => r.user \in drifted'[o]
                          /\ o # r.proc /\ Wanted'[r.user] # Wanted[r.user] => r.user \in drifted'[o]
      BY <3>1, <3>2, DriftCovers DEF Others
    <3>4. r.step \notin IndexSteps
      BY <3>1 DEF IndexSteps
    <3>5. CASE r.wasActive /\ r.enrolled
      <4>1. PICK t : /\ t.user = r.user /\ t.proc = r.proc /\ t.step = "remove_user"
                     /\ inflight' = (inflight \ {r}) \cup {t}
        BY <2>2, <3>5 DEF DeleteCommit, Proceed
      <4>2. KnowsUser(t)'
        BY <3>1, <3>2, <3>5, <4>1, WantedIs DEF KnowsUser
      <4>3. Owes(t, r.proc, r.user) /\ t # r
        BY <3>1, <4>1 DEF Owes, IndexSteps
      <4>4. t.step \notin {"load_org", "refresh_all", "fresh_matcher"}
        BY <4>1
      <4>5. QED
        BY <3>1, <3>2, <3>3, <3>4, <4>1, <4>2, <4>3, <4>4, TableStepKeepsAgreement
    <3>6. CASE ~ (r.wasActive /\ r.enrolled)
      <4>1. inflight' = inflight \ {r}
        BY <2>2, <3>6 DEF DeleteCommit, Finish
      <4>2. r.user \in drifted[r.proc] \/ Wanted'[r.user] = Wanted[r.user]
        <5>1. CASE ~ r.wasActive
          BY <3>1, <3>2, <5>1, WantedIs DEF TypeOK
        <5>2. CASE ~ r.enrolled
          BY <1>2, <3>1, <3>2, <5>2, WantedIs DEF KnowsUser
        <5>3. QED
          BY <3>6, <5>1, <5>2
      <4>3. QED
        BY <3>1, <3>2, <3>3, <3>4, <4>1, <4>2, TableStepKeepsAgreement
    <3>7. QED
      BY <3>5, <3>6
  <2>3. CASE UpdateCommit(r)
    <3>1. r.user \in User /\ r.proc \in Proc /\ r.step = "update_commit"
      BY <1>1, <2>3, RequestShape DEF UpdateCommit, UpdateReq
    <3>2. PICK t : /\ t.user = r.user /\ t.proc = r.proc /\ t.step = "update_index"
                   /\ inflight' = (inflight \ {r}) \cup {t}
      BY <2>3 DEF UpdateCommit, Proceed
    <3>3. /\ template' = template /\ index' = index
          /\ \A v \in User : v # r.user => active'[v] = active[v]
          /\ Drift(r.user, inflight \ {r}, Proc)
      BY <2>3 DEF UpdateCommit, TypeOK
    <3>4. \A o \in Proc : /\ drifted[o] \subseteq drifted'[o]
                          /\ (\E s \in inflight \ {r} : s.user = r.user) => r.user \in drifted'[o]
                          /\ Wanted'[r.user] # Wanted[r.user] => r.user \in drifted'[o]
      BY <3>1, <3>3, DriftCovers
    <3>5. KnowsUser(t)' /\ t.step \notin {"load_org", "refresh_all", "fresh_matcher"}
      BY <3>2 DEF KnowsUser
    <3>6. r.step \notin IndexSteps /\ t # r
      BY <3>1, <3>2 DEF IndexSteps
    <3>7. QED
      BY <3>1, <3>2, <3>3, <3>4, <3>5, <3>6, TableStepKeepsAgreement
  <2>4. CASE UpdateIndex(r)
    BY <1>4, <2>4 DEF UpdateIndex, Finish, IndexSteps
  <2>5. CASE \/ UseMatcher(r) \/ LoadOrg(r) \/ OrgLoaded(r) \/ OrgEmpty(r)
             \/ FreshMatcher(r) \/ RemoveUser(r) \/ RefreshAll(r)
    <3>1. UNCHANGED table
      BY <2>5 DEF UseMatcher, LoadOrg, OrgLoaded, OrgEmpty, FreshMatcher, RemoveUser,
         RefreshAll
    <3>2. QED
      BY <2>5, <3>1, IndexStepKeepsAgreement
  <2>6. QED
    BY <1>6, <2>1, <2>2, <2>3, <2>4, <2>5 DEF Run
<1>7. ASSUME NEW u \in User, ComputeEmbeddingTask(u) PROVE Agreement'
  <2>1. /\ active' = active /\ index' = index /\ inflight' = inflight
        /\ \A v \in User : v # u => template'[v] = template[v]
        /\ Drift(u, inflight, Proc)
    BY <1>7 DEF ComputeEmbeddingTask, Write, TypeOK, Entries
  <2>2. \A o \in Proc : /\ drifted[o] \subseteq drifted'[o]
                        /\ (\E s \in inflight : s.user = u) => u \in drifted'[o]
                        /\ Wanted'[u] # Wanted[u] => u \in drifted'[o]
    BY <2>1, DriftCovers
  <2>3. QED
    BY <2>1, <2>2, TableStepKeepsAgreement
<1>8. CASE UNCHANGED vars
  BY <1>4, <1>8 DEF vars
<1>9. QED
  BY <1>5, <1>6, <1>7, <1>8, FailureKeepsAgreement DEF Next, Step

-----------------------------------------------------------------------------
LEMMA InitHolds == Init => IInv
<1> SUFFICES ASSUME Init PROVE IInv
  OBVIOUS
<1>1. TypeOK
  BY DEF Init, TypeOK, Entries, Template
<1>2. IdsDiffer /\ LoaderHoldsLock /\ LockHeldByLoader /\ StartsAlone
  BY DEF Init, IdsDiffer, LoaderHoldsLock, LockHeldByLoader, StartsAlone
<1>3. UsersKnown /\ RowsFollowTable /\ IndexFollowsTable
  BY DEF Init, UsersKnown, RowsFollowTable, IndexFollowsTable
<1>4. QED
  BY <1>1, <1>2, <1>3 DEF IInv

\* The inductive invariant of the registry: who holds the lock of an index, what
\* each handler still knows of its user, and on which users a load, an index and
\* the tables agree (inference/index_manager.py:128-187, routes/recognition.py,
\* routes/users.py).
THEOREM InvariantHolds == Spec => []IInv
<1>1. IInv /\ [Next]_vars => IInv'
  BY TypeStep, DisciplineStep, AgreementStep DEF IInv, Discipline, Agreement
<1>2. QED
  BY InitHolds, <1>1, PTL DEF Spec

\* However many processes, handlers and users there are: an index that is loaded
\* holds exactly the templates of the active users, but for the entries that the
\* code leaves behind on the paths recorded in drifted.
THEOREM IndexIsRight == Spec => []IndexFollowsTable
<1>1. IInv => IndexFollowsTable
  BY DEF IInv
<1>2. QED
  BY InvariantHolds, <1>1, PTL

\* No path of get_matcher, no failure and no restart leaves an index locked
\* without the coroutine that will release it (index_manager.py:128-137).
THEOREM LockIsReleased == Spec => []LockHeldByLoader
<1>1. IInv => LockHeldByLoader
  BY DEF IInv
<1>2. QED
  BY InvariantHolds, <1>1, PTL
=============================================================================

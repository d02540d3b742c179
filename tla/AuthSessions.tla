---------------------------- MODULE AuthSessions ----------------------------
(***************************************************************************)
(* Login sessions of the API: access and refresh tokens, the refresh_tokens *)
(* ledger, users.token_version, and the handlers that mint, rotate and      *)
(* revoke tokens (services/auth_service.py, api/routes/auth.py,             *)
(* api/dependencies.py).                                                    *)
(*                                                                         *)
(* Every handler runs on its own database session and gives up control at  *)
(* each database statement.  One action below is one statement or one      *)
(* commit, so the handlers of several uvicorn workers interleave exactly   *)
(* there; PostgreSQL runs them READ COMMITTED.  A handler keeps the row it *)
(* read (the session is opened with expire_on_commit=False), so what it    *)
(* read may be stale when it writes.                                       *)
(*                                                                         *)
(* A session of the login form is a `family': the tokens minted by one     *)
(* login and by the rotations that descend from it, named after the jti of *)
(* the login's refresh token.  family, pw (which password opened the       *)
(* session), ended, settled and raced are history: no guard reads them.    *)
(***************************************************************************)
EXTENDS Naturals, FiniteSets

CONSTANTS
    User,   \* the users of one organization
    Proc,   \* request handlers that may be in flight at once
    Jti,    \* token identifiers; running out of them bounds the sessions
    MaxPw,  \* bound: password changes per user
    MaxTv,  \* bound: revocations per user
    MaxExp  \* bound: refresh tokens whose lifetime passes

ASSUME BoundsAssumption == MaxPw \in Nat /\ MaxTv \in Nat /\ MaxExp \in Nat

VARIABLES
    active,     \* users.is_active
    tv,         \* users.token_version
    pw,         \* users.password_hash, as a count of the hashes committed so far
    row,        \* refresh_tokens: what the ledger says of each jti
    expired,    \* the jtis whose expires_at, hence whose JWT, has passed
    refresh,    \* refresh JWTs handed out
    access,     \* access JWTs handed out
    inflight,   \* handlers between two statements, with what each has read
    ended,      \* history: families that a completed revocation found
    settled,    \* history: newest password whose change has run to completion
    raced       \* history: families in which two rotations of one token overlapped

db      == <<active, tv, pw, row, expired>>
history == <<ended, settled, raced>>
vars    == <<db, refresh, access, inflight, history>>

(***************************************************************************)
(* Tokens carry sub and tv; a refresh token also carries its jti.  The     *)
(* ledger row of a jti is absent, live (revoked_at IS NULL), revoked, or   *)
(* deleted by the retention task.                                          *)
(***************************************************************************)
AccessToken  == [user : User, tv : Nat, pw : Nat, family : Jti]
RefreshToken == [jti : Jti, user : User, tv : Nat, pw : Nat, family : Jti]
RowState     == {"absent", "live", "revoked", "deleted"}

(***************************************************************************)
(* A handler in flight: the next thing it will do, and the values it read. *)
(***************************************************************************)
LoginReq  == [proc : Proc, step : {"login_mint"}, user : User, tv : Nat, pw : Nat]
RotateReq == [proc : Proc, step : {"rotate_user"}, token : RefreshToken]
RotateCommitReq ==
    [proc : Proc, step : {"rotate_commit"}, token : RefreshToken, tv : Nat]
LogoutReq == [proc : Proc, step : {"logout_row"}, user : User, jti : Jti]
PasswordReq == [proc : Proc, step : {"password_commit"}, user : User]
RevokeReq == [proc : Proc, step : {"revoke_all"}, user : User, pw : Nat]
Request   ==
    LoginReq \cup RotateReq \cup RotateCommitReq \cup LogoutReq
      \cup PasswordReq \cup RevokeReq

TypeOK ==
    /\ active \in [User -> BOOLEAN]
    /\ tv \in [User -> Nat]
    /\ pw \in [User -> Nat]
    /\ row \in [Jti -> RowState]
    /\ expired \in SUBSET Jti
    /\ refresh \in SUBSET RefreshToken
    /\ access \in SUBSET AccessToken
    /\ inflight \in SUBSET Request
    /\ ended \in SUBSET Jti
    /\ settled \in [User -> Nat]
    /\ raced \in SUBSET Jti

Init ==
    /\ active = [u \in User |-> TRUE]
    /\ tv = [u \in User |-> 0]
    /\ pw = [u \in User |-> 0]
    /\ row = [j \in Jti |-> "absent"]
    /\ expired = {}
    /\ refresh = {}
    /\ access = {}
    /\ inflight = {}
    /\ ended = {}
    /\ settled = [u \in User |-> 0]
    /\ raced = {}

-----------------------------------------------------------------------------
(* The checks the dependencies make of a token.                            *)

\* _resolve_active_user: the user exists, is active, and the token carries
\* the token_version of the user's row.
Accepted(a) == active[a.user] /\ a.tv = tv[a.user]

\* bearer_or_none, the check of the recognition endpoints: the version is not
\* compared.
AcceptedForRecognition(a) == active[a.user]

Free(p)       == \A r \in inflight : r.proc # p
Begin(r)      == Free(r.proc) /\ inflight' = inflight \cup {r}
Proceed(r, s) == inflight' = (inflight \ {r}) \cup {s}
Finish(r)     == inflight' = inflight \ {r}

\* issue_token_pair and the end of rotate_refresh_token: a ledger row for a
\* fresh jti, and the two tokens, stamped with what the handler read earlier.
NewAccess(u, v, g, f) == [user |-> u, tv |-> v, pw |-> g, family |-> f]
Mint(j, u, v, g, f) ==
    /\ refresh' = refresh \cup
         {[jti |-> j, user |-> u, tv |-> v, pw |-> g, family |-> f]}
    /\ access' = access \cup {NewAccess(u, v, g, f)}

-----------------------------------------------------------------------------
(* POST /auth/login: the user's row, then the token pair.                    *)

\* The password matches the hash in the row just read and the user is active.
\* A refused login only writes the audit log: a wrong password, and an unknown
\* or inactive organization (which refuses logins and nothing else), are logins
\* that this action does not take.
LoginUser(p, u) ==
    /\ active[u]
    /\ Begin([proc |-> p, step |-> "login_mint", user |-> u, tv |-> tv[u], pw |-> pw[u]])
    /\ UNCHANGED <<db, refresh, access, history>>

\* Mutant: the version is read again when the tokens are minted, the password that
\* was verified is not.
LoginMintReread(r, j) ==
    /\ r.step = "login_mint"
    /\ row[j] = "absent"
    /\ row' = [row EXCEPT ![j] = "live"]
    /\ Mint(j, r.user, tv[r.user], r.pw, j)
    /\ Finish(r)
    /\ UNCHANGED <<active, tv, pw, expired, history>>

LoginMint(r, j) ==
    /\ r.step = "login_mint"
    /\ row[j] = "absent"
    /\ row' = [row EXCEPT ![j] = "live"]
    /\ Mint(j, r.user, r.tv, r.pw, j)
    /\ Finish(r)
    /\ UNCHANGED <<active, tv, pw, expired, history>>

-----------------------------------------------------------------------------
(* POST /auth/refresh: the ledger row, then the user, then the rotation.    *)

Rotating(r) == r.step \in {"rotate_user", "rotate_commit"}

\* Mutant: the presented row is looked up but its revocation is not looked at.
RotateRecordUnchecked(p, t) ==
    /\ t.jti \notin expired
    /\ row[t.jti] \in {"live", "revoked"}
    /\ Begin([proc |-> p, step |-> "rotate_user", token |-> t])
    /\ UNCHANGED <<db, refresh, access, history>>

\* The row is live: go on.
RotateRecord(p, t) ==
    /\ t.jti \notin expired
    /\ row[t.jti] = "live"
    /\ Begin([proc |-> p, step |-> "rotate_user", token |-> t])
    /\ raced' = IF \E r \in inflight : Rotating(r) /\ r.token = t
                  THEN raced \cup {t.family} ELSE raced
    /\ UNCHANGED <<db, refresh, access, ended, settled>>

\* The row is revoked: the token is being replayed, revoke everything.
ReuseDetected(p, t) ==
    /\ t.jti \notin expired
    /\ row[t.jti] = "revoked"
    /\ Begin([proc |-> p, step |-> "revoke_all", user |-> t.user, pw |-> 0])
    /\ UNCHANGED <<db, refresh, access, history>>

\* Mutant: the token_version of the presented token is not compared.
RotateUserUnchecked(r) ==
    /\ r.step = "rotate_user"
    /\ active[r.token.user]
    /\ Proceed(r, [proc |-> r.proc, step |-> "rotate_commit", token |-> r.token,
                   tv |-> tv[r.token.user]])
    /\ UNCHANGED <<db, refresh, access, history>>

RotateUser(r) ==
    /\ r.step = "rotate_user"
    /\ active[r.token.user]
    /\ r.token.tv = tv[r.token.user]
    /\ Proceed(r, [proc |-> r.proc, step |-> "rotate_commit", token |-> r.token,
                   tv |-> tv[r.token.user]])
    /\ UNCHANGED <<db, refresh, access, history>>

RotateRefused(r) ==
    /\ r.step = "rotate_user"
    /\ ~ (active[r.token.user] /\ r.token.tv = tv[r.token.user])
    /\ Finish(r)
    /\ UNCHANGED <<db, refresh, access, history>>

\* Mutant: the objects expire on commit, so the tokens are stamped with the
\* version that a concurrent revocation has just written.
RotateCommitReread(r, j) ==
    /\ r.step = "rotate_commit"
    /\ row[r.token.jti] # "deleted"
    /\ row[j] = "absent"
    /\ row' = [row EXCEPT ![r.token.jti] = "revoked", ![j] = "live"]
    /\ Mint(j, r.token.user, tv[r.token.user], r.token.pw, r.token.family)
    /\ Finish(r)
    /\ UNCHANGED <<active, tv, pw, expired, history>>

\* One commit revokes the presented row and inserts its successor.  The UPDATE
\* is by primary key: it does not ask whether the row is still live, and only
\* a row deleted meanwhile makes the flush fail.
RotateCommit(r, j) ==
    /\ r.step = "rotate_commit"
    /\ row[r.token.jti] # "deleted"
    /\ row[j] = "absent"
    /\ row' = [row EXCEPT ![r.token.jti] = "revoked", ![j] = "live"]
    /\ Mint(j, r.token.user, r.tv, r.token.pw, r.token.family)
    /\ Finish(r)
    /\ UNCHANGED <<active, tv, pw, expired, history>>

-----------------------------------------------------------------------------
(* POST /auth/logout: the access token, then the presented refresh token    *)
(* (anyone's: the row is looked up by jti alone), then everything.          *)

LogoutAuth(p, a, t) ==
    /\ Accepted(a)
    /\ Begin([proc |-> p, step |-> "logout_row", user |-> a.user, jti |-> t.jti])
    /\ UNCHANGED <<db, refresh, access, history>>

LogoutRow(r) ==
    /\ r.step = "logout_row"
    /\ row' = IF r.jti \notin expired /\ row[r.jti] = "live"
                THEN [row EXCEPT ![r.jti] = "revoked"] ELSE row
    /\ Proceed(r, [proc |-> r.proc, step |-> "revoke_all", user |-> r.user, pw |-> 0])
    /\ UNCHANGED <<active, tv, pw, expired, refresh, access, history>>

-----------------------------------------------------------------------------
(* POST /auth/change-password and POST /users/{id}/password: the new hash   *)
(* is committed first, the sessions are revoked in a second transaction.    *)

ChangePasswordAuth(p, a) ==
    /\ Accepted(a)
    /\ Begin([proc |-> p, step |-> "password_commit", user |-> a.user])
    /\ UNCHANGED <<db, refresh, access, history>>

\* An administrator, whose own session is not modelled, sets u's password.
SetUserPassword(p, u) ==
    /\ Begin([proc |-> p, step |-> "password_commit", user |-> u])
    /\ UNCHANGED <<db, refresh, access, history>>

PasswordCommit(r) ==
    /\ r.step = "password_commit"
    /\ pw[r.user] < MaxPw
    /\ pw' = [pw EXCEPT ![r.user] = @ + 1]
    /\ Proceed(r, [proc |-> r.proc, step |-> "revoke_all", user |-> r.user,
                   pw |-> pw[r.user] + 1])
    /\ UNCHANGED <<active, tv, row, expired, refresh, access, history>>

-----------------------------------------------------------------------------
(* revoke_all_user_tokens: the user's live rows and token_version, in one   *)
(* commit; the second half of logout, reuse detection and password changes. *)

RowsOf(u)     == {t.jti : t \in {x \in refresh : x.user = u}}
FamiliesOf(u) == {t.family : t \in {x \in refresh : x.user = u}}

\* Mutant: only the ledger is revoked, token_version is not bumped.
RevokeRefreshTokensOnly(r) ==
    /\ r.step = "revoke_all"
    /\ row' = [j \in Jti |->
                 IF j \in RowsOf(r.user) /\ row[j] = "live" THEN "revoked" ELSE row[j]]
    /\ ended' = ended \cup FamiliesOf(r.user)
    /\ settled' = [settled EXCEPT ![r.user] = IF r.pw > @ THEN r.pw ELSE @]
    /\ Finish(r)
    /\ UNCHANGED <<active, tv, pw, expired, refresh, access, raced>>

RevokeAll(r) ==
    /\ r.step = "revoke_all"
    /\ tv[r.user] < MaxTv
    /\ row' = [j \in Jti |->
                 IF j \in RowsOf(r.user) /\ row[j] = "live" THEN "revoked" ELSE row[j]]
    /\ tv' = [tv EXCEPT ![r.user] = @ + 1]
    /\ ended' = ended \cup FamiliesOf(r.user)
    /\ settled' = [settled EXCEPT ![r.user] = IF r.pw > @ THEN r.pw ELSE @]
    /\ Finish(r)
    /\ UNCHANGED <<active, pw, expired, refresh, access, raced>>

-----------------------------------------------------------------------------
(* Everything else that touches these tables.                               *)

\* An exception, a lost database connection or a killed worker: the open
\* transaction rolls back, what was committed stays.
Crash(r) ==
    /\ Finish(r)
    /\ UNCHANGED <<db, refresh, access, history>>

\* DELETE /users/{id} and PATCH is_active: one commit, no token is touched.
SetUserActive(u, b) ==
    /\ active[u] # b
    /\ active' = [active EXCEPT ![u] = b]
    /\ UNCHANGED <<tv, pw, row, expired, refresh, access, inflight, history>>

\* The refresh token's lifetime passes.
Expire(j) ==
    /\ row[j] \in {"live", "revoked"}
    /\ j \notin expired
    /\ Cardinality(expired) < MaxExp
    /\ expired' = expired \cup {j}
    /\ UNCHANGED <<active, tv, pw, row, refresh, access, inflight, history>>

\* cleanup_expired_tokens_task.  Retention (30 days) exceeds the lifetime of a
\* refresh token (7 days), so a row it deletes belongs to an expired token.
CleanupExpiredTokens(js) ==
    /\ js # {}
    /\ \A j \in js : row[j] \in {"live", "revoked"}
    /\ row' = [j \in Jti |-> IF j \in js THEN "deleted" ELSE row[j]]
    /\ UNCHANGED <<active, tv, pw, expired, refresh, access, inflight, history>>

-----------------------------------------------------------------------------
Login ==
    \/ \E p \in Proc, u \in User : LoginUser(p, u)
    \/ \E r \in inflight, j \in Jti : LoginMint(r, j)

Refresh ==
    \/ \E p \in Proc, t \in refresh : RotateRecord(p, t) \/ ReuseDetected(p, t)
    \/ \E r \in inflight : RotateUser(r) \/ RotateRefused(r)
    \/ \E r \in inflight, j \in Jti : RotateCommit(r, j)

Logout ==
    \/ \E p \in Proc, a \in access, t \in refresh : LogoutAuth(p, a, t)
    \/ \E r \in inflight : LogoutRow(r)

ChangePassword ==
    \/ \E p \in Proc, a \in access : ChangePasswordAuth(p, a)
    \/ \E p \in Proc, u \in User : SetUserPassword(p, u)
    \/ \E r \in inflight : PasswordCommit(r)

Environment ==
    \/ \E r \in inflight : Crash(r)
    \/ \E u \in User, b \in BOOLEAN : SetUserActive(u, b)
    \/ \E j \in Jti : Expire(j)
    \/ \E js \in SUBSET expired : CleanupExpiredTokens(js)

Next ==
    \/ Login
    \/ Refresh
    \/ Logout
    \/ ChangePassword
    \/ \E r \in inflight : RevokeAll(r)
    \/ Environment

Spec == Init /\ [][Next]_vars

-----------------------------------------------------------------------------
(* Properties.                                                             *)

\* When a password change has run to completion, no access token of a session
\* opened with an older password is accepted, whatever logins, rotations and
\* other revocations were in flight while it ran (routes/auth.py:308-315,
\* routes/users.py:609-617).
PasswordChangeEndsSessions ==
    \A a \in access : Accepted(a) => a.pw >= settled[a.user]

\* A session that a completed revocation found open never comes back: none of
\* its tokens, not even one minted later by a rotation that was in flight,
\* carries the current version (services/auth_service.py:106-108, 166-186).
EndedSessionsStayEnded ==
    \A t \in access \cup refresh : t.family \in ended => t.tv # tv[t.user]

\* Unless two rotations of one token overlapped, a session has at most one
\* refresh token the ledger still honours (services/auth_service.py:83-129).
UsableRefreshTokens(f) == {t \in refresh : t.family = f /\ row[t.jti] = "live"}
OneUsableRefreshToken ==
    \A f \in Jti \ raced : Cardinality(UsableRefreshTokens(f)) <= 1

\* The tokens implement SessionLifecycle: a session is open while its tokens
\* carry the version of their user's row.
Current(t)   == t.tv = tv[t.user]
OpenSessions == {<<t.family, t.user>> : t \in {x \in refresh : Current(x)}}
OverSessions == {<<t.family, t.user>> : t \in {x \in refresh : ~ Current(x)}}
Lifecycle ==
    INSTANCE SessionLifecycle
        WITH Session <- Jti, open <- OpenSessions, over <- OverSessions
ImplementsSessionLifecycle == Lifecycle!Spec

-----------------------------------------------------------------------------
(* The inductive invariant behind the safety properties.                   *)

\* Every access token was minted together with a refresh token.
AccessHasTwin ==
    \A a \in access : \E t \in refresh :
        a = NewAccess(t.user, t.tv, t.pw, t.family)

\* All tokens of a family carry one user and one version, and the family is
\* named after a jti that has been used.
FamiliesAgree ==
    /\ \A t \in refresh : row[t.jti] # "absent" /\ row[t.family] # "absent"
    /\ \A f \in ended : row[f] # "absent"
    /\ \A s, t \in refresh : s.family = t.family => s.user = t.user /\ s.tv = t.tv

\* No stamp runs ahead of the row it was read from, and a current stamp was
\* read after every completed password change and revocation.
StampsSettled ==
    /\ \A u \in User : settled[u] <= pw[u]
    /\ \A t \in refresh :
         /\ t.tv <= tv[t.user]
         /\ t.tv = tv[t.user] => t.pw >= settled[t.user] /\ t.family \notin ended

\* What a handler holds was read from the tables: it may be stale, never wrong.
HasRead(r) ==
    /\ r.step = "login_mint" =>
         /\ r.tv <= tv[r.user]
         /\ r.tv = tv[r.user] => r.pw >= settled[r.user]
    /\ r.step \in {"rotate_user", "rotate_commit"} => r.token \in refresh
    /\ r.step = "rotate_commit" => r.tv = r.token.tv
    /\ r.step = "revoke_all" => r.pw <= pw[r.user]
RequestsRead == \A r \in inflight : HasRead(r)

Stamped == TypeOK /\ AccessHasTwin /\ FamiliesAgree /\ StampsSettled /\ RequestsRead

\* Unless its rotations raced, one token of a family works, and a rotation in
\* flight is the family's only one and holds that token.
JtisDiffer == \A s, t \in refresh : s.jti = t.jti => s = t
Usable(t)  == t \in refresh /\ row[t.jti] = "live"
OneWorks   ==
    \A s, t \in refresh :
      Usable(s) /\ Usable(t) /\ s.family = t.family /\ s.family \notin raced => s = t
OneRotates ==
    \A r \in inflight : Rotating(r) /\ r.token.family \notin raced =>
      /\ \A t \in refresh : Usable(t) /\ t.family = r.token.family => t = r.token
      /\ \A s \in inflight : Rotating(s) /\ s.token.family = r.token.family => s = r
Unforked == JtisDiffer /\ OneWorks /\ OneRotates

IInv == Stamped /\ Unforked

-----------------------------------------------------------------------------
(* What the documentation says and the code does not do.                   *)

\* README.md:134-136, docs/database-schema.md:97-98: every refresh invalidates
\* the presented token, and replaying it revokes all sessions; so a session
\* never has two refresh tokens that both work.  The row is read in one
\* statement and written in another, so two refreshes of one token both pass.
RotationLeavesOneRefreshToken ==
    \A f \in Jti : Cardinality(UsableRefreshTokens(f)) <= 1

\* README.md:136-138, docs/api-overview.md:15-17: logout, a password change and
\* an admin reset invalidate every outstanding access token immediately.  The
\* recognition endpoints do not compare the version.
RevokedTokensAreRejectedEverywhere ==
    \A a \in access : AcceptedForRecognition(a) => a.family \notin ended
=============================================================================

------------------------- MODULE AuthSessionsProofs -------------------------
(***************************************************************************)
(* Proofs about AuthSessions for any number of users, handlers and tokens. *)
(***************************************************************************)
EXTENDS AuthSessions, FiniteSetTheorems, TLAPS

(***************************************************************************)
(* A handler in flight at a given step is a record of that step's shape.   *)
(***************************************************************************)
LEMMA RequestShape ==
    ASSUME NEW r \in Request
    PROVE  /\ r.step = "login_mint"      => r \in LoginReq
           /\ r.step = "rotate_user"     => r \in RotateReq
           /\ r.step = "rotate_commit"   => r \in RotateCommitReq
           /\ r.step = "logout_row"      => r \in LogoutReq
           /\ r.step = "password_commit" => r \in PasswordReq
           /\ r.step = "revoke_all"      => r \in RevokeReq
BY DEF Request, LoginReq, RotateReq, RotateCommitReq, LogoutReq, PasswordReq, RevokeReq

\* The bodies of the three ways a handler's record changes.
LEMMA InflightTyped ==
    ASSUME inflight \in SUBSET Request, NEW r \in Request, NEW s \in Request
    PROVE  /\ Begin(r) => inflight' \in SUBSET Request
           /\ Proceed(r, s) => inflight' \in SUBSET Request
           /\ Finish(r) => inflight' \in SUBSET Request
BY DEF Begin, Proceed, Finish

\* Every step of every handler writes values of the declared kinds.
LEMMA TypeStep == TypeOK /\ [Next]_vars => TypeOK'
<1> SUFFICES ASSUME TypeOK, [Next]_vars PROVE TypeOK'
  OBVIOUS
<1> USE DEF TypeOK
<1>1. ASSUME NEW p \in Proc, NEW u \in User, LoginUser(p, u) PROVE TypeOK'
  <2>1. [proc |-> p, step |-> "login_mint", user |-> u, tv |-> tv[u], pw |-> pw[u]]
          \in Request
    BY DEF Request, LoginReq
  <2>2. QED
    BY <1>1, <2>1, InflightTyped DEF LoginUser, db, history
<1>2. ASSUME NEW r \in inflight, NEW j \in Jti, LoginMint(r, j) PROVE TypeOK'
  <2>1. r \in LoginReq
    BY <1>2, RequestShape DEF LoginMint
  <2>2. QED
    BY <1>2, <2>1 DEF LoginMint, history, Mint, NewAccess, Finish, LoginReq,
       RowState, AccessToken, RefreshToken
<1>3. ASSUME NEW p \in Proc, NEW t \in refresh, RotateRecord(p, t) PROVE TypeOK'
  <2>1. [proc |-> p, step |-> "rotate_user", token |-> t] \in Request
    BY DEF Request, RotateReq
  <2>2. raced' \in SUBSET Jti
    BY <1>3 DEF RotateRecord, RefreshToken
  <2>3. QED
    BY <1>3, <2>1, <2>2, InflightTyped DEF RotateRecord, db
<1>4. ASSUME NEW p \in Proc, NEW t \in refresh, ReuseDetected(p, t) PROVE TypeOK'
  <2>1. [proc |-> p, step |-> "revoke_all", user |-> t.user, pw |-> 0] \in Request
    BY DEF Request, RevokeReq, RefreshToken
  <2>2. QED
    BY <1>4, <2>1, InflightTyped DEF ReuseDetected, db, history
<1>5. ASSUME NEW r \in inflight, RotateUser(r) PROVE TypeOK'
  <2>1. r \in RotateReq
    BY <1>5, RequestShape DEF RotateUser
  <2>2. [proc |-> r.proc, step |-> "rotate_commit", token |-> r.token,
         tv |-> tv[r.token.user]] \in Request
    BY <2>1 DEF Request, RotateReq, RotateCommitReq, RefreshToken
  <2>3. QED
    BY <1>5, <2>2, InflightTyped DEF RotateUser, db, history
<1>6. ASSUME NEW r \in inflight, RotateRefused(r) PROVE TypeOK'
  BY <1>6 DEF RotateRefused, Finish, db, history
<1>7. ASSUME NEW r \in inflight, NEW j \in Jti, RotateCommit(r, j) PROVE TypeOK'
  <2>1. r \in RotateCommitReq
    BY <1>7, RequestShape DEF RotateCommit
  <2>2. QED
    BY <1>7, <2>1 DEF RotateCommit, history, Mint, NewAccess, Finish,
       RotateCommitReq, RowState, AccessToken, RefreshToken
<1>8. ASSUME NEW p \in Proc, NEW a \in access, NEW t \in refresh, LogoutAuth(p, a, t)
      PROVE TypeOK'
  <2>1. [proc |-> p, step |-> "logout_row", user |-> a.user, jti |-> t.jti] \in Request
    BY DEF Request, LogoutReq, RefreshToken, AccessToken
  <2>2. QED
    BY <1>8, <2>1, InflightTyped DEF LogoutAuth, db, history
<1>9. ASSUME NEW r \in inflight, LogoutRow(r) PROVE TypeOK'
  <2>1. r \in LogoutReq
    BY <1>9, RequestShape DEF LogoutRow
  <2>2. [proc |-> r.proc, step |-> "revoke_all", user |-> r.user, pw |-> 0] \in Request
    BY <2>1 DEF Request, LogoutReq, RevokeReq
  <2>3. row' \in [Jti -> RowState]
    BY <1>9 DEF LogoutRow, RowState
  <2>4. QED
    BY <1>9, <2>2, <2>3, InflightTyped DEF LogoutRow, history
<1>10. ASSUME NEW p \in Proc, NEW a \in access, ChangePasswordAuth(p, a) PROVE TypeOK'
  <2>1. [proc |-> p, step |-> "password_commit", user |-> a.user] \in Request
    BY DEF Request, PasswordReq, AccessToken
  <2>2. QED
    BY <1>10, <2>1, InflightTyped DEF ChangePasswordAuth, db, history
<1>11. ASSUME NEW p \in Proc, NEW u \in User, SetUserPassword(p, u) PROVE TypeOK'
  <2>1. [proc |-> p, step |-> "password_commit", user |-> u] \in Request
    BY DEF Request, PasswordReq
  <2>2. QED
    BY <1>11, <2>1, InflightTyped DEF SetUserPassword, db, history
<1>12. ASSUME NEW r \in inflight, PasswordCommit(r) PROVE TypeOK'
  <2>1. r \in PasswordReq
    BY <1>12, RequestShape DEF PasswordCommit
  <2>2. [proc |-> r.proc, step |-> "revoke_all", user |-> r.user,
         pw |-> pw[r.user] + 1] \in Request
    BY <2>1 DEF Request, PasswordReq, RevokeReq
  <2>3. pw' \in [User -> Nat]
    BY <1>12, <2>1 DEF PasswordCommit, PasswordReq
  <2>4. QED
    BY <1>12, <2>2, <2>3, InflightTyped DEF PasswordCommit, history
<1>13. ASSUME NEW r \in inflight, RevokeAll(r) PROVE TypeOK'
  <2>1. r \in RevokeReq
    BY <1>13, RequestShape DEF RevokeAll
  <2>2. ended' \in SUBSET Jti
    BY <1>13 DEF RevokeAll, FamiliesOf, RefreshToken
  <2>3. row' \in [Jti -> RowState]
    BY <1>13 DEF RevokeAll, RowState
  <2>4. tv' \in [User -> Nat] /\ settled' \in [User -> Nat]
    BY <1>13, <2>1 DEF RevokeAll, RevokeReq
  <2>5. QED
    BY <1>13, <2>2, <2>3, <2>4 DEF RevokeAll, Finish
<1>14. ASSUME Environment PROVE TypeOK'
  <2>1. ASSUME NEW r \in inflight, Crash(r) PROVE TypeOK'
    BY <2>1 DEF Crash, Finish, db, history
  <2>2. ASSUME NEW u \in User, NEW b \in BOOLEAN, SetUserActive(u, b) PROVE TypeOK'
    BY <2>2 DEF SetUserActive, history
  <2>3. ASSUME NEW j \in Jti, Expire(j) PROVE TypeOK'
    BY <2>3 DEF Expire, history
  <2>4. ASSUME NEW js \in SUBSET expired, CleanupExpiredTokens(js) PROVE TypeOK'
    BY <2>4 DEF CleanupExpiredTokens, RowState, history
  <2>5. QED
    BY <1>14, <2>1, <2>2, <2>3, <2>4 DEF Environment
<1>15. CASE UNCHANGED vars
  BY <1>15 DEF vars, db, history
<1>16. QED
  BY <1>1, <1>2, <1>3, <1>4, <1>5, <1>6, <1>7, <1>8, <1>9, <1>10, <1>11, <1>12,
     <1>13, <1>14, <1>15
     DEF Next, Login, Refresh, Logout, ChangePassword

\* The state is typed: every step of every handler (services/auth_service.py,
\* routes/auth.py) writes values of the declared kinds.
THEOREM TypeCorrect == Spec => []TypeOK
<1>1. Init => TypeOK
  BY DEF Init, TypeOK, RowState
<1>2. QED
  BY <1>1, TypeStep, PTL DEF Spec

-----------------------------------------------------------------------------
(* The inductive invariant.                                                *)

\* Steps that mint no token, bump no version and commit no password: the ledger
\* forgets no jti, and a handler that is new or has moved on has read its record.
LEMMA NothingMinted ==
    ASSUME Stamped, TypeOK',
           UNCHANGED <<refresh, access, tv, pw, ended, settled>>,
           \A j \in Jti : row[j] # "absent" => row'[j] # "absent",
           \A r \in inflight' : r \in inflight \/ HasRead(r)'
    PROVE  Stamped'
<1>1. AccessHasTwin'
  BY DEF Stamped, AccessHasTwin, NewAccess
<1>2. FamiliesAgree'
  BY DEF Stamped, FamiliesAgree, TypeOK, RefreshToken
<1>3. StampsSettled'
  BY DEF Stamped, StampsSettled
<1>4. RequestsRead'
  BY DEF Stamped, RequestsRead, HasRead
<1>5. QED
  BY <1>1, <1>2, <1>3, <1>4 DEF Stamped

\* A handler's record after Begin, Proceed and Finish.
LEMMA InflightSteps ==
    ASSUME NEW r, NEW s
    PROVE  /\ Begin(s) => \A x \in inflight' : x \in inflight \/ x = s
           /\ Proceed(r, s) => \A x \in inflight' : x \in inflight \/ x = s
           /\ Finish(r) => \A x \in inflight' : x \in inflight
BY DEF Begin, Proceed, Finish

\* A login mints under a jti no token or ended family has used, with a stamp
\* that was current when it was read.
LEMMA LoginMintKeepsStamps ==
    ASSUME Stamped, TypeOK', NEW r \in inflight, NEW j \in Jti, LoginMint(r, j)
    PROVE  Stamped'
<1> DEFINE new == [jti |-> j, user |-> r.user, tv |-> r.tv, pw |-> r.pw, family |-> j]
<1>1. r \in LoginReq /\ new \in RefreshToken
  BY RequestShape DEF Stamped, TypeOK, LoginMint, LoginReq, RefreshToken
<1>2. /\ refresh' = refresh \cup {new}
      /\ access' = access \cup {NewAccess(r.user, r.tv, r.pw, j)}
      /\ row' = [row EXCEPT ![j] = "live"] /\ row[j] = "absent"
      /\ UNCHANGED <<tv, pw, ended, settled>>
      /\ inflight' \subseteq inflight
  BY DEF LoginMint, Mint, Finish, history
<1>3. HasRead(r)
  BY DEF Stamped, RequestsRead
<1>4. AccessHasTwin'
  <2>1. ASSUME NEW a \in access
        PROVE  \E t \in refresh' : a = NewAccess(t.user, t.tv, t.pw, t.family)
    BY <1>2 DEF Stamped, AccessHasTwin
  <2>2. new \in refresh'
        /\ NewAccess(r.user, r.tv, r.pw, j)
             = NewAccess(new.user, new.tv, new.pw, new.family)
    BY <1>2
  <2>3. QED
    BY <1>2, <2>1, <2>2 DEF AccessHasTwin, NewAccess
<1>5. FamiliesAgree'
  <2>1. \A k \in Jti : row[k] # "absent" => k # j /\ row'[k] # "absent"
    BY <1>2 DEF Stamped, TypeOK
  <2>2. row'[j] # "absent"
    BY <1>2 DEF Stamped, TypeOK
  <2>3. \A t \in refresh : t.jti \in Jti /\ t.family \in Jti
    BY DEF Stamped, TypeOK, RefreshToken
  <2>4. \A t \in refresh : t.family # j
    BY <2>1, <2>3 DEF Stamped, FamiliesAgree
  <2>5. \A f \in ended' : row'[f] # "absent"
    BY <1>2, <2>1 DEF Stamped, FamiliesAgree, TypeOK
  <2>6. \A t \in refresh' : row'[t.jti] # "absent" /\ row'[t.family] # "absent"
    BY <1>2, <2>1, <2>2, <2>3 DEF Stamped, FamiliesAgree
  <2>7. \A s, t \in refresh' : s.family = t.family => s.user = t.user /\ s.tv = t.tv
    BY <1>2, <2>4 DEF Stamped, FamiliesAgree
  <2>8. QED
    BY <2>5, <2>6, <2>7 DEF FamiliesAgree
<1>6. StampsSettled'
  <2>1. j \notin ended
    BY <1>2 DEF Stamped, FamiliesAgree
  <2>2. /\ new.tv <= tv[new.user]
        /\ new.tv = tv[new.user] => new.pw >= settled[new.user]
    BY <1>3 DEF HasRead, LoginMint
  <2>3. QED
    BY <1>2, <2>1, <2>2 DEF Stamped, StampsSettled
<1>7. RequestsRead'
  BY <1>2 DEF Stamped, RequestsRead, HasRead
<1>8. QED
  BY <1>4, <1>5, <1>6, <1>7 DEF Stamped

\* A rotation hands on the user, version, password and family of the token it
\* was given, which is one the system minted.
LEMMA RotateCommitKeepsStamps ==
    ASSUME Stamped, TypeOK', NEW r \in inflight, NEW j \in Jti, RotateCommit(r, j)
    PROVE  Stamped'
<1> DEFINE old == r.token
           new == [jti |-> j, user |-> old.user, tv |-> r.tv, pw |-> old.pw,
                   family |-> old.family]
<1>1. r.tv = old.tv /\ old \in refresh /\ old \in RefreshToken
  BY DEF Stamped, TypeOK, RequestsRead, HasRead, RotateCommit
<1>2. /\ refresh' = refresh \cup {new}
      /\ access' = access \cup {NewAccess(old.user, r.tv, old.pw, old.family)}
      /\ row' = [row EXCEPT ![old.jti] = "revoked", ![j] = "live"]
      /\ UNCHANGED <<tv, pw, ended, settled>>
      /\ inflight' \subseteq inflight
  BY DEF RotateCommit, Mint, Finish, history
<1>3. \A k \in Jti : row[k] # "absent" => row'[k] # "absent"
  BY <1>2 DEF Stamped, TypeOK
<1>4. AccessHasTwin'
  <2>1. ASSUME NEW a \in access
        PROVE  \E t \in refresh' : a = NewAccess(t.user, t.tv, t.pw, t.family)
    BY <1>2 DEF Stamped, AccessHasTwin
  <2>2. new \in refresh'
        /\ NewAccess(old.user, r.tv, old.pw, old.family)
             = NewAccess(new.user, new.tv, new.pw, new.family)
    BY <1>2
  <2>3. QED
    BY <1>2, <2>1, <2>2 DEF AccessHasTwin, NewAccess
<1>5. FamiliesAgree'
  <2>1. row'[j] # "absent"
    BY <1>1, <1>2 DEF Stamped, TypeOK, RefreshToken
  <2>2. \A t \in refresh : t.jti \in Jti /\ t.family \in Jti
    BY DEF Stamped, TypeOK, RefreshToken
  <2>3. \A t \in refresh : row'[t.jti] # "absent" /\ row'[t.family] # "absent"
    BY <1>3, <2>2 DEF Stamped, FamiliesAgree
  <2>4. row'[new.jti] # "absent" /\ row'[new.family] # "absent"
    BY <1>1, <2>1, <2>3
  <2>5. \A f \in ended' : row'[f] # "absent"
    BY <1>2, <1>3 DEF Stamped, FamiliesAgree, TypeOK
  <2>6. \A s, t \in refresh' : s.family = t.family => s.user = t.user /\ s.tv = t.tv
    BY <1>1, <1>2 DEF Stamped, FamiliesAgree
  <2>7. QED
    BY <1>2, <2>3, <2>4, <2>5, <2>6 DEF FamiliesAgree
<1>6. StampsSettled'
  BY <1>1, <1>2 DEF Stamped, StampsSettled
<1>7. RequestsRead'
  BY <1>2 DEF Stamped, RequestsRead, HasRead
<1>8. QED
  BY <1>4, <1>5, <1>6, <1>7 DEF Stamped

\* The new password only makes the bound on settled looser, and the revocation
\* that follows is stamped with it.
LEMMA PasswordCommitKeepsStamps ==
    ASSUME Stamped, TypeOK', NEW r \in inflight, PasswordCommit(r)
    PROVE  Stamped'
<1>1. r \in PasswordReq
  BY RequestShape DEF Stamped, TypeOK, PasswordCommit
<1>0. PICK s : s = [proc |-> r.proc, step |-> "revoke_all", user |-> r.user,
                    pw |-> pw[r.user] + 1]
  OBVIOUS
<1>2. /\ UNCHANGED <<refresh, access, tv, ended, settled, row>>
      /\ pw' = [pw EXCEPT ![r.user] = @ + 1]
      /\ inflight' = (inflight \ {r}) \cup {s}
  BY <1>0 DEF PasswordCommit, Proceed, history
<1>3. \A u \in User : pw[u] \in Nat /\ pw'[u] \in Nat /\ pw[u] <= pw'[u]
                      /\ settled[u] \in Nat
  BY <1>1, <1>2 DEF Stamped, TypeOK, PasswordReq
<1>4. AccessHasTwin' /\ FamiliesAgree'
  BY <1>2 DEF Stamped, AccessHasTwin, FamiliesAgree, NewAccess
<1>5. StampsSettled'
  <2>1. \A u \in User : settled'[u] <= pw'[u]
    BY <1>2, <1>3 DEF Stamped, StampsSettled
  <2>2. QED
    BY <1>2, <2>1 DEF Stamped, StampsSettled
<1>6. RequestsRead'
  <2>1. HasRead(s)'
    <3>1. s.step = "revoke_all" /\ s.pw = pw'[s.user]
      BY <1>0, <1>1, <1>2 DEF Stamped, TypeOK, PasswordReq
    <3>2. pw'[s.user] \in Nat
      BY <1>0, <1>1, <1>3 DEF PasswordReq
    <3>3. QED
      BY <3>1, <3>2 DEF HasRead
  <2>2. ASSUME NEW x \in inflight PROVE HasRead(x)'
    <3>1. HasRead(x) /\ x \in Request
      BY DEF Stamped, RequestsRead, TypeOK
    <3>2. CASE x.step = "revoke_all"
      <4>1. x \in RevokeReq
        BY <3>1, <3>2, RequestShape
      <4>2. x.pw <= pw'[x.user]
        BY <1>3, <3>1, <3>2, <4>1 DEF HasRead, RevokeReq
      <4>3. QED
        BY <3>2, <4>2 DEF HasRead
    <3>3. CASE x.step # "revoke_all"
      BY <1>2, <3>1, <3>3 DEF HasRead
    <3>4. QED
      BY <3>2, <3>3
  <2>3. QED
    BY <1>2, <2>1, <2>2 DEF RequestsRead
<1>7. QED
  BY <1>4, <1>5, <1>6 DEF Stamped

\* After the bump no stamp of this user is current, minted or in flight; the
\* families it ends are all this user's.
LEMMA RevokeAllKeepsStamps ==
    ASSUME Stamped, TypeOK', NEW r \in inflight, RevokeAll(r)
    PROVE  Stamped'
<1>1. r \in RevokeReq /\ HasRead(r)
  BY RequestShape DEF Stamped, TypeOK, RevokeAll, RequestsRead
<1>2. /\ UNCHANGED <<refresh, access, pw>>
      /\ tv' = [tv EXCEPT ![r.user] = @ + 1]
      /\ settled' = [settled EXCEPT ![r.user] = IF r.pw > @ THEN r.pw ELSE @]
      /\ ended' = ended \cup FamiliesOf(r.user)
      /\ inflight' \subseteq inflight
  BY DEF RevokeAll, Finish
<1>3. \A k \in Jti : row[k] # "absent" => row'[k] # "absent"
  BY DEF RevokeAll
<1>4. tv'[r.user] = tv[r.user] + 1 /\ tv[r.user] \in Nat
  BY <1>1, <1>2 DEF Stamped, TypeOK, RevokeReq
<1>5. \A u \in User : u # r.user => tv'[u] = tv[u] /\ settled'[u] = settled[u]
  BY <1>2 DEF Stamped, TypeOK
<1>6. AccessHasTwin'
  BY <1>2 DEF Stamped, AccessHasTwin, NewAccess
<1>7. FamiliesAgree'
  <2>1. \A t \in refresh : t.jti \in Jti /\ t.family \in Jti
    BY DEF Stamped, TypeOK, RefreshToken
  <2>2. \A f \in FamiliesOf(r.user) : f \in Jti /\ row[f] # "absent"
    BY <2>1 DEF Stamped, FamiliesAgree, FamiliesOf
  <2>3. \A f \in ended' : row'[f] # "absent"
    BY <1>2, <1>3, <2>2 DEF Stamped, FamiliesAgree, TypeOK
  <2>4. QED
    BY <1>2, <1>3, <2>1, <2>3 DEF Stamped, FamiliesAgree
<1>8. StampsSettled'
  <2>1. \A u \in User : settled'[u] <= pw'[u]
    BY <1>1, <1>2 DEF Stamped, StampsSettled, HasRead, TypeOK, RevokeReq
  <2>2. ASSUME NEW t \in refresh
        PROVE  /\ t.tv <= tv'[t.user]
               /\ t.tv = tv'[t.user] => t.pw >= settled'[t.user] /\ t.family \notin ended'
    <3>1. t \in RefreshToken /\ t.tv <= tv[t.user]
      BY DEF Stamped, TypeOK, StampsSettled
    <3>2. CASE t.user = r.user
      BY <1>4, <3>1, <3>2 DEF RefreshToken
    <3>3. CASE t.user # r.user
      <4>1. t.family \notin FamiliesOf(r.user)
        BY <3>3 DEF Stamped, FamiliesAgree, FamiliesOf
      <4>2. QED
        BY <1>2, <1>5, <3>1, <3>3, <4>1 DEF Stamped, StampsSettled, RefreshToken
    <3>4. QED
      BY <3>2, <3>3
  <2>3. QED
    BY <1>2, <2>1, <2>2 DEF StampsSettled
<1>9. RequestsRead'
  <2>1. ASSUME NEW x \in inflight PROVE HasRead(x)'
    <3>1. HasRead(x) /\ x \in Request
      BY DEF Stamped, RequestsRead, TypeOK
    <3>2. CASE x.step = "login_mint"
      <4>1. x \in LoginReq
        BY <3>1, <3>2, RequestShape
      <4>2. CASE x.user = r.user
        BY <1>4, <3>1, <3>2, <4>1, <4>2 DEF HasRead, LoginReq
      <4>3. CASE x.user # r.user
        BY <1>5, <3>1, <3>2, <4>1, <4>3 DEF HasRead, LoginReq
      <4>4. QED
        BY <4>2, <4>3
    <3>3. CASE x.step # "login_mint"
      BY <1>2, <3>1, <3>3 DEF HasRead
    <3>4. QED
      BY <3>2, <3>3
  <2>2. QED
    BY <1>2, <2>1 DEF RequestsRead
<1>10. QED
  BY <1>6, <1>7, <1>8, <1>9 DEF Stamped

\* Every step keeps the inductive invariant.
LEMMA StampsInductive == Stamped /\ [Next]_vars => Stamped'
<1> SUFFICES ASSUME Stamped, [Next]_vars PROVE Stamped'
  OBVIOUS
<1>0. TypeOK /\ TypeOK'
  BY TypeStep DEF Stamped
<1>1. ASSUME NEW p \in Proc, NEW u \in User, LoginUser(p, u) PROVE Stamped'
  <2>1. PICK s : s = [proc |-> p, step |-> "login_mint", user |-> u,
                      tv |-> tv[u], pw |-> pw[u]]
    OBVIOUS
  <2>2. UNCHANGED <<row, refresh, access, tv, pw, ended, settled>>
        /\ \A x \in inflight' : x \in inflight \/ x = s
    BY <1>1, <2>1, InflightSteps DEF LoginUser, db, history
  <2>3. HasRead(s)'
    BY <1>0, <2>1, <2>2 DEF HasRead, Stamped, TypeOK, StampsSettled
  <2>4. QED
    BY <1>0, <2>2, <2>3, NothingMinted
<1>2. ASSUME NEW r \in inflight, NEW j \in Jti, LoginMint(r, j) PROVE Stamped'
  BY <1>0, <1>2, LoginMintKeepsStamps
<1>3. ASSUME NEW p \in Proc, NEW t \in refresh, RotateRecord(p, t) PROVE Stamped'
  <2>1. PICK s : s = [proc |-> p, step |-> "rotate_user", token |-> t]
    OBVIOUS
  <2>2. UNCHANGED <<row, refresh, access, tv, pw, ended, settled>>
        /\ \A x \in inflight' : x \in inflight \/ x = s
    BY <1>3, <2>1, InflightSteps DEF RotateRecord, db
  <2>3. HasRead(s)'
    BY <2>1, <2>2 DEF HasRead
  <2>4. QED
    BY <1>0, <2>2, <2>3, NothingMinted
<1>4. ASSUME NEW p \in Proc, NEW t \in refresh, ReuseDetected(p, t) PROVE Stamped'
  <2>1. PICK s : s = [proc |-> p, step |-> "revoke_all", user |-> t.user, pw |-> 0]
    OBVIOUS
  <2>2. UNCHANGED <<row, refresh, access, tv, pw, ended, settled>>
        /\ \A x \in inflight' : x \in inflight \/ x = s
    BY <1>4, <2>1, InflightSteps DEF ReuseDetected, db, history
  <2>3. HasRead(s)'
    BY <1>0, <2>1, <2>2 DEF HasRead, TypeOK, RefreshToken
  <2>4. QED
    BY <1>0, <2>2, <2>3, NothingMinted
<1>5. ASSUME NEW r \in inflight, RotateUser(r) PROVE Stamped'
  <2>1. PICK s : s = [proc |-> r.proc, step |-> "rotate_commit", token |-> r.token,
                      tv |-> tv[r.token.user]]
    OBVIOUS
  <2>2. UNCHANGED <<row, refresh, access, tv, pw, ended, settled>>
        /\ \A x \in inflight' : x \in inflight \/ x = s
    BY <1>5, <2>1, InflightSteps DEF RotateUser, db, history
  <2>3. HasRead(r) /\ r.step = "rotate_user" /\ r.token.tv = tv[r.token.user]
    BY <1>5 DEF Stamped, RequestsRead, RotateUser
  <2>4. HasRead(s)'
    BY <2>1, <2>2, <2>3 DEF HasRead
  <2>5. QED
    BY <1>0, <2>2, <2>4, NothingMinted
<1>6. ASSUME NEW r \in inflight, RotateRefused(r) PROVE Stamped'
  <2>1. UNCHANGED <<row, refresh, access, tv, pw, ended, settled>>
        /\ \A x \in inflight' : x \in inflight
    BY <1>6 DEF RotateRefused, Finish, db, history
  <2>2. QED
    BY <1>0, <2>1, NothingMinted
<1>7. ASSUME NEW r \in inflight, NEW j \in Jti, RotateCommit(r, j) PROVE Stamped'
  BY <1>0, <1>7, RotateCommitKeepsStamps
<1>8. ASSUME NEW p \in Proc, NEW a \in access, NEW t \in refresh, LogoutAuth(p, a, t)
      PROVE Stamped'
  <2>1. PICK s : s = [proc |-> p, step |-> "logout_row", user |-> a.user, jti |-> t.jti]
    OBVIOUS
  <2>2. UNCHANGED <<row, refresh, access, tv, pw, ended, settled>>
        /\ \A x \in inflight' : x \in inflight \/ x = s
    BY <1>8, <2>1, InflightSteps DEF LogoutAuth, db, history
  <2>3. HasRead(s)'
    BY <2>1 DEF HasRead
  <2>4. QED
    BY <1>0, <2>2, <2>3, NothingMinted
<1>9. ASSUME NEW r \in inflight, LogoutRow(r) PROVE Stamped'
  <2>1. PICK s : s = [proc |-> r.proc, step |-> "revoke_all", user |-> r.user, pw |-> 0]
    OBVIOUS
  <2>2. UNCHANGED <<refresh, access, tv, pw, ended, settled>>
        /\ \A x \in inflight' : x \in inflight \/ x = s
    BY <1>9, <2>1, InflightSteps DEF LogoutRow, history
  <2>3. \A j \in Jti : row[j] # "absent" => row'[j] # "absent"
    BY <1>0, <1>9 DEF LogoutRow, TypeOK
  <2>4. r \in LogoutReq
    BY <1>0, <1>9, RequestShape DEF LogoutRow, TypeOK
  <2>5. HasRead(s)'
    BY <1>0, <2>1, <2>2, <2>4 DEF HasRead, TypeOK, LogoutReq
  <2>6. QED
    BY <1>0, <2>2, <2>3, <2>5, NothingMinted
<1>10. ASSUME NEW p \in Proc, NEW u \in User,
              Begin([proc |-> p, step |-> "password_commit", user |-> u]),
              UNCHANGED <<db, refresh, access, history>>
       PROVE Stamped'
  <2>1. PICK s : s = [proc |-> p, step |-> "password_commit", user |-> u]
    OBVIOUS
  <2>2. UNCHANGED <<row, refresh, access, tv, pw, ended, settled>>
        /\ \A x \in inflight' : x \in inflight \/ x = s
    BY <1>10, <2>1, InflightSteps DEF db, history
  <2>3. HasRead(s)'
    BY <2>1 DEF HasRead
  <2>4. QED
    BY <1>0, <2>2, <2>3, NothingMinted
<1>11. ASSUME NEW p \in Proc, NEW a \in access, ChangePasswordAuth(p, a) PROVE Stamped'
  BY <1>0, <1>10, <1>11 DEF ChangePasswordAuth, TypeOK, AccessToken
<1>12. ASSUME NEW p \in Proc, NEW u \in User, SetUserPassword(p, u) PROVE Stamped'
  BY <1>10, <1>12 DEF SetUserPassword
<1>13. ASSUME NEW r \in inflight, PasswordCommit(r) PROVE Stamped'
  BY <1>0, <1>13, PasswordCommitKeepsStamps
<1>14. ASSUME NEW r \in inflight, RevokeAll(r) PROVE Stamped'
  BY <1>0, <1>14, RevokeAllKeepsStamps
<1>15. ASSUME Environment PROVE Stamped'
  <2>1. UNCHANGED <<refresh, access, tv, pw, ended, settled>>
        /\ \A x \in inflight' : x \in inflight
    BY <1>15 DEF Environment, Crash, SetUserActive, Expire, CleanupExpiredTokens,
       Finish, db, history
  <2>2. \A j \in Jti : row[j] # "absent" => row'[j] # "absent"
    BY <1>15 DEF Environment, Crash, SetUserActive, Expire, CleanupExpiredTokens, db
  <2>3. QED
    BY <1>0, <2>1, <2>2, NothingMinted
<1>16. CASE UNCHANGED vars
  BY <1>0, <1>16, NothingMinted DEF vars, db, history
<1>17. QED
  BY <1>1, <1>2, <1>3, <1>4, <1>5, <1>6, <1>7, <1>8, <1>9, <1>11, <1>12, <1>13,
     <1>14, <1>15, <1>16
     DEF Next, Login, Refresh, Logout, ChangePassword

-----------------------------------------------------------------------------
(* One refresh token of a session works.                                   *)

\* A step that mints nothing, starts no rotation and revives no row.
LEMMA NothingForks ==
    ASSUME Unforked, refresh' = refresh, raced' = raced,
           \A j \in Jti : row'[j] = "live" => row[j] = "live",
           TypeOK, \A x \in inflight' : Rotating(x) => x \in inflight
    PROVE  Unforked'
<1>1. \A t \in refresh : Usable(t)' => Usable(t)
  BY DEF Usable, TypeOK, RefreshToken
<1>2. JtisDiffer'
  BY DEF Unforked, JtisDiffer
<1>3. OneWorks'
  BY <1>1 DEF Unforked, OneWorks
<1>4. OneRotates'
  BY <1>1 DEF Unforked, OneRotates, Rotating
<1>5. QED
  BY <1>2, <1>3, <1>4 DEF Unforked

\* A login opens a family no token has.
LEMMA LoginMintForksNothing ==
    ASSUME Stamped, Unforked, NEW r \in inflight, NEW j \in Jti, LoginMint(r, j)
    PROVE  Unforked'
<1> DEFINE new == [jti |-> j, user |-> r.user, tv |-> r.tv, pw |-> r.pw, family |-> j]
<1>1. /\ refresh' = refresh \cup {new}
      /\ row' = [row EXCEPT ![j] = "live"] /\ row[j] = "absent"
      /\ raced' = raced /\ inflight' \subseteq inflight
  BY DEF LoginMint, Mint, Finish, history
<1>2. \A t \in refresh : t.jti \in Jti /\ t.jti # j /\ t.family # j
  BY <1>1 DEF Stamped, TypeOK, FamiliesAgree, RefreshToken
<1>3. \A t \in refresh : Usable(t)' = Usable(t)
  BY <1>1, <1>2 DEF Usable, Stamped, TypeOK
<1>4. \A s \in inflight : Rotating(s) => s.token \in refresh /\ s.token.family # j
  BY <1>2 DEF Stamped, RequestsRead, HasRead, Rotating
<1>5. new.jti = j /\ new.family = j
  OBVIOUS
<1>6. JtisDiffer'
  BY <1>1, <1>2, <1>5 DEF Unforked, JtisDiffer
<1>7. OneWorks'
  BY <1>1, <1>2, <1>3, <1>5 DEF Unforked, OneWorks
<1>8. OneRotates'
  BY <1>1, <1>3, <1>4, <1>5 DEF Unforked, OneRotates, Rotating
<1>9. QED
  BY <1>6, <1>7, <1>8 DEF Unforked

\* A rotation begins with a token that works: if another rotation of its family
\* is in flight, it holds the same token, and the family has raced.
LEMMA RotateRecordForksNothing ==
    ASSUME Stamped, Unforked, NEW p \in Proc, NEW t \in refresh, RotateRecord(p, t)
    PROVE  Unforked'
<1>0. PICK s : s = [proc |-> p, step |-> "rotate_user", token |-> t]
  OBVIOUS
<1>1. /\ UNCHANGED <<refresh, row>> /\ row[t.jti] = "live"
      /\ inflight' = inflight \cup {s}
      /\ raced \subseteq raced'
      /\ t.family \notin raced' => \A x \in inflight : Rotating(x) => x.token # t
  BY <1>0 DEF RotateRecord, Begin, db
<1>2. s.token = t /\ Usable(t)
  BY <1>0, <1>1 DEF Usable
<1>3. \A x \in refresh : Usable(x)' = Usable(x)
  BY <1>1 DEF Usable
<1>4. t.family \notin raced' => \A x \in inflight : Rotating(x) => x.token.family # t.family
  BY <1>1, <1>2 DEF Unforked, OneRotates
<1>5. JtisDiffer'
  BY <1>1 DEF Unforked, JtisDiffer
<1>6. OneWorks'
  BY <1>1, <1>3 DEF Unforked, OneWorks
<1>7. OneRotates'
  <2> SUFFICES ASSUME NEW r \in inflight', Rotating(r), r.token.family \notin raced'
               PROVE  /\ \A x \in refresh : Usable(x) /\ x.family = r.token.family
                                              => x = r.token
                      /\ \A x \in inflight' : Rotating(x) /\ x.token.family = r.token.family
                                              => x = r
    BY <1>1, <1>3 DEF OneRotates, Rotating
  <2>1. CASE r = s
    BY <1>1, <1>2, <1>4, <2>1 DEF Unforked, OneWorks
  <2>2. CASE r \in inflight
    BY <1>1, <1>2, <1>4, <2>2 DEF Unforked, OneRotates
  <2>3. QED
    BY <1>1, <2>1, <2>2
<1>8. QED
  BY <1>5, <1>6, <1>7 DEF Unforked

\* A rotation that goes on keeps its token.
LEMMA RotateUserForksNothing ==
    ASSUME Unforked, NEW r \in inflight, RotateUser(r)
    PROVE  Unforked'
<1>0. PICK s : s = [proc |-> r.proc, step |-> "rotate_commit", token |-> r.token,
                    tv |-> tv[r.token.user]]
  OBVIOUS
<1>1. /\ UNCHANGED <<refresh, row, raced>> /\ Rotating(r)
      /\ inflight' = (inflight \ {r}) \cup {s}
  BY <1>0 DEF RotateUser, Proceed, Rotating, db, history
<1>2. s.token = r.token
  BY <1>0
<1>3. \A x \in refresh : Usable(x)' = Usable(x)
  BY <1>1 DEF Usable
<1>4. JtisDiffer' /\ OneWorks'
  BY <1>1, <1>3 DEF Unforked, JtisDiffer, OneWorks
<1>5. OneRotates'
  BY <1>1, <1>2, <1>3 DEF Unforked, OneRotates, Rotating
<1>6. QED
  BY <1>4, <1>5 DEF Unforked

\* What worked in the family is the presented token; it is revoked as its
\* successor is written, and nothing else of the family is in flight.
LEMMA RotateCommitForksNothing ==
    ASSUME Stamped, Unforked, NEW r \in inflight, NEW j \in Jti, RotateCommit(r, j)
    PROVE  Unforked'
<1> DEFINE old == r.token
           new == [jti |-> j, user |-> old.user, tv |-> r.tv, pw |-> old.pw,
                   family |-> old.family]
<1>1. old \in refresh /\ old.jti \in Jti /\ Rotating(r)
  BY DEF Stamped, TypeOK, RequestsRead, HasRead, RotateCommit, Rotating, RefreshToken
<1>2. /\ refresh' = refresh \cup {new}
      /\ row' = [row EXCEPT ![old.jti] = "revoked", ![j] = "live"] /\ row[j] = "absent"
      /\ raced' = raced /\ inflight' = inflight \ {r}
  BY DEF RotateCommit, Mint, Finish, history
<1>3. \A t \in refresh : t.jti \in Jti /\ t.jti # j
  BY <1>2 DEF Stamped, TypeOK, FamiliesAgree, RefreshToken
<1>4. \A t \in refresh : Usable(t)' => Usable(t) /\ t # old
  BY <1>1, <1>2, <1>3 DEF Usable, Stamped, TypeOK
<1>5. old.family \notin raced => \A t \in refresh : t.family = old.family => ~ Usable(t)'
  BY <1>1, <1>4 DEF Unforked, OneRotates
<1>6. new.jti = j /\ new.family = old.family
  OBVIOUS
<1>7. JtisDiffer'
  BY <1>2, <1>3, <1>6 DEF Unforked, JtisDiffer
<1>8. OneWorks'
  BY <1>2, <1>4, <1>5, <1>6 DEF Unforked, OneWorks
<1>9. OneRotates'
  <2> SUFFICES ASSUME NEW s \in inflight', Rotating(s), s.token.family \notin raced
               PROVE  /\ \A t \in refresh' : Usable(t)' /\ t.family = s.token.family
                                              => t = s.token
                      /\ \A x \in inflight' : Rotating(x) /\ x.token.family = s.token.family
                                              => x = s
    BY <1>2 DEF OneRotates, Rotating
  <2>1. s \in inflight /\ s # r
    BY <1>2
  <2>2. s.token.family # old.family
    BY <1>1, <2>1 DEF Unforked, OneRotates
  <2>3. QED
    BY <1>2, <1>4, <1>6, <2>1, <2>2 DEF Unforked, OneRotates
<1>10. QED
  BY <1>7, <1>8, <1>9 DEF Unforked

\* No step forks a session whose rotations do not overlap.
LEMMA UnforkedStep == Stamped /\ Unforked /\ [Next]_vars => Unforked'
<1> SUFFICES ASSUME Stamped, Unforked, [Next]_vars PROVE Unforked'
  OBVIOUS
<1>0. TypeOK
  BY DEF Stamped
<1>1. ASSUME NEW r \in inflight, NEW j \in Jti, LoginMint(r, j) PROVE Unforked'
  BY <1>1, LoginMintForksNothing
<1>2. ASSUME NEW p \in Proc, NEW t \in refresh, RotateRecord(p, t) PROVE Unforked'
  BY <1>2, RotateRecordForksNothing
<1>3. ASSUME NEW r \in inflight, RotateUser(r) PROVE Unforked'
  BY <1>3, RotateUserForksNothing
<1>4. ASSUME NEW r \in inflight, NEW j \in Jti, RotateCommit(r, j) PROVE Unforked'
  BY <1>4, RotateCommitForksNothing
<1>5. ASSUME NEW p \in Proc, NEW u \in User, LoginUser(p, u) PROVE Unforked'
  BY <1>0, <1>5, NothingForks DEF LoginUser, Begin, Rotating, db, history
<1>6. ASSUME NEW p \in Proc, NEW t \in refresh, ReuseDetected(p, t) PROVE Unforked'
  BY <1>0, <1>6, NothingForks DEF ReuseDetected, Begin, Rotating, db, history
<1>7. ASSUME NEW r \in inflight, RotateRefused(r) \/ Crash(r) PROVE Unforked'
  BY <1>0, <1>7, NothingForks DEF RotateRefused, Crash, Finish, db, history
<1>8. ASSUME NEW p \in Proc, NEW a \in access, NEW t \in refresh, LogoutAuth(p, a, t)
      PROVE Unforked'
  BY <1>0, <1>8, NothingForks DEF LogoutAuth, Begin, Rotating, db, history
<1>9. ASSUME NEW r \in inflight, LogoutRow(r) PROVE Unforked'
  <2>1. \A j \in Jti : row'[j] = "live" => row[j] = "live"
    BY <1>0, <1>9 DEF LogoutRow, TypeOK
  <2>2. QED
    BY <1>0, <1>9, <2>1, NothingForks DEF LogoutRow, Proceed, Rotating, history
<1>10. ASSUME NEW p \in Proc, NEW a \in access, ChangePasswordAuth(p, a) PROVE Unforked'
  BY <1>0, <1>10, NothingForks DEF ChangePasswordAuth, Begin, Rotating, db, history
<1>11. ASSUME NEW p \in Proc, NEW u \in User, SetUserPassword(p, u) PROVE Unforked'
  BY <1>0, <1>11, NothingForks DEF SetUserPassword, Begin, Rotating, db, history
<1>12. ASSUME NEW r \in inflight, PasswordCommit(r) PROVE Unforked'
  BY <1>0, <1>12, NothingForks DEF PasswordCommit, Proceed, Rotating, history
<1>13. ASSUME NEW r \in inflight, RevokeAll(r) PROVE Unforked'
  <2>1. \A j \in Jti : row'[j] = "live" => row[j] = "live"
    BY <1>13 DEF RevokeAll
  <2>2. QED
    BY <1>0, <1>13, <2>1, NothingForks DEF RevokeAll, Finish
<1>14. ASSUME NEW u \in User, NEW b \in BOOLEAN, SetUserActive(u, b) PROVE Unforked'
  BY <1>0, <1>14, NothingForks DEF SetUserActive, history
<1>15. ASSUME NEW j \in Jti, Expire(j) PROVE Unforked'
  BY <1>0, <1>15, NothingForks DEF Expire, history
<1>16. ASSUME NEW js \in SUBSET expired, CleanupExpiredTokens(js) PROVE Unforked'
  BY <1>0, <1>16, NothingForks DEF CleanupExpiredTokens, history
<1>17. CASE UNCHANGED vars
  BY <1>0, <1>17, NothingForks DEF vars, db, history
<1>18. QED
  BY <1>1, <1>2, <1>3, <1>4, <1>5, <1>6, <1>7, <1>8, <1>9, <1>10, <1>11, <1>12,
     <1>13, <1>14, <1>15, <1>16, <1>17
     DEF Next, Login, Refresh, Logout, ChangePassword, Environment

\* Stamps never run ahead of the row they were read from, a family has one user
\* and one version, what a handler holds is something the tables held, and a
\* family whose rotations have not raced has one token that works.
THEOREM InvariantHolds == Spec => []IInv
<1>1. Init => IInv
  BY DEF Init, IInv, Stamped, TypeOK, RowState, AccessHasTwin, FamiliesAgree,
     StampsSettled, RequestsRead, Unforked, JtisDiffer, OneWorks, OneRotates
<1>2. IInv /\ [Next]_vars => IInv'
  BY StampsInductive, UnforkedStep DEF IInv
<1>3. QED
  BY <1>1, <1>2, PTL DEF Spec

\* After a completed password change no access token of an older password is
\* accepted (routes/auth.py:308-315, services/auth_service.py:166-186).
THEOREM PasswordChangeSafe == Spec => []PasswordChangeEndsSessions
<1>1. Stamped => PasswordChangeEndsSessions
  <2> SUFFICES ASSUME Stamped, NEW a \in access, Accepted(a)
               PROVE  a.pw >= settled[a.user]
    BY DEF PasswordChangeEndsSessions
  <2>1. PICK t \in refresh : a = NewAccess(t.user, t.tv, t.pw, t.family)
    BY DEF Stamped, AccessHasTwin
  <2>2. QED
    BY <2>1 DEF Stamped, StampsSettled, Accepted, NewAccess
<1>2. QED
  BY <1>1, InvariantHolds, PTL DEF IInv

\* A session that a completed revocation found never has a current token again
\* (services/auth_service.py:106-108, 166-186).
THEOREM RevocationSafe == Spec => []EndedSessionsStayEnded
<1>1. Stamped => EndedSessionsStayEnded
  <2> SUFFICES ASSUME Stamped, NEW x \in access \cup refresh, x.family \in ended
               PROVE  x.tv # tv[x.user]
    BY DEF EndedSessionsStayEnded
  <2>1. PICK t \in refresh : x.family = t.family /\ x.user = t.user /\ x.tv = t.tv
    BY DEF Stamped, AccessHasTwin, NewAccess
  <2>2. QED
    BY <2>1 DEF Stamped, StampsSettled
<1>2. QED
  BY <1>1, InvariantHolds, PTL DEF IInv

\* Unless two rotations of one token overlapped, the ledger honours at most one
\* refresh token of a session (services/auth_service.py:83-129).
THEOREM OneTokenWorks == Spec => []OneUsableRefreshToken
<1>1. IInv => OneUsableRefreshToken
  <2> SUFFICES ASSUME IInv, NEW f \in Jti \ raced
               PROVE  Cardinality(UsableRefreshTokens(f)) <= 1
    BY DEF OneUsableRefreshToken
  <2>1. \A s, t \in UsableRefreshTokens(f) : s = t
    BY DEF IInv, Unforked, OneWorks, Usable, UsableRefreshTokens
  <2>2. CASE UsableRefreshTokens(f) = {}
    BY <2>2, FS_EmptySet
  <2>3. CASE UsableRefreshTokens(f) # {}
    <3>1. PICK t : UsableRefreshTokens(f) = {t}
      BY <2>1, <2>3
    <3>2. Cardinality({t}) = 1
      BY FS_Singleton
    <3>3. QED
      BY <3>1, <3>2
  <2>4. QED
    BY <2>2, <2>3
<1>2. QED
  BY <1>1, InvariantHolds, PTL

-----------------------------------------------------------------------------
(* Refinement of SessionLifecycle.                                         *)

\* Steps that neither mint nor bump leave every session where it was.
LEMMA SessionsKept ==
    ASSUME UNCHANGED <<refresh, tv>>
    PROVE  UNCHANGED Lifecycle!vars
BY DEF Lifecycle!vars, OpenSessions, OverSessions, Current

\* A minted token puts its session among the open or among the ended ones.
LEMMA SessionsGrow ==
    ASSUME NEW new, refresh' = refresh \cup {new}, tv' = tv
    PROVE  /\ new.tv = tv[new.user] =>
                /\ OpenSessions' = OpenSessions \cup {<<new.family, new.user>>}
                /\ OverSessions' = OverSessions
           /\ new.tv # tv[new.user] =>
                /\ OpenSessions' = OpenSessions
                /\ OverSessions' = OverSessions \cup {<<new.family, new.user>>}
BY DEF OpenSessions, OverSessions, Current

\* A login opens a session that did not exist, unless a revocation overtook it.
LEMMA LoginMintRefines ==
    ASSUME Stamped, NEW r \in inflight, NEW j \in Jti, LoginMint(r, j)
    PROVE  Lifecycle!Next
<1>0. PICK new : new = [jti |-> j, user |-> r.user, tv |-> r.tv, pw |-> r.pw, family |-> j]
  OBVIOUS
<1>1. refresh' = refresh \cup {new} /\ tv' = tv /\ r.user \in User /\ row[j] = "absent"
  BY <1>0, RequestShape DEF Stamped, TypeOK, LoginMint, LoginReq, Mint
<1>2. ~ Lifecycle!Known(j)
  BY <1>1 DEF Stamped, FamiliesAgree, Lifecycle!Known, OpenSessions, OverSessions, Current
<1>3. new.family = j /\ new.user = r.user
  BY <1>0
<1>4. \/ /\ OpenSessions' = OpenSessions \cup {<<j, r.user>>}
         /\ OverSessions' = OverSessions
      \/ /\ OpenSessions' = OpenSessions
         /\ OverSessions' = OverSessions \cup {<<j, r.user>>}
  BY <1>1, <1>3, SessionsGrow
<1>5. Lifecycle!Open(j, r.user) \/ Lifecycle!OpenTooLate(j, r.user)
  BY <1>2, <1>4 DEF Lifecycle!Open, Lifecycle!OpenTooLate
<1>6. QED
  BY <1>1, <1>5 DEF Lifecycle!Next

\* A rotation is invisible: the successor belongs to the presented token's
\* session and is as current as that token is.
LEMMA RotateCommitRefines ==
    ASSUME Stamped, NEW r \in inflight, NEW j \in Jti, RotateCommit(r, j)
    PROVE  UNCHANGED Lifecycle!vars
<1> DEFINE old == r.token
           new == [jti |-> j, user |-> old.user, tv |-> r.tv, pw |-> old.pw,
                   family |-> old.family]
<1>1. r.tv = old.tv /\ old \in refresh
  BY DEF Stamped, RequestsRead, HasRead, RotateCommit
<1>2. refresh' = refresh \cup {new} /\ tv' = tv
  BY DEF RotateCommit, Mint
<1>3. OpenSessions' = OpenSessions /\ OverSessions' = OverSessions
  BY <1>1, <1>2 DEF OpenSessions, OverSessions, Current
<1>4. QED
  BY <1>3 DEF Lifecycle!vars

\* A revocation moves all and only the open sessions of its user.
LEMMA RevokeAllRefines ==
    ASSUME Stamped, NEW r \in inflight, RevokeAll(r)
    PROVE  Lifecycle!EndAll(r.user) /\ r.user \in User
<1>1. /\ r.user \in User /\ refresh' = refresh
      /\ tv' = [tv EXCEPT ![r.user] = @ + 1]
  BY RequestShape DEF Stamped, TypeOK, RevokeAll, RevokeReq
<1>2. \A t \in refresh :
        (t.tv = tv'[t.user]) = (t.user # r.user /\ t.tv = tv[t.user])
  BY <1>1 DEF Stamped, TypeOK, StampsSettled, RefreshToken
<1>3. Lifecycle!OfUser(r.user)
        = {<<t.family, t.user>> : t \in {x \in refresh : x.user = r.user /\ x.tv = tv[x.user]}}
  BY DEF Lifecycle!OfUser, OpenSessions, OverSessions, Current
<1>4. OpenSessions' = OpenSessions \ Lifecycle!OfUser(r.user)
  BY <1>1, <1>2, <1>3 DEF OpenSessions, OverSessions, Current
<1>5. OverSessions' = OverSessions \cup Lifecycle!OfUser(r.user)
  BY <1>1, <1>2, <1>3 DEF OpenSessions, OverSessions, Current
<1>6. QED
  BY <1>1, <1>4, <1>5 DEF Lifecycle!EndAll

\* The token machinery implements SessionLifecycle: sessions are opened by
\* logins only, end with all the other sessions of their user, and never
\* reopen (services/auth_service.py).
THEOREM Refinement == Spec => ImplementsSessionLifecycle
<1>1. Init => Lifecycle!Init
  BY DEF Init, Lifecycle!Init, OpenSessions, OverSessions, Current
<1>2. Stamped /\ [Next]_vars => [Lifecycle!Next]_(Lifecycle!vars)
  <2> SUFFICES ASSUME Stamped, [Next]_vars
               PROVE  Lifecycle!Next \/ UNCHANGED Lifecycle!vars
    OBVIOUS
  <2>1. ASSUME NEW r \in inflight, NEW j \in Jti, LoginMint(r, j) PROVE Lifecycle!Next
    BY <2>1, LoginMintRefines
  <2>2. ASSUME NEW r \in inflight, NEW j \in Jti, RotateCommit(r, j)
        PROVE UNCHANGED Lifecycle!vars
    BY <2>2, RotateCommitRefines
  <2>3. ASSUME NEW r \in inflight, RevokeAll(r) PROVE Lifecycle!Next
    BY <2>3, RevokeAllRefines DEF Lifecycle!Next
  <2>4. CASE UNCHANGED <<refresh, tv>>
    BY <2>4, SessionsKept
  <2>5. QED
    BY <2>1, <2>2, <2>3, <2>4
       DEF Next, vars, db, history, Login, Refresh, Logout, ChangePassword, Environment,
           LoginUser, RotateRecord, ReuseDetected, RotateUser, RotateRefused, LogoutAuth,
           LogoutRow, ChangePasswordAuth, SetUserPassword, PasswordCommit, Crash,
           SetUserActive, Expire, CleanupExpiredTokens
<1>3. QED
  BY <1>1, <1>2, InvariantHolds, PTL DEF Spec, IInv, ImplementsSessionLifecycle, Lifecycle!Spec
=============================================================================

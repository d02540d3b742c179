--------------------------- MODULE AccountsProofs ---------------------------
(***************************************************************************)
(* Proofs about PasswordReset, Departments and OrgSettings, in the system  *)
(* that Handlers composes, for any constants.                              *)
(***************************************************************************)
EXTENDS Handlers, SequenceTheorems, TLAPS

\* One part moves and the others stay: each component takes its own steps only.
LEMMA PartsMove ==
    [Next]_vars => [Reset!Next]_(Reset!vars) /\ [Dept!Next]_(Dept!vars) /\ [Org!Next]_(Org!vars)
BY DEF Next, ClientStep, ResetStep, DeptStep, RateStep, OrgStep, RecogStep, DataStep,
   vars, resetVars, deptVars, orgVars, Reset!vars, Dept!vars, Org!vars

-----------------------------------------------------------------------------
(***************************************************************************)
(* PasswordReset.                                                          *)
(***************************************************************************)

\* Links are appended: those that were there stay.
LEMMA LinksGrow ==
    ASSUME Reset!TypeOK, NEW link \in [owner : User, seen : Nat],
           links' = Append(links, link)
    PROVE  /\ Len(links) \in Nat /\ Len(links') = Len(links) + 1
           /\ Reset!Link = 1 .. Len(links) /\ Reset!Link' = 1 .. Len(links) + 1
           /\ \A k \in Reset!Link : links'[k] = links[k]
           /\ links'[Len(links) + 1] = link
           /\ links' \in Seq([owner : User, seen : Nat])
BY DEF Reset!TypeOK, Reset!Link

LEMMA HandlerShape ==
    ASSUME Reset!TypeOK, NEW h \in Handler
    PROVE  /\ resetHandler[h].at \in {"idle", "list", "issue", "find_user", "consume"}
           /\ resetHandler[h].at = "list" => resetHandler[h].user \in User
           /\ resetHandler[h].at = "issue" =>
                /\ resetHandler[h].user \in User
                /\ resetHandler[h].stale \subseteq Reset!Link
                /\ resetHandler[h].seen \in 0 .. Len(links)
           /\ resetHandler[h].at \in {"find_user", "consume"} => resetHandler[h].link \in Reset!Link
<1>1. resetHandler[h] \in Reset!HandlerState
  BY DEF Reset!TypeOK
<1>2. QED
  BY <1>1 DEF Reset!HandlerState, Reset!Idle

\* A handler goes on or ends, and the links stay as they are.
LEMMA GoesTyped ==
    ASSUME Reset!TypeOK, UNCHANGED links, NEW h \in Handler, NEW what \in Reset!HandlerState,
           Reset!Goes(h, what)
    PROVE  /\ resetHandler' \in [Handler -> Reset!HandlerState']
           /\ resetHandler'[h] = what
           /\ \A g \in Handler : g # h => resetHandler'[g] = resetHandler[g]
BY DEF Reset!TypeOK, Reset!Goes, Reset!HandlerState, Reset!Link

LEMMA ResetTypeStep == Reset!TypeOK /\ [Reset!Next]_(Reset!vars) => Reset!TypeOK'
<1> SUFFICES ASSUME Reset!TypeOK, [Reset!Next]_(Reset!vars) PROVE Reset!TypeOK'
  OBVIOUS
<1> USE DEF Reset!TypeOK
<1>1. Reset!Idle \in Reset!HandlerState
  BY DEF Reset!HandlerState
<1>2. ASSUME NEW h \in Handler, NEW u \in User, Reset!ForgotPassword(h, u) PROVE Reset!TypeOK'
  <2>1. [at |-> "list", user |-> u] \in Reset!HandlerState
    BY DEF Reset!HandlerState
  <2>2. QED
    BY <1>2, <2>1, GoesTyped DEF Reset!ForgotPassword, Reset!Link
<1>3. ASSUME NEW h \in Handler, Reset!ListPending(h) PROVE Reset!TypeOK'
  <2>1. resetHandler[h].user \in User
    BY <1>3, HandlerShape DEF Reset!ListPending
  <2>2. Reset!Pending(resetHandler[h].user) \subseteq Reset!Link
    BY DEF Reset!Pending
  <2>3. Len(links) \in 0 .. Len(links)
    OBVIOUS
  <2>4. [at |-> "issue", user |-> resetHandler[h].user,
         stale |-> Reset!Pending(resetHandler[h].user), seen |-> Len(links)]
           \in Reset!HandlerState
    BY <2>1, <2>2, <2>3 DEF Reset!HandlerState
  <2>5. QED
    BY <1>3, <2>4, GoesTyped DEF Reset!ListPending, Reset!Link
<1>4. ASSUME NEW h \in Handler, Reset!Issue(h) PROVE Reset!TypeOK'
  <2>1. /\ resetHandler[h].user \in User /\ resetHandler[h].seen \in 0 .. Len(links)
        /\ resetHandler[h].stale \subseteq Reset!Link
    BY <1>4, HandlerShape DEF Reset!Issue
  <2>2. [owner |-> resetHandler[h].user, seen |-> resetHandler[h].seen]
          \in [owner : User, seen : Nat]
    BY <2>1
  <2>3. links' = Append(links, [owner |-> resetHandler[h].user, seen |-> resetHandler[h].seen])
    BY <1>4 DEF Reset!Issue
  <2>4. /\ Len(links) \in Nat /\ Len(links') = Len(links) + 1
        /\ Reset!Link \subseteq Reset!Link'
        /\ links' \in Seq([owner : User, seen : Nat])
    BY <2>2, <2>3, LinksGrow
  <2>5. Len(links') <= MaxLinks
    BY <1>4, <2>4, HandlersAssumption DEF Reset!Issue, Reset!ResetAssumption
  <2>6. resetHandler' \in [Handler -> Reset!HandlerState']
    <3>1. ASSUME NEW x \in Reset!HandlerState PROVE x \in Reset!HandlerState'
      BY <2>4 DEF Reset!HandlerState, Reset!Idle
    <3>2. QED
      BY <1>1, <1>4, <3>1 DEF Reset!Issue, Reset!Goes
  <2>7. QED
    BY <1>4, <2>1, <2>4, <2>5, <2>6 DEF Reset!Issue
<1>5. ASSUME NEW h \in Handler, NEW k \in Reset!Link, Reset!FindLink(h, k) PROVE Reset!TypeOK'
  <2>1. [at |-> "find_user", link |-> k] \in Reset!HandlerState
    BY DEF Reset!HandlerState
  <2>2. QED
    BY <1>5, <2>1, GoesTyped DEF Reset!FindLink, Reset!Link
<1>6. ASSUME NEW h \in Handler, Reset!FindUser(h) PROVE Reset!TypeOK'
  <2>1. resetHandler[h].link \in Reset!Link
    BY <1>6, HandlerShape DEF Reset!FindUser
  <2>2. [at |-> "consume", link |-> resetHandler[h].link] \in Reset!HandlerState
    BY <2>1 DEF Reset!HandlerState
  <2>3. QED
    BY <1>1, <1>6, <2>2, GoesTyped DEF Reset!FindUser, Reset!Link
<1>7. ASSUME NEW h \in Handler, Reset!Consume(h) PROVE Reset!TypeOK'
  <2>1. resetHandler[h].link \in Reset!Link
    BY <1>7, HandlerShape DEF Reset!Consume
  <2>2. uses' \in [1 .. MaxLinks -> Nat]
    <3>1. uses' = [uses EXCEPT ![resetHandler[h].link] = @ + 1]
      BY <1>7 DEF Reset!Consume
    <3>2. resetHandler[h].link \in 1 .. MaxLinks
      BY <2>1, HandlersAssumption DEF Reset!Link, Reset!ResetAssumption
    <3>3. QED
      BY <3>1, <3>2
  <2>3. QED
    BY <1>1, <1>7, <2>1, <2>2, GoesTyped DEF Reset!Consume, Reset!Link
<1>8. ASSUME NEW h \in Handler, Reset!Fail(h) PROVE Reset!TypeOK'
  BY <1>1, <1>8, GoesTyped DEF Reset!Fail, Reset!Link
<1>9. ASSUME NEW u \in User, Reset!SetUserActive(u) PROVE Reset!TypeOK'
  BY <1>9 DEF Reset!SetUserActive, Reset!Link, Reset!HandlerState
<1>10. ASSUME NEW k \in Reset!Link, Reset!Expire(k) \/ Reset!CleanupRow(k) PROVE Reset!TypeOK'
  BY <1>10 DEF Reset!Expire, Reset!CleanupRow, Reset!Link, Reset!HandlerState
<1>11. CASE UNCHANGED Reset!vars
  BY <1>11 DEF Reset!vars, Reset!Link, Reset!HandlerState
<1>12. QED
  BY <1>2, <1>3, <1>4, <1>5, <1>6, <1>7, <1>8, <1>9, <1>10, <1>11 DEF Reset!Next

ResetUses == Reset!UsedOnceSet /\ Reset!ConsumesAlone /\ Reset!OncePerLink

\* Every link has a place among the bounded ones.
LEMMA LinkBounded == Reset!TypeOK => Reset!Link \subseteq 1 .. MaxLinks
BY HandlersAssumption DEF Reset!TypeOK, Reset!Link, Reset!ResetAssumption

\* Steps that consume nothing and find no link.
LEMMA OtherStepKeepsUses ==
    ASSUME Reset!TypeOK, Reset!TypeOK', ResetUses, UNCHANGED <<used, uses, raced>>,
           \A h \in Handler :
             resetHandler'[h].at \in {"find_user", "consume"} =>
               /\ resetHandler[h].at \in {"find_user", "consume"}
               /\ resetHandler'[h].link = resetHandler[h].link
    PROVE  ResetUses'
<1> USE DEF ResetUses
<1>1. \A h \in Handler : \A k : h \in Reset!Consuming(k)' => h \in Reset!Consuming(k) /\ k \in Reset!Link
  BY HandlerShape DEF Reset!Consuming
<1>2. \A k, g : g \in Reset!Consuming(k)' => g \in Handler
  BY DEF Reset!Consuming
<1>3. Reset!UsedOnceSet'
  BY DEF Reset!UsedOnceSet
<1>4. Reset!ConsumesAlone'
  <2> SUFFICES ASSUME NEW h \in Handler, NEW k, h \in Reset!Consuming(k)', k \notin raced
               PROVE  k \notin used /\ \A g \in Reset!Consuming(k)' : g = h
    BY DEF Reset!ConsumesAlone
  <2>1. QED
    BY <1>1, <1>2 DEF Reset!ConsumesAlone
<1>5. Reset!OncePerLink'
  <2>1. \A k \in Reset!Link' : k \in 1 .. MaxLinks
    BY HandlersAssumption DEF Reset!TypeOK, Reset!Link, Reset!ResetAssumption
  <2>2. \A k \in Reset!Link' : k \notin Reset!Link => k \notin used
    BY DEF Reset!TypeOK
  <2>3. QED
    BY <2>1, <2>2 DEF Reset!OncePerLink, Reset!UsedOnceSet
<1>6. QED
  BY <1>3, <1>4, <1>5

LEMMA ResetUsesStep ==
    Reset!TypeOK /\ Reset!TypeOK' /\ ResetUses /\ [Reset!Next]_(Reset!vars) => ResetUses'
<1> SUFFICES ASSUME Reset!TypeOK, Reset!TypeOK', ResetUses, [Reset!Next]_(Reset!vars)
             PROVE  ResetUses'
  OBVIOUS
<1>0. \A h \in Handler : resetHandler[h] \in Reset!HandlerState
  BY DEF Reset!TypeOK
<1>1. ASSUME NEW h \in Handler, NEW what, Reset!Goes(h, what), UNCHANGED <<used, uses, raced>>,
             what.at \in {"find_user", "consume"} =>
               /\ resetHandler[h].at \in {"find_user", "consume"}
               /\ what.link = resetHandler[h].link
      PROVE  ResetUses'
  BY <1>1, OtherStepKeepsUses DEF Reset!Goes, Reset!TypeOK
<1>2. ASSUME NEW h \in Handler, NEW u \in User, Reset!ForgotPassword(h, u) PROVE ResetUses'
  BY <1>1, <1>2 DEF Reset!ForgotPassword
<1>3. ASSUME NEW h \in Handler,
             Reset!ListPending(h) \/ Reset!Fail(h) \/ Reset!Issue(h) \/ Reset!FindUser(h)
      PROVE  ResetUses'
  BY <1>1, <1>3 DEF Reset!ListPending, Reset!Fail, Reset!Issue, Reset!FindUser, Reset!Idle
<1>4. ASSUME NEW h \in Handler, NEW k \in Reset!Link, Reset!FindLink(h, k) PROVE ResetUses'
  <2>1. /\ used' = used /\ uses' = uses /\ links' = links /\ k \notin used
        /\ raced' = IF Reset!Consuming(k) # {} THEN raced \cup {k} ELSE raced
    BY <1>4 DEF Reset!FindLink, Reset!Usable
  <2>2. \A g \in Handler : resetHandler'[g] = IF g = h THEN [at |-> "find_user", link |-> k]
                                                       ELSE resetHandler[g]
    BY <1>4 DEF Reset!FindLink, Reset!Goes, Reset!TypeOK
  <2>3. \A j, g : g \in Reset!Consuming(j)' => g \in Handler /\ (g \in Reset!Consuming(j) \/ (j = k /\ g = h))
    BY <2>2 DEF Reset!Consuming
  <2>4. Reset!Link' = Reset!Link
    BY <2>1 DEF Reset!Link
  <2>5. Reset!ConsumesAlone'
    <3> SUFFICES ASSUME NEW g \in Handler, NEW j \in Reset!Link, g \in Reset!Consuming(j)', j \notin raced'
                 PROVE  j \notin used /\ \A x \in Reset!Consuming(j)' : x = g
      BY <2>1, <2>4 DEF Reset!ConsumesAlone
    <3>1. CASE j = k
      BY <2>1, <2>3, <3>1
    <3>2. CASE j # k
      BY <2>1, <2>3, <3>2 DEF ResetUses, Reset!ConsumesAlone
    <3>3. QED
      BY <3>1, <3>2
  <2>6. QED
    BY <2>1, <2>4, <2>5 DEF ResetUses, Reset!UsedOnceSet, Reset!OncePerLink
<1>5. ASSUME NEW h \in Handler, Reset!Consume(h) PROVE ResetUses'
  <2> DEFINE k == resetHandler[h].link
  <2>1. k \in Reset!Link /\ resetHandler[h].at = "consume"
    BY <1>5, HandlerShape DEF Reset!Consume
  <2>2. h \in Reset!Consuming(k)
    BY <2>1 DEF Reset!Consuming
  <2>3. /\ used' = used \cup {k} /\ raced' = raced /\ links' = links
        /\ uses' = [uses EXCEPT ![k] = @ + 1]
    BY <1>5 DEF Reset!Consume
  <2>4. k \in 1 .. MaxLinks
    BY <2>1, LinkBounded
  <2>5. \A j \in 1 .. MaxLinks : uses'[j] = IF j = k THEN uses[k] + 1 ELSE uses[j]
    BY <2>3, <2>4 DEF Reset!TypeOK
  <2>6. \A j, g : g \in Reset!Consuming(j)' => g \in Handler /\ g \in Reset!Consuming(j) /\ g # h
    BY <1>5 DEF Reset!Consume, Reset!Goes, Reset!Idle, Reset!Consuming, Reset!TypeOK
  <2>7. Reset!Link' = Reset!Link
    BY <2>3 DEF Reset!Link
  <2>8. Reset!UsedOnceSet'
    BY <2>3, <2>5 DEF ResetUses, Reset!UsedOnceSet
  <2>9. Reset!ConsumesAlone'
    BY <2>1, <2>2, <2>3, <2>6, <2>7 DEF ResetUses, Reset!ConsumesAlone
  <2>10. k \notin raced => uses[k] = 0
    BY <2>1, <2>2, <2>4 DEF ResetUses, Reset!ConsumesAlone, Reset!UsedOnceSet
  <2>11. Reset!OncePerLink'
    BY <2>3, <2>5, <2>7, <2>10, LinkBounded DEF ResetUses, Reset!OncePerLink
  <2>12. QED
    BY <2>8, <2>9, <2>11 DEF ResetUses
<1>6. ASSUME UNCHANGED <<used, uses, raced, resetHandler>> PROVE ResetUses'
  BY <1>6, OtherStepKeepsUses
<1>7. ASSUME NEW u \in User, Reset!SetUserActive(u) PROVE ResetUses'
  BY <1>6, <1>7 DEF Reset!SetUserActive
<1>8. ASSUME NEW k \in Reset!Link, Reset!Expire(k) \/ Reset!CleanupRow(k) PROVE ResetUses'
  BY <1>6, <1>8 DEF Reset!Expire, Reset!CleanupRow
<1>9. CASE UNCHANGED Reset!vars
  BY <1>6, <1>9 DEF Reset!vars
<1>10. QED
  BY <1>2, <1>3, <1>4, <1>5, <1>7, <1>8, <1>9 DEF Reset!Next

ResetLinks == Reset!ListsUsable /\ Reset!OnlyNewestLinkWorks

\* Steps that issue nothing: links only stop working.
LEMMA OtherStepKeepsLinks ==
    ASSUME Reset!TypeOK, ResetLinks, UNCHANGED links,
           used \subseteq used', expired \subseteq expired', deleted \subseteq deleted',
           \A h \in Handler : resetHandler'[h].at = "issue" => resetHandler'[h] = resetHandler[h]
    PROVE  ResetLinks'
<1>1. Reset!Link' = Reset!Link
  BY DEF Reset!Link
<1>2. \A k : Reset!Usable(k)' => Reset!Usable(k)
  BY DEF Reset!Usable
<1>3. QED
  BY <1>1, <1>2 DEF ResetLinks, Reset!ListsUsable, Reset!OnlyNewestLinkWorks

LEMMA ResetLinksStep == Reset!TypeOK /\ ResetLinks /\ [Reset!Next]_(Reset!vars) => ResetLinks'
<1> SUFFICES ASSUME Reset!TypeOK, ResetLinks, [Reset!Next]_(Reset!vars) PROVE ResetLinks'
  OBVIOUS
<1>1. ASSUME NEW h \in Handler, NEW what, Reset!Goes(h, what), what.at # "issue", UNCHANGED links,
             used \subseteq used', expired \subseteq expired', deleted \subseteq deleted'
      PROVE  ResetLinks'
  BY <1>1, OtherStepKeepsLinks DEF Reset!Goes, Reset!TypeOK
<1>2. ASSUME NEW h \in Handler, NEW u \in User, Reset!ForgotPassword(h, u) PROVE ResetLinks'
  BY <1>1, <1>2 DEF Reset!ForgotPassword
<1>3. ASSUME NEW h \in Handler, NEW k \in Reset!Link,
             Reset!FindLink(h, k) \/ Reset!FindUser(h) \/ Reset!Consume(h) \/ Reset!Fail(h)
      PROVE  ResetLinks'
  BY <1>1, <1>3 DEF Reset!FindLink, Reset!FindUser, Reset!Consume, Reset!Fail, Reset!Idle
<1>4. ASSUME NEW h \in Handler, Reset!ListPending(h) PROVE ResetLinks'
  <2>1. UNCHANGED <<links, used, expired, deleted>>
    BY <1>4 DEF Reset!ListPending
  <2>2. /\ resetHandler'[h].user = resetHandler[h].user
        /\ resetHandler'[h].stale = Reset!Pending(resetHandler[h].user)
        /\ \A g \in Handler : g # h => resetHandler'[g] = resetHandler[g]
    BY <1>4 DEF Reset!ListPending, Reset!Goes, Reset!TypeOK
  <2>3. Reset!ListsUsable'
    BY <2>1, <2>2 DEF ResetLinks, Reset!ListsUsable, Reset!Usable, Reset!Link, Reset!Pending
  <2>4. Reset!OnlyNewestLinkWorks'
    BY <2>1 DEF ResetLinks, Reset!OnlyNewestLinkWorks, Reset!Usable, Reset!Link
  <2>5. QED
    BY <2>3, <2>4 DEF ResetLinks
<1>5. ASSUME NEW h \in Handler, Reset!Issue(h) PROVE ResetLinks'
  <2> DEFINE r == resetHandler[h]
  <2>1. /\ r.at = "issue" /\ r.user \in User /\ r.seen \in 0 .. Len(links)
    BY <1>5, HandlerShape DEF Reset!Issue
  <2>2. PICK link : link = [owner |-> r.user, seen |-> r.seen]
    OBVIOUS
  <2>3. link \in [owner : User, seen : Nat] /\ links' = Append(links, link)
    BY <1>5, <2>1, <2>2 DEF Reset!Issue
  <2>4. /\ Len(links) \in Nat
        /\ Reset!Link = 1 .. Len(links) /\ Reset!Link' = 1 .. Len(links) + 1
        /\ \A k \in Reset!Link : links'[k] = links[k]
        /\ links'[Len(links) + 1] = link
    BY <2>3, LinksGrow
  <2>5. expired' = expired \cup r.stale /\ used' = used /\ deleted' = deleted
    BY <1>5 DEF Reset!Issue
  <2>6. \A k : Reset!Usable(k)' => Reset!Usable(k) /\ k \notin r.stale
    BY <2>5 DEF Reset!Usable
  <2>7. \A g \in Handler : resetHandler'[g].at = "issue" => resetHandler'[g] = resetHandler[g]
    BY <1>5 DEF Reset!Issue, Reset!Goes, Reset!TypeOK, Reset!Idle
  <2>8. Reset!ListsUsable'
    <3> SUFFICES ASSUME NEW g \in Handler, NEW k \in Reset!Link', resetHandler'[g].at = "issue",
                        k <= resetHandler'[g].seen, links'[k].owner = resetHandler'[g].user,
                        Reset!Usable(k)'
                 PROVE  k \in resetHandler'[g].stale
      BY DEF Reset!ListsUsable
    <3>1. resetHandler'[g] = resetHandler[g] /\ resetHandler[g].seen \in 0 .. Len(links)
      BY <2>7, HandlerShape
    <3>2. k \in Reset!Link
      BY <2>4, <3>1
    <3>3. QED
      BY <2>4, <2>6, <3>1, <3>2 DEF ResetLinks, Reset!ListsUsable
  <2>9. Reset!OnlyNewestLinkWorks'
    <3> SUFFICES ASSUME NEW k \in Reset!Link', NEW n \in Reset!Link', Reset!Usable(k)', n > k,
                        links'[n].owner = links'[k].owner
                 PROVE  links'[n].seen < k
      BY DEF Reset!OnlyNewestLinkWorks
    <3>1. k \in Reset!Link /\ links'[k] = links[k] /\ Reset!Usable(k) /\ k \notin r.stale
      BY <2>4, <2>6
    <3>2. CASE n \in Reset!Link
      BY <2>4, <3>1, <3>2 DEF ResetLinks, Reset!OnlyNewestLinkWorks
    <3>3. CASE n = Len(links) + 1
      <4>1. links'[n].owner = r.user /\ links'[n].seen = r.seen
        BY <2>2, <2>4, <3>3
      <4>2. ~ (k <= r.seen)
        BY <2>1, <3>1, <4>1 DEF ResetLinks, Reset!ListsUsable
      <4>3. QED
        BY <2>1, <2>4, <3>1, <4>1, <4>2
    <3>4. QED
      BY <2>4, <3>2, <3>3
  <2>10. QED
    BY <2>8, <2>9 DEF ResetLinks
<1>6. ASSUME UNCHANGED <<links, resetHandler>>,
             used \subseteq used', expired \subseteq expired', deleted \subseteq deleted'
      PROVE  ResetLinks'
  BY <1>6, OtherStepKeepsLinks
<1>7. ASSUME NEW u \in User, Reset!SetUserActive(u) PROVE ResetLinks'
  BY <1>6, <1>7 DEF Reset!SetUserActive
<1>8. ASSUME NEW k \in Reset!Link, Reset!Expire(k) \/ Reset!CleanupRow(k) PROVE ResetLinks'
  BY <1>6, <1>8 DEF Reset!Expire, Reset!CleanupRow
<1>9. CASE UNCHANGED Reset!vars
  BY <1>6, <1>9 DEF Reset!vars
<1>10. QED
  <2>1. ASSUME NEW h \in Handler, Reset!FindUser(h) \/ Reset!Consume(h) \/ Reset!Fail(h)
        PROVE  ResetLinks'
    BY <1>1, <2>1 DEF Reset!FindUser, Reset!Consume, Reset!Fail, Reset!Idle
  <2>2. QED
    BY <1>2, <1>3, <1>4, <1>5, <1>7, <1>8, <1>9, <2>1 DEF Reset!Next

LEMMA ResetInit == Reset!Init => Reset!IInv
<1> SUFFICES ASSUME Reset!Init PROVE Reset!IInv
  OBVIOUS
<1>1. links = <<>> /\ Reset!Link = {} /\ \A h \in Handler : resetHandler[h] = Reset!Idle
  BY DEF Reset!Init, Reset!Link
<1>2. Reset!Idle.at = "idle"
  BY DEF Reset!Idle
<1>3. Reset!TypeOK
  BY <1>1, HandlersAssumption DEF Reset!Init, Reset!TypeOK, Reset!HandlerState, Reset!ResetAssumption
<1>4. Reset!UsedOnceSet
  BY DEF Reset!Init, Reset!UsedOnceSet
<1>5. QED
  BY <1>1, <1>3, <1>4 DEF Reset!IInv, Reset!ConsumesAlone, Reset!OncePerLink,
     Reset!ListsUsable, Reset!OnlyNewestLinkWorks

\* The inductive invariant of the reset links.
LEMMA ResetInvariant == Spec => []Reset!IInv
<1>1. Init => Reset!IInv
  BY ResetInit DEF Init
<1>2. Reset!IInv /\ [Next]_vars => Reset!IInv'
  BY PartsMove, ResetTypeStep, ResetUsesStep, ResetLinksStep DEF Reset!IInv, ResetUses, ResetLinks
<1>3. QED
  BY <1>1, <1>2, PTL DEF Spec

\* A reset link sets one password unless two requests that presented it were
\* between lookup and commit at once, for any number of handlers, users and links
\* (password_reset.py:64-92, auth.py:240-285).
THEOREM LinkSetsOnePassword == Spec => []OncePerLink
<1>1. Reset!IInv => OncePerLink
  BY DEF Reset!IInv, OncePerLink
<1>2. QED
  BY ResetInvariant, <1>1, PTL

\* A link that works is the newest of its user, unless its request and the newer
\* one's overlapped (password_reset.py:34-61).
THEOREM NewestLinkWorks == Spec => []OnlyNewestLinkWorks
<1>1. Reset!IInv => OnlyNewestLinkWorks
  BY DEF Reset!IInv, OnlyNewestLinkWorks
<1>2. QED
  BY ResetInvariant, <1>1, PTL

-----------------------------------------------------------------------------
(***************************************************************************)
(* Departments.                                                            *)
(***************************************************************************)

LEMMA DeptBounds ==
    ASSUME Dept!TypeOK
    PROVE  /\ created \in 0 .. MaxDepts /\ 1 .. created \subseteq Dept!Dept
           /\ depts \subseteq Dept!Dept /\ NoDept \notin Dept!Dept /\ NoDept \notin depts
           /\ created + 1 \notin depts /\ created + 1 \notin 1 .. created
<1>1. /\ created \in 0 .. MaxDepts /\ depts \subseteq 1 .. created
      /\ MaxDepts \in Nat /\ NoDept \notin 1 .. MaxDepts
  BY HandlersAssumption DEF Dept!TypeOK, Dept!Dept, Dept!DepartmentsAssumption
<1>2. 1 .. created \subseteq 1 .. MaxDepts /\ created + 1 \notin 1 .. created
  BY <1>1
<1>3. QED
  BY <1>1, <1>2 DEF Dept!Dept

LEMMA DeptHandlerShape ==
    ASSUME Dept!TypeOK, NEW h \in Handler
    PROVE  LET r == deptHandler[h] IN
           /\ r.at \in {"idle", "create", "loaded", "update", "found", "delete",
                       "flushing", "flushed", "assign"}
           /\ r.at = "create" => r.parent \in 1 .. created \cup {NoDept}
           /\ r.at = "update" => r.dept \in 1 .. created /\ r.parent \in 1 .. created
           /\ r.at = "delete" =>
                /\ r.dept \in 1 .. created /\ r.joined \in SUBSET User
                /\ r = [at |-> "delete", dept |-> r.dept, joined |-> r.joined]
           /\ r.at \in {"loaded", "update"} =>
                /\ r.dept \in 1 .. created /\ r.loaded \in 1 .. created \cup {NoDept}
           /\ r.at = "found" => r.dept \in 1 .. created
           /\ r.at = "flushing" =>
                /\ r.dept \in 1 .. created /\ r.joined \in SUBSET User
                /\ r.children \in SUBSET (1 .. created)
                /\ r = [at |-> "flushing", dept |-> r.dept, joined |-> r.joined,
                        children |-> r.children]
           /\ r.at = "flushed" =>
                /\ r.dept \in 1 .. created /\ r.joined \in SUBSET User
                /\ r.children \in SUBSET (1 .. created) /\ r.users \in SUBSET User
                /\ r = [at |-> "flushed", dept |-> r.dept, joined |-> r.joined,
                        children |-> r.children, users |-> r.users]
           /\ r.at = "assign" => r.user \in User /\ r.dept \in 1 .. created
<1>1. deptHandler[h] \in Dept!HandlerState
  BY DEF Dept!TypeOK
<1>2. QED
  BY <1>1 DEF Dept!HandlerState, Dept!Idle

\* What the handlers hold names created departments, and goes on doing so.
LEMMA DeptStateGrows ==
    ASSUME Dept!TypeOK, created' \in Nat, created' >= created, NEW r \in Dept!HandlerState
    PROVE  r \in Dept!HandlerState'
<1>1. 1 .. created \subseteq 1 .. created'
  BY DEF Dept!TypeOK
<1>2. QED
  BY <1>1 DEF Dept!HandlerState, Dept!Idle

LEMMA DeptGoesTyped ==
    ASSUME Dept!TypeOK, created' \in Nat, created' >= created,
           NEW h \in Handler, NEW what \in Dept!HandlerState, Dept!Goes(h, what)
    PROVE  /\ deptHandler' \in [Handler -> Dept!HandlerState']
           /\ deptHandler'[h] = what
           /\ \A g \in Handler : g # h => deptHandler'[g] = deptHandler[g]
BY DeptStateGrows DEF Dept!TypeOK, Dept!Goes

\* A late joiner is noted by the deletions of the department in flight.
LEMMA JoinedTyped ==
    ASSUME Dept!TypeOK, NEW h \in Handler, Dept!AssignCommit(h)
    PROVE  /\ deptHandler' \in [Handler -> Dept!HandlerState]
           /\ \A g \in Handler :
                /\ deptHandler'[g].at \in Dept!Counted =>
                     /\ g # h /\ deptHandler'[g].at = deptHandler[g].at
                     /\ deptHandler'[g].dept = deptHandler[g].dept
                     /\ deptHandler[g].joined \subseteq deptHandler'[g].joined
                     /\ deptHandler[g].dept = deptHandler[h].dept =>
                          deptHandler[h].user \in deptHandler'[g].joined
                /\ deptHandler'[g].at = "flushed" => deptHandler'[g].users = deptHandler[g].users
                /\ deptHandler'[g].at = "create" => deptHandler'[g] = deptHandler[g]
<1> DEFINE d == deptHandler[h].dept
           u == deptHandler[h].user
           Joins(g) == g # h /\ deptHandler[g].at \in Dept!Counted /\ deptHandler[g].dept = d
<1>1. u \in User /\ Dept!Idle \in Dept!HandlerState /\ Dept!Idle.at = "idle"
  BY DeptHandlerShape DEF Dept!AssignCommit, Dept!HandlerState, Dept!Idle
<1>2. \A g \in Handler : deptHandler'[g] = IF g = h THEN Dept!Idle
                           ELSE IF Joins(g) THEN [deptHandler[g] EXCEPT !.joined = @ \cup {u}]
                           ELSE deptHandler[g]
  BY DEF Dept!AssignCommit
<1>3. ASSUME NEW g \in Handler, g # h, deptHandler[g].at = "delete", deptHandler[g].dept = d
      PROVE  /\ deptHandler'[g] \in Dept!HandlerState /\ deptHandler'[g].at = "delete"
             /\ deptHandler'[g].dept = d
             /\ deptHandler'[g].joined = deptHandler[g].joined \cup {u}
  <2>1. PICK J \in SUBSET User :
          J = deptHandler[g].joined /\ deptHandler[g] = [at |-> "delete", dept |-> d, joined |-> J]
    BY <1>3, DeptHandlerShape
  <2>2. deptHandler'[g] = [at |-> "delete", dept |-> d, joined |-> J \cup {u}]
    BY <1>2, <1>3, <2>1 DEF Dept!Counted
  <2>3. d \in 1 .. created
    BY <1>3, DeptHandlerShape
  <2>4. QED
    BY <1>1, <2>1, <2>2, <2>3 DEF Dept!HandlerState
<1>10. ASSUME NEW g \in Handler, g # h, deptHandler[g].at = "flushing", deptHandler[g].dept = d
      PROVE  /\ deptHandler'[g] \in Dept!HandlerState /\ deptHandler'[g].at = "flushing"
             /\ deptHandler'[g].dept = d
             /\ deptHandler'[g].joined = deptHandler[g].joined \cup {u}
  <2>1. PICK J \in SUBSET User, C \in SUBSET (1 .. created) :
          /\ J = deptHandler[g].joined
          /\ deptHandler[g] = [at |-> "flushing", dept |-> d, joined |-> J, children |-> C]
    BY <1>10, DeptHandlerShape
  <2>2. deptHandler'[g] = [at |-> "flushing", dept |-> d, joined |-> J \cup {u}, children |-> C]
    <3>1. deptHandler'[g] = [deptHandler[g] EXCEPT !.joined = @ \cup {u}]
      BY <1>2, <1>10 DEF Dept!Counted
    <3>2. PICK t : t = [at |-> "flushing", dept |-> d, joined |-> J, children |-> C]
      OBVIOUS
    <3>3. [t EXCEPT !.joined = t.joined \cup {u}] =
            [at |-> "flushing", dept |-> d, joined |-> J \cup {u}, children |-> C]
      BY <3>2
    <3>4. QED
      BY <2>1, <3>1, <3>2, <3>3
  <2>3. d \in 1 .. created
    BY <1>10, DeptHandlerShape
  <2>4. QED
    BY <1>1, <2>1, <2>2, <2>3 DEF Dept!HandlerState
<1>4. ASSUME NEW g \in Handler, g # h, deptHandler[g].at = "flushed", deptHandler[g].dept = d
      PROVE  /\ deptHandler'[g] \in Dept!HandlerState /\ deptHandler'[g].at = "flushed"
             /\ deptHandler'[g].dept = d /\ deptHandler'[g].users = deptHandler[g].users
             /\ deptHandler'[g].joined = deptHandler[g].joined \cup {u}
  <2>1. PICK J \in SUBSET User, C \in SUBSET (1 .. created), U \in SUBSET User :
          /\ J = deptHandler[g].joined /\ U = deptHandler[g].users
          /\ deptHandler[g] = [at |-> "flushed", dept |-> d, joined |-> J, children |-> C, users |-> U]
    BY <1>4, DeptHandlerShape
  <2>2. deptHandler'[g] =
          [at |-> "flushed", dept |-> d, joined |-> J \cup {u}, children |-> C, users |-> U]
    <3>1. deptHandler'[g] = [deptHandler[g] EXCEPT !.joined = @ \cup {u}]
      BY <1>2, <1>4 DEF Dept!Counted
    <3>2. PICK t : t = [at |-> "flushed", dept |-> d, joined |-> J, children |-> C, users |-> U]
      OBVIOUS
    <3>3. [t EXCEPT !.joined = t.joined \cup {u}] =
            [at |-> "flushed", dept |-> d, joined |-> J \cup {u}, children |-> C, users |-> U]
      BY <3>2
    <3>4. QED
      BY <2>1, <3>1, <3>2, <3>3
  <2>3. d \in 1 .. created
    BY <1>4, DeptHandlerShape
  <2>4. QED
    BY <1>1, <2>1, <2>2, <2>3 DEF Dept!HandlerState
<1>5. ASSUME NEW g \in Handler, g # h, ~ Joins(g)
      PROVE  deptHandler'[g] = deptHandler[g] /\ deptHandler[g] \in Dept!HandlerState
  BY <1>2, <1>5 DEF Dept!TypeOK
<1>6. DOMAIN deptHandler' = Handler /\ deptHandler' = [g \in Handler |-> deptHandler'[g]]
  BY DEF Dept!AssignCommit
<1>7. ASSUME NEW g \in Handler PROVE deptHandler'[g] \in Dept!HandlerState
  BY <1>1, <1>2, <1>3, <1>4, <1>5, <1>10 DEF Dept!Counted
<1>8. deptHandler' \in [Handler -> Dept!HandlerState]
  BY <1>6, <1>7
<1>9. QED
  BY <1>1, <1>2, <1>3, <1>4, <1>5, <1>8, <1>10 DEF Dept!Counted

LEMMA DeptTypeStep == Dept!TypeOK /\ [Dept!Next]_(Dept!vars) => Dept!TypeOK'
<1> SUFFICES ASSUME Dept!TypeOK, [Dept!Next]_(Dept!vars) PROVE Dept!TypeOK'
  OBVIOUS
<1>0. Dept!Idle \in Dept!HandlerState /\ created \in Nat /\ created >= created
  BY DEF Dept!HandlerState, Dept!TypeOK
<1>1. ASSUME NEW h \in Handler, NEW what \in Dept!HandlerState, Dept!Goes(h, what),
             UNCHANGED <<depts, created, parent, member, moved>>
      PROVE  Dept!TypeOK'
  BY <1>0, <1>1, DeptGoesTyped DEF Dept!TypeOK
<1>2. ASSUME NEW h \in Handler, NEW p \in Dept!Dept \cup {NoDept}, Dept!CreateCheck(h, p)
      PROVE  Dept!TypeOK'
  <2>1. [at |-> "create", parent |-> p] \in Dept!HandlerState
    BY <1>2 DEF Dept!CreateCheck, Dept!TypeOK, Dept!HandlerState
  <2>2. QED
    BY <1>1, <1>2, <2>1 DEF Dept!CreateCheck
<1>3. ASSUME NEW h \in Handler, Dept!CreateCommit(h) PROVE Dept!TypeOK'
  <2> DEFINE d == created + 1
  <2>1. created < MaxDepts /\ created' = d /\ depts' = depts \cup {d} /\ d \in Dept!Dept
    BY <1>3, HandlersAssumption DEF Dept!CreateCommit, Dept!TypeOK, Dept!Dept, Dept!DepartmentsAssumption
  <2>2. created' \in 0 .. MaxDepts /\ depts' \subseteq 1 .. created'
    BY <2>1, HandlersAssumption DEF Dept!TypeOK, Dept!DepartmentsAssumption
  <2>3. parent' \in [Dept!Dept -> depts' \cup {NoDept}]
    BY <1>3, <2>1 DEF Dept!CreateCommit, Dept!TypeOK
  <2>4. deptHandler' \in [Handler -> Dept!HandlerState']
    BY <1>0, <1>3, <2>1, DeptGoesTyped DEF Dept!CreateCommit
  <2>5. QED
    BY <1>3, <2>1, <2>2, <2>3, <2>4 DEF Dept!CreateCommit, Dept!TypeOK
<1>4. ASSUME NEW h \in Handler, NEW d \in Dept!Dept, NEW p \in Dept!Dept, Dept!UpdateFind(h, d, p)
      PROVE  Dept!TypeOK'
  <2>1. d \in 1 .. created /\ parent[d] \in 1 .. created \cup {NoDept}
    BY <1>4 DEF Dept!UpdateFind, Dept!TypeOK
  <2>2. [at |-> "loaded", dept |-> d, parent |-> p, loaded |-> parent[d]] \in Dept!HandlerState
    BY <2>1 DEF Dept!HandlerState
  <2>3. QED
    BY <1>1, <1>4, <2>2 DEF Dept!UpdateFind
<1>14. ASSUME NEW h \in Handler, Dept!UpdateCheck(h) PROVE Dept!TypeOK'
  <2> DEFINE r == deptHandler[h]
  <2>1. /\ r.dept \in 1 .. created /\ r.loaded \in 1 .. created \cup {NoDept}
        /\ r.parent \in 1 .. created
    BY <1>14, DeptHandlerShape DEF Dept!UpdateCheck, Dept!TypeOK
  <2>2. [at |-> "update", dept |-> r.dept, parent |-> r.parent, loaded |-> r.loaded]
          \in Dept!HandlerState
    BY <2>1 DEF Dept!HandlerState
  <2>3. QED
    BY <1>1, <1>14, <2>2 DEF Dept!UpdateCheck
<1>5. ASSUME NEW h \in Handler, Dept!UpdateCommit(h) PROVE Dept!TypeOK'
  <2>1. deptHandler' \in [Handler -> Dept!HandlerState']
    BY <1>0, <1>5, DeptGoesTyped DEF Dept!UpdateCommit
  <2>2. parent' \in [Dept!Dept -> depts \cup {NoDept}] /\ moved' \subseteq depts
    BY <1>5 DEF Dept!UpdateCommit, Dept!TypeOK
  <2>3. QED
    BY <1>5, <2>1, <2>2 DEF Dept!UpdateCommit, Dept!TypeOK
<1>15. ASSUME NEW h \in Handler, NEW d \in Dept!Dept, Dept!DeleteFind(h, d) PROVE Dept!TypeOK'
  <2>1. [at |-> "found", dept |-> d] \in Dept!HandlerState
    BY <1>15 DEF Dept!DeleteFind, Dept!TypeOK, Dept!HandlerState
  <2>2. QED
    BY <1>1, <1>15, <2>1 DEF Dept!DeleteFind
<1>6. ASSUME NEW h \in Handler, Dept!DeleteCheck(h) PROVE Dept!TypeOK'
  <2>1. [at |-> "delete", dept |-> deptHandler[h].dept, joined |-> {}] \in Dept!HandlerState
    BY <1>6, DeptHandlerShape DEF Dept!DeleteCheck, Dept!HandlerState
  <2>2. QED
    BY <1>1, <1>6, <2>1 DEF Dept!DeleteCheck
<1>16. ASSUME NEW h \in Handler, Dept!SelectChildren(h) PROVE Dept!TypeOK'
  <2> DEFINE r == deptHandler[h]
  <2>1. /\ r.dept \in 1 .. created /\ r.joined \in SUBSET User
        /\ Dept!Children(r.dept) \in SUBSET (1 .. created)
    BY <1>16, DeptHandlerShape DEF Dept!SelectChildren, Dept!Children, Dept!TypeOK
  <2>2. [at |-> "flushing", dept |-> r.dept, joined |-> r.joined,
         children |-> Dept!Children(r.dept)] \in Dept!HandlerState
    BY <2>1 DEF Dept!HandlerState
  <2>3. QED
    BY <1>1, <1>16, <2>2 DEF Dept!SelectChildren
<1>7. ASSUME NEW h \in Handler, Dept!SelectUsers(h) PROVE Dept!TypeOK'
  <2> DEFINE r == deptHandler[h]
  <2>1. /\ r.dept \in 1 .. created /\ r.joined \in SUBSET User
        /\ r.children \in SUBSET (1 .. created) /\ Dept!In(r.dept) \in SUBSET User
    BY <1>7, DeptHandlerShape DEF Dept!SelectUsers, Dept!In
  <2>2. [at |-> "flushed", dept |-> r.dept, joined |-> r.joined,
         children |-> r.children, users |-> Dept!In(r.dept)] \in Dept!HandlerState
    BY <2>1 DEF Dept!HandlerState
  <2>3. QED
    BY <1>1, <1>7, <2>2 DEF Dept!SelectUsers
<1>8. ASSUME NEW h \in Handler, Dept!DeleteCommit(h) PROVE Dept!TypeOK'
  <2> DEFINE x == deptHandler[h].dept
  <2>1. deptHandler' \in [Handler -> Dept!HandlerState']
    BY <1>0, <1>8, DeptGoesTyped DEF Dept!DeleteCommit
  <2>2. depts' = depts \ {x} /\ created' = created /\ moved' = moved \ {x}
    BY <1>8 DEF Dept!DeleteCommit
  <2>3. parent' \in [Dept!Dept -> depts' \cup {NoDept}]
    <3>1. parent' = [d \in Dept!Dept |->
            IF d \in Dept!Children(x) \cup deptHandler[h].children \cup {x} THEN NoDept ELSE parent[d]]
      BY <1>8 DEF Dept!DeleteCommit
    <3>2. ASSUME NEW d \in Dept!Dept, d \notin Dept!Children(x), d # x
          PROVE  parent[d] \in depts' \cup {NoDept}
      <4>1. parent[d] \in depts \cup {NoDept} /\ (d \notin depts => parent[d] = NoDept)
        BY DEF Dept!TypeOK
      <4>2. QED
        BY <2>2, <3>2, <4>1 DEF Dept!Children
    <3>3. QED
      BY <3>1, <3>2
  <2>4. member' \in [User -> depts' \cup {NoDept}]
    <3>1. member' = [u \in User |->
            IF u \in Dept!In(x) \cup deptHandler[h].users THEN NoDept ELSE member[u]]
      BY <1>8 DEF Dept!DeleteCommit
    <3>2. ASSUME NEW u \in User, u \notin Dept!In(x) PROVE member[u] \in depts' \cup {NoDept}
      BY <2>2, <3>2 DEF Dept!TypeOK, Dept!In
    <3>3. QED
      BY <3>1, <3>2
  <2>5. \A d \in Dept!Dept \ depts' : parent'[d] = NoDept
    BY <1>8, <2>2 DEF Dept!DeleteCommit, Dept!TypeOK
  <2>6. QED
    BY <2>1, <2>2, <2>3, <2>4, <2>5 DEF Dept!TypeOK
<1>9. ASSUME NEW h \in Handler, NEW u \in User, NEW d \in Dept!Dept, Dept!AssignCheck(h, u, d)
      PROVE  Dept!TypeOK'
  <2>1. [at |-> "assign", user |-> u, dept |-> d] \in Dept!HandlerState
    BY <1>9 DEF Dept!AssignCheck, Dept!TypeOK, Dept!HandlerState
  <2>2. QED
    BY <1>1, <1>9, <2>1 DEF Dept!AssignCheck
<1>10. ASSUME NEW h \in Handler, Dept!AssignCommit(h) PROVE Dept!TypeOK'
  <2>1. deptHandler' \in [Handler -> Dept!HandlerState]
    BY <1>10, JoinedTyped
  <2>2. member' \in [User -> depts \cup {NoDept}] /\ UNCHANGED <<depts, created, parent, moved>>
    BY <1>10 DEF Dept!AssignCommit, Dept!TypeOK
  <2>3. Dept!HandlerState' = Dept!HandlerState
    BY <2>2 DEF Dept!HandlerState, Dept!Idle
  <2>4. QED
    BY <2>1, <2>2, <2>3 DEF Dept!TypeOK
<1>11. ASSUME NEW h \in Handler, Dept!Fail(h) PROVE Dept!TypeOK'
  BY <1>0, <1>1, <1>11 DEF Dept!Fail
<1>12. CASE UNCHANGED Dept!vars
  BY <1>12 DEF Dept!vars, Dept!TypeOK, Dept!HandlerState, Dept!Idle
<1>13. QED
  BY <1>2, <1>3, <1>4, <1>5, <1>6, <1>7, <1>8, <1>9, <1>10, <1>11, <1>12, <1>14, <1>15, <1>16
     DEF Dept!Next

\* The departments' levels: a creation under p makes a third level only if a PATCH
\* has moved p since p was found at the top.
DeptLevels == Dept!ThirdLevelOnlyByMove /\ Dept!CreatesUnderTop

\* Steps that leave the tree alone.
LEMMA OtherStepKeepsLevels ==
    ASSUME DeptLevels, UNCHANGED <<depts, parent, moved>>,
           \A h \in Handler : deptHandler'[h].at = "create" /\ deptHandler'[h] # deptHandler[h] =>
             (deptHandler'[h].parent # NoDept => parent[deptHandler'[h].parent] = NoDept)
    PROVE  DeptLevels'
BY DEF DeptLevels, Dept!ThirdLevelOnlyByMove, Dept!CreatesUnderTop

LEMMA DeptLevelsStep ==
    Dept!TypeOK /\ Dept!TypeOK' /\ DeptLevels /\ [Dept!Next]_(Dept!vars) => DeptLevels'
<1> SUFFICES ASSUME Dept!TypeOK, Dept!TypeOK', DeptLevels, [Dept!Next]_(Dept!vars)
             PROVE  DeptLevels'
  OBVIOUS
<1>1. ASSUME NEW h \in Handler, NEW what, Dept!Goes(h, what), UNCHANGED <<depts, parent, moved>>,
             what.at = "create" /\ what.parent # NoDept => parent[what.parent] = NoDept
      PROVE  DeptLevels'
  BY <1>1, OtherStepKeepsLevels DEF Dept!Goes, Dept!TypeOK
<1>2. ASSUME NEW h \in Handler, NEW p \in Dept!Dept \cup {NoDept}, Dept!CreateCheck(h, p)
      PROVE  DeptLevels'
  BY <1>1, <1>2 DEF Dept!CreateCheck
<1>3. ASSUME NEW h \in Handler, Dept!CreateCommit(h) PROVE DeptLevels'
  <2> DEFINE d == created + 1
             p == deptHandler[h].parent
  <2>1. /\ deptHandler[h].at = "create" /\ p \in depts \cup {NoDept}
        /\ depts' = depts \cup {d} /\ parent' = [parent EXCEPT ![d] = p] /\ moved' = moved
    BY <1>3 DEF Dept!CreateCommit
  <2>2. d \notin depts /\ d \notin 1 .. created /\ depts \subseteq Dept!Dept /\ NoDept \notin Dept!Dept
    BY DeptBounds
  <2>3. d \in Dept!Dept
    BY <1>3, HandlersAssumption
       DEF Dept!CreateCommit, Dept!TypeOK, Dept!Dept, Dept!DepartmentsAssumption
  <2>4. \A c \in Dept!Dept : parent'[c] = IF c = d THEN p ELSE parent[c]
    BY <2>1, <2>3 DEF Dept!TypeOK
  <2>5. \A c \in depts : parent[c] \in depts \cup {NoDept}
    BY <2>2 DEF Dept!TypeOK
  <2>6. Dept!ThirdLevelOnlyByMove'
    <3> SUFFICES ASSUME NEW c \in depts', parent'[c] # NoDept, parent'[parent'[c]] # NoDept
                 PROVE  {c, parent'[c]} \cap moved # {}
      BY <2>1 DEF Dept!ThirdLevelOnlyByMove
    <3>1. CASE c = d
      <4>1. p \in depts /\ parent'[c] = p /\ parent[p] # NoDept
        BY <2>1, <2>2, <2>3, <2>4, <3>1
      <4>2. QED
        BY <2>1, <2>2, <4>1 DEF DeptLevels, Dept!CreatesUnderTop
    <3>2. CASE c # d
      <4>1. c \in depts /\ parent'[c] = parent[c] /\ parent[c] \in depts
        BY <2>1, <2>2, <2>4, <2>5, <3>2
      <4>2. parent'[parent[c]] = parent[parent[c]]
        BY <2>2, <2>4, <4>1
      <4>3. QED
        BY <4>1, <4>2 DEF DeptLevels, Dept!ThirdLevelOnlyByMove
    <3>3. QED
      BY <3>1, <3>2
  <2>7. Dept!CreatesUnderTop'
    <3> SUFFICES ASSUME NEW g \in Handler, deptHandler'[g].at = "create",
                        deptHandler'[g].parent # NoDept,
                        parent'[deptHandler'[g].parent] # NoDept
                 PROVE  deptHandler'[g].parent \in moved
      BY <2>1 DEF Dept!CreatesUnderTop
    <3>1. deptHandler'[g] = deptHandler[g]
      BY <1>3 DEF Dept!CreateCommit, Dept!Goes, Dept!Idle, Dept!TypeOK
    <3>2. deptHandler[g].parent \in 1 .. created
      BY <3>1, DeptHandlerShape
    <3>3. deptHandler[g].parent \in Dept!Dept /\ deptHandler[g].parent # d
      BY <2>2, <3>2, DeptBounds
    <3>4. parent[deptHandler[g].parent] # NoDept
      BY <2>4, <3>1, <3>3
    <3>5. QED
      BY <3>1, <3>4 DEF DeptLevels, Dept!CreatesUnderTop
  <2>8. QED
    BY <2>6, <2>7 DEF DeptLevels
<1>4. ASSUME NEW h \in Handler, NEW d \in Dept!Dept, NEW p \in Dept!Dept,
             Dept!UpdateFind(h, d, p)
      PROVE  DeptLevels'
  BY <1>1, <1>4 DEF Dept!UpdateFind
<1>5. ASSUME NEW h \in Handler, Dept!UpdateCommit(h) PROVE DeptLevels'
  <2> DEFINE r == deptHandler[h]
  <2>1. CASE r.parent = r.loaded
    BY <1>1, <1>5, <2>1 DEF Dept!UpdateCommit, Dept!Idle
  <2>2. CASE r.parent # r.loaded
    <3>1. /\ r.dept \in depts /\ depts' = depts /\ moved' = moved \cup {r.dept}
          /\ parent' = [parent EXCEPT ![r.dept] = r.parent]
      BY <1>5, <2>2 DEF Dept!UpdateCommit
    <3>2. \A c \in Dept!Dept : parent'[c] = IF c = r.dept THEN r.parent ELSE parent[c]
      BY <3>1, DeptBounds DEF Dept!TypeOK
    <3>3. Dept!ThirdLevelOnlyByMove'
      <4> SUFFICES ASSUME NEW c \in depts, parent'[c] # NoDept, parent'[parent'[c]] # NoDept,
                          c # r.dept, parent'[c] # r.dept
                   PROVE  {c, parent'[c]} \cap moved # {}
        BY <3>1 DEF Dept!ThirdLevelOnlyByMove
      <4>1. c \in Dept!Dept /\ parent'[c] = parent[c] /\ parent[c] \in Dept!Dept
        BY <3>2, DeptBounds DEF Dept!TypeOK
      <4>2. parent'[parent'[c]] = parent[parent[c]]
        BY <3>2, <4>1
      <4>3. QED
        BY <4>1, <4>2 DEF DeptLevels, Dept!ThirdLevelOnlyByMove
    <3>4. Dept!CreatesUnderTop'
      <4> SUFFICES ASSUME NEW g \in Handler, deptHandler'[g].at = "create",
                          deptHandler'[g].parent # NoDept,
                          parent'[deptHandler'[g].parent] # NoDept,
                          deptHandler'[g].parent # r.dept
                   PROVE  deptHandler'[g].parent \in moved
        BY <3>1 DEF Dept!CreatesUnderTop
      <4>1. deptHandler'[g] = deptHandler[g]
        BY <1>5 DEF Dept!UpdateCommit, Dept!Goes, Dept!Idle, Dept!TypeOK
      <4>2. deptHandler[g].parent \in Dept!Dept
        BY <4>1, DeptHandlerShape, DeptBounds
      <4>3. QED
        BY <3>2, <4>1, <4>2 DEF DeptLevels, Dept!CreatesUnderTop
    <3>5. QED
      BY <3>3, <3>4 DEF DeptLevels
  <2>3. QED
    BY <2>1, <2>2
<1>6. ASSUME NEW h \in Handler, NEW d \in Dept!Dept, Dept!DeleteFind(h, d) PROVE DeptLevels'
  BY <1>1, <1>6 DEF Dept!DeleteFind
<1>7. ASSUME NEW h \in Handler,
             \/ Dept!UpdateCheck(h) \/ Dept!DeleteCheck(h)
             \/ Dept!SelectChildren(h) \/ Dept!SelectUsers(h)
      PROVE  DeptLevels'
  BY <1>1, <1>7 DEF Dept!UpdateCheck, Dept!DeleteCheck, Dept!SelectChildren, Dept!SelectUsers
<1>8. ASSUME NEW h \in Handler, Dept!DeleteCommit(h) PROVE DeptLevels'
  <2> DEFINE x == deptHandler[h].dept
  <2>1. depts' = depts \ {x} /\ moved' = moved \ {x}
    BY <1>8 DEF Dept!DeleteCommit
  <2>2. x \in Dept!Dept
    BY <1>8, DeptHandlerShape, DeptBounds DEF Dept!DeleteCommit
  <2>3. /\ parent'[x] = NoDept
        /\ \A c \in Dept!Dept : parent'[c] = NoDept \/ parent'[c] = parent[c]
        /\ \A c \in depts : parent'[c] # x
    <3>1. NoDept # x
      BY <2>2, DeptBounds
    <3>2. \A c \in Dept!Dept : parent'[c] =
            IF c \in Dept!Children(x) \cup deptHandler[h].children \cup {x} THEN NoDept ELSE parent[c]
      BY <1>8 DEF Dept!DeleteCommit
    <3>3. QED
      BY <2>2, <3>1, <3>2, DeptBounds DEF Dept!Children
  <2>4. Dept!ThirdLevelOnlyByMove'
    <3> SUFFICES ASSUME NEW c \in depts, c # x, parent'[c] # NoDept, parent'[parent'[c]] # NoDept
                 PROVE  {c, parent'[c]} \cap (moved \ {x}) # {}
      BY <2>1 DEF Dept!ThirdLevelOnlyByMove
    <3>1. c \in Dept!Dept /\ parent'[c] = parent[c] /\ parent[c] \in Dept!Dept /\ parent[c] # x
      BY <2>3, DeptBounds DEF Dept!TypeOK
    <3>2. parent[parent[c]] # NoDept
      BY <2>3, <3>1
    <3>3. QED
      BY <3>1, <3>2 DEF DeptLevels, Dept!ThirdLevelOnlyByMove
  <2>5. Dept!CreatesUnderTop'
    <3> SUFFICES ASSUME NEW g \in Handler, deptHandler'[g].at = "create",
                        deptHandler'[g].parent # NoDept,
                        parent'[deptHandler'[g].parent] # NoDept
                 PROVE  deptHandler'[g].parent \in moved \ {x}
      BY <2>1 DEF Dept!CreatesUnderTop
    <3>1. deptHandler'[g] = deptHandler[g]
      BY <1>8 DEF Dept!DeleteCommit, Dept!Goes, Dept!Idle, Dept!TypeOK
    <3>2. deptHandler[g].parent \in Dept!Dept /\ deptHandler[g].parent # x
      BY <2>3, <3>1, DeptHandlerShape, DeptBounds
    <3>3. QED
      BY <2>3, <3>1, <3>2 DEF DeptLevels, Dept!CreatesUnderTop
  <2>6. QED
    BY <2>4, <2>5 DEF DeptLevels
<1>9. ASSUME NEW h \in Handler, NEW u \in User, NEW d \in Dept!Dept, Dept!AssignCheck(h, u, d)
      PROVE  DeptLevels'
  BY <1>1, <1>9 DEF Dept!AssignCheck
<1>10. ASSUME NEW h \in Handler, Dept!AssignCommit(h) PROVE DeptLevels'
  <2>1. UNCHANGED <<depts, parent, moved>>
    BY <1>10 DEF Dept!AssignCommit
  <2>2. QED
    BY <1>10, <2>1, JoinedTyped, OtherStepKeepsLevels
<1>11. ASSUME NEW h \in Handler, Dept!Fail(h) PROVE DeptLevels'
  BY <1>1, <1>11 DEF Dept!Fail, Dept!Idle
<1>12. CASE UNCHANGED Dept!vars
  BY <1>12 DEF Dept!vars, DeptLevels, Dept!ThirdLevelOnlyByMove, Dept!CreatesUnderTop
<1>13. QED
  BY <1>2, <1>3, <1>4, <1>5, <1>6, <1>7, <1>8, <1>9, <1>10, <1>11, <1>12 DEF Dept!Next

\* Steps after which no department has a member it did not have, and no deletion
\* in flight is new or has forgotten a late joiner.
LEMMA OtherStepKeepsJoiners ==
    ASSUME Dept!ClearsLateJoiners,
           \A u \in User, d \in 1 .. created : member'[u] = d => member[u] = d,
           \A h \in Handler : deptHandler'[h].at \in Dept!Counted =>
             deptHandler'[h] = deptHandler[h] /\ deptHandler[h].dept \in 1 .. created
    PROVE  Dept!ClearsLateJoiners'
BY DEF Dept!ClearsLateJoiners, Dept!In, Dept!Counted

LEMMA DeptJoinersStep ==
    Dept!TypeOK /\ Dept!ClearsLateJoiners /\ [Dept!Next]_(Dept!vars) => Dept!ClearsLateJoiners'
<1> SUFFICES ASSUME Dept!TypeOK, Dept!ClearsLateJoiners, [Dept!Next]_(Dept!vars)
             PROVE  Dept!ClearsLateJoiners'
  OBVIOUS
<1>1. ASSUME NEW h \in Handler, NEW what, Dept!Goes(h, what), what.at \notin Dept!Counted,
             \A u \in User, d \in 1 .. created : member'[u] = d => member[u] = d
      PROVE  Dept!ClearsLateJoiners'
  <2>1. \A g \in Handler : deptHandler'[g] = IF g = h THEN what ELSE deptHandler[g]
    BY <1>1 DEF Dept!Goes, Dept!TypeOK
  <2>2. QED
    BY <1>1, <2>1, DeptHandlerShape, OtherStepKeepsJoiners DEF Dept!Counted
<1>2. ASSUME NEW h \in Handler, NEW p \in Dept!Dept \cup {NoDept}, Dept!CreateCheck(h, p)
      PROVE  Dept!ClearsLateJoiners'
  BY <1>1, <1>2 DEF Dept!CreateCheck, Dept!Counted
<1>3. ASSUME NEW h \in Handler,
             \/ Dept!CreateCommit(h) \/ Dept!UpdateCheck(h) \/ Dept!UpdateCommit(h) \/ Dept!Fail(h)
      PROVE  Dept!ClearsLateJoiners'
  BY <1>1, <1>3 DEF Dept!CreateCommit, Dept!UpdateCheck, Dept!UpdateCommit, Dept!Fail, Dept!Idle,
     Dept!Counted
<1>4. ASSUME NEW h \in Handler, NEW d \in Dept!Dept, NEW p \in Dept!Dept,
             Dept!UpdateFind(h, d, p) \/ Dept!DeleteFind(h, d)
      PROVE  Dept!ClearsLateJoiners'
  BY <1>1, <1>4 DEF Dept!UpdateFind, Dept!DeleteFind, Dept!Counted
<1>5. ASSUME NEW h \in Handler, Dept!DeleteCheck(h)
      PROVE  Dept!ClearsLateJoiners'
  <2> DEFINE d == deptHandler[h].dept
  <2>1. \A g \in Handler : deptHandler'[g] = IF g = h THEN [at |-> "delete", dept |-> d, joined |-> {}]
                                                      ELSE deptHandler[g]
    BY <1>5 DEF Dept!DeleteCheck, Dept!Goes, Dept!TypeOK
  <2>2. member' = member /\ Dept!In(d) = {}
    BY <1>5 DEF Dept!DeleteCheck
  <2>3. QED
    BY <2>1, <2>2 DEF Dept!ClearsLateJoiners, Dept!In
<1>12. ASSUME NEW h \in Handler, Dept!SelectChildren(h) PROVE Dept!ClearsLateJoiners'
  <2> DEFINE r == deptHandler[h]
  <2>1. r.at = "delete" /\ member' = member
    BY <1>12 DEF Dept!SelectChildren
  <2>2. /\ deptHandler'[h].at = "flushing"
        /\ deptHandler'[h].dept = r.dept /\ deptHandler'[h].joined = r.joined
        /\ \A g \in Handler : g # h => deptHandler'[g] = deptHandler[g]
    BY <1>12 DEF Dept!SelectChildren, Dept!Goes, Dept!TypeOK
  <2>3. QED
    BY <2>1, <2>2 DEF Dept!ClearsLateJoiners, Dept!In, Dept!Counted
<1>6. ASSUME NEW h \in Handler, Dept!SelectUsers(h) PROVE Dept!ClearsLateJoiners'
  <2> DEFINE r == deptHandler[h]
  <2>1. r.at = "flushing" /\ member' = member
    BY <1>6 DEF Dept!SelectUsers
  <2>2. /\ deptHandler'[h].dept = r.dept /\ deptHandler'[h].joined = r.joined
        /\ deptHandler'[h].users = Dept!In(r.dept)
        /\ \A g \in Handler : g # h => deptHandler'[g] = deptHandler[g]
    BY <1>6 DEF Dept!SelectUsers, Dept!Goes, Dept!TypeOK
  <2>3. QED
    BY <2>1, <2>2 DEF Dept!ClearsLateJoiners, Dept!In, Dept!Counted
<1>7. ASSUME NEW h \in Handler, Dept!DeleteCommit(h) PROVE Dept!ClearsLateJoiners'
  <2>1. \A u \in User : member'[u] = NoDept \/ member'[u] = member[u]
    BY <1>7 DEF Dept!DeleteCommit
  <2>2. \A u \in User, d \in 1 .. created : member'[u] = d => member[u] = d
    BY <2>1, DeptBounds
  <2>3. QED
    BY <1>1, <1>7, <2>2 DEF Dept!DeleteCommit, Dept!Idle, Dept!Counted
<1>8. ASSUME NEW h \in Handler, NEW u \in User, NEW d \in Dept!Dept, Dept!AssignCheck(h, u, d)
      PROVE  Dept!ClearsLateJoiners'
  BY <1>1, <1>8 DEF Dept!AssignCheck, Dept!Counted
<1>9. ASSUME NEW h \in Handler, Dept!AssignCommit(h) PROVE Dept!ClearsLateJoiners'
  <2>1. \A u \in User : member'[u] = IF u = deptHandler[h].user THEN deptHandler[h].dept ELSE member[u]
    BY <1>9 DEF Dept!AssignCommit, Dept!TypeOK
  <2>2. QED
    BY <1>9, <2>1, JoinedTyped DEF Dept!ClearsLateJoiners, Dept!In, Dept!Counted
<1>10. CASE UNCHANGED Dept!vars
  BY <1>10 DEF Dept!vars, Dept!ClearsLateJoiners, Dept!In
<1>11. QED
  BY <1>2, <1>3, <1>4, <1>5, <1>6, <1>7, <1>8, <1>9, <1>10, <1>12 DEF Dept!Next

LEMMA DeptInit == Dept!Init => Dept!IInv
<1> SUFFICES ASSUME Dept!Init PROVE Dept!IInv
  OBVIOUS
<1>1. Dept!TypeOK
  BY HandlersAssumption DEF Dept!Init, Dept!TypeOK, Dept!HandlerState, Dept!DepartmentsAssumption
<1>2. QED
  BY <1>1 DEF Dept!Init, Dept!IInv, Dept!ThirdLevelOnlyByMove, Dept!CreatesUnderTop,
     Dept!ClearsLateJoiners, Dept!Idle, Dept!Counted

\* The inductive invariant of the departments.
LEMMA DeptInvariant == Spec => []Dept!IInv
<1>1. Init => Dept!IInv
  BY DeptInit DEF Init
<1>2. Dept!IInv /\ [Next]_vars => Dept!IInv'
  BY PartsMove, DeptTypeStep, DeptLevelsStep, DeptJoinersStep DEF Dept!IInv, DeptLevels
<1>3. QED
  BY <1>1, <1>2, PTL DEF Spec

\* Below a second level there is always a department that a PATCH moved: creations,
\* however they interleave with moves and deletions, make two levels (departments.py:92-98).
THEOREM CreationKeepsTwoLevels == Spec => []ThirdLevelOnlyByMove
<1>1. Dept!IInv => ThirdLevelOnlyByMove
  BY DEF Dept!IInv, ThirdLevelOnlyByMove
<1>2. QED
  BY DeptInvariant, <1>1, PTL

\* A deletion takes no user's department away but from those who joined it after
\* its users were counted (departments.py:189-197).
THEOREM DeletionClearsLateJoiners == Spec => OnlyLateJoinersAreCleared
<1>1. ASSUME Dept!IInv, [Next]_vars
      PROVE  [\A u \in User : member[u] # NoDept /\ member'[u] = NoDept =>
                \E h \in Handler : deptHandler[h].at = "flushed"
                                     /\ u \in deptHandler[h].joined]_(Dept!vars)
  <2> SUFFICES ASSUME Dept!Next, NEW u \in User, member[u] # NoDept, member'[u] = NoDept
               PROVE  \E h \in Handler : deptHandler[h].at = "flushed" /\ u \in deptHandler[h].joined
    BY <1>1, PartsMove
  <2>1. ASSUME NEW h \in Handler, Dept!DeleteCommit(h)
        PROVE  deptHandler[h].at = "flushed" /\ u \in deptHandler[h].joined
    <3>1. u \in Dept!In(deptHandler[h].dept) \cup deptHandler[h].users
      BY <2>1 DEF Dept!DeleteCommit
    <3>2. QED
      BY <1>1, <2>1, <3>1 DEF Dept!DeleteCommit, Dept!IInv, Dept!ClearsLateJoiners, Dept!Counted
  <2>2. ASSUME NEW h \in Handler, Dept!AssignCommit(h) PROVE FALSE
    <3>1. deptHandler[h].dept \in depts /\ member' = [member EXCEPT ![deptHandler[h].user] = deptHandler[h].dept]
      BY <2>2 DEF Dept!AssignCommit
    <3>2. QED
      BY <1>1, <3>1, DeptBounds DEF Dept!IInv, Dept!TypeOK
  <2>3. QED
    BY <2>1, <2>2 DEF Dept!Next, Dept!CreateCheck, Dept!CreateCommit, Dept!UpdateFind,
       Dept!UpdateCheck, Dept!UpdateCommit, Dept!DeleteFind, Dept!DeleteCheck,
       Dept!SelectChildren, Dept!SelectUsers, Dept!AssignCheck, Dept!Fail
<1>2. QED
  BY DeptInvariant, <1>1, PTL DEF Spec, OnlyLateJoinersAreCleared, Dept!OnlyLateJoinersAreCleared

-----------------------------------------------------------------------------
(***************************************************************************)
(* OrgSettings.                                                            *)
(***************************************************************************)

\* What a merge makes of well-typed settings is well typed.
LEMMA MergeTyped ==
    ASSUME NEW old \in Org!Settings, NEW updates \in Updates
    PROVE  Org!Merge(old, updates) \in Org!Settings
<1>1. PICK K \in SUBSET Org!Key : old \in [K -> Org!Value]
  BY DEF Org!Settings
<1>2. DOMAIN updates \subseteq Org!Key /\ \A k \in DOMAIN updates : updates[k] \in Org!Value
  BY DEF Org!Key, Org!Value
<1>3. Org!Merge(old, updates) \in [K \cup DOMAIN updates -> Org!Value]
  BY <1>1, <1>2 DEF Org!Merge
<1>4. K \cup DOMAIN updates \in SUBSET Org!Key
  BY <1>1, <1>2
<1>5. QED
  BY <1>3, <1>4 DEF Org!Settings

LEMMA OrgHandlerShape ==
    ASSUME Org!TypeOK, NEW h \in Admin
    PROVE  /\ admin[h].at \in {"idle", "dashboard", "superadmin", "saved"}
           /\ admin[h] = Org!Idle <=> admin[h].at = "idle"
           /\ admin[h] # Org!Idle =>
                /\ admin[h].seen \in Org!Settings /\ admin[h].updates \in Updates
                /\ admin[h].by \in {"dashboard", "superadmin"} /\ admin[h].raced \in BOOLEAN
                /\ admin[h] = [at |-> admin[h].at, seen |-> admin[h].seen,
                     updates |-> admin[h].updates, by |-> admin[h].by, raced |-> admin[h].raced]
<1>1. admin[h] \in Org!HandlerState
  BY DEF Org!TypeOK
<1>2. QED
  BY <1>1 DEF Org!HandlerState, Org!Idle

LEMMA OrgLoadKeeps ==
    ASSUME Org!IInv, NEW h \in Admin, NEW who \in {"dashboard", "superadmin"},
           NEW updates \in Updates, Org!Load(h, who, updates)
    PROVE  Org!IInv'
<1>1. PICK r : r = [at |-> who, seen |-> column, updates |-> updates, by |-> who, raced |-> FALSE]
  OBVIOUS
<1>2. column' = column /\ admin' = [admin EXCEPT ![h] = r]
  BY <1>1 DEF Org!Load
<1>3. column \in Org!Settings /\ admin \in [Admin -> Org!HandlerState]
  BY DEF Org!IInv, Org!TypeOK
<1>4. r \in Org!HandlerState /\ r.at = who /\ r.by = who /\ r.seen = column
  BY <1>1, <1>3 DEF Org!HandlerState
<1>5. Org!TypeOK'
  BY <1>2, <1>3, <1>4 DEF Org!TypeOK
<1>6. \A g \in Admin : admin'[g] = IF g = h THEN r ELSE admin[g]
  BY <1>2, <1>3
<1>7. Org!LoadedIsStored'
  BY <1>2, <1>4, <1>6 DEF Org!IInv, Org!LoadedIsStored
<1>8. Org!SavedIsStored'
  BY <1>2, <1>4, <1>6 DEF Org!IInv, Org!SavedIsStored, Org!Saved
<1>9. QED
  BY <1>5, <1>7, <1>8 DEF Org!IInv

\* The commit of one handler; others that have loaded are overtaken if it writes.
LEMMA OrgCommitKeeps ==
    ASSUME Org!IInv, NEW h \in Admin, Org!Commit(h)
    PROVE  Org!IInv'
<1>1. PICK r : r = admin[h]
  OBVIOUS
<1>2. /\ r.at \in {"dashboard", "superadmin"} /\ r # Org!Idle
      /\ r.seen \in Org!Settings /\ r.updates \in Updates
      /\ r.by = r.at /\ r.by \in {"dashboard", "superadmin"} /\ r.raced \in BOOLEAN
      /\ r = [at |-> r.at, seen |-> r.seen, updates |-> r.updates, by |-> r.by, raced |-> r.raced]
      /\ ~ r.raced => column = r.seen
  BY <1>1, OrgHandlerShape DEF Org!Commit, Org!IInv, Org!LoadedIsStored
<1>3. PICK s : s = [r EXCEPT !.at = "saved"]
  OBVIOUS
<1>4. /\ s \in Org!HandlerState /\ s.at = "saved" /\ s.raced = r.raced
      /\ s.seen = r.seen /\ s.updates = r.updates /\ s.by = r.by
  BY <1>2, <1>3 DEF Org!HandlerState
<1>5. column' = IF Org!Writes(r) THEN Org!Merged(r) ELSE column
  BY <1>1 DEF Org!Commit
<1>6. /\ DOMAIN admin' = Admin /\ admin' = [g \in Admin |-> admin'[g]]
      /\ \A g \in Admin : admin'[g] =
           IF g = h THEN s
           ELSE IF admin[g] # Org!Idle /\ column' # column THEN [admin[g] EXCEPT !.raced = TRUE]
           ELSE admin[g]
  BY <1>1, <1>3 DEF Org!Commit
<1>7. ASSUME NEW g \in Admin, g # h
      PROVE  /\ admin'[g] \in Org!HandlerState
             /\ admin'[g].at = admin[g].at
             /\ admin[g].at # "idle" =>
                  /\ admin'[g].seen = admin[g].seen /\ admin'[g].updates = admin[g].updates
                  /\ admin'[g].by = admin[g].by
                  /\ ~ admin'[g].raced => ~ admin[g].raced /\ column' = column
  <2>1. CASE admin[g] # Org!Idle /\ column' # column
    <3>1. PICK q : q = admin[g]
      OBVIOUS
    <3>2. /\ q = [at |-> q.at, seen |-> q.seen, updates |-> q.updates, by |-> q.by, raced |-> q.raced]
          /\ q.at \in {"dashboard", "superadmin", "saved"}
          /\ q.seen \in Org!Settings /\ q.updates \in Updates /\ q.by \in {"dashboard", "superadmin"}
      BY <2>1, <3>1, OrgHandlerShape DEF Org!IInv
    <3>3. PICK n : n = [q EXCEPT !.raced = TRUE]
      OBVIOUS
    <3>4. /\ n \in Org!HandlerState /\ n.at = q.at /\ n.seen = q.seen /\ n.updates = q.updates
          /\ n.by = q.by /\ n.raced
      BY <3>2, <3>3 DEF Org!HandlerState
    <3>5. QED
      BY <1>6, <1>7, <2>1, <3>1, <3>3, <3>4
  <2>2. CASE ~ (admin[g] # Org!Idle /\ column' # column)
    <3>1. admin'[g] = admin[g] /\ admin[g] \in Org!HandlerState
      BY <1>6, <1>7, <2>2 DEF Org!IInv, Org!TypeOK
    <3>2. admin[g].at # "idle" => column' = column
      BY <2>2, OrgHandlerShape DEF Org!IInv
    <3>3. QED
      BY <3>1, <3>2
  <2>3. QED
    BY <2>1, <2>2
<1>8. column' \in Org!Settings
  BY <1>2, <1>5, MergeTyped DEF Org!Merged, Org!IInv, Org!TypeOK
<1>9. ASSUME NEW g \in Admin PROVE admin'[g] \in Org!HandlerState
  BY <1>4, <1>6, <1>7
<1>10. Org!TypeOK'
  BY <1>6, <1>8, <1>9 DEF Org!TypeOK
<1>11. Org!LoadedIsStored'
  <2> SUFFICES ASSUME NEW g \in Admin, admin'[g].at \in {"dashboard", "superadmin"}
               PROVE  admin'[g].by = admin'[g].at /\ (~ admin'[g].raced => column' = admin'[g].seen)
    BY DEF Org!LoadedIsStored
  <2>1. g # h
    BY <1>4, <1>6
  <2>2. QED
    BY <1>7, <2>1 DEF Org!IInv, Org!LoadedIsStored
<1>12. Org!SavedIsStored'
  <2> SUFFICES ASSUME NEW g \in Admin, admin'[g].at = "saved", ~ admin'[g].raced
               PROVE  column' = IF Org!Writes(admin'[g]) THEN Org!Merged(admin'[g]) ELSE admin'[g].seen
    BY DEF Org!SavedIsStored, Org!Saved
  <2>1. CASE g = h
    <3>1. admin'[g] = s
      BY <1>6, <2>1
    <3>2. Org!Merged(s) = Org!Merged(r) /\ (Org!Writes(s) <=> Org!Writes(r))
      BY <1>4 DEF Org!Merged, Org!Writes
    <3>3. column = s.seen
      BY <1>2, <1>4, <3>1
    <3>4. QED
      BY <1>5, <3>1, <3>2, <3>3
  <2>2. CASE g # h
    <3>1. /\ admin[g].at = "saved" /\ ~ admin[g].raced /\ column' = column
          /\ admin'[g].seen = admin[g].seen /\ admin'[g].updates = admin[g].updates
          /\ admin'[g].by = admin[g].by
      BY <1>7, <2>2
    <3>2. Org!Merged(admin'[g]) = Org!Merged(admin[g]) /\ (Org!Writes(admin'[g]) <=> Org!Writes(admin[g]))
      BY <3>1 DEF Org!Merged, Org!Writes
    <3>3. QED
      BY <3>1, <3>2 DEF Org!IInv, Org!SavedIsStored, Org!Saved
  <2>3. QED
    BY <2>1, <2>2
<1>13. QED
  BY <1>10, <1>11, <1>12 DEF Org!IInv

LEMMA OrgKept == Org!IInv /\ [Org!Next]_(Org!vars) => Org!IInv'
<1> SUFFICES ASSUME Org!IInv, [Org!Next]_(Org!vars) PROVE Org!IInv'
  OBVIOUS
<1>1. ASSUME NEW h \in Admin, NEW updates \in Updates,
             Org!LoadForDashboard(h, updates) \/ Org!LoadForSuperadmin(h, updates)
      PROVE  Org!IInv'
  BY <1>1, OrgLoadKeeps DEF Org!LoadForDashboard, Org!LoadForSuperadmin
<1>2. ASSUME NEW h \in Admin, Org!Commit(h) PROVE Org!IInv'
  BY <1>2, OrgCommitKeeps
<1>3. ASSUME NEW h \in Admin, Org!Answer(h) \/ Org!Fail(h) PROVE Org!IInv'
  <2>1. column' = column /\ admin' = [admin EXCEPT ![h] = Org!Idle]
    BY <1>3 DEF Org!Answer, Org!Fail
  <2>2. Org!Idle \in Org!HandlerState /\ Org!Idle.at = "idle"
    BY DEF Org!HandlerState, Org!Idle
  <2>3. \A g \in Admin : admin'[g] = IF g = h THEN Org!Idle ELSE admin[g]
    BY <2>1 DEF Org!IInv, Org!TypeOK
  <2>4. Org!TypeOK'
    BY <2>1, <2>2 DEF Org!IInv, Org!TypeOK
  <2>5. QED
    BY <2>1, <2>2, <2>3, <2>4 DEF Org!IInv, Org!LoadedIsStored, Org!SavedIsStored, Org!Saved
<1>4. CASE UNCHANGED Org!vars
  BY <1>4 DEF Org!vars, Org!IInv, Org!TypeOK, Org!LoadedIsStored, Org!SavedIsStored, Org!Saved
<1>5. QED
  BY <1>1, <1>2, <1>3, <1>4 DEF Org!Next

LEMMA OrgInit == Org!Init => Org!IInv
<1> SUFFICES ASSUME Org!Init PROVE Org!IInv
  OBVIOUS
<1>1. column \in [{} -> Org!Value] /\ {} \in SUBSET Org!Key
  BY DEF Org!Init, Org!NoneSet
<1>2. column \in Org!Settings
  BY <1>1 DEF Org!Settings
<1>3. QED
  BY <1>2 DEF Org!Init, Org!IInv, Org!TypeOK, Org!HandlerState, Org!LoadedIsStored,
     Org!SavedIsStored, Org!Saved, Org!Idle

\* The inductive invariant of the settings.
LEMMA OrgInvariant == Spec => []Org!IInv
<1>1. Init => Org!IInv
  BY OrgInit DEF Init
<1>2. Org!IInv /\ [Next]_vars => Org!IInv'
  BY PartsMove, OrgKept
<1>3. QED
  BY <1>1, <1>2, PTL DEF Spec

\* A merge changes the keys that were sent, and those only.
LEMMA MergeHasWhatWasSent ==
    ASSUME NEW old, NEW updates, NEW k \in DOMAIN updates
    PROVE  k \in DOMAIN Org!Merge(old, updates) /\ Org!Merge(old, updates)[k] = updates[k]
BY DEF Org!Merge

LEMMA MergeKeepsTheRest ==
    ASSUME NEW old, NEW updates, NEW new, new = Org!Merge(old, updates)
    PROVE  Org!Restrict(new, DOMAIN new \ DOMAIN updates)
             = Org!Restrict(old, DOMAIN old \ DOMAIN updates)
<1>1. DOMAIN Org!Merge(old, updates) \ DOMAIN updates = DOMAIN old \ DOMAIN updates
  BY DEF Org!Merge
<1>2. \A k \in DOMAIN old \ DOMAIN updates : Org!Merge(old, updates)[k] = old[k]
  BY DEF Org!Merge
<1>3. QED
  BY <1>1, <1>2 DEF Org!Merge, Org!Restrict

\* A save that no other overlaps leaves the keys it was not sent as they were, for
\* any settings and administrators; it stores those it was sent when a superadmin
\* sends them or nothing was stored before (dashboard.py:324-340, admin.py:156-159).
THEOREM SavesKeepOtherKeys == Spec => []UnracedSaves
<1>1. Org!IInv => UnracedSaves
  <2> SUFFICES ASSUME Org!IInv, NEW h \in Admin, Org!Saved(h)
               PROVE  /\ Org!Restrict(column, DOMAIN column \ DOMAIN admin[h].updates)
                           = Org!Restrict(admin[h].seen, DOMAIN admin[h].seen \ DOMAIN admin[h].updates)
                      /\ admin[h].by = "superadmin" \/ admin[h].seen = Org!NoneSet => Org!IsStored(h)
    BY DEF UnracedSaves, Org!UnracedSaves
  <2>1. column = IF Org!Writes(admin[h]) THEN Org!Merged(admin[h]) ELSE admin[h].seen
    BY DEF Org!IInv, Org!SavedIsStored
  <2>2. Org!Merged(admin[h]) = Org!Merge(admin[h].seen, admin[h].updates)
    BY DEF Org!Merged
  <2>3. Org!Restrict(column, DOMAIN column \ DOMAIN admin[h].updates)
          = Org!Restrict(admin[h].seen, DOMAIN admin[h].seen \ DOMAIN admin[h].updates)
    BY <2>1, <2>2, MergeKeepsTheRest
  <2>4. ASSUME admin[h].by = "superadmin" \/ admin[h].seen = Org!NoneSet PROVE Org!IsStored(h)
    <3>1. column = Org!Merged(admin[h])
      BY <2>1, <2>4 DEF Org!Writes
    <3>2. PICK e, u : e = admin[h].seen /\ u = admin[h].updates
      OBVIOUS
    <3>3. column = Org!Merge(e, u)
      BY <2>2, <3>1, <3>2
    <3>4. \A k \in DOMAIN u : k \in DOMAIN column /\ column[k] = u[k]
      BY <3>3, MergeHasWhatWasSent
    <3>5. QED
      BY <3>2, <3>4 DEF Org!IsStored
  <2>5. QED
    BY <2>3, <2>4
<1>2. QED
  BY OrgInvariant, <1>1, PTL
=============================================================================

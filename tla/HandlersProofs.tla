--------------------------- MODULE HandlersProofs ---------------------------
(***************************************************************************)
(* Proofs about DashboardClient, RateLimit, Recognition and TrainingData,  *)
(* in the system that Handlers composes, for any constants that its        *)
(* assumption admits, and with AccountsProofs the invariant of all parts.  *)
(***************************************************************************)
EXTENDS AccountsProofs, FiniteSetTheorems, WellFoundedInduction

\* One part moves and the others stay.
LEMMA OthersMove == [Next]_vars => [Client!Next]_(Client!vars)
BY DEF Next, ClientStep, ResetStep, DeptStep, RateStep, OrgStep, RecogStep, DataStep,
   vars, clientVars, Client!vars

LEMMA HandlerSets ==
    \A S : Client!Cardinality(S) = Cardinality(S) /\ (Client!IsFiniteSet(S) <=> IsFiniteSet(S))
BY DEF Client!Cardinality, Cardinality, Client!IsFiniteSet, IsFiniteSet

\* A set with two elements.
LEMMA TwoOrMore ==
    ASSUME NEW S, IsFiniteSet(S), NEW x \in S, NEW y \in S, x # y
    PROVE  Cardinality(S) >= 2
<1>1. IsFiniteSet({x}) /\ Cardinality({x}) = 1
  BY FS_Singleton
<1>a. y \notin {x}
  OBVIOUS
<1>2. IsFiniteSet({x} \cup {y}) /\ Cardinality({x} \cup {y}) = 1 + 1
  BY <1>1, <1>a, FS_AddElement, Zenon
<1>3. Cardinality({x} \cup {y}) <= Cardinality(S) /\ Cardinality(S) \in Nat
  BY FS_Subset, FS_CardinalityType
<1>4. QED
  BY <1>2, <1>3

-----------------------------------------------------------------------------
(***************************************************************************)
(* DashboardClient.                                                        *)
(***************************************************************************)

LEMMA NextPairIsFresh ==
    ASSUME Client!TypeOK, Client!Fresh # {}
    PROVE  Client!NextPair \in Client!Pair /\ ledger[Client!NextPair] = "absent"
<1> DEFINE Less == OpToRel(<, Nat)
<1>0. Client!Fresh \subseteq Nat
  BY DEF Client!Fresh, Client!Pair
<1>1. IsWellFoundedOn(Less, Nat)
  BY NatLessThanWellFounded
<1>2. \A x, y \in Client!Fresh : y < x => <<y, x>> \in Less
  BY <1>0 DEF OpToRel
<1> HIDE DEF Less
<1>3. PICK x \in Client!Fresh : \A y \in Client!Fresh : ~ (<<y, x>> \in Less)
  BY <1>0, <1>1, WFMin
<1>4. \A y \in Client!Fresh : ~ (y < x)
  BY <1>2, <1>3, Zenon
<1>5. \A y \in Client!Fresh : x <= y
  BY <1>0, <1>4
<1>6. Client!NextPair \in Client!Fresh
  BY <1>5 DEF Client!NextPair
<1>7. QED
  BY <1>6 DEF Client!Fresh

LEMMA ClientAssumed == MaxPairs \in Nat /\ MaxLoads \in Nat
BY HandlersAssumption DEF HandlersAssumption, Client!ClientAssumption

\* What the invariant says but for the types.
ClientHands ==
    /\ Client!HandedOnce /\ Client!UsedOnceMinted /\ Client!Presented /\ Client!SecondPresents
    /\ Client!AlarmTakesTwoPages /\ Client!StoredTokenIsCurrent

LEMMA ClientShape ==
    ASSUME Client!TypeOK, NEW t \in Tab
    PROVE  /\ refresh[t] # Client!None => refresh[t].pair \in Client!Pair
           /\ refresh[t].at = "none" <=> refresh[t] = Client!None
           /\ refresh[t].at = "granted" => refresh[t].new \in Client!Pair
           /\ refresh[t].at \in {"none", "sent", "granted", "refused"}
           /\ call[t]["login"].at = "ok" => call[t]["login"].new \in Client!Pair
           /\ loads[t] \in Nat
BY DEF Client!TypeOK, Client!None, Client!Granted

\* A step that mints, stores and presents no pair.
LEMMA ClientQuiet ==
    ASSUME Client!TypeOK, Client!TypeOK', ClientHands, presented' = presented,
           \A n \in Client!Pair : ledger'[n] = ledger[n] \/ (ledger[n] = "live" /\ ledger'[n] = "ended"),
           \A t \in Tab : call'[t]["login"].at = "ok" => call'[t]["login"] = call[t]["login"],
           stored' \in {stored, 0}, unanswered \subseteq unanswered',
           \A t \in Tab :
             \/ refresh'[t] = refresh[t] /\ loads'[t] = loads[t]
             \/ /\ refresh[t].at = "sent" /\ refresh'[t] = [refresh[t] EXCEPT !.at = "refused"]
                /\ loads'[t] = loads[t]
             \/ /\ refresh'[t] = Client!None
                /\ stored' = 0 \/ refresh[t] = Client!None \/ refresh[t].pair \in unanswered',
           \A n \in alarms' \ alarms :
             n \in Client!Pair /\ (Cardinality(presented[n]) >= 2 \/ n \in unanswered)
    PROVE  ClientHands'
<1> USE DEF ClientHands
<1>1. \A t \in Tab :
        /\ refresh'[t] # Client!None =>
             /\ refresh[t] # Client!None /\ refresh'[t].pair = refresh[t].pair /\ loads'[t] = loads[t]
        /\ refresh'[t].at = "sent" => refresh'[t] = refresh[t]
        /\ refresh'[t].at = "granted" => refresh'[t] = refresh[t]
  BY ClientShape DEF Client!None, Client!TypeOK
<1>2. \A n \in Client!Pair, t \in Tab :
        /\ Client!LoginHas(t, n)' => Client!LoginHas(t, n)
        /\ Client!RefreshHas(t, n)' => Client!RefreshHas(t, n)
  BY <1>1 DEF Client!LoginHas, Client!RefreshHas
<1>3. 0 \notin Client!Pair
  BY DEF Client!Pair
<1>4. Client!HandedOnce'
  BY <1>2, <1>3 DEF Client!HandedOnce
<1>5. Client!UsedOnceMinted'
  BY <1>3 DEF Client!UsedOnceMinted
<1>6. Client!Presented'
  BY <1>1 DEF Client!Presented, Client!Page
<1>7. Client!SecondPresents'
  BY <1>1, ClientShape DEF Client!SecondPresents, Client!None
<1>8. Client!AlarmTakesTwoPages'
  BY HandlerSets DEF Client!AlarmTakesTwoPages
<1>9. Client!StoredTokenIsCurrent'
  <2> SUFFICES ASSUME stored' # 0, ledger'[stored'] = "rotated", stored' \notin unanswered'
               PROVE  \E t \in Tab : refresh'[t] # Client!None /\ refresh'[t].pair = stored'
    BY DEF Client!StoredTokenIsCurrent
  <2>1. stored' = stored /\ stored \in Client!Pair /\ ledger[stored] = "rotated"
    BY DEF Client!TypeOK, Client!Pair
  <2>2. PICK t \in Tab : refresh[t] # Client!None /\ refresh[t].pair = stored
    BY <2>1 DEF Client!StoredTokenIsCurrent
  <2>3. refresh'[t] # Client!None /\ refresh'[t].pair = stored
    <3>1. refresh[t] # Client!None => refresh[t].at # "none"
      BY ClientShape
    <3>2. CASE refresh[t].at = "sent" /\ refresh'[t] = [refresh[t] EXCEPT !.at = "refused"]
      <4>1. refresh[t] \in [at : {"sent", "refused"}, pair : Client!Pair]
        BY <3>2 DEF Client!TypeOK, Client!None
      <4>2. refresh'[t].at = "refused" /\ refresh'[t].pair = refresh[t].pair
        BY <3>2, <4>1
      <4>3. QED
        BY <2>2, <4>2 DEF Client!None
    <3>3. CASE refresh'[t] = refresh[t]
      BY <2>2, <3>3
    <3>4. ~ (stored' = 0 \/ refresh[t] = Client!None \/ refresh[t].pair \in unanswered')
      BY <2>1, <2>2
    <3>5. QED
      BY <3>2, <3>3, <3>4
  <2>4. QED
    BY <2>1, <2>3
<1>10. QED
  BY <1>4, <1>5, <1>6, <1>7, <1>8, <1>9

\* A login or a rotation mints a pair, which is in the hand of that login or refresh.
LEMMA ClientMints ==
    ASSUME Client!TypeOK, Client!TypeOK', ClientHands, NEW n \in Client!Pair, ledger[n] = "absent",
           ledger'[n] = "live", stored' = stored, UNCHANGED <<presented, unanswered, alarms, loads>>,
           NEW t \in Tab,
           \A x \in Tab : x # t => refresh'[x] = refresh[x],
           \A x \in Tab : x # t => call'[x]["login"] = call[x]["login"],
           \/ /\ \A m \in Client!Pair \ {n} : ledger'[m] = ledger[m]
              /\ refresh' = refresh /\ call'[t]["login"] = [at |-> "ok", new |-> n]
           \/ /\ refresh[t].at = "sent" /\ call' = call
              /\ \A m \in Client!Pair \ {n} : ledger'[m] = IF m = refresh[t].pair THEN "rotated" ELSE ledger[m]
              /\ ledger[refresh[t].pair] = "live"
              /\ refresh'[t] = [at |-> "granted", pair |-> refresh[t].pair, new |-> n]
    PROVE  ClientHands'
<1> USE DEF ClientHands
<1>1. /\ stored # n /\ presented[n] = {} /\ 0 \notin Client!Pair
      /\ \A x \in Tab : ~ Client!LoginHas(x, n) /\ ~ Client!RefreshHas(x, n)
      /\ \A x \in Tab : refresh[x] # Client!None => refresh[x].pair # n
  <2>1. \A x \in Tab : refresh[x] # Client!None => Client!Page(x) \in presented[refresh[x].pair]
    BY DEF Client!Presented
  <2>2. QED
    BY <2>1 DEF Client!UsedOnceMinted, Client!HandedOnce, Client!Pair
<1>2. CASE refresh' = refresh /\ call'[t]["login"] = [at |-> "ok", new |-> n]
           /\ \A m \in Client!Pair \ {n} : ledger'[m] = ledger[m]
  <2>1. \A m \in Client!Pair, x \in Tab :
          /\ Client!LoginHas(x, m)' => Client!LoginHas(x, m) \/ (x = t /\ m = n)
          /\ Client!RefreshHas(x, m)' <=> Client!RefreshHas(x, m)
    BY <1>2 DEF Client!LoginHas, Client!RefreshHas
  <2>2. Client!HandedOnce'
    BY <1>1, <1>2, <2>1 DEF Client!HandedOnce
  <2>3. Client!UsedOnceMinted'
    BY <1>1, <1>2 DEF Client!UsedOnceMinted
  <2>4. Client!Presented'
    BY <1>2 DEF Client!Presented, Client!Page
  <2>5. Client!SecondPresents'
    BY <1>1, <1>2, ClientShape DEF Client!SecondPresents, Client!None
  <2>6. Client!AlarmTakesTwoPages'
    BY DEF Client!AlarmTakesTwoPages
  <2>7. Client!StoredTokenIsCurrent'
    BY <1>1, <1>2 DEF Client!StoredTokenIsCurrent, Client!TypeOK, Client!Pair
  <2>8. QED
    BY <2>2, <2>3, <2>4, <2>5, <2>6, <2>7
<1>3. CASE /\ refresh[t].at = "sent" /\ call' = call
           /\ \A m \in Client!Pair \ {n} : ledger'[m] = IF m = refresh[t].pair THEN "rotated" ELSE ledger[m]
           /\ ledger[refresh[t].pair] = "live"
           /\ refresh'[t] = [at |-> "granted", pair |-> refresh[t].pair, new |-> n]
  <2>0. refresh[t] # Client!None /\ refresh[t].pair \in Client!Pair /\ refresh[t].pair # n
        /\ Client!Page(t) \in presented[refresh[t].pair]
    BY <1>1, <1>3, ClientShape DEF Client!None, Client!Presented
  <2>1. \A m \in Client!Pair, x \in Tab :
          /\ Client!LoginHas(x, m)' <=> Client!LoginHas(x, m)
          /\ Client!RefreshHas(x, m)' => Client!RefreshHas(x, m) \/ (x = t /\ m = n)
    BY <1>3 DEF Client!LoginHas, Client!RefreshHas
  <2>2. Client!HandedOnce'
    BY <1>1, <1>3, <2>1 DEF Client!HandedOnce
  <2>3. Client!UsedOnceMinted'
    BY <1>1, <1>3, <2>0 DEF Client!UsedOnceMinted
  <2>4. Client!Presented'
    BY <1>3, <2>0 DEF Client!Presented, Client!Page
  <2>5. Client!SecondPresents'
    <3> SUFFICES ASSUME NEW x \in Tab, refresh'[x].at = "sent", ledger'[refresh'[x].pair] = "rotated"
                 PROVE  Client!Cardinality(presented[refresh'[x].pair]) >= 2
                        \/ refresh'[x].pair \in unanswered
      BY DEF Client!SecondPresents
    <3>1. x # t /\ refresh'[x] = refresh[x] /\ refresh[x] # Client!None
      BY <1>3 DEF Client!None
    <3>2. CASE refresh[x].pair = refresh[t].pair
      <4>1. Client!Page(x) \in presented[refresh[t].pair] /\ Client!Page(x) # Client!Page(t)
        BY <3>1, <3>2 DEF Client!Presented, Client!Page
      <4>2. IsFiniteSet(presented[refresh[t].pair])
        BY <2>0, HandlerSets DEF Client!Presented
      <4>3. Cardinality(presented[refresh[t].pair]) >= 2
        BY <2>0, <4>1, <4>2, TwoOrMore
      <4>4. QED
        BY <3>1, <3>2, <4>3, HandlerSets
    <3>3. CASE refresh[x].pair # refresh[t].pair
      <4>1. refresh[x].pair \in Client!Pair \ {n}
        BY <1>1, <3>1, ClientShape
      <4>2. ledger[refresh[x].pair] = "rotated"
        BY <1>3, <3>1, <3>3, <4>1
      <4>3. QED
        BY <3>1, <4>2 DEF Client!SecondPresents
    <3>4. QED
      BY <3>2, <3>3
  <2>6. Client!AlarmTakesTwoPages'
    BY DEF Client!AlarmTakesTwoPages
  <2>7. Client!StoredTokenIsCurrent'
    <3> SUFFICES ASSUME stored # 0, ledger'[stored] = "rotated", stored \notin unanswered
                 PROVE  \E x \in Tab : refresh'[x] # Client!None /\ refresh'[x].pair = stored
      BY DEF Client!StoredTokenIsCurrent
    <3>1. stored \in Client!Pair \ {n}
      BY <1>1 DEF Client!TypeOK, Client!Pair
    <3>2. CASE stored = refresh[t].pair
      BY <1>3, <3>2 DEF Client!None
    <3>3. CASE stored # refresh[t].pair
      <4>1. PICK x \in Tab : refresh[x] # Client!None /\ refresh[x].pair = stored
        BY <1>3, <3>1, <3>3 DEF Client!StoredTokenIsCurrent
      <4>2. x # t
        BY <3>3, <4>1
      <4>3. QED
        BY <4>1, <4>2
    <3>4. QED
      BY <3>2, <3>3
  <2>8. QED
    BY <2>2, <2>3, <2>4, <2>5, <2>6, <2>7
<1>4. QED
  BY <1>2, <1>3

\* A pair is stored: it leaves the hand it was in.
LEMMA ClientStores ==
    ASSUME Client!TypeOK, Client!TypeOK', ClientHands, NEW n \in Client!Pair, stored' = n,
           UNCHANGED <<ledger, presented, unanswered, alarms, loads>>, NEW t \in Tab,
           \A x \in Tab : x # t => refresh'[x] = refresh[x],
           \A x \in Tab : x # t => call'[x]["login"] = call[x]["login"],
           \/ /\ Client!LoginHas(t, n) /\ refresh' = refresh /\ call'[t]["login"] = Client!Idle
           \/ /\ Client!RefreshHas(t, n) /\ refresh'[t] = Client!None
              /\ call'[t]["login"] = call[t]["login"] \/ call'[t]["login"].at # "ok"
    PROVE  ClientHands'
<1> USE DEF ClientHands
<1>1. presented[n] = {} /\ ledger[n] # "absent" /\ 0 \notin Client!Pair
  BY DEF Client!HandedOnce, Client!Pair
<1>2. \A m \in Client!Pair, x \in Tab :
        /\ Client!LoginHas(x, m)' => Client!LoginHas(x, m)
        /\ Client!RefreshHas(x, m)' => Client!RefreshHas(x, m)
  BY DEF Client!LoginHas, Client!RefreshHas, Client!Idle, Client!None
<1>3. \A x \in Tab : ~ Client!LoginHas(x, n)' /\ ~ Client!RefreshHas(x, n)'
  BY DEF Client!LoginHas, Client!RefreshHas, Client!Idle, Client!None, Client!HandedOnce
<1>4. Client!HandedOnce'
  BY <1>2, <1>3 DEF Client!HandedOnce
<1>5. Client!UsedOnceMinted'
  BY <1>1 DEF Client!UsedOnceMinted
<1>6. Client!Presented'
  BY DEF Client!Presented, Client!Page
<1>7. Client!SecondPresents'
  <2>1. \A x \in Tab : refresh'[x] = refresh[x] \/ refresh'[x] = Client!None
    OBVIOUS
  <2>2. QED
    BY <2>1 DEF Client!SecondPresents, Client!None
<1>8. Client!AlarmTakesTwoPages'
  BY DEF Client!AlarmTakesTwoPages
<1>9. Client!StoredTokenIsCurrent'
  BY <1>1 DEF Client!StoredTokenIsCurrent, Client!UsedOnceMinted
<1>10. QED
  BY <1>4, <1>5, <1>6, <1>7, <1>8, <1>9

\* A page presents the stored pair, which it does not refresh already.
LEMMA ClientPresents ==
    ASSUME Client!TypeOK, Client!TypeOK', ClientHands, NEW t \in Tab, stored # 0,
           UNCHANGED <<ledger, stored, unanswered, alarms, loads>>, refresh[t] = Client!None,
           \A x \in Tab : x # t => refresh'[x] = refresh[x],
           refresh'[t] = [at |-> "sent", pair |-> stored],
           \A x \in Tab : call'[x]["login"].at = "ok" => call'[x]["login"] = call[x]["login"],
           presented' = [presented EXCEPT ![stored] = @ \cup {Client!Page(t)}]
    PROVE  ClientHands'
<1> USE DEF ClientHands
<1>1. /\ stored \in Client!Pair
      /\ \A n \in Client!Pair : presented[n] \subseteq presented'[n]
      /\ \A n \in Client!Pair : n # stored => presented'[n] = presented[n]
      /\ presented'[stored] = presented[stored] \cup {Client!Page(t)}
  BY DEF Client!TypeOK, Client!Pair
<1>2. \A m \in Client!Pair, x \in Tab :
        /\ Client!LoginHas(x, m)' => Client!LoginHas(x, m)
        /\ Client!RefreshHas(x, m)' => Client!RefreshHas(x, m)
  BY DEF Client!LoginHas, Client!RefreshHas
<1>3. Client!HandedOnce'
  BY <1>1, <1>2 DEF Client!HandedOnce
<1>4. Client!UsedOnceMinted'
  BY <1>1 DEF Client!UsedOnceMinted
<1>5. \A n \in Client!Pair : IsFiniteSet(presented[n]) /\ IsFiniteSet(presented'[n])
  <2>1. \A n \in Client!Pair : IsFiniteSet(presented[n])
    BY HandlerSets DEF Client!Presented
  <2>2. IsFiniteSet(presented'[stored])
    BY <1>1, <2>1, FS_AddElement
  <2>3. QED
    BY <1>1, <2>1, <2>2
<1>6. \A n \in Client!Pair : Client!Cardinality(presented[n]) >= 2 => Client!Cardinality(presented'[n]) >= 2
  <2> SUFFICES ASSUME NEW n \in Client!Pair, Cardinality(presented[n]) >= 2
               PROVE  Cardinality(presented'[n]) >= 2
    BY HandlerSets
  <2>1. Cardinality(presented[n]) <= Cardinality(presented'[n])
    BY <1>1, <1>5, FS_Subset
  <2>2. Cardinality(presented[n]) \in Nat /\ Cardinality(presented'[n]) \in Nat
    BY <1>5, FS_CardinalityType
  <2>3. QED
    BY <2>1, <2>2
<1>7. Client!Presented'
  <2>1. \A n \in Client!Pair : Client!IsFiniteSet(presented'[n])
    BY <1>5, HandlerSets
  <2>2. ASSUME NEW x \in Tab, refresh'[x] # Client!None PROVE Client!Page(x) \in presented'[refresh'[x].pair]
    <3>1. CASE x = t
      BY <1>1, <3>1
    <3>2. CASE x # t
      BY <1>1, <2>2, <3>2, ClientShape DEF Client!Presented
    <3>3. QED
      BY <3>1, <3>2
  <2>3. QED
    BY <2>1, <2>2 DEF Client!Presented, Client!Page
<1>8. Client!SecondPresents'
  <2> SUFFICES ASSUME NEW x \in Tab, refresh'[x].at = "sent", ledger[refresh'[x].pair] = "rotated",
                      refresh'[x].pair \notin unanswered
               PROVE  Client!Cardinality(presented'[refresh'[x].pair]) >= 2
    BY DEF Client!SecondPresents
  <2>1. CASE x = t
    <3>1. ledger[stored] = "rotated" /\ stored \notin unanswered /\ refresh'[x].pair = stored
      BY <2>1
    <3>2. PICK y \in Tab : refresh[y] # Client!None /\ refresh[y].pair = stored
      BY <3>1 DEF Client!StoredTokenIsCurrent
    <3>3. Client!Page(y) \in presented'[stored] /\ Client!Page(t) \in presented'[stored]
      BY <1>1, <3>2 DEF Client!Presented
    <3>4. Client!Page(y) # Client!Page(t)
      BY <3>2 DEF Client!Page
    <3>5. QED
      BY <1>1, <1>5, <3>1, <3>3, <3>4, TwoOrMore, HandlerSets, ZenonT(60)
  <2>2. CASE x # t
    <3>1. refresh'[x] = refresh[x] /\ refresh[x].pair \in Client!Pair
      BY <2>2, ClientShape DEF Client!None
    <3>2. QED
      BY <1>6, <3>1 DEF Client!SecondPresents
  <2>3. QED
    BY <2>1, <2>2
<1>9. Client!AlarmTakesTwoPages'
  BY <1>6 DEF Client!AlarmTakesTwoPages, Client!TypeOK
<1>10. Client!StoredTokenIsCurrent'
  <2> SUFFICES ASSUME ledger[stored] = "rotated", stored \notin unanswered
               PROVE  \E x \in Tab : refresh'[x] # Client!None /\ refresh'[x].pair = stored
    BY DEF Client!StoredTokenIsCurrent
  <2>1. refresh'[t] # Client!None /\ refresh'[t].pair = stored
    BY DEF Client!None
  <2>2. QED
    BY <2>1
<1>11. QED
  BY <1>3, <1>4, <1>7, <1>8, <1>9, <1>10

-----------------------------------------------------------------------------
(* The steps of the pages and of the server.                               *)

CallsTyped ==
    /\ call \in [Tab -> [Client!Kind -> Client!CallState]]
    /\ \A t \in Tab : call[t]["login"].at = "ok" => call[t]["login"] \in Client!Granted

LEMMA CallBecomes ==
    ASSUME Client!TypeOK, NEW t \in Tab, NEW k \in Client!Kind, NEW what \in Client!CallState,
           k = "login" /\ what.at = "ok" => what \in Client!Granted,
           call' = [call EXCEPT ![t][k] = what]
    PROVE  /\ CallsTyped'
           /\ \A x \in Tab : call'[x]["login"] = IF x = t /\ k = "login" THEN what
                                                                      ELSE call[x]["login"]
<1>1. "login" \in Client!Kind /\ call \in [Tab -> [Client!Kind -> Client!CallState]]
  BY DEF Client!TypeOK, Client!Kind
<1>2. call' \in [Tab -> [Client!Kind -> Client!CallState]]
  BY <1>1
<1>3. \A x \in Tab : call'[x]["login"] = IF x = t /\ k = "login" THEN what ELSE call[x]["login"]
  BY <1>1
<1>4. CallsTyped'
  BY <1>2, <1>3 DEF CallsTyped, Client!TypeOK, Client!CallState, Client!Granted, Client!Pair
<1>5. QED
  BY <1>3, <1>4

LEMMA TypeIs ==
    Client!TypeOK <=>
      /\ ledger \in [Client!Pair -> {"absent", "live", "rotated", "ended"}]
      /\ accepted \subseteq Client!Pair /\ alarms \subseteq Client!Pair
      /\ unanswered \subseteq Client!Pair
      /\ stored \in 0 .. MaxPairs
      /\ signedIn \subseteq Tab /\ event \subseteq Tab
      /\ CallsTyped
      /\ refresh \in [Tab -> {Client!None} \cup [at : {"sent", "refused"}, pair : Client!Pair]
                               \cup [at : {"granted"}, pair : Client!Pair, new : Client!Pair]]
      /\ loads \in [Tab -> Nat]
      /\ presented \in [Client!Pair -> SUBSET (Tab \X Nat)]
BY DEF Client!TypeOK, CallsTyped

LEMMA SimpleStates ==
    /\ \A s \in {"idle", "loading", "ok", "denied", "waiting", "again", "stopped"} :
         [at |-> s] \in Client!CallState
    /\ Client!Idle \in Client!CallState /\ Client!Loading \in Client!CallState
    /\ Client!Idle.at = "idle" /\ Client!Loading.at = "loading"
BY DEF Client!CallState, Client!Idle, Client!Loading

\* The server ends all pairs, or none.
LEMMA EndAllEnds ==
    ASSUME Client!TypeOK, Client!EndAll \/ UNCHANGED <<ledger, accepted>>
    PROVE  /\ ledger' \in [Client!Pair -> {"absent", "live", "rotated", "ended"}]
           /\ accepted' \subseteq Client!Pair
           /\ \A n \in Client!Pair :
                ledger'[n] = ledger[n] \/ (ledger[n] = "live" /\ ledger'[n] = "ended")
BY DEF Client!TypeOK, Client!EndAll

ClientGoesOn == Client!TypeOK' /\ ClientHands'

\* A call is answered, whatever it was.
LEMMA CallGoesOn ==
    ASSUME Client!TypeOK, ClientHands, NEW t \in Tab, NEW k \in Client!Kind,
           NEW what \in Client!CallState, what.at # "ok" \/ k # "login",
           call' = [call EXCEPT ![t][k] = what],
           Client!EndAll \/ UNCHANGED <<ledger, accepted>>,
           stored' \in {stored, 0}, signedIn' \subseteq Tab, event' \subseteq Tab,
           UNCHANGED <<alarms, refresh, loads, presented, unanswered>>
    PROVE  ClientGoesOn
<1>1. /\ CallsTyped'
      /\ \A x \in Tab : call'[x]["login"].at = "ok" => call'[x]["login"] = call[x]["login"]
  <2>1. k = "login" /\ what.at = "ok" => what \in Client!Granted
    OBVIOUS
  <2>2. call' = [call EXCEPT ![t][k] = what] /\ Client!TypeOK
    OBVIOUS
  <2>a. /\ CallsTyped'
        /\ \A x \in Tab : call'[x]["login"] = IF x = t /\ k = "login" THEN what
                                                                      ELSE call[x]["login"]
    BY ONLY <2>1, <2>2, CallBecomes, t \in Tab, k \in Client!Kind, what \in Client!CallState
  <2>3. QED
    BY <2>a
<1>2. stored' \in 0 .. MaxPairs
  BY ClientAssumed DEF Client!TypeOK
<1>3. Client!TypeOK'
  BY <1>1, <1>2, EndAllEnds, TypeIs DEF Client!TypeOK, CallsTyped
<1>4. ClientHands'
  BY <1>1, <1>3, EndAllEnds, ClientQuiet
<1>5. QED
  BY <1>3, <1>4 DEF ClientGoesOn

LEMMA AcceptGoesOn ==
    ASSUME Client!TypeOK, ClientHands, NEW t \in Tab, NEW k \in Client!Kind, Client!Accept(t, k),
           UNCHANGED <<alarms, stored, signedIn, refresh, event, loads, presented, unanswered>>
    PROVE  ClientGoesOn
<1>1. ASSUME k = "login", Client!Fresh # {}, NEW n, n = Client!NextPair,
             ledger' = Client!Minted(ledger, n), accepted' = accepted \cup {n},
             Client!Becomes(t, k, [at |-> "ok", new |-> n])
      PROVE  ClientGoesOn
  <2>1. n \in Client!Pair /\ ledger[n] = "absent"
    BY <1>1, NextPairIsFresh
  <2>2. [at |-> "ok", new |-> n] \in Client!CallState /\ [at |-> "ok", new |-> n] \in Client!Granted
    BY <2>1 DEF Client!CallState, Client!Granted
  <2>3. /\ CallsTyped'
        /\ \A x \in Tab : call'[x]["login"] = IF x = t THEN [at |-> "ok", new |-> n]
                                                       ELSE call[x]["login"]
    <3>1. call' = [call EXCEPT ![t][k] = [at |-> "ok", new |-> n]]
      BY <1>1 DEF Client!Becomes
    <3>2. /\ CallsTyped'
          /\ \A x \in Tab : call'[x]["login"] = IF x = t /\ k = "login" THEN [at |-> "ok", new |-> n]
                                                                        ELSE call[x]["login"]
      BY <2>2, <3>1, CallBecomes
    <3>3. QED
      BY <1>1, <3>2
  <2>4. /\ ledger' \in [Client!Pair -> {"absent", "live", "rotated", "ended"}] /\ ledger'[n] = "live"
        /\ \A m \in Client!Pair \ {n} : ledger'[m] = ledger[m]
        /\ accepted' \subseteq Client!Pair
    BY <1>1, <2>1 DEF Client!TypeOK, Client!Minted
  <2>5. Client!TypeOK'
    BY <2>3, <2>4 DEF Client!TypeOK, CallsTyped
  <2>6. ClientHands'
    BY <2>1, <2>3, <2>4, <2>5, ClientMints
  <2>7. QED
    BY <2>5, <2>6 DEF ClientGoesOn
<1>2. CASE k # "login"
  <2>1. PICK what \in {Client!Idle, [at |-> "ok"]} : call' = [call EXCEPT ![t][k] = what]
    BY <1>2 DEF Client!Accept, Client!Becomes
  <2>2. Client!EndAll \/ UNCHANGED <<ledger, accepted>>
    BY <1>2 DEF Client!Accept
  <2>3. what \in Client!CallState /\ signedIn' \subseteq Tab /\ event' \subseteq Tab
    BY SimpleStates DEF Client!TypeOK
  <2>4. QED
    BY <1>2, <2>1, <2>2, <2>3, CallGoesOn
<1>3. QED
  BY <1>1, <1>2 DEF Client!Accept

\* A call fails: it may clear the tokens.
LEMMA FailsGoesOn ==
    ASSUME Client!TypeOK, ClientHands, NEW t \in Tab, NEW k \in Client!Kind, NEW status,
           Client!Fails(t, k, status),
           UNCHANGED <<ledger, accepted, alarms, refresh, loads, presented, unanswered>>
    PROVE  ClientGoesOn
<1>1. call' = [call EXCEPT ![t][k] = Client!Idle]
  BY DEF Client!Fails
<1>2. stored' \in {stored, 0} /\ signedIn' \subseteq Tab /\ event' \subseteq Tab
  BY DEF Client!Fails, Client!Write, Client!TypeOK
<1>3. QED
  BY <1>1, <1>2, CallGoesOn, SimpleStates

LEMMA SendGoesOn ==
    ASSUME Client!TypeOK, ClientHands, NEW t \in Tab, NEW k \in Client!Kind,
           Client!Send(t, k) \/ Client!SendAgain(t, k) \/ Client!NetworkError(t, k)
    PROVE  ClientGoesOn
<1>1. CASE Client!Accept(t, k) /\ UNCHANGED <<alarms, stored, signedIn, refresh, event, loads,
                                               presented, unanswered>>
  BY <1>1, AcceptGoesOn
<1>2. CASE Client!Deny(t, k) /\ UNCHANGED <<alarms, stored, signedIn, refresh, event, loads,
                                             presented, unanswered>>
  <2>1. call' = [call EXCEPT ![t][k] = [at |-> "denied"]] /\ UNCHANGED <<ledger, accepted>>
        /\ signedIn' \subseteq Tab /\ event' \subseteq Tab
    BY <1>2 DEF Client!Deny, Client!Becomes, Client!TypeOK
  <2>2. QED
    BY <1>2, <2>1, CallGoesOn, SimpleStates
<1>3. ASSUME NEW status, Client!Fails(t, k, status),
             UNCHANGED <<ledger, accepted, alarms, refresh, loads, presented, unanswered>>
      PROVE  ClientGoesOn
  BY <1>3, FailsGoesOn
<1>4. QED
  BY <1>1, <1>2, <1>3 DEF Client!Send, Client!SendAgain, Client!NetworkError, Client!server

LEMMA ForbiddenGoesOn ==
    ASSUME Client!TypeOK, ClientHands, NEW t \in Tab, Client!Forbidden(t)
    PROVE  ClientGoesOn
<1>1. "me" \in Client!Kind
  BY DEF Client!Kind
<1>2. Client!Fails(t, "me", 403)
      /\ UNCHANGED <<ledger, accepted, alarms, refresh, loads, presented, unanswered>>
  BY DEF Client!Forbidden, Client!server
<1>3. QED
  BY <1>1, <1>2, FailsGoesOn

LEMMA DeniedGoesOn ==
    ASSUME Client!TypeOK, ClientHands, NEW t \in Tab, NEW k \in Client!Kind, Client!Denied(t, k)
    PROVE  ClientGoesOn
<1>1. UNCHANGED <<ledger, accepted, alarms, loads, unanswered>>
  BY DEF Client!Denied, Client!server
<1>2. CASE stored = 0
  <2>1. Client!Fails(t, k, 401) /\ UNCHANGED <<refresh, presented>>
    BY <1>2 DEF Client!Denied
  <2>2. QED
    BY <1>1, <2>1, FailsGoesOn
<1>3. CASE stored # 0
  <2>1. /\ call' = [call EXCEPT ![t][k] = [at |-> "waiting"]]
        /\ UNCHANGED <<stored, signedIn, event>>
    BY <1>3 DEF Client!Denied, Client!Becomes
  <2>2. CASE refresh[t] # Client!None
    <3>1. UNCHANGED <<refresh, presented>> /\ signedIn' \subseteq Tab /\ event' \subseteq Tab
      BY <1>3, <2>1, <2>2 DEF Client!Denied, Client!TypeOK
    <3>2. QED
      BY <1>1, <2>1, <3>1, CallGoesOn, SimpleStates
  <2>3. CASE refresh[t] = Client!None
    <3>1. /\ refresh' = [refresh EXCEPT ![t] = [at |-> "sent", pair |-> stored]]
          /\ presented' = [presented EXCEPT ![stored] = @ \cup {Client!Page(t)}]
      BY <1>3, <2>3 DEF Client!Denied
    <3>2. /\ CallsTyped'
          /\ \A x \in Tab : call'[x]["login"].at = "ok" => call'[x]["login"] = call[x]["login"]
      <4> DEFINE what == [at |-> "waiting"]
      <4>1. what \in Client!CallState /\ what.at = "waiting"
        BY SimpleStates
      <4>2. k = "login" /\ what.at = "ok" => what \in Client!Granted
        BY <4>1
      <4>3. call' = [call EXCEPT ![t][k] = what]
        BY <2>1
      <4> HIDE DEF what
      <4>4. /\ CallsTyped'
            /\ \A x \in Tab : call'[x]["login"] = IF x = t /\ k = "login" THEN what
                                                                          ELSE call[x]["login"]
        BY <4>1, <4>2, <4>3, CallBecomes, ZenonT(60)
      <4>5. QED
        BY <4>1, <4>4
    <3>3. stored \in Client!Pair /\ Client!Page(t) \in Tab \X Nat
      BY <1>3 DEF Client!TypeOK, Client!Pair, Client!Page
    <3>4. presented' \in [Client!Pair -> SUBSET (Tab \X Nat)]
      BY <3>1, <3>3 DEF Client!TypeOK
    <3>5. refresh' \in [Tab -> {Client!None} \cup [at : {"sent", "refused"}, pair : Client!Pair]
                                 \cup [at : {"granted"}, pair : Client!Pair, new : Client!Pair]]
      BY <3>1, <3>3 DEF Client!TypeOK
    <3>6. Client!TypeOK'
      BY <1>1, <2>1, <3>2, <3>4, <3>5 DEF Client!TypeOK, CallsTyped
    <3>7. /\ refresh'[t] = [at |-> "sent", pair |-> stored]
          /\ \A x \in Tab : x # t => refresh'[x] = refresh[x]
      BY <3>1 DEF Client!TypeOK
    <3>8. ClientHands'
      BY <1>1, <1>3, <2>1, <2>3, <3>1, <3>2, <3>6, <3>7, ClientPresents
    <3>9. QED
      BY <3>6, <3>8 DEF ClientGoesOn
  <2>4. QED
    BY <2>2, <2>3
<1>4. QED
  BY <1>2, <1>3

LEMMA OkGoesOn ==
    ASSUME Client!TypeOK, ClientHands, NEW t \in Tab, NEW k \in Client!Kind, Client!Ok(t, k)
    PROVE  ClientGoesOn
<1>1. /\ call' = [call EXCEPT ![t][k] = Client!Idle]
      /\ UNCHANGED <<ledger, accepted, alarms, refresh, loads, presented, unanswered>>
      /\ call[t][k].at = "ok"
  BY DEF Client!Ok, Client!Becomes, Client!server
<1>2. CASE k # "login"
  <2>1. stored' \in {stored, 0} /\ signedIn' \subseteq Tab /\ event' \subseteq Tab
    BY <1>2 DEF Client!Ok, Client!Write, Client!TypeOK, Client!Kind
  <2>2. QED
    BY <1>1, <2>1, CallGoesOn, SimpleStates
<1>3. CASE k = "login"
  <2>1. PICK n \in Client!Pair : Client!LoginHas(t, n)
    BY <1>1, <1>3, ClientShape DEF Client!LoginHas
  <2>2. stored' = n /\ signedIn' \subseteq Tab /\ event' \subseteq Tab
    BY <1>3, <2>1 DEF Client!Ok, Client!Write, Client!TypeOK, Client!LoginHas
  <2>3. /\ CallsTyped' /\ call'[t]["login"] = Client!Idle
        /\ \A x \in Tab : x # t => call'[x]["login"] = call[x]["login"]
    <3>1. /\ Client!Idle \in Client!CallState
          /\ k = "login" /\ Client!Idle.at = "ok" => Client!Idle \in Client!Granted
      BY SimpleStates
    <3>2. /\ CallsTyped'
          /\ \A x \in Tab : call'[x]["login"] = IF x = t /\ k = "login" THEN Client!Idle
                                                                        ELSE call[x]["login"]
      BY <1>1, <3>1, CallBecomes, ZenonT(60)
    <3>3. QED
      BY <1>3, <3>2
  <2>4. stored' \in 0 .. MaxPairs
    BY <2>2 DEF Client!Pair
  <2>5. Client!TypeOK'
    BY <1>1, <2>2, <2>3, <2>4 DEF Client!TypeOK, CallsTyped
  <2>6. ClientHands'
    BY <1>1, <2>1, <2>2, <2>3, <2>5, ClientStores
  <2>7. QED
    BY <2>5, <2>6 DEF ClientGoesOn
<1>4. QED
  BY <1>2, <1>3

LEMMA ServeRefreshGoesOn ==
    ASSUME Client!TypeOK, ClientHands, NEW t \in Tab, Client!ServeRefresh(t)
    PROVE  ClientGoesOn
<1>1. /\ refresh[t].at = "sent" /\ refresh[t].pair \in Client!Pair
      /\ UNCHANGED <<stored, signedIn, call, event, loads, presented, unanswered>>
      /\ refresh[t] \in [at : {"sent", "refused"}, pair : Client!Pair]
  BY ClientShape DEF Client!ServeRefresh, Client!None, Client!TypeOK
<1>2. CASE ledger[refresh[t].pair] = "live"
  <2>1. PICK n : n = Client!NextPair
    OBVIOUS
  <2>2. /\ Client!Fresh # {} /\ accepted' = accepted \cup {n} /\ UNCHANGED alarms
        /\ ledger' = Client!Minted([ledger EXCEPT ![refresh[t].pair] = "rotated"], n)
        /\ refresh' = [refresh EXCEPT ![t] = [at |-> "granted", pair |-> refresh[t].pair, new |-> n]]
    BY <1>2, <2>1 DEF Client!ServeRefresh
  <2>3. n \in Client!Pair /\ ledger[n] = "absent"
    BY <2>1, <2>2, NextPairIsFresh
  <2>4. /\ ledger' \in [Client!Pair -> {"absent", "live", "rotated", "ended"}] /\ ledger'[n] = "live"
        /\ \A m \in Client!Pair \ {n} :
             ledger'[m] = IF m = refresh[t].pair THEN "rotated" ELSE ledger[m]
        /\ accepted' \subseteq Client!Pair
    BY <1>1, <2>2, <2>3 DEF Client!TypeOK, Client!Minted
  <2>5. /\ refresh'[t] = [at |-> "granted", pair |-> refresh[t].pair, new |-> n]
        /\ \A x \in Tab : x # t => refresh'[x] = refresh[x]
        /\ refresh' \in [Tab -> {Client!None} \cup [at : {"sent", "refused"}, pair : Client!Pair]
                                  \cup [at : {"granted"}, pair : Client!Pair, new : Client!Pair]]
    BY <1>1, <2>2, <2>3 DEF Client!TypeOK
  <2>6. Client!TypeOK'
    BY <1>1, <2>2, <2>4, <2>5 DEF Client!TypeOK
  <2>7. ClientHands'
    BY <1>1, <1>2, <2>2, <2>3, <2>4, <2>5, <2>6, ClientMints, ZenonT(60)
  <2>8. QED
    BY <2>6, <2>7 DEF ClientGoesOn
<1>3. CASE ledger[refresh[t].pair] # "live"
  <2>1. /\ Client!EndAll /\ refresh' = [refresh EXCEPT ![t].at = "refused"]
        /\ alarms' = IF ledger[refresh[t].pair] = "rotated" THEN alarms \cup {refresh[t].pair} ELSE alarms
    BY <1>3 DEF Client!ServeRefresh
  <2>2. /\ refresh'[t] = [refresh[t] EXCEPT !.at = "refused"]
        /\ \A x \in Tab : x # t => refresh'[x] = refresh[x]
    BY <2>1 DEF Client!TypeOK
  <2>3. refresh' \in [Tab -> {Client!None} \cup [at : {"sent", "refused"}, pair : Client!Pair]
                               \cup [at : {"granted"}, pair : Client!Pair, new : Client!Pair]]
    <3>1. [refresh[t] EXCEPT !.at = "refused"] \in [at : {"sent", "refused"}, pair : Client!Pair]
      BY <1>1
    <3>2. refresh' = [refresh EXCEPT ![t] = [refresh[t] EXCEPT !.at = "refused"]]
      BY <2>1 DEF Client!TypeOK
    <3>3. QED
      BY <3>1, <3>2 DEF Client!TypeOK
  <2>4. Client!TypeOK'
    BY <1>1, <2>1, <2>3, EndAllEnds DEF Client!TypeOK
  <2>5. \A n \in alarms' \ alarms :
          n \in Client!Pair /\ (Cardinality(presented[n]) >= 2 \/ n \in unanswered)
    BY <1>1, <2>1, HandlerSets DEF ClientHands, Client!SecondPresents
  <2>6. ClientHands'
    BY <1>1, <2>1, <2>2, <2>4, <2>5, EndAllEnds, ClientQuiet
  <2>7. QED
    BY <2>4, <2>6 DEF ClientGoesOn
<1>4. QED
  BY <1>2, <1>3

\* The calls of one page become others, none of them a login that is answered.
LEMMA CallsReplaced ==
    ASSUME Client!TypeOK, NEW t \in Tab,
           NEW calls \in [Client!Kind -> Client!CallState], call' = [call EXCEPT ![t] = calls],
           calls["login"].at = "ok" => calls["login"] = call[t]["login"]
    PROVE  /\ CallsTyped'
           /\ \A x \in Tab : call'[x]["login"] = IF x = t THEN calls["login"] ELSE call[x]["login"]
           /\ \A x \in Tab : call'[x]["login"].at = "ok" => call'[x]["login"] = call[x]["login"]
<1>1. call \in [Tab -> [Client!Kind -> Client!CallState]]
  BY DEF Client!TypeOK
<1>2. /\ call' \in [Tab -> [Client!Kind -> Client!CallState]] /\ call'[t] = calls
      /\ \A x \in Tab : x # t => call'[x] = call[x]
  BY <1>1
<1>3. QED
  BY <1>2 DEF CallsTyped, Client!TypeOK

\* A refresh fails: the calls that waited for it are over.
LEMMA SessionExpiredGoesOn ==
    ASSUME Client!TypeOK, ClientHands, NEW t \in Tab, NEW clear \in BOOLEAN,
           refresh[t] # Client!None, Client!SessionExpired(t, clear)
    PROVE  ClientGoesOn
<1> DEFINE calls == [k \in Client!Kind |-> IF call[t][k].at \in {"waiting", "stopped"}
                                             THEN Client!Idle ELSE call[t][k]]
<1>1. /\ refresh' = [refresh EXCEPT ![t] = Client!None]
      /\ UNCHANGED <<ledger, accepted, alarms, loads, presented>>
  BY DEF Client!SessionExpired, Client!server
<1>2. call \in [Tab -> [Client!Kind -> Client!CallState]] /\ "login" \in Client!Kind
  BY DEF Client!TypeOK, Client!Kind
<1>3. call' = [call EXCEPT ![t] = calls]
  BY <1>2 DEF Client!SessionExpired
<1>4. /\ calls \in [Client!Kind -> Client!CallState]
      /\ calls["login"].at = "ok" => calls["login"] = call[t]["login"]
  BY <1>2, SimpleStates
<1> HIDE DEF calls
<1>5. /\ CallsTyped'
      /\ \A x \in Tab : call'[x]["login"].at = "ok" => call'[x]["login"] = call[x]["login"]
  BY <1>3, <1>4, CallsReplaced
<1>6. refresh[t].pair \in Client!Pair
  BY ClientShape
<1>7. /\ stored' \in {stored, 0} /\ event' \subseteq Tab /\ signedIn' \subseteq Tab
      /\ unanswered \subseteq unanswered' /\ unanswered' \subseteq Client!Pair
      /\ stored' = 0 \/ refresh[t].pair \in unanswered'
  BY <1>6 DEF Client!SessionExpired, Client!Write, Client!TypeOK
<1>8. /\ refresh' \in [Tab -> {Client!None} \cup [at : {"sent", "refused"}, pair : Client!Pair]
                                \cup [at : {"granted"}, pair : Client!Pair, new : Client!Pair]]
      /\ refresh'[t] = Client!None /\ \A x \in Tab : x # t => refresh'[x] = refresh[x]
  BY <1>1 DEF Client!TypeOK
<1>9. stored' \in 0 .. MaxPairs
  BY <1>7, ClientAssumed DEF Client!TypeOK
<1>10. Client!TypeOK'
  BY <1>1, <1>5, <1>7, <1>8, <1>9 DEF Client!TypeOK, CallsTyped
<1>11. ClientHands'
  BY <1>1, <1>5, <1>7, <1>8, <1>10, ClientQuiet
<1>12. QED
  BY <1>10, <1>11 DEF ClientGoesOn

LEMMA RefreshGrantedGoesOn ==
    ASSUME Client!TypeOK, ClientHands, NEW t \in Tab, Client!RefreshGranted(t)
    PROVE  ClientGoesOn
<1> DEFINE calls == [k \in Client!Kind |-> IF k \in Client!Waiting(t) THEN [at |-> "again"]
                       ELSE IF call[t][k].at = "stopped" THEN Client!Idle ELSE call[t][k]]
<1>1. /\ refresh' = [refresh EXCEPT ![t] = Client!None]
      /\ UNCHANGED <<ledger, accepted, alarms, loads, presented, unanswered>>
      /\ signedIn' \subseteq Tab /\ event' \subseteq Tab
  BY DEF Client!RefreshGranted, Client!server, Client!Write, Client!TypeOK
<1>2. call \in [Tab -> [Client!Kind -> Client!CallState]] /\ "login" \in Client!Kind
  BY DEF Client!TypeOK, Client!Kind
<1>3. call' = [call EXCEPT ![t] = calls]
  BY <1>2 DEF Client!RefreshGranted
<1>4. /\ calls \in [Client!Kind -> Client!CallState]
      /\ calls["login"].at = "ok" => calls["login"] = call[t]["login"]
  BY <1>2, SimpleStates
<1> HIDE DEF calls
<1>5. /\ CallsTyped'
      /\ \A x \in Tab : call'[x]["login"].at = "ok" => call'[x]["login"] = call[x]["login"]
      /\ \A x \in Tab : call'[x]["login"] = IF x = t THEN calls["login"] ELSE call[x]["login"]
  BY <1>3, <1>4, CallsReplaced
<1>6. PICK n \in Client!Pair : Client!RefreshHas(t, n) /\ stored' = n
  BY ClientShape DEF Client!RefreshGranted, Client!Write, Client!RefreshHas
<1>7. /\ refresh' \in [Tab -> {Client!None} \cup [at : {"sent", "refused"}, pair : Client!Pair]
                                \cup [at : {"granted"}, pair : Client!Pair, new : Client!Pair]]
      /\ refresh'[t] = Client!None /\ \A x \in Tab : x # t => refresh'[x] = refresh[x]
  BY <1>1 DEF Client!TypeOK
<1>8. stored' \in 0 .. MaxPairs
  BY <1>6 DEF Client!Pair
<1>9. Client!TypeOK'
  BY <1>1, <1>5, <1>7, <1>8 DEF Client!TypeOK, CallsTyped
<1>10. call'[t]["login"] = call[t]["login"] \/ call'[t]["login"].at # "ok"
  BY <1>5
<1>11. \A x \in Tab : x # t => call'[x]["login"] = call[x]["login"]
  BY <1>5
<1>12. ClientHands'
  BY <1>1, <1>6, <1>7, <1>9, <1>10, <1>11, ClientStores
<1>13. QED
  BY <1>9, <1>12 DEF ClientGoesOn

LEMMA LoadGoesOn ==
    ASSUME Client!TypeOK, ClientHands, NEW t \in Tab, Client!Load(t)
    PROVE  ClientGoesOn
<1> DEFINE calls == [k \in Client!Kind |-> IF k = "me" /\ stored # 0 THEN Client!Loading ELSE Client!Idle]
<1>1. /\ refresh' = [refresh EXCEPT ![t] = Client!None] /\ loads' = [loads EXCEPT ![t] = @ + 1]
      /\ UNCHANGED <<ledger, accepted, alarms, stored, presented>>
      /\ signedIn' \subseteq Tab /\ event' \subseteq Tab
      /\ unanswered' = IF refresh[t] = Client!None THEN unanswered ELSE unanswered \cup {refresh[t].pair}
  BY DEF Client!Load, Client!server, Client!TypeOK
<1>2. call' = [call EXCEPT ![t] = calls]
  BY DEF Client!Load
<1>3. /\ calls \in [Client!Kind -> Client!CallState]
      /\ calls["login"].at = "ok" => calls["login"] = call[t]["login"]
  BY SimpleStates DEF Client!Kind
<1> HIDE DEF calls
<1>4. /\ CallsTyped'
      /\ \A x \in Tab : call'[x]["login"].at = "ok" => call'[x]["login"] = call[x]["login"]
  BY <1>2, <1>3, CallsReplaced
<1>5. /\ unanswered \subseteq unanswered' /\ unanswered' \subseteq Client!Pair
      /\ refresh[t] = Client!None \/ refresh[t].pair \in unanswered'
  BY <1>1, ClientShape DEF Client!TypeOK
<1>6. /\ refresh' \in [Tab -> {Client!None} \cup [at : {"sent", "refused"}, pair : Client!Pair]
                                \cup [at : {"granted"}, pair : Client!Pair, new : Client!Pair]]
      /\ refresh'[t] = Client!None /\ \A x \in Tab : x # t => refresh'[x] = refresh[x]
  BY <1>1 DEF Client!TypeOK
<1>7. loads' \in [Tab -> Nat] /\ \A x \in Tab : x # t => loads'[x] = loads[x]
  BY <1>1 DEF Client!TypeOK
<1>8. Client!TypeOK'
  BY <1>1, <1>4, <1>5, <1>6, <1>7 DEF Client!TypeOK, CallsTyped
<1>9. ClientHands'
  BY <1>1, <1>4, <1>5, <1>6, <1>7, <1>8, ClientQuiet
<1>10. QED
  BY <1>8, <1>9 DEF ClientGoesOn

LEMMA TabGoesOn ==
    ASSUME Client!TypeOK, ClientHands, NEW t \in Tab, Client!StorageEvent(t) \/ Client!StopStream(t)
    PROVE  ClientGoesOn
<1>1. CASE Client!StopStream(t)
  <2>1. PICK what \in {[at |-> "stopped"], Client!Idle} : call' = [call EXCEPT ![t]["stream"] = what]
    BY <1>1 DEF Client!StopStream, Client!Becomes
  <2>2. /\ UNCHANGED <<ledger, accepted, stored, alarms, refresh, loads, presented, unanswered>>
        /\ signedIn' \subseteq Tab /\ event' \subseteq Tab
    BY <1>1 DEF Client!StopStream, Client!server, Client!TypeOK
  <2>3. what \in Client!CallState /\ "stream" \in Client!Kind
    BY SimpleStates DEF Client!Kind
  <2>4. QED
    BY <2>1, <2>2, <2>3, CallGoesOn
<1>2. CASE Client!StorageEvent(t)
  <2>1. /\ UNCHANGED <<ledger, accepted, alarms, stored, call, refresh, loads, presented, unanswered>>
        /\ signedIn' \subseteq Tab /\ event' \subseteq Tab
    BY <1>2 DEF Client!StorageEvent, Client!server, Client!TypeOK
  <2>2. Client!TypeOK'
    BY <2>1 DEF Client!TypeOK
  <2>3. ClientHands'
    BY <2>1, <2>2, ClientQuiet
  <2>4. QED
    BY <2>2, <2>3 DEF ClientGoesOn
<1>3. QED
  BY <1>1, <1>2

LEMMA ClientIs == Client!IInv <=> Client!TypeOK /\ ClientHands
BY DEF Client!IInv, ClientHands

LEMMA ClientStepGoesOn ==
    ASSUME Client!TypeOK, ClientHands, [Client!Next]_(Client!vars)
    PROVE  ClientGoesOn
<1>1. CASE UNCHANGED Client!vars
  <2>1. Client!TypeOK'
    BY <1>1 DEF Client!TypeOK, Client!vars
  <2>2. ClientHands'
    BY <1>1, <2>1, ClientQuiet DEF Client!vars
  <2>3. QED
    BY <2>1, <2>2 DEF ClientGoesOn
<1>2. ASSUME NEW t \in Tab, Client!RefreshRefused(t) \/ Client!RefreshLost(t) PROVE ClientGoesOn
  <2>1. ASSUME Client!RefreshRefused(t) PROVE ClientGoesOn
    <3>1. refresh[t] # Client!None
      BY <2>1 DEF Client!RefreshRefused, Client!None
    <3>2. QED
      BY <2>1, <3>1, SessionExpiredGoesOn DEF Client!RefreshRefused
  <2>2. ASSUME Client!RefreshLost(t) PROVE ClientGoesOn
    BY <2>2, SessionExpiredGoesOn DEF Client!RefreshLost
  <2>3. QED
    BY <1>2, <2>1, <2>2
<1>3. QED
  BY <1>1, <1>2, ServeRefreshGoesOn, RefreshGrantedGoesOn, LoadGoesOn, TabGoesOn, SendGoesOn,
     DeniedGoesOn, ForbiddenGoesOn, OkGoesOn DEF Client!Next

LEMMA ClientInit == Client!Init => Client!TypeOK /\ ClientHands
<1> SUFFICES ASSUME Client!Init PROVE Client!TypeOK /\ ClientHands
  OBVIOUS
<1>1. Client!TypeOK
  BY ClientAssumed, SimpleStates DEF Client!Init, Client!TypeOK, Client!Kind
<1>2. \A n \in Client!Pair : n # 0 /\ IsFiniteSet({})
  BY FS_EmptySet DEF Client!Pair
<1>3. \A t \in Tab : call[t]["login"].at = "idle" /\ refresh[t] = Client!None
  BY SimpleStates DEF Client!Init, Client!Kind
<1>4. \A n \in Client!Pair, t \in Tab : ~ Client!LoginHas(t, n) /\ ~ Client!RefreshHas(t, n)
  BY <1>3 DEF Client!LoginHas, Client!RefreshHas, Client!None
<1>5. Client!HandedOnce /\ Client!UsedOnceMinted
  BY <1>2, <1>4 DEF Client!Init, Client!HandedOnce, Client!UsedOnceMinted
<1>6. Client!Presented /\ Client!SecondPresents
  BY <1>2, <1>3, HandlerSets DEF Client!Init, Client!Presented, Client!SecondPresents, Client!None
<1>7. Client!AlarmTakesTwoPages /\ Client!StoredTokenIsCurrent
  BY DEF Client!Init, Client!AlarmTakesTwoPages, Client!StoredTokenIsCurrent
<1>8. QED
  BY <1>1, <1>5, <1>6, <1>7 DEF ClientHands

\* The inductive invariant of the dashboard client.
LEMMA ClientInvariant == Spec => []Client!IInv
<1>1. Init => Client!IInv
  BY ClientInit, ClientIs DEF Init
<1>2. Client!IInv /\ [Next]_vars => Client!IInv'
  <2> SUFFICES ASSUME Client!IInv, [Next]_vars PROVE Client!IInv'
    OBVIOUS
  <2>1. Client!TypeOK' /\ ClientHands'
    BY ClientIs, OthersMove, ClientStepGoesOn DEF ClientGoesOn
  <2>2. QED
    BY <2>1, ClientIs, PTL
<1>3. QED
  BY <1>1, <1>2, PTL DEF Spec

\* The server takes a rotated token for a stolen one only when two pages presented it,
\* or the page that did was left without taking the answer: for any tabs, calls and
\* token pairs, whatever calls of a page fail at once (client.ts:88-171).
THEOREM OnePageRaisesNoAlarm == Spec => []AlarmTakesTwoPages
<1>1. Client!IInv => AlarmTakesTwoPages
  BY DEF Client!IInv, AlarmTakesTwoPages
<1>2. QED
  BY ClientInvariant, <1>1, PTL

\* A rotated token stays in localStorage only while a page has yet to take the answer
\* of its rotation, or when nobody took it (client.ts:126-127).
THEOREM StoredTokenWorks == Spec => []StoredTokenIsCurrent
<1>1. Client!IInv => StoredTokenIsCurrent
  BY DEF Client!IInv, StoredTokenIsCurrent
<1>2. QED
  BY ClientInvariant, <1>1, PTL

-----------------------------------------------------------------------------
(***************************************************************************)
(* RateLimit.                                                              *)
(***************************************************************************)

\* One part moves and the others stay.
LEMMA RateMoves == [Next]_vars => [Rate!Next]_(Rate!vars)
BY DEF Next, ClientStep, ResetStep, DeptStep, RateStep, OrgStep, RecogStep, DataStep,
   vars, rateVars, Rate!vars

LEMMA RateAssumed ==
    /\ IsFiniteSet(Proc) /\ Limit \in Nat \ {0} /\ WindowLength \in Nat \ {0} /\ MaxRestarts \in Nat
<1>1. \A S : Rate!IsFiniteSet(S) <=> IsFiniteSet(S)
  BY DEF Rate!IsFiniteSet, IsFiniteSet
<1>2. QED
  BY <1>1, HandlersAssumption DEF HandlersAssumption, Rate!LimiterAssumption

LEMMA RateSets == \A S : Rate!Cardinality(S) = Cardinality(S)
BY DEF Rate!Cardinality, Cardinality

\* The minute of the clock, and the one that it shows a tick later.
LEMMA Minutes ==
    ASSUME NEW c \in 0 .. 2 * WindowLength - 1
    PROVE  /\ c \div WindowLength = IF c < WindowLength THEN 0 ELSE 1
           /\ (c + 1) % (2 * WindowLength) = IF c + 1 = 2 * WindowLength THEN 0 ELSE c + 1
<1> SUFFICES ASSUME NEW w \in Nat \ {0}, NEW d \in 0 .. 2 * w - 1
             PROVE  /\ d \div w = IF d < w THEN 0 ELSE 1
                    /\ (d + 1) % (2 * w) = IF d + 1 = 2 * w THEN 0 ELSE d + 1
  BY RateAssumed
<1>1. d \div w = IF d < w THEN 0 ELSE 1
  OBVIOUS
<1>2. (d + 1) % (2 * w) = IF d + 1 = 2 * w THEN 0 ELSE d + 1
  OBVIOUS
<1>3. QED
  BY <1>1, <1>2

\* The types that the counters have.
LEMMA RateShape ==
    ASSUME Rate!TypeOK, NEW p \in Proc, NEW m \in Rate!Minute
    PROVE  /\ m \in {0, 1}
           /\ memory[p][m] \in 0 .. Limit + 1 /\ redisCount[m] \in 0 .. Limit + 1
           /\ age[p] \in 0 .. WindowLength
           /\ Rate!Elapsed(m) \in 0 .. 2 * WindowLength - 1
           /\ Rate!Ended(p, m) \in {0, 1, 2}
           /\ Rate!Counted(memory[p][m]) \in 0 .. Limit
           /\ Rate!Counted(redisCount[m]) \in 0 .. Limit
           /\ admitted[m] \in Nat /\ restarts[m] \in Nat
           /\ Limit * Rate!Ended(p, m) \in Nat /\ Limit * restarts[m] \in Nat
           /\ Rate!Share(p, m) \in 0 .. 3 * Limit
<1> USE RateAssumed
<1>1. /\ m \in {0, 1}
      /\ memory[p][m] \in 0 .. Limit + 1 /\ redisCount[m] \in 0 .. Limit + 1
      /\ age[p] \in 0 .. WindowLength
      /\ admitted[m] \in Nat /\ restarts[m] \in Nat
  BY DEF Rate!TypeOK, Rate!Minute
<1>2. clock \in 0 .. 2 * WindowLength - 1
  BY DEF Rate!TypeOK
<1>3. Rate!Elapsed(m) \in 0 .. 2 * WindowLength - 1
  BY <1>1, <1>2 DEF Rate!Elapsed
<1>4. Rate!Ended(p, m) \in {0, 1, 2}
  BY DEF Rate!Ended
<1>5. Rate!Counted(memory[p][m]) \in 0 .. Limit /\ Rate!Counted(redisCount[m]) \in 0 .. Limit
  BY <1>1 DEF Rate!Counted
<1>6. Limit * Rate!Ended(p, m) \in {0, Limit, 2 * Limit}
  BY <1>4
<1>7. Limit * restarts[m] \in Nat
  BY <1>1
<1>8. Rate!Share(p, m) \in 0 .. 3 * Limit
  BY <1>5, <1>6 DEF Rate!Share
<1>9. QED
  BY <1>1, <1>3, <1>4, <1>5, <1>6, <1>7, <1>8

\* The shares of processes that have at most so much each.
LEMMA SharesBounded ==
    ASSUME Rate!TypeOK, NEW m \in Rate!Minute
    PROVE  /\ IsFiniteSet(Rate!Shares(m))
           /\ Cardinality(Rate!Shares(m)) \in Nat
           /\ Cardinality(Rate!Shares(m)) <= Cardinality(Proc) * (3 * Limit)
<1> USE RateAssumed
<1>1. Rate!Shares(m) \subseteq Proc \X (1 .. 3 * Limit)
  BY DEF Rate!Shares
<1>2. IsFiniteSet(1 .. 3 * Limit) /\ Cardinality(1 .. 3 * Limit) = 3 * Limit
  BY FS_Interval
<1>3. /\ IsFiniteSet(Proc \X (1 .. 3 * Limit))
      /\ Cardinality(Proc \X (1 .. 3 * Limit)) = Cardinality(Proc) * (3 * Limit)
  BY <1>2, FS_Product
<1>4. QED
  BY <1>1, <1>3, FS_Subset, FS_CardinalityType

\* The same after a step.
LEMMA RateShapeAfter ==
    ASSUME Rate!TypeOK', NEW p \in Proc, NEW m \in Rate!Minute
    PROVE  Rate!Share(p, m)' \in 0 .. 3 * Limit
<1> USE RateAssumed
<1>1. m \in {0, 1} /\ memory'[p][m] \in 0 .. Limit + 1
  BY DEF Rate!TypeOK, Rate!Minute
<1>2. Rate!Ended(p, m)' \in {0, 1, 2}
  BY DEF Rate!Ended
<1>3. Rate!Counted(memory[p][m])' \in 0 .. Limit
  BY <1>1 DEF Rate!Counted
<1>4. Limit * Rate!Ended(p, m)' \in {0, Limit, 2 * Limit}
  BY <1>2
<1>5. QED
  BY <1>3, <1>4 DEF Rate!Share

LEMMA SharesBoundedAfter ==
    ASSUME NEW m \in Rate!Minute
    PROVE  IsFiniteSet(Rate!Shares(m)') /\ Cardinality(Rate!Shares(m)') \in Nat
<1> USE RateAssumed
<1>1. Rate!Shares(m)' \subseteq Proc \X (1 .. 3 * Limit)
  BY DEF Rate!Shares
<1>2. IsFiniteSet(1 .. 3 * Limit)
  BY FS_Interval
<1>3. IsFiniteSet(Proc \X (1 .. 3 * Limit))
  BY <1>2, FS_Product
<1>4. QED
  BY <1>1, <1>3, FS_Subset, FS_CardinalityType

\* Nobody's share shrinks.
LEMMA SharesGrow ==
    ASSUME Rate!TypeOK, Rate!TypeOK', NEW m \in Rate!Minute,
           \A p \in Proc : Rate!Share(p, m) <= Rate!Share(p, m)'
    PROVE  /\ Cardinality(Rate!Shares(m)) <= Cardinality(Rate!Shares(m)')
           /\ Cardinality(Rate!Shares(m)) \in Nat /\ Cardinality(Rate!Shares(m)') \in Nat
<1>1. IsFiniteSet(Rate!Shares(m)') /\ Cardinality(Rate!Shares(m)') \in Nat
  BY SharesBoundedAfter
<1>2. \A p \in Proc : Rate!Share(p, m) \in Nat /\ Rate!Share(p, m)' \in Nat
  BY RateShape, RateShapeAfter, RateAssumed
<1>3. Rate!Shares(m) \subseteq Rate!Shares(m)'
  BY <1>2, RateAssumed DEF Rate!Shares
<1>4. QED
  BY <1>1, <1>3, SharesBounded, FS_Subset

\* Somebody's grows.
LEMMA ShareTaken ==
    ASSUME Rate!TypeOK, Rate!TypeOK', NEW m \in Rate!Minute, NEW q \in Proc,
           \A p \in Proc : Rate!Share(p, m) <= Rate!Share(p, m)',
           Rate!Share(q, m) < Rate!Share(q, m)'
    PROVE  Cardinality(Rate!Shares(m)) + 1 <= Cardinality(Rate!Shares(m)')
<1> DEFINE new == <<q, Rate!Share(q, m)'>>
<1>1. /\ IsFiniteSet(Rate!Shares(m)') /\ IsFiniteSet(Rate!Shares(m))
      /\ Cardinality(Rate!Shares(m)) \in Nat
  BY SharesBounded, SharesBoundedAfter
<1>2. \A p \in Proc : Rate!Share(p, m) \in 0 .. 3 * Limit /\ Rate!Share(p, m)' \in 0 .. 3 * Limit
  BY RateShape, RateShapeAfter
<1>3. new \in Rate!Shares(m)' /\ new \notin Rate!Shares(m)
  BY <1>2, RateAssumed DEF Rate!Shares
<1>4. Rate!Shares(m) \subseteq Rate!Shares(m)'
  BY <1>2, RateAssumed DEF Rate!Shares
<1> HIDE DEF new
<1>5. Rate!Shares(m) \cup {new} \subseteq Rate!Shares(m)'
  BY <1>3, <1>4
<1>6. Cardinality(Rate!Shares(m) \cup {new}) = Cardinality(Rate!Shares(m)) + 1
  BY <1>1, <1>3, FS_AddElement
<1>7. QED
  BY <1>1, <1>5, <1>6, FS_Subset

\* One process starts again, and its period is forgotten.
LEMMA ShareForgotten ==
    ASSUME Rate!TypeOK, Rate!TypeOK', NEW m \in Rate!Minute, NEW q \in Proc,
           \A p \in Proc \ {q} : Rate!Share(p, m) <= Rate!Share(p, m)',
           Rate!Share(q, m) <= Rate!Share(q, m)' + Limit
    PROVE  Cardinality(Rate!Shares(m)) <= Cardinality(Rate!Shares(m)') + Limit
<1> DEFINE n    == Rate!Share(q, m)'
           lost == {q} \X (n + 1 .. n + Limit)
<1>1. /\ IsFiniteSet(Rate!Shares(m)') /\ IsFiniteSet(Rate!Shares(m))
      /\ Cardinality(Rate!Shares(m)) \in Nat /\ Cardinality(Rate!Shares(m)') \in Nat
  BY SharesBounded, SharesBoundedAfter
<1>2. \A p \in Proc : Rate!Share(p, m) \in 0 .. 3 * Limit /\ Rate!Share(p, m)' \in 0 .. 3 * Limit
  BY RateShape, RateShapeAfter
<1>3. Rate!Shares(m) \subseteq Rate!Shares(m)' \cup lost
  BY <1>2, RateAssumed DEF Rate!Shares
<1>4. IsFiniteSet(lost) /\ Cardinality(lost) = Limit
  <2>1. n \in Nat
    BY <1>2, RateAssumed
  <2> HIDE DEF n
  <2>2. IsFiniteSet(n + 1 .. n + Limit) /\ Cardinality(n + 1 .. n + Limit) = Limit
    BY <2>1, RateAssumed, FS_Interval
  <2>3. IsFiniteSet({q}) /\ Cardinality({q}) = 1
    BY FS_Singleton
  <2>4. IsFiniteSet(lost) /\ Cardinality(lost) = 1 * Limit
    BY <2>2, <2>3, FS_Product, ZenonT(60)
  <2>5. QED
    BY <2>4, RateAssumed
<1> HIDE DEF lost
<1>5. /\ IsFiniteSet(Rate!Shares(m)' \cup lost)
      /\ Cardinality(Rate!Shares(m)' \cup lost)
           = Cardinality(Rate!Shares(m)') + Limit - Cardinality(Rate!Shares(m)' \cap lost)
  BY <1>1, <1>4, FS_Union
<1>6. Cardinality(Rate!Shares(m)' \cap lost) \in Nat
  BY <1>1, FS_Intersection, FS_CardinalityType
<1>7. Cardinality(Rate!Shares(m)) <= Cardinality(Rate!Shares(m)' \cup lost)
  BY <1>3, <1>5, FS_Subset
<1>8. QED
  BY <1>1, <1>5, <1>6, <1>7, RateAssumed

RateGoesOn == Rate!TypeOK' /\ Rate!AccountedFor'

\* What is known of a minute.
LEMMA AccountOf ==
    ASSUME Rate!AccountedFor, NEW m \in Rate!Minute
    PROVE  /\ m \notin failures => admitted[m] <= Rate!Counted(redisCount[m])
           /\ admitted[m] <= Rate!Counted(redisCount[m]) + Limit * restarts[m]
                               + Cardinality(Rate!Shares(m))
BY RateSets DEF Rate!AccountedFor

\* A request of that minute was counted, and let through or not.
LEMMA CountedFor ==
    ASSUME Rate!TypeOK, NEW r \in Request, counted[r] # Rate!None, NEW count,
           Rate!Answer(r, count)
    PROVE  /\ counted[r].minute \in Rate!Minute /\ counted[r].proc \in Proc
           /\ counted' \in [Request -> {Rate!None} \cup
                              [at : {"counting"}, proc : Proc, minute : Rate!Minute]]
           /\ admitted' \in [Rate!Minute -> Nat]
           /\ \A m \in Rate!Minute :
                admitted'[m] = IF m = counted[r].minute /\ count <= Limit THEN admitted[m] + 1
                                                                          ELSE admitted[m]
<1>1. counted[r].minute \in Rate!Minute /\ counted[r].proc \in Proc
  BY DEF Rate!TypeOK
<1>2. counted' \in [Request -> {Rate!None} \cup
                       [at : {"counting"}, proc : Proc, minute : Rate!Minute]]
  BY DEF Rate!TypeOK, Rate!Answer
<1>3. /\ admitted' \in [Rate!Minute -> Nat]
      /\ \A m \in Rate!Minute :
           admitted'[m] = IF m = counted[r].minute /\ count <= Limit THEN admitted[m] + 1
                                                                     ELSE admitted[m]
  BY <1>1 DEF Rate!TypeOK, Rate!Answer
<1>4. QED
  BY <1>1, <1>2, <1>3

LEMMA IncrRedisGoesOn ==
    ASSUME Rate!TypeOK, Rate!AccountedFor, NEW r \in Request, Rate!IncrRedis(r)
    PROVE  RateGoesOn
<1> USE RateAssumed
<1> DEFINE m == counted[r].minute
<1>1. /\ counted[r] # Rate!None
      /\ redisCount' = [redisCount EXCEPT ![m] = Rate!Incr(@)]
      /\ Rate!Answer(r, redisCount'[m])
      /\ UNCHANGED <<clock, memory, age, failures, restarts>>
  BY DEF Rate!IncrRedis
<1>2. /\ m \in Rate!Minute
      /\ counted' \in [Request -> {Rate!None} \cup
                         [at : {"counting"}, proc : Proc, minute : Rate!Minute]]
      /\ admitted' \in [Rate!Minute -> Nat]
      /\ \A x \in Rate!Minute :
           admitted'[x] = IF x = m /\ redisCount'[m] <= Limit THEN admitted[x] + 1
                                                              ELSE admitted[x]
  BY <1>1, CountedFor
<1> HIDE DEF m
<1>3. redisCount \in [Rate!Minute -> 0 .. Limit + 1]
  BY DEF Rate!TypeOK
<1>4. /\ redisCount' \in [Rate!Minute -> 0 .. Limit + 1]
      /\ \A x \in Rate!Minute \ {m} : redisCount'[x] = redisCount[x]
      /\ redisCount'[m] = Rate!Incr(redisCount[m])
  BY <1>1, <1>2, <1>3 DEF Rate!Incr
<1>5. Rate!TypeOK'
  BY <1>1, <1>2, <1>4 DEF Rate!TypeOK
<1>6. ASSUME NEW x \in Rate!Minute
      PROVE  /\ x \notin failures => admitted'[x] <= Rate!Counted(redisCount'[x])
             /\ admitted'[x] <= Rate!Counted(redisCount'[x]) + Limit * restarts[x]
                                  + Cardinality(Rate!Shares(x))
  <2>1. /\ redisCount[x] \in 0 .. Limit + 1 /\ redisCount'[x] \in 0 .. Limit + 1
        /\ admitted[x] \in Nat /\ Limit * restarts[x] \in Nat
    BY <1>3, <1>4 DEF Rate!TypeOK
  <2>2. Cardinality(Rate!Shares(x)) \in Nat
    BY SharesBounded
  <2>3. admitted'[x] - admitted[x] <= Rate!Counted(redisCount'[x]) - Rate!Counted(redisCount[x])
    BY <1>2, <1>4, <2>1 DEF Rate!Counted, Rate!Incr
  <2>4. /\ Rate!Counted(redisCount[x]) \in Nat /\ Rate!Counted(redisCount'[x]) \in Nat
        /\ admitted'[x] \in Nat
    BY <1>2, <2>1 DEF Rate!Counted
  <2>5. QED
    BY <2>1, <2>2, <2>3, <2>4, AccountOf
<1>7. \A x \in Rate!Minute : Rate!Shares(x)' = Rate!Shares(x)
  BY <1>1 DEF Rate!Shares, Rate!Share, Rate!Ended, Rate!Elapsed, Rate!Counted
<1>8. Rate!AccountedFor'
  BY <1>1, <1>6, <1>7, RateSets DEF Rate!AccountedFor, Rate!Counted
<1>9. QED
  BY <1>5, <1>8 DEF RateGoesOn

\* A period that is over has lasted since the minute began, or longer, or a second
\* one can end in the minute's time.
LEMMA PeriodEnds ==
    ASSUME Rate!TypeOK, NEW p \in Proc, NEW m \in Rate!Minute, clock' = clock,
           age[p] >= WindowLength, age'[p] = 0
    PROVE  /\ Rate!Ended(p, m) \in {0, 1} /\ Rate!Ended(p, m)' \in {1, 2}
           /\ Rate!Ended(p, m) < Rate!Ended(p, m)'
<1>1. /\ age[p] = WindowLength /\ Rate!Elapsed(m) \in 0 .. 2 * WindowLength - 1
      /\ WindowLength \in Nat \ {0}
  BY RateShape, RateAssumed
<1>2. Rate!Elapsed(m)' = Rate!Elapsed(m)
  BY DEF Rate!Elapsed
<1>3. QED
  BY <1>1, <1>2 DEF Rate!Ended

LEMMA IncrMemoryShares ==
    ASSUME Rate!TypeOK, NEW p \in Proc, NEW m \in Rate!Minute, clock' = clock,
           Rate!IncrMemory(p, m)
    PROVE  /\ memory' \in [Proc -> [Rate!Minute -> 0 .. Limit + 1]]
           /\ age' \in [Proc -> 0 .. WindowLength]
           /\ \A q \in Proc, x \in Rate!Minute : Rate!Share(q, x) <= Rate!Share(q, x)'
           /\ memory'[p][m] <= Limit => Rate!Share(p, m) < Rate!Share(p, m)'
<1> USE RateAssumed
<1> DEFINE kept == IF age[p] >= WindowLength THEN Rate!Zero ELSE memory[p]
<1>1. /\ memory' = [memory EXCEPT ![p] = [kept EXCEPT ![m] = Rate!Incr(@)]]
      /\ age' = [age EXCEPT ![p] = IF age[p] >= WindowLength THEN 0 ELSE @]
  BY DEF Rate!IncrMemory
<1>2. /\ memory \in [Proc -> [Rate!Minute -> 0 .. Limit + 1]]
      /\ age \in [Proc -> 0 .. WindowLength]
  BY DEF Rate!TypeOK
<1>3. kept \in [Rate!Minute -> 0 .. Limit + 1]
  BY <1>2 DEF Rate!Zero
<1>4. /\ \A x \in Rate!Minute : age[p] >= WindowLength => kept[x] = 0
      /\ ~ (age[p] >= WindowLength) => kept = memory[p]
  BY DEF Rate!Zero
<1> HIDE DEF kept
<1>5. /\ memory' \in [Proc -> [Rate!Minute -> 0 .. Limit + 1]]
      /\ age' \in [Proc -> 0 .. WindowLength]
      /\ \A q \in Proc \ {p} : memory'[q] = memory[q] /\ age'[q] = age[q]
      /\ memory'[p] = [kept EXCEPT ![m] = Rate!Incr(@)]
      /\ age'[p] = IF age[p] >= WindowLength THEN 0 ELSE age[p]
  BY <1>1, <1>2, <1>3 DEF Rate!Incr
<1>6. /\ memory'[p][m] = Rate!Incr(kept[m])
      /\ \A x \in Rate!Minute \ {m} : memory'[p][x] = kept[x]
  BY <1>3, <1>5
<1>7. ASSUME NEW q \in Proc \ {p}, NEW x \in Rate!Minute
      PROVE  Rate!Share(q, x) <= Rate!Share(q, x)'
  <2>1. Rate!Share(q, x) = Rate!Share(q, x)'
    BY <1>5 DEF Rate!Share, Rate!Ended, Rate!Elapsed, Rate!Counted
  <2>2. QED
    BY <2>1, RateShape
<1>8. ASSUME NEW x \in Rate!Minute
      PROVE  /\ Rate!Share(p, x) <= Rate!Share(p, x)'
             /\ x = m /\ memory'[p][m] <= Limit => Rate!Share(p, x) < Rate!Share(p, x)'
  <2>1. memory[p][x] \in 0 .. Limit + 1 /\ memory'[p][x] \in 0 .. Limit + 1
    BY <1>2, <1>5
  <2>2. CASE age[p] >= WindowLength
    <3>1. /\ Rate!Ended(p, x) \in {0, 1} /\ Rate!Ended(p, x)' \in {1, 2}
          /\ Rate!Ended(p, x) < Rate!Ended(p, x)'
      BY <1>5, <2>2, PeriodEnds
    <3>2. Limit * Rate!Ended(p, x) + Limit <= Limit * Rate!Ended(p, x)'
      BY <3>1
    <3>3. x = m => memory'[p][x] = 1
      BY <1>4, <1>6, <2>2 DEF Rate!Incr
    <3>4. /\ Rate!Counted(memory[p][x]) \in 0 .. Limit
          /\ Rate!Counted(memory[p][x])' \in 0 .. Limit
          /\ x = m => Rate!Counted(memory[p][x])' = 1
      BY <2>1, <3>3 DEF Rate!Counted
    <3>5. /\ Limit * Rate!Ended(p, x) \in Nat /\ Limit * Rate!Ended(p, x)' \in Nat
      BY <3>1
    <3>6. QED
      BY <3>2, <3>4, <3>5 DEF Rate!Share
  <2>3. CASE ~ (age[p] >= WindowLength)
    <3>1. Rate!Ended(p, x)' = Rate!Ended(p, x)
      BY <1>5, <2>3 DEF Rate!Ended, Rate!Elapsed
    <3>2. memory'[p][x] = IF x = m THEN Rate!Incr(memory[p][x]) ELSE memory[p][x]
      BY <1>4, <1>6, <2>3
    <3>3. /\ Rate!Counted(memory[p][x]) <= Rate!Counted(memory[p][x])'
          /\ x = m /\ memory'[p][m] <= Limit =>
               Rate!Counted(memory[p][x]) < Rate!Counted(memory[p][x])'
          /\ Rate!Counted(memory[p][x]) \in 0 .. Limit
          /\ Rate!Counted(memory[p][x])' \in 0 .. Limit
      BY <2>1, <3>2 DEF Rate!Counted, Rate!Incr
    <3>4. Limit * Rate!Ended(p, x) \in Nat
      BY RateShape
    <3>5. QED
      BY <3>1, <3>3, <3>4 DEF Rate!Share
  <2>4. QED
    BY <2>2, <2>3
<1>9. QED
  BY <1>5, <1>7, <1>8

LEMMA FallBackGoesOn ==
    ASSUME Rate!TypeOK, Rate!AccountedFor, NEW r \in Request, Rate!FallBack(r)
    PROVE  RateGoesOn
<1> USE RateAssumed
<1>0. PICK m, p : m = counted[r].minute /\ p = counted[r].proc
  OBVIOUS
<1>1. /\ counted[r] # Rate!None
      /\ redisCount' = redisCount \/ redisCount' = [redisCount EXCEPT ![m] = Rate!Incr(@)]
      /\ Rate!IncrMemory(p, m)
      /\ Rate!Answer(r, memory'[p][m])
      /\ failures' = failures \cup {m}
      /\ UNCHANGED <<clock, restarts>>
  BY <1>0 DEF Rate!FallBack
<1>2. /\ m \in Rate!Minute /\ p \in Proc
      /\ counted' \in [Request -> {Rate!None} \cup
                         [at : {"counting"}, proc : Proc, minute : Rate!Minute]]
      /\ admitted' \in [Rate!Minute -> Nat]
      /\ \A x \in Rate!Minute :
           admitted'[x] = IF x = m /\ memory'[p][m] <= Limit THEN admitted[x] + 1
                                                             ELSE admitted[x]
  BY <1>0, <1>1, CountedFor
<1>3. redisCount \in [Rate!Minute -> 0 .. Limit + 1]
  BY DEF Rate!TypeOK
<1>4. /\ redisCount' \in [Rate!Minute -> 0 .. Limit + 1]
      /\ \A x \in Rate!Minute : redisCount[x] <= redisCount'[x]
  BY <1>1, <1>2, <1>3 DEF Rate!Incr
<1>5. /\ memory' \in [Proc -> [Rate!Minute -> 0 .. Limit + 1]]
      /\ age' \in [Proc -> 0 .. WindowLength]
      /\ \A q \in Proc, x \in Rate!Minute : Rate!Share(q, x) <= Rate!Share(q, x)'
      /\ memory'[p][m] <= Limit => Rate!Share(p, m) < Rate!Share(p, m)'
  <2>1. p \in Proc /\ m \in Rate!Minute /\ clock' = clock /\ Rate!IncrMemory(p, m) /\ Rate!TypeOK
    BY <1>1, <1>2
  <2>2. QED
    BY ONLY <2>1, IncrMemoryShares
<1>6. Rate!TypeOK'
  BY <1>1, <1>2, <1>4, <1>5 DEF Rate!TypeOK
<1>7. ASSUME NEW x \in Rate!Minute
      PROVE  /\ x \notin failures' => admitted'[x] <= Rate!Counted(redisCount'[x])
             /\ admitted'[x] <= Rate!Counted(redisCount'[x]) + Limit * restarts[x]
                                  + Cardinality(Rate!Shares(x)')
  <2>1. /\ redisCount[x] \in 0 .. Limit + 1 /\ redisCount'[x] \in 0 .. Limit + 1
        /\ admitted[x] \in Nat /\ Limit * restarts[x] \in Nat
    BY <1>3, <1>4 DEF Rate!TypeOK
  <2>2. /\ Cardinality(Rate!Shares(x)) \in Nat /\ Cardinality(Rate!Shares(x)') \in Nat
        /\ Cardinality(Rate!Shares(x)) <= Cardinality(Rate!Shares(x)')
    BY <1>5, <1>6, SharesGrow
  <2>3. x = m /\ memory'[p][m] <= Limit =>
          Cardinality(Rate!Shares(x)) + 1 <= Cardinality(Rate!Shares(x)')
    <3>1. SUFFICES ASSUME x = m, memory'[p][m] <= Limit
                   PROVE  Cardinality(Rate!Shares(x)) + 1 <= Cardinality(Rate!Shares(x)')
      OBVIOUS
    <3>2. /\ p \in Proc /\ \A q \in Proc : Rate!Share(q, x) <= Rate!Share(q, x)'
          /\ Rate!Share(p, x) < Rate!Share(p, x)'
      BY <1>2, <1>5, <3>1
    <3>3. Rate!TypeOK /\ Rate!TypeOK' /\ x \in Rate!Minute
      BY <1>6
    <3>4. QED
      BY ONLY <3>2, <3>3, ShareTaken
  <2>4. /\ Rate!Counted(redisCount[x]) \in Nat /\ Rate!Counted(redisCount'[x]) \in Nat
        /\ Rate!Counted(redisCount[x]) <= Rate!Counted(redisCount'[x])
    BY <1>4, <2>1 DEF Rate!Counted
  <2>5. /\ x \notin failures => admitted[x] <= Rate!Counted(redisCount[x])
        /\ admitted[x] <= Rate!Counted(redisCount[x]) + Limit * restarts[x]
                            + Cardinality(Rate!Shares(x))
    BY AccountOf
  <2>6. QED
    BY <1>1, <1>2, <2>1, <2>2, <2>3, <2>4, <2>5
<1>8. Rate!AccountedFor'
  BY <1>1, <1>7, RateSets DEF Rate!AccountedFor, Rate!Counted
<1>9. QED
  BY <1>6, <1>8 DEF RateGoesOn

LEMMA TickGoesOn ==
    ASSUME Rate!TypeOK, Rate!AccountedFor, Rate!Tick
    PROVE  RateGoesOn
<1> USE RateAssumed
<1>0. PICK next, m, now : /\ next = (clock + 1) % (2 * WindowLength)
                           /\ m = next \div WindowLength /\ now = clock \div WindowLength
  OBVIOUS
<1>1. /\ clock' = next
      /\ age' = [p \in Proc |-> IF age[p] < WindowLength THEN age[p] + 1 ELSE age[p]]
      /\ redisCount' = IF m = now THEN redisCount ELSE [redisCount EXCEPT ![m] = 0]
      /\ memory' = [p \in Proc |-> IF m = now THEN memory[p] ELSE [memory[p] EXCEPT ![m] = 0]]
      /\ admitted' = IF m = now THEN admitted ELSE [admitted EXCEPT ![m] = 0]
      /\ restarts' = IF m = now THEN restarts ELSE [restarts EXCEPT ![m] = 0]
      /\ failures' = IF m = now THEN failures ELSE failures \ {m}
      /\ counted' = counted
  BY <1>0 DEF Rate!Tick, Rate!Now
<1>2. clock \in 0 .. 2 * WindowLength - 1
  BY DEF Rate!TypeOK
<1>3. /\ next = IF clock + 1 = 2 * WindowLength THEN 0 ELSE clock + 1
      /\ now = IF clock < WindowLength THEN 0 ELSE 1
      /\ m = IF next < WindowLength THEN 0 ELSE 1
  <2>1. WindowLength \in Nat \ {0}
    OBVIOUS
  <2>2. PICK c \in 0 .. 2 * WindowLength - 1 : c = clock
    BY <1>2
  <2>3. /\ (c + 1) % (2 * WindowLength) = IF c + 1 = 2 * WindowLength THEN 0 ELSE c + 1
        /\ c \div WindowLength = IF c < WindowLength THEN 0 ELSE 1
    BY Minutes
  <2>4. /\ next = IF clock + 1 = 2 * WindowLength THEN 0 ELSE clock + 1
        /\ now = IF clock < WindowLength THEN 0 ELSE 1
    BY <1>0, <2>2, <2>3
  <2>5. next \in 0 .. 2 * WindowLength - 1
    BY <1>2, <2>1, <2>4
  <2>6. next \div WindowLength = IF next < WindowLength THEN 0 ELSE 1
    BY ONLY <2>5, Minutes
  <2>7. QED
    BY <1>0, <2>4, <2>6
<1>4. m \in Rate!Minute /\ next \in 0 .. 2 * WindowLength - 1
  BY <1>2, <1>3 DEF Rate!Minute
<1>5. Rate!TypeOK'
  <2>1. /\ redisCount' \in [Rate!Minute -> 0 .. Limit + 1]
        /\ memory' \in [Proc -> [Rate!Minute -> 0 .. Limit + 1]]
    BY <1>1, <1>4 DEF Rate!TypeOK
  <2>2. age' \in [Proc -> 0 .. WindowLength]
    BY <1>1 DEF Rate!TypeOK
  <2>3. /\ admitted' \in [Rate!Minute -> Nat] /\ failures' \subseteq Rate!Minute
        /\ restarts' \in [Rate!Minute -> 0 .. MaxRestarts]
    BY <1>1, <1>4 DEF Rate!TypeOK
  <2>4. QED
    BY <1>1, <1>4, <2>1, <2>2, <2>3 DEF Rate!TypeOK
<1>6. \A x \in Rate!Minute : m = now \/ x # m => Rate!Elapsed(x)' = Rate!Elapsed(x) + 1
  BY <1>1, <1>2, <1>3 DEF Rate!Elapsed, Rate!Minute
<1>7. ASSUME NEW x \in Rate!Minute
      PROVE  /\ x \notin failures' => admitted'[x] <= Rate!Counted(redisCount'[x])
             /\ admitted'[x] <= Rate!Counted(redisCount'[x]) + Limit * restarts'[x]
                                  + Cardinality(Rate!Shares(x)')
  <2>1. CASE m = now \/ x # m
    <3>1. /\ admitted'[x] = admitted[x] /\ redisCount'[x] = redisCount[x]
          /\ restarts'[x] = restarts[x]
          /\ x \in failures' <=> x \in failures
          /\ \A p \in Proc : memory'[p][x] = memory[p][x]
      BY <1>1, <2>1 DEF Rate!TypeOK
    <3>2. ASSUME NEW p \in Proc
          PROVE  Rate!Share(p, x) <= Rate!Share(p, x)'
      <4>1. /\ age[p] \in 0 .. WindowLength
            /\ age'[p] = IF age[p] < WindowLength THEN age[p] + 1 ELSE age[p]
            /\ Rate!Elapsed(x) \in 0 .. 2 * WindowLength - 1
            /\ Rate!Elapsed(x)' = Rate!Elapsed(x) + 1
        BY <1>1, <1>6, <2>1, RateShape
      <4>2. /\ Rate!Ended(p, x) <= Rate!Ended(p, x)'
            /\ Rate!Ended(p, x) \in {0, 1, 2} /\ Rate!Ended(p, x)' \in {0, 1, 2}
        BY <4>1 DEF Rate!Ended
      <4>3. Limit * Rate!Ended(p, x) <= Limit * Rate!Ended(p, x)'
        BY <4>2
      <4>4. /\ Rate!Counted(memory[p][x])' = Rate!Counted(memory[p][x])
            /\ Rate!Counted(memory[p][x]) \in 0 .. Limit
        BY <3>1, RateShape DEF Rate!Counted
      <4>5. Limit * Rate!Ended(p, x) \in Nat /\ Limit * Rate!Ended(p, x)' \in Nat
        BY <4>2
      <4>6. QED
        BY <4>3, <4>4, <4>5 DEF Rate!Share
    <3>3. /\ Cardinality(Rate!Shares(x)) <= Cardinality(Rate!Shares(x)')
          /\ Cardinality(Rate!Shares(x)) \in Nat /\ Cardinality(Rate!Shares(x)') \in Nat
      BY <1>5, <3>2, SharesGrow
    <3>4. /\ redisCount[x] \in 0 .. Limit + 1 /\ Rate!Counted(redisCount[x]) \in Nat
          /\ admitted[x] \in Nat /\ Limit * restarts[x] \in Nat
      BY DEF Rate!TypeOK, Rate!Counted
    <3>5. Rate!Counted(redisCount'[x]) = Rate!Counted(redisCount[x])
      BY <3>1
    <3>6. /\ x \notin failures => admitted[x] <= Rate!Counted(redisCount[x])
          /\ admitted[x] <= Rate!Counted(redisCount[x]) + Limit * restarts[x]
                              + Cardinality(Rate!Shares(x))
      BY AccountOf
    <3>7. Limit * restarts'[x] = Limit * restarts[x]
      BY <3>1
    <3>8. QED
      BY <3>1, <3>3, <3>4, <3>5, <3>6, <3>7
  <2>2. CASE ~ (m = now \/ x # m)
    <3>1. admitted'[x] = 0 /\ redisCount'[x] = 0 /\ restarts'[x] = 0
      BY <1>1, <1>4, <2>2 DEF Rate!TypeOK
    <3>2. Cardinality(Rate!Shares(x)') \in Nat
      BY SharesBoundedAfter
    <3>3. QED
      BY <3>1, <3>2 DEF Rate!Counted
  <2>3. QED
    BY <2>1, <2>2
<1>8. Rate!AccountedFor'
  BY <1>7, RateSets DEF Rate!AccountedFor, Rate!Counted
<1>9. QED
  BY <1>5, <1>8 DEF RateGoesOn

LEMMA RateRestartGoesOn ==
    ASSUME Rate!TypeOK, Rate!AccountedFor, NEW q \in Proc, Rate!Restart(q)
    PROVE  RateGoesOn
<1> USE RateAssumed
<1>1. /\ \A m \in Rate!Minute : restarts[m] < MaxRestarts
      /\ restarts' = [m \in Rate!Minute |-> restarts[m] + 1]
      /\ memory' = [memory EXCEPT ![q] = Rate!Zero]
      /\ age' = [age EXCEPT ![q] = 0]
      /\ counted' = [r \in Request |->
           IF counted[r] # Rate!None /\ counted[r].proc = q THEN Rate!None ELSE counted[r]]
      /\ UNCHANGED <<clock, redisCount, admitted, failures>>
  BY DEF Rate!Restart
<1>2. Rate!Zero \in [Rate!Minute -> 0 .. Limit + 1]
  BY DEF Rate!Zero
<1>3. Rate!TypeOK'
  BY <1>1, <1>2 DEF Rate!TypeOK
<1>4. \A x \in Rate!Minute : Rate!Elapsed(x)' = Rate!Elapsed(x)
  BY <1>1 DEF Rate!Elapsed
<1>5. ASSUME NEW x \in Rate!Minute
      PROVE  /\ x \notin failures => admitted[x] <= Rate!Counted(redisCount[x])
             /\ admitted[x] <= Rate!Counted(redisCount[x]) + Limit * restarts'[x]
                                 + Cardinality(Rate!Shares(x)')
  <2>1. ASSUME NEW p \in Proc \ {q} PROVE Rate!Share(p, x) <= Rate!Share(p, x)'
    <3>1. memory'[p] = memory[p] /\ age'[p] = age[p]
      BY <1>1 DEF Rate!TypeOK
    <3>2. Rate!Share(p, x)' = Rate!Share(p, x)
      BY <1>4, <3>1 DEF Rate!Share, Rate!Ended, Rate!Counted
    <3>3. QED
      BY <3>2, RateShape
  <2>2. Rate!Share(q, x) <= Rate!Share(q, x)' + Limit
    <3>1. /\ memory'[q][x] = 0 /\ age'[q] = 0 /\ age[q] \in 0 .. WindowLength
          /\ Rate!Elapsed(x) \in 0 .. 2 * WindowLength - 1
      BY <1>1, RateShape DEF Rate!Zero, Rate!TypeOK
    <3>2. /\ Rate!Ended(q, x) <= Rate!Ended(q, x)'
          /\ Rate!Ended(q, x) \in {0, 1, 2} /\ Rate!Ended(q, x)' \in {0, 1, 2}
      BY <1>4, <3>1 DEF Rate!Ended
    <3>3. Limit * Rate!Ended(q, x) <= Limit * Rate!Ended(q, x)'
      BY <3>2
    <3>4. Rate!Counted(memory[q][x]) \in 0 .. Limit /\ Rate!Counted(memory[q][x])' = 0
      BY <3>1, RateShape DEF Rate!Counted
    <3>5. Limit * Rate!Ended(q, x) \in Nat /\ Limit * Rate!Ended(q, x)' \in Nat
      BY <3>2
    <3>6. QED
      BY <3>3, <3>4, <3>5 DEF Rate!Share
  <2>3. Cardinality(Rate!Shares(x)) <= Cardinality(Rate!Shares(x)') + Limit
    BY <1>3, <2>1, <2>2, ShareForgotten
  <2>4. Cardinality(Rate!Shares(x)) \in Nat /\ Cardinality(Rate!Shares(x)') \in Nat
    BY SharesBounded, SharesBoundedAfter
  <2>5. /\ restarts[x] \in Nat /\ restarts'[x] = restarts[x] + 1
        /\ admitted[x] \in Nat /\ Rate!Counted(redisCount[x]) \in Nat
    BY <1>1 DEF Rate!TypeOK, Rate!Counted
  <2>6. Limit * restarts'[x] = Limit * restarts[x] + Limit /\ Limit * restarts[x] \in Nat
    BY <2>5
  <2>7. QED
    BY <2>3, <2>4, <2>5, <2>6, AccountOf
<1>6. Rate!AccountedFor'
  BY <1>1, <1>5, RateSets DEF Rate!AccountedFor, Rate!Counted
<1>7. QED
  BY <1>3, <1>6 DEF RateGoesOn

\* A request arrives: nothing is counted yet.
LEMMA RateArriveGoesOn ==
    ASSUME Rate!TypeOK, Rate!AccountedFor, NEW r \in Request, NEW p \in Proc, Rate!Arrive(r, p)
    PROVE  RateGoesOn
<1>1. /\ counted' = [counted EXCEPT ![r] = [at |-> "counting", proc |-> p, minute |-> Rate!Now]]
      /\ UNCHANGED <<clock, redisCount, memory, age, admitted, failures, restarts>>
  BY DEF Rate!Arrive
<1>2. Rate!Now \in Rate!Minute
  BY Minutes DEF Rate!TypeOK, Rate!Minute, Rate!Now
<1>3. Rate!TypeOK'
  BY <1>1, <1>2 DEF Rate!TypeOK
<1>4. Rate!AccountedFor'
  BY <1>1 DEF Rate!AccountedFor, Rate!Shares, Rate!Share, Rate!Ended, Rate!Elapsed, Rate!Counted
<1>5. QED
  BY <1>3, <1>4 DEF RateGoesOn

LEMMA RateInit == Rate!Init => Rate!TypeOK /\ Rate!AccountedFor
<1> SUFFICES ASSUME Rate!Init PROVE Rate!TypeOK /\ Rate!AccountedFor
  OBVIOUS
<1>1. Rate!TypeOK
  BY RateAssumed DEF Rate!Init, Rate!TypeOK, Rate!Zero, Rate!Minute
<1>2. \A x \in Rate!Minute :
        admitted[x] = 0 /\ restarts[x] = 0 /\ redisCount[x] = 0
        /\ Cardinality(Rate!Shares(x)) \in Nat
  BY <1>1, SharesBounded DEF Rate!Init, Rate!Zero
<1>3. Rate!AccountedFor
  BY <1>2, RateSets, RateAssumed DEF Rate!AccountedFor, Rate!Counted
<1>4. QED
  BY <1>1, <1>3

LEMMA RateStepGoesOn ==
    ASSUME Rate!TypeOK, Rate!AccountedFor, [Rate!Next]_(Rate!vars)
    PROVE  RateGoesOn
<1>1. CASE UNCHANGED Rate!vars
  <2>1. Rate!TypeOK'
    BY <1>1 DEF Rate!TypeOK, Rate!vars
  <2>2. Rate!AccountedFor'
    BY <1>1 DEF Rate!AccountedFor, Rate!Shares, Rate!Share, Rate!Ended, Rate!Elapsed,
                Rate!Counted, Rate!vars
  <2>3. QED
    BY <2>1, <2>2 DEF RateGoesOn
<1>2. CASE Rate!Next
  BY <1>2, RateArriveGoesOn, IncrRedisGoesOn, FallBackGoesOn, TickGoesOn, RateRestartGoesOn
  DEF Rate!Next
<1>3. QED
  BY <1>1, <1>2

\* The inductive invariant of the rate limiter.
LEMMA RateInvariant == Spec => []Rate!IInv
<1>1. Init => Rate!IInv
  BY RateInit DEF Init, Rate!IInv
<1>2. Rate!IInv /\ [Next]_vars => Rate!IInv'
  BY RateMoves, RateStepGoesOn DEF RateGoesOn, Rate!IInv
<1>3. QED
  BY <1>1, <1>2, PTL DEF Spec

\* A minute lets the limit through while Redis answers, and at most three limits more
\* for each process, and one for each restart, when it does not: for any limit, window
\* and processes, whenever requests are counted (rate_limit.py:68-107).
THEOREM MinuteIsLimited == Spec => []AdmittedPerMinute
<1>1. Rate!IInv => AdmittedPerMinute
  <2> SUFFICES ASSUME Rate!TypeOK, Rate!AccountedFor PROVE Rate!AdmittedPerMinute
    BY DEF Rate!IInv, AdmittedPerMinute
  <2> USE RateAssumed
  <2>1. ASSUME NEW m \in Rate!Minute
        PROVE  /\ m \notin failures => admitted[m] <= Limit
               /\ admitted[m] <= Limit * (1 + 3 * Cardinality(Proc) + restarts[m])
    <3>1. /\ admitted[m] \in Nat /\ restarts[m] \in Nat
          /\ redisCount[m] \in 0 .. Limit + 1 /\ Rate!Counted(redisCount[m]) \in 0 .. Limit
      BY DEF Rate!TypeOK, Rate!Counted
    <3>2. /\ Cardinality(Rate!Shares(m)) \in Nat /\ Cardinality(Proc) \in Nat
          /\ Cardinality(Rate!Shares(m)) <= Cardinality(Proc) * (3 * Limit)
      BY SharesBounded, FS_CardinalityType
    <3>3. Limit * (1 + 3 * Cardinality(Proc) + restarts[m])
            = Limit + Cardinality(Proc) * (3 * Limit) + Limit * restarts[m]
      <4> SUFFICES ASSUME NEW l \in Nat, NEW c \in Nat, NEW n \in Nat
                   PROVE  l * (1 + 3 * c + n) = l + c * (3 * l) + l * n
        BY <3>1, <3>2
      <4> QED
        OBVIOUS
    <3>4. Limit * restarts[m] \in Nat /\ Cardinality(Proc) * (3 * Limit) \in Nat
      BY <3>1, <3>2
    <3>5. QED
      BY <3>1, <3>2, <3>3, <3>4, AccountOf
  <2>2. QED
    BY <2>1, RateSets DEF Rate!AdmittedPerMinute
<1>2. QED
  BY RateInvariant, <1>1, PTL

-----------------------------------------------------------------------------
(***************************************************************************)
(* Recognition.                                                            *)
(***************************************************************************)

LEMMA RecogMoves == [Next]_vars => [Recog!Next]_(Recog!vars)
BY DEF Next, ClientStep, ResetStep, DeptStep, RateStep, OrgStep, RecogStep, DataStep,
   vars, recogVars, Recog!vars

LEMMA RecogSets == \A S : Recog!Cardinality(S) = Cardinality(S)
BY DEF Recog!Cardinality, Cardinality

\* What pictures and settings are.
LEMMA PicturesAre ==
    /\ \A p \in Picture : p.score \in [Person -> Nat]
    /\ \A p \in Picture, u \in Person : p.score[u] \in Nat
    /\ \E S : \A p \in Picture : p.faces \in Seq(S)
<1>1. \A p \in Picture :
        /\ p.score \in [Person -> Nat]
        /\ p.faces \in Seq([mesh : BOOLEAN, eyes : Nat, nose : Nat, texture : Nat])
  BY HandlersAssumption DEF HandlersAssumption, Recog!RecognitionAssumption
<1>2. QED
  BY <1>1

LEMMA SettingsAre ==
    /\ \A s \in RecognitionSettings : s.match \in Nat /\ s.liveness \in Nat
    /\ \E s \in RecognitionSettings : s.required
BY HandlersAssumption DEF HandlersAssumption, Recog!RecognitionAssumption

\* The lists of pictures that a request may bring.
LEMMA BatchesAre == \A b \in PictureLists : b \in Seq(Picture)
BY HandlersAssumption DEF HandlersAssumption, Recog!RecognitionAssumption

-----------------------------------------------------------------------------
\* Enough of the checks for a threshold of two thirds is all of them.
LEMMA AllPass ==
    ASSUME NEW M, IsFiniteSet(M), Cardinality(M) \in {1, 2, 3}, NEW P \in SUBSET M,
           NEW t \in Nat, t >= 67, 100 * Cardinality(P) >= t * Cardinality(M)
    PROVE  P = M
<1>1. PICK m \in {1, 2, 3} : m = Cardinality(M)
  OBVIOUS
<1>2. Cardinality(P) \in Nat /\ Cardinality(P) <= m
  BY <1>1, FS_Subset, FS_CardinalityType
<1>3. PICK p \in Nat : p = Cardinality(P) /\ p <= m /\ 100 * p >= t * m
  BY <1>1, <1>2
<1>4. p = m
  <2>1. t * m >= 67 * m
    BY <1>1
  <2>2. QED
    BY <1>1, <1>3, <2>1
<1>5. QED
  BY <1>1, <1>3, <1>4, FS_Subset

\* The frames with a face mesh.
LEMMA SeenIs ==
    ASSUME NEW S, NEW frames \in Seq(S)
    PROVE  Len(Recog!Seen(frames)) \in Nat
<1> DEFINE meshed == {i \in DOMAIN frames : frames[i].mesh}
<1>1. meshed \subseteq 1 .. Len(frames) /\ Len(frames) \in Nat
  OBVIOUS
<1>2. Cardinality(meshed) \in Nat
  <2>1. IsFiniteSet(1 .. Len(frames))
    BY FS_Interval
  <2>2. IsFiniteSet(meshed)
    BY <1>1, <2>1, FS_Subset
  <2>3. QED
    BY <2>2, FS_CardinalityType
<1> HIDE DEF meshed
<1>3. Len(Recog!Seen(frames)) = Cardinality(meshed)
  BY <1>2, RecogSets DEF Recog!Seen, meshed
<1>4. QED
  BY <1>2, <1>3

LEMMA LiveIsGenuine ==
    ASSUME NEW S, NEW frames \in Seq(S), NEW t \in Nat, t >= 67, Recog!Live(frames, t)
    PROVE  Recog!Genuine(frames)
<1>0. PICK seen : seen = Recog!Seen(frames)
  OBVIOUS
<1>1. PICK n \in Nat : n = Len(seen)
  <2>1. Len(Recog!Seen(frames)) \in Nat
    BY SeenIs
  <2>2. QED
    BY <1>0, <2>1
<1>2. PICK T, B, V : /\ T = Recog!TextureSeen(seen) /\ B = Recog!BlinkSeen(seen)
                     /\ V = Recog!MovementSeen(seen)
  OBVIOUS
<1> DEFINE M == {<<T, "texture">>} \cup (IF n >= 3 THEN {<<B, "blink">>} ELSE {})
                  \cup (IF n >= 5 THEN {<<V, "movement">>} ELSE {})
           P == {c \in M : c[1]}
<1>3. Recog!Measured(seen) = M
  BY <1>1, <1>2 DEF Recog!Measured
<1>4. 100 * Cardinality(P) >= t * Cardinality(M)
  BY <1>0, <1>3, RecogSets DEF Recog!Live
<1>5. IsFiniteSet(M) /\ Cardinality(M) = IF n >= 5 THEN 3 ELSE IF n >= 3 THEN 2 ELSE 1
  <2>0. PICK x, y, z : x = <<T, "texture">> /\ y = <<B, "blink">> /\ z = <<V, "movement">>
    OBVIOUS
  <2>1. x # y /\ x # z /\ y # z
    <3>1. x[2] = "texture" /\ y[2] = "blink" /\ z[2] = "movement"
      BY <2>0
    <3>2. QED
      BY <3>1
  <2>2. PICK one, two, three : one = {x} /\ two = one \cup {y} /\ three = two \cup {z}
    OBVIOUS
  <2>3. IsFiniteSet(one) /\ Cardinality(one) = 1 /\ y \notin one
    BY <2>1, <2>2, FS_Singleton
  <2>4. IsFiniteSet(two) /\ Cardinality(two) = 2 /\ z \notin two
    <3>1. z \notin two
      BY <2>1, <2>2
    <3>2. /\ IsFiniteSet(one \cup {y})
          /\ Cardinality(one \cup {y}) = IF y \in one THEN Cardinality(one) ELSE Cardinality(one) + 1
      BY <2>3, FS_AddElement
    <3>3. IsFiniteSet(two) /\ Cardinality(two) = 1 + 1
      BY <2>2, <2>3, <3>2
    <3>4. QED
      BY <3>1, <3>3
  <2>5. IsFiniteSet(three) /\ Cardinality(three) = 3
    <3>1. /\ IsFiniteSet(two \cup {z})
          /\ Cardinality(two \cup {z}) = IF z \in two THEN Cardinality(two) ELSE Cardinality(two) + 1
      BY <2>4, FS_AddElement
    <3>2. IsFiniteSet(three) /\ Cardinality(three) = 2 + 1
      BY <2>2, <2>4, <3>1
    <3>3. QED
      BY <3>2
  <2>6. M = IF n >= 5 THEN three ELSE IF n >= 3 THEN two ELSE one
    BY <2>0, <2>2
  <2> HIDE DEF M
  <2>7. QED
    BY <2>3, <2>4, <2>5, <2>6
<1>6. P = M
  <2>1. Cardinality(M) \in {1, 2, 3} /\ P \in SUBSET M
    BY <1>5
  <2> HIDE DEF M, P
  <2>2. QED
    BY <1>4, <1>5, <2>1, AllPass
<1>7. \A c \in M : c[1]
  BY <1>6
<1>8. /\ T
      /\ n >= 3 => B
      /\ n >= 5 => V
  <2>1. <<T, "texture">>[1]
    BY <1>7
  <2>2. n >= 3 => <<B, "blink">>[1]
    BY <1>7
  <2>3. n >= 5 => <<V, "movement">>[1]
    BY <1>7
  <2>4. QED
    BY <2>1, <2>2, <2>3
<1>9. QED
  BY <1>0, <1>1, <1>2, <1>8 DEF Recog!Genuine

-----------------------------------------------------------------------------
LEMMA HeldIs ==
    ASSUME NEW q \in Recog!Held
    PROVE  /\ q.at \in {"settings", "judge", "spoof", "match", "lookup", "mark"}
           /\ q.todo \in Seq(Picture) /\ q.results \in Seq(Recog!Result) /\ q.size \in Nat
           /\ q.settings \in {NoThreshold} \cup RecognitionSettings /\ q.user \in {NoThreshold} \cup Person
           /\ q.threshold \in {NoThreshold} \cup Nat /\ q.gone \subseteq Person
           /\ q # Recog!Idle
BY DEF Recog!Held, Recog!Idle

\* What an answer says of a picture.
LEMMA ResultsIs ==
    ASSUME NEW x \in Recog!Result
    PROVE  x.picture \in Picture /\ x.outcome \in Recog!Outcome
BY DEF Recog!Result

\* A picture is answered.
LEMMA PictureAnswered ==
    ASSUME NEW q \in Recog!Held, Recog!Known(q), q.at # "settings", q.todo # <<>>,
           NEW outcome \in Recog!Outcome, NEW user \in Person \cup {NoThreshold},
           outcome \in {"match", "marked"} => user \in Person /\ Recog!Named(q, Head(q.todo), user),
           NEW a,
           a = [q EXCEPT !.at = "judge", !.todo = Tail(@),
                         !.results = Append(@, [picture |-> Head(q.todo), outcome |-> outcome,
                                                user |-> user])]
    PROVE  a \in Recog!Held /\ Recog!Known(a)
<1>1. PICK x : x = [picture |-> Head(q.todo), outcome |-> outcome, user |-> user]
  OBVIOUS
<1>2. /\ Head(q.todo) \in Picture /\ Tail(q.todo) \in Seq(Picture)
      /\ Len(Tail(q.todo)) = Len(q.todo) - 1 /\ Len(q.todo) \in Nat
      /\ q.results \in Seq(Recog!Result)
  BY HeldIs
<1>3. x \in Recog!Result /\ x.picture = Head(q.todo) /\ x.outcome = outcome /\ x.user = user
  BY <1>1, <1>2 DEF Recog!Result
<1>4. /\ Append(q.results, x) \in Seq(Recog!Result)
      /\ Len(Append(q.results, x)) = Len(q.results) + 1 /\ Len(q.results) \in Nat
      /\ \A i \in DOMAIN Append(q.results, x) :
           \/ i \in DOMAIN q.results /\ Append(q.results, x)[i] = q.results[i]
           \/ Append(q.results, x)[i] = x
  BY <1>2, <1>3
<1>5. a = [q EXCEPT !.at = "judge", !.todo = Tail(q.todo), !.results = Append(q.results, x)]
  BY <1>1
<1>6. /\ a \in Recog!Held
      /\ a.at = "judge" /\ a.todo = Tail(q.todo) /\ a.results = Append(q.results, x)
      /\ a.size = q.size /\ a.check = q.check /\ a.settings = q.settings /\ a.batch = q.batch
  BY <1>2, <1>4, <1>5 DEF Recog!Held
<1>7. \A p, u : Recog!Named(a, p, u) <=> Recog!Named(q, p, u)
  BY <1>6 DEF Recog!Named
<1>8. Recog!Known(a)
  <2>0. Len(q.todo) + Len(q.results) = q.size
    BY DEF Recog!Known
  <2>1. Len(a.todo) + Len(a.results) = a.size
    <3>1. Len(a.todo) = Len(q.todo) - 1 /\ Len(a.results) = Len(q.results) + 1 /\ a.size = q.size
      BY <1>2, <1>4, <1>6
    <3>2. Len(q.todo) \in Nat /\ Len(q.results) \in Nat
      BY <1>2, <1>4
    <3>3. PICK k, l, m, n : /\ k = Len(a.todo) /\ l = Len(a.results)
                            /\ m = Len(q.todo) /\ n = Len(q.results)
      OBVIOUS
    <3>4. m + n = q.size /\ k = m - 1 /\ l = n + 1 /\ m \in Nat /\ n \in Nat
      BY <2>0, <3>1, <3>2, <3>3
    <3>5. k + l = q.size
      BY ONLY <3>4
    <3>6. QED
      BY <3>1, <3>3, <3>5
  <2>2. a.settings \in RecognitionSettings
    BY <1>6 DEF Recog!Known
  <2>3. \A i \in DOMAIN a.results :
          a.results[i].outcome \in {"match", "marked"} =>
            a.results[i].user \in Person /\ Recog!Named(a, a.results[i].picture, a.results[i].user)
    BY <1>3, <1>4, <1>6, <1>7 DEF Recog!Known
  <2>4. QED
    BY <1>6, <2>1, <2>2, <2>3 DEF Recog!Known
<1>9. QED
  BY <1>6, <1>8

RecogKnown == \A r \in Camera : request[r] # Recog!Idle => Recog!Known(request[r])
RecogGoesOn == Recog!TypeOK' /\ RecogKnown'

\* One request goes on.
LEMMA RequestGoesOn ==
    ASSUME Recog!TypeOK, RecogKnown, NEW r \in Camera, NEW a,
           a = Recog!Idle \/ (a \in Recog!Held /\ Recog!Known(a)),
           Recog!Goes(r, a), UNCHANGED <<settings, present, index>>
    PROVE  RecogGoesOn
<1>1. request' = [request EXCEPT ![r] = a]
  BY DEF Recog!Goes
<1>2. Recog!TypeOK'
  BY <1>1 DEF Recog!TypeOK
<1>3. \A q : Recog!Known(q)' <=> Recog!Known(q)
  BY DEF Recog!Known
<1>4. ASSUME NEW x \in Camera, request'[x] # Recog!Idle PROVE Recog!Known(request[x])'
  <2>1. PICK q : q = request'[x]
    OBVIOUS
  <2>2. Recog!Known(q)
    BY <1>1, <1>4, <2>1 DEF RecogKnown, Recog!TypeOK
  <2>3. Recog!Known(q)'
    BY <1>3, <2>2
  <2>4. QED
    BY <2>1, <2>3 DEF Recog!Known, Recog!Named
<1>5. QED
  BY <1>2, <1>4 DEF RecogGoesOn, RecogKnown

\* The types of what a handler works on.
LEMMA AtHand ==
    ASSUME Recog!TypeOK, RecogKnown, NEW r \in Camera, request[r] # Recog!Idle
    PROVE  request[r] \in Recog!Held /\ Recog!Known(request[r])
BY DEF Recog!TypeOK, RecogKnown

LEMMA NotIdle == ASSUME Recog!TypeOK, NEW r \in Camera, request[r].at # "idle" PROVE request[r] # Recog!Idle
BY DEF Recog!Idle

\* The threshold is never below the floor.
LEMMA ThresholdIs ==
    ASSUME NEW q \in Recog!Held, q.settings \in RecognitionSettings
    PROVE  /\ Recog!Threshold(q.settings, q.threshold) \in Nat
           /\ Recog!Threshold(q.settings, q.threshold) >= Floor
<1>1. PICK t \in Nat : t = IF q.threshold # NoThreshold THEN q.threshold ELSE q.settings.match
  BY HeldIs, SettingsAre
<1>2. Recog!Threshold(q.settings, q.threshold) = Recog!Max({t, Floor})
  BY <1>1 DEF Recog!Threshold
<1>3. Floor \in Nat
  BY HandlersAssumption DEF HandlersAssumption, Recog!RecognitionAssumption
<1>4. \E x \in {t, Floor} : \A y \in {t, Floor} : x >= y
  BY <1>3
<1>5. Recog!Max({t, Floor}) \in {t, Floor} /\ Recog!Max({t, Floor}) >= Floor
  BY <1>4 DEF Recog!Max
<1>6. QED
  BY <1>2, <1>3, <1>5

LEMMA RecognizeGoesOn ==
    ASSUME Recog!TypeOK, RecogKnown, NEW r \in Camera, NEW pictures \in Seq(Picture),
           NEW b \in BOOLEAN, NEW check \in BOOLEAN, NEW mark \in BOOLEAN,
           NEW t \in {NoThreshold} \cup Thresholds, Recog!Recognize(r, pictures, b, check, t, mark)
    PROVE  RecogGoesOn
<1>1. PICK matcher, a :
           /\ matcher \in BOOLEAN
           /\ a = [at |-> "settings", todo |-> pictures, size |-> Len(pictures), batch |-> b,
                   check |-> check, threshold |-> t, mark |-> mark, results |-> <<>>,
                   settings |-> NoThreshold, user |-> NoThreshold, gone |-> {},
                   matcher |-> matcher]
           /\ Recog!Goes(r, a)
  <2>1. PICK matcher \in IF b /\ index = {} THEN BOOLEAN ELSE {TRUE} :
               Recog!Goes(r, [at |-> "settings", todo |-> pictures, size |-> Len(pictures),
                              batch |-> b, check |-> check, threshold |-> t, mark |-> mark,
                              results |-> <<>>, settings |-> NoThreshold, user |-> NoThreshold,
                              gone |-> {}, matcher |-> matcher])
    BY DEF Recog!Recognize
  <2>2. matcher \in BOOLEAN
    BY <2>1
  <2>3. QED
    BY <2>1, <2>2
<1>2. UNCHANGED <<settings, present, index>>
  BY DEF Recog!Recognize
<1>3. a \in Recog!Held
  <2>1. t \in {NoThreshold} \cup Nat
    BY HandlersAssumption DEF HandlersAssumption, Recog!RecognitionAssumption
  <2>2. QED
    BY <1>1, <2>1 DEF Recog!Held
<1>4. a.at = "settings" /\ a.results = <<>> /\ a.todo = pictures /\ a.size = Len(pictures)
  BY <1>1
<1>5. Len(a.todo) + Len(a.results) = a.size
  BY <1>4
<1>6. Recog!Known(a)
  BY <1>4, <1>5 DEF Recog!Known
<1>7. QED
  BY <1>1, <1>2, <1>3, <1>6, RequestGoesOn

LEMMA LoadSettingsGoesOn ==
    ASSUME Recog!TypeOK, RecogKnown, NEW r \in Camera, Recog!LoadSettings(r)
    PROVE  RecogGoesOn
<1>1. PICK q, a : q = request[r] /\ a = [q EXCEPT !.at = "judge", !.settings = settings]
  OBVIOUS
<1>2. q.at = "settings" /\ Recog!Goes(r, a) /\ UNCHANGED <<settings, present, index>>
  BY <1>1 DEF Recog!LoadSettings
<1>3. q \in Recog!Held /\ Recog!Known(q)
  BY <1>1, <1>2, AtHand, NotIdle
<1>4. /\ a \in Recog!Held /\ a.at = "judge" /\ a.settings = settings /\ a.todo = q.todo
      /\ a.results = q.results /\ a.size = q.size
  BY <1>1, <1>3 DEF Recog!Held, Recog!TypeOK
<1>5. /\ q.results = <<>> /\ Len(q.todo) + Len(q.results) = q.size /\ settings \in RecognitionSettings
  BY <1>2, <1>3 DEF Recog!Known, Recog!TypeOK
<1>6. Recog!Known(a)
  BY <1>4, <1>5 DEF Recog!Known
<1>7. QED
  BY <1>2, <1>4, <1>6, RequestGoesOn

LEMMA JudgeGoesOn ==
    ASSUME Recog!TypeOK, RecogKnown, NEW r \in Camera, Recog!Judge(r)
    PROVE  RecogGoesOn
<1>1. PICK q : q = request[r]
  OBVIOUS
<1>2. /\ q.at = "judge" /\ q.todo # <<>>
      /\ UNCHANGED <<settings, present, index>>
      /\ q \in Recog!Held /\ Recog!Known(q)
  BY <1>1, AtHand, NotIdle DEF Recog!Judge
<1>3. CASE Recog!AnswerPicture(r, "no_face", NoThreshold)
  <2>1. PICK a : a = [q EXCEPT !.at = "judge", !.todo = Tail(@),
                        !.results = Append(@, [picture |-> Head(q.todo), outcome |-> "no_face",
                                               user |-> NoThreshold])]
    OBVIOUS
  <2>2. Recog!Goes(r, a)
    BY <1>1, <1>3, <2>1 DEF Recog!AnswerPicture, Recog!Shown
  <2>3. "no_face" \in Recog!Outcome
    BY DEF Recog!Outcome
  <2>4. a \in Recog!Held /\ Recog!Known(a)
    BY <1>2, <2>1, <2>3, PictureAnswered
  <2>5. QED
    BY <1>2, <2>2, <2>4, RequestGoesOn
<1>4. ASSUME NEW where \in {"spoof", "match"}, Recog!Goes(r, [request[r] EXCEPT !.at = where]),
             where = "match" /\ q.check /\ q.settings.required =>
               Recog!Live(Recog!FacesOf(q.batch, Head(q.todo)), q.settings.liveness)
      PROVE  RecogGoesOn
  <2>1. PICK a : a = [q EXCEPT !.at = where]
    OBVIOUS
  <2>2. /\ a \in Recog!Held /\ a.at = where /\ a.todo = q.todo /\ a.results = q.results
        /\ a.size = q.size /\ a.check = q.check /\ a.settings = q.settings /\ a.batch = q.batch
    BY <1>2, <2>1 DEF Recog!Held
  <2>3. \A p, u : Recog!Named(a, p, u) <=> Recog!Named(q, p, u)
    BY <2>2 DEF Recog!Named
  <2>4. Recog!Known(a)
    BY <1>2, <1>4, <2>2, <2>3 DEF Recog!Known
  <2>5. Recog!Goes(r, a)
    BY <1>1, <1>4, <2>1
  <2>6. QED
    BY <1>2, <2>2, <2>4, <2>5, RequestGoesOn
<1>5. \/ Recog!AnswerPicture(r, "no_face", NoThreshold)
      \/ Recog!Goes(r, [request[r] EXCEPT !.at = "spoof"])
      \/ /\ Recog!Goes(r, [request[r] EXCEPT !.at = "match"])
         /\ q.check /\ q.settings.required =>
              Recog!Live(Recog!FacesOf(q.batch, Head(q.todo)), q.settings.liveness)
  BY <1>1 DEF Recog!Judge, Recog!Checked, Recog!Faces, Recog!Shown
<1>6. QED
  BY <1>3, <1>4, <1>5

LEMMA RecordSpoofGoesOn ==
    ASSUME Recog!TypeOK, RecogKnown, NEW r \in Camera, Recog!RecordSpoof(r)
    PROVE  RecogGoesOn
<1>1. PICK outcome \in {"spoof_recorded", "spoof"} : Recog!AnswerPicture(r, outcome, NoThreshold)
  BY DEF Recog!RecordSpoof
<1>2. PICK q : q = request[r]
  OBVIOUS
<1>3. /\ q.at = "spoof" /\ UNCHANGED <<settings, present, index>>
      /\ q \in Recog!Held /\ Recog!Known(q)
  BY <1>2, AtHand, NotIdle DEF Recog!RecordSpoof
<1>4. PICK a : a = [q EXCEPT !.at = "judge", !.todo = Tail(@),
                      !.results = Append(@, [picture |-> Head(q.todo), outcome |-> outcome,
                                             user |-> NoThreshold])]
  OBVIOUS
<1>5. Recog!Goes(r, a)
  BY <1>1, <1>2, <1>4 DEF Recog!AnswerPicture, Recog!Shown
<1>6. outcome \in Recog!Outcome /\ outcome \notin {"match", "marked"}
  BY DEF Recog!Outcome
<1>7. q.todo # <<>>
  BY <1>3 DEF Recog!Known
<1>8. a \in Recog!Held /\ Recog!Known(a)
  BY <1>3, <1>4, <1>6, <1>7, PictureAnswered
<1>9. QED
  BY <1>3, <1>5, <1>8, RequestGoesOn

LEMMA MatchGoesOn ==
    ASSUME Recog!TypeOK, RecogKnown, NEW r \in Camera, Recog!Match(r)
    PROVE  RecogGoesOn
<1>1. PICK q, found :
        /\ q = request[r]
        /\ found = IF request[r].matcher THEN Recog!Candidates(Recog!Shown(r), Recog!Required(r)) ELSE {}
  OBVIOUS
<1>2. /\ q.at = "match" /\ UNCHANGED <<settings, present, index>>
      /\ q \in Recog!Held /\ Recog!Known(q)
  BY <1>1, AtHand, NotIdle DEF Recog!Match
<1>3. \/ Recog!AnswerPicture(r, "no_match", NoThreshold)
      \/ \E u \in found : Recog!Goes(r, [q EXCEPT !.at = "lookup", !.user = u])
  BY <1>1 DEF Recog!Match
<1>4. q.todo # <<>> /\ q.settings \in RecognitionSettings
  BY <1>2 DEF Recog!Known
<1>5. CASE Recog!AnswerPicture(r, "no_match", NoThreshold)
  <2>1. PICK a : a = [q EXCEPT !.at = "judge", !.todo = Tail(@),
                        !.results = Append(@, [picture |-> Head(q.todo), outcome |-> "no_match",
                                               user |-> NoThreshold])]
    OBVIOUS
  <2>2. Recog!Goes(r, a)
    BY <1>1, <1>5, <2>1 DEF Recog!AnswerPicture, Recog!Shown
  <2>3. "no_match" \in Recog!Outcome
    BY DEF Recog!Outcome
  <2>4. a \in Recog!Held /\ Recog!Known(a)
    BY <1>2, <1>4, <2>1, <2>3, PictureAnswered
  <2>5. QED
    BY <1>2, <2>2, <2>4, RequestGoesOn
<1>6. ASSUME NEW u \in found, Recog!Goes(r, [q EXCEPT !.at = "lookup", !.user = u])
      PROVE  RecogGoesOn
  <2>1. PICK a : a = [q EXCEPT !.at = "lookup", !.user = u]
    OBVIOUS
  <2>2. PICK picture \in Picture : picture = Head(q.todo)
    BY <1>2, <1>4, HeldIs
  <2>3. /\ u \in Person
        /\ picture.score[u] >= Recog!Threshold(q.settings, q.threshold)
    BY <1>1, <2>2 DEF Recog!Candidates, Recog!Shown, Recog!Required, Recog!TypeOK
  <2>4. picture.score[u] >= Floor
    <3>1. picture.score[u] \in Nat /\ Floor \in Nat
      BY <2>3, PicturesAre, HandlersAssumption DEF HandlersAssumption, Recog!RecognitionAssumption
    <3>2. /\ Recog!Threshold(q.settings, q.threshold) \in Nat
          /\ Recog!Threshold(q.settings, q.threshold) >= Floor
      BY <1>2, <1>4, ThresholdIs
    <3>3. QED
      BY <2>3, <3>1, <3>2
  <2>5. /\ a \in Recog!Held /\ a.at = "lookup" /\ a.todo = q.todo /\ a.results = q.results
        /\ a.size = q.size /\ a.check = q.check /\ a.settings = q.settings /\ a.batch = q.batch
        /\ a.user = u
    BY <1>2, <2>1, <2>3 DEF Recog!Held
  <2>6. \A p, x : Recog!Named(a, p, x) <=> Recog!Named(q, p, x)
    BY <2>5 DEF Recog!Named
  <2>7. Recog!Named(q, picture, u)
    BY <1>2, <2>2, <2>4 DEF Recog!Named, Recog!Known
  <2>8. Recog!Known(a)
    BY <1>2, <1>4, <2>2, <2>3, <2>5, <2>6, <2>7 DEF Recog!Known
  <2>9. Recog!Goes(r, a)
    BY <1>6, <2>1
  <2>10. QED
    BY <1>2, <2>5, <2>8, <2>9, RequestGoesOn
<1>7. QED
  BY <1>3, <1>5, <1>6

LEMMA LookupGoesOn ==
    ASSUME Recog!TypeOK, RecogKnown, NEW r \in Camera, Recog!Lookup(r)
    PROVE  RecogGoesOn
<1>1. PICK q : q = request[r]
  OBVIOUS
<1>2. /\ q.at = "lookup" /\ UNCHANGED <<settings, present, index>>
      /\ q \in Recog!Held /\ Recog!Known(q)
  BY <1>1, AtHand, NotIdle DEF Recog!Lookup
<1>3. /\ q.todo # <<>> /\ q.settings \in RecognitionSettings /\ q.user \in Person
      /\ Recog!Named(q, Head(q.todo), q.user)
  BY <1>2 DEF Recog!Known
<1>4. ASSUME NEW outcome \in {"no_match", "match"}, NEW user \in {NoThreshold, q.user},
             outcome = "match" => user = q.user, Recog!AnswerPicture(r, outcome, user)
      PROVE  RecogGoesOn
  <2>1. PICK a : a = [q EXCEPT !.at = "judge", !.todo = Tail(@),
                        !.results = Append(@, [picture |-> Head(q.todo), outcome |-> outcome,
                                               user |-> user])]
    OBVIOUS
  <2>2. Recog!Goes(r, a)
    BY <1>1, <1>4, <2>1 DEF Recog!AnswerPicture, Recog!Shown
  <2>3. outcome \in Recog!Outcome /\ outcome # "marked" /\ user \in Person \cup {NoThreshold}
    BY <1>3 DEF Recog!Outcome
  <2>4. a \in Recog!Held /\ Recog!Known(a)
    BY <1>2, <1>3, <1>4, <2>1, <2>3, PictureAnswered
  <2>5. QED
    BY <1>2, <2>2, <2>4, RequestGoesOn
<1>5. ASSUME Recog!Goes(r, [q EXCEPT !.at = "mark", !.gone = {}]), q.user \in present
      PROVE  RecogGoesOn
  <2>1. PICK a : a = [q EXCEPT !.at = "mark", !.gone = {}]
    OBVIOUS
  <2>2. /\ a \in Recog!Held /\ a.at = "mark" /\ a.todo = q.todo /\ a.results = q.results
        /\ a.size = q.size /\ a.check = q.check /\ a.settings = q.settings /\ a.batch = q.batch
        /\ a.user = q.user
    BY <1>2, <2>1 DEF Recog!Held
  <2>3. \A p, x : Recog!Named(a, p, x) <=> Recog!Named(q, p, x)
    BY <2>2 DEF Recog!Named
  <2>4. Recog!Known(a)
    BY <1>2, <1>3, <1>5, <2>2, <2>3 DEF Recog!Known
  <2>5. Recog!Goes(r, a)
    BY <1>5, <2>1
  <2>6. QED
    BY <1>2, <2>2, <2>4, <2>5, RequestGoesOn
<1>6. \/ Recog!AnswerPicture(r, "no_match", NoThreshold)
      \/ q.user \in present /\ Recog!Goes(r, [q EXCEPT !.at = "mark", !.gone = {}])
      \/ Recog!AnswerPicture(r, "match", q.user)
  BY <1>1 DEF Recog!Lookup
<1>7. QED
  BY <1>4, <1>5, <1>6

LEMMA MarkGoesOn ==
    ASSUME Recog!TypeOK, RecogKnown, NEW r \in Camera, Recog!Mark(r)
    PROVE  RecogGoesOn
<1>1. PICK q : q = request[r]
  OBVIOUS
<1>2. /\ q.at = "mark" /\ UNCHANGED <<settings, present, index>>
      /\ q \in Recog!Held /\ Recog!Known(q)
  BY <1>1, AtHand, NotIdle DEF Recog!Mark
<1>3. q.todo # <<>> /\ q.user \in Person /\ Recog!Named(q, Head(q.todo), q.user)
  BY <1>2 DEF Recog!Known
<1>4. PICK a, user : /\ user = q.user
                     /\ a = [q EXCEPT !.at = "judge", !.todo = Tail(@),
                               !.results = Append(@, [picture |-> Head(q.todo), outcome |-> "marked",
                                                      user |-> user])]
  OBVIOUS
<1>5. Recog!Goes(r, a)
  BY <1>1, <1>4 DEF Recog!Mark, Recog!AnswerPicture, Recog!Shown
<1>6. "marked" \in Recog!Outcome /\ user \in Person /\ Recog!Named(q, Head(q.todo), user)
  BY <1>3, <1>4 DEF Recog!Outcome
<1>7. a \in Recog!Held /\ Recog!Known(a)
  BY <1>2, <1>3, <1>4, <1>6, PictureAnswered
<1>8. QED
  BY <1>2, <1>5, <1>7, RequestGoesOn

LEMMA EndGoesOn ==
    ASSUME Recog!TypeOK, RecogKnown, NEW r \in Camera, Recog!End(r)
    PROVE  RecogGoesOn
BY RequestGoesOn DEF Recog!End

\* Settings are saved, users come and go.
LEMMA OthersGoOn ==
    ASSUME Recog!TypeOK, RecogKnown, settings' \in RecognitionSettings, index' \subseteq Person,
           present' \subseteq Person, request' = request, present \subseteq present'
    PROVE  RecogGoesOn
<1>1. Recog!TypeOK'
  BY DEF Recog!TypeOK
<1>2. ASSUME NEW x \in Camera, request'[x] # Recog!Idle PROVE Recog!Known(request[x])'
  <2>1. PICK q : q = request[x]
    OBVIOUS
  <2>2. Recog!Known(q)
    BY <1>2, <2>1 DEF RecogKnown
  <2>3. QED
    BY <2>1, <2>2 DEF Recog!Known, Recog!Named
<1>3. QED
  BY <1>1, <1>2 DEF RecogGoesOn, RecogKnown

LEMMA DeactivateGoesOn ==
    ASSUME Recog!TypeOK, RecogKnown, NEW u \in Person, Recog!Deactivate(u)
    PROVE  RecogGoesOn
<1>1. /\ present' = present \ {u}
      /\ request' = [r \in Camera |-> IF request[r].at = "mark"
                                        THEN [request[r] EXCEPT !.gone = @ \cup {u}] ELSE request[r]]
      /\ UNCHANGED <<settings, index>>
  BY DEF Recog!Deactivate
<1>2. ASSUME NEW x \in Camera
      PROVE  /\ request'[x] \in {Recog!Idle} \cup Recog!Held
             /\ request'[x] # Recog!Idle => Recog!Known(request[x])'
  <2>1. PICK q, a : q = request[x] /\ a = request'[x]
    OBVIOUS
  <2>2. CASE q.at = "mark"
    <3>1. q \in Recog!Held /\ Recog!Known(q)
      BY <2>1, <2>2, AtHand, NotIdle
    <3>2. a = [q EXCEPT !.gone = q.gone \cup {u}]
      BY <1>1, <2>1, <2>2
    <3>3. /\ a \in Recog!Held /\ a.at = q.at /\ a.todo = q.todo /\ a.results = q.results
          /\ a.size = q.size /\ a.check = q.check /\ a.settings = q.settings /\ a.batch = q.batch
          /\ a.user = q.user /\ a.gone = q.gone \cup {u}
      BY <3>1, <3>2 DEF Recog!Held
    <3>4. \A p, y : Recog!Named(a, p, y) <=> Recog!Named(q, p, y)
      BY <3>3 DEF Recog!Named
    <3>5. Recog!Known(a)'
      BY <1>1, <3>1, <3>3, <3>4 DEF Recog!Known, Recog!Named
    <3>6. QED
      BY <2>1, <3>3, <3>5 DEF Recog!Known, Recog!Named
  <2>3. CASE q.at # "mark"
    <3>1. a = q
      BY <1>1, <2>1, <2>3
    <3>2. q \in {Recog!Idle} \cup Recog!Held /\ (q # Recog!Idle => Recog!Known(q))
      BY <2>1 DEF Recog!TypeOK, RecogKnown
    <3>3. Recog!Known(q) => Recog!Known(q)'
      BY <2>3 DEF Recog!Known, Recog!Named
    <3>4. QED
      BY <2>1, <3>1, <3>2, <3>3 DEF Recog!Known, Recog!Named
  <2>4. QED
    BY <2>2, <2>3
<1>3. Recog!TypeOK'
  <2>1. request' \in [Camera -> {Recog!Idle} \cup Recog!Held]
    BY <1>1, <1>2
  <2>2. QED
    BY <1>1, <2>1 DEF Recog!TypeOK
<1>4. QED
  BY <1>2, <1>3 DEF RecogGoesOn, RecogKnown

LEMMA RecogStepGoesOn ==
    ASSUME Recog!TypeOK, RecogKnown, [Recog!Next]_(Recog!vars)
    PROVE  RecogGoesOn
<1>1. CASE UNCHANGED Recog!vars
  BY <1>1, OthersGoOn DEF Recog!vars, Recog!TypeOK
<1>2. ASSUME NEW r \in Camera, NEW p \in Picture, NEW check \in BOOLEAN, NEW mark \in BOOLEAN,
             NEW t \in {NoThreshold} \cup Thresholds, Recog!Recognize(r, <<p>>, FALSE, check, t, mark)
      PROVE  RecogGoesOn
  <2>1. <<p>> \in Seq(Picture)
    OBVIOUS
  <2>2. QED
    BY <1>2, <2>1, RecognizeGoesOn
<1>3. ASSUME NEW r \in Camera, NEW b \in PictureLists, NEW check \in BOOLEAN,
             NEW t \in {NoThreshold} \cup Thresholds, Recog!Recognize(r, b, TRUE, check, t, FALSE)
      PROVE  RecogGoesOn
  BY <1>3, BatchesAre, RecognizeGoesOn
<1>4. ASSUME NEW s \in RecognitionSettings, Recog!SaveSettings(s) PROVE RecogGoesOn
  BY <1>4, OthersGoOn DEF Recog!SaveSettings, Recog!TypeOK
<1>5. ASSUME NEW u \in Person, Recog!Unindex(u) \/ Recog!Reactivate(u) \/ Recog!Enroll(u)
      PROVE  RecogGoesOn
  <2>1. /\ settings' \in RecognitionSettings /\ index' \subseteq Person /\ present' \subseteq Person
        /\ request' = request /\ present \subseteq present'
    BY <1>5 DEF Recog!Unindex, Recog!Reactivate, Recog!Enroll, Recog!TypeOK
  <2>2. QED
    BY <2>1, OthersGoOn
<1>6. QED
  BY <1>1, <1>2, <1>3, <1>4, <1>5, LoadSettingsGoesOn, JudgeGoesOn, RecordSpoofGoesOn, MatchGoesOn,
     LookupGoesOn, MarkGoesOn, EndGoesOn, DeactivateGoesOn DEF Recog!Next

LEMMA RecogInit == Recog!Init => Recog!TypeOK /\ RecogKnown
BY SettingsAre DEF Recog!Init, Recog!TypeOK, RecogKnown

LEMMA RecogIs == Recog!IInv <=> Recog!TypeOK /\ RecogKnown
BY DEF Recog!IInv, RecogKnown

\* The inductive invariant of the recognition.
LEMMA RecogInvariant == Spec => []Recog!IInv
<1>1. Init => Recog!IInv
  BY RecogInit, RecogIs DEF Init
<1>2. Recog!IInv /\ [Next]_vars => Recog!IInv'
  <2> SUFFICES ASSUME Recog!IInv, [Next]_vars PROVE Recog!IInv'
    OBVIOUS
  <2>1. Recog!TypeOK' /\ RecogKnown'
    BY RecogIs, RecogMoves, RecogStepGoesOn DEF RecogGoesOn
  <2>2. QED
    BY <2>1, RecogIs, PTL
<1>3. QED
  BY <1>1, <1>2, PTL DEF Spec

\* Under a liveness threshold of two thirds or more, whom a recognition names passed
\* every check that the frames allowed, and no threshold lets anybody below the floor:
\* for any persons and floor, whatever is saved, enrolled and removed meanwhile
\* (recognition.py:142-239, liveness.py:144-205).
THEOREM NamesAreGenuine == Spec => []MatchesAreGenuine
<1>1. Recog!IInv => MatchesAreGenuine
  <2> SUFFICES ASSUME Recog!TypeOK, RecogKnown PROVE Recog!MatchesAreGenuine
    BY RecogIs DEF MatchesAreGenuine
  <2>1. ASSUME NEW r \in Camera, request[r].at # "idle", NEW i \in DOMAIN request[r].results,
               request[r].results[i].outcome \in {"match", "marked"}
        PROVE  /\ request[r].results[i].picture.score[request[r].results[i].user] >= Floor
               /\ request[r].check /\ request[r].settings.required
                  /\ request[r].settings.liveness >= 67 =>
                    Recog!Genuine(IF request[r].batch THEN <<Head(request[r].results[i].picture.faces)>>
                                  ELSE request[r].results[i].picture.faces)
    <3>1. PICK q, x : q = request[r] /\ x = q.results[i]
      OBVIOUS
    <3>2. q \in Recog!Held /\ Recog!Known(q)
      BY <2>1, <3>1, AtHand, NotIdle
    <3>3. Recog!Named(q, x.picture, x.user)
      BY <2>1, <3>1, <3>2 DEF Recog!Known
    <3>4. x \in Recog!Result /\ q.results \in Seq(Recog!Result)
      BY <2>1, <3>1, <3>2, HeldIs
    <3>5. ASSUME q.check, q.settings.required, q.settings.liveness >= 67
          PROVE  Recog!Genuine(IF q.batch THEN <<Head(x.picture.faces)>> ELSE x.picture.faces)
      <4>1. PICK frames : frames = Recog!FacesOf(q.batch, x.picture)
        OBVIOUS
      <4>2. PICK S : x.picture.faces \in Seq(S)
        BY <3>4, ResultsIs, PicturesAre
      <4>3. frames \in Seq(S)
        BY <4>1, <4>2 DEF Recog!FacesOf
      <4>4. Recog!Live(frames, q.settings.liveness) /\ frames # <<>>
        BY <3>3, <3>5, <4>1 DEF Recog!Named, Recog!Live
      <4>5. q.settings \in RecognitionSettings
        <5>1. q.results # <<>>
          BY <2>1, <3>1
        <5>2. QED
          BY <3>2, <5>1 DEF Recog!Known
      <4>6. Recog!Genuine(frames)
        BY <3>5, <4>3, <4>4, <4>5, SettingsAre, LiveIsGenuine
      <4>7. frames = IF q.batch THEN <<Head(x.picture.faces)>> ELSE x.picture.faces
        BY <4>1, <4>4 DEF Recog!FacesOf
      <4>8. QED
        BY <4>6, <4>7
    <3>6. QED
      BY <3>1, <3>3, <3>5 DEF Recog!Named
  <2>2. QED
    BY <2>1 DEF Recog!MatchesAreGenuine
<1>2. QED
  BY RecogInvariant, <1>1, PTL

\* Whom a recognition marks was active when the request found her, and left, if at
\* all, after that (recognition.py:202-224).
THEOREM ActiveAreMarked == Spec => MarkedWhileActive
<1>1. Recog!IInv /\ [Next]_vars =>
        [\A r \in Camera : request[r].at = "mark" /\ request'[r].at = "judge" =>
           request[r].user \in present \cup request[r].gone]_(Recog!vars)
  <2> SUFFICES ASSUME Recog!TypeOK, RecogKnown, NEW r \in Camera, request[r].at = "mark"
               PROVE  request[r].user \in present \cup request[r].gone
    BY RecogIs
  <2>1. Recog!Known(request[r])
    BY AtHand, NotIdle
  <2>2. QED
    BY <2>1 DEF Recog!Known
<1>2. QED
  BY RecogInvariant, <1>1, PTL DEF Spec, MarkedWhileActive, Recog!MarkedWhileActive

-----------------------------------------------------------------------------
(***************************************************************************)
(* TrainingData.                                                           *)
(***************************************************************************)

LEMMA DataMoves == [Next]_vars => [Data!Next]_(Data!vars)
BY DEF Next, ClientStep, ResetStep, DeptStep, RateStep, OrgStep, RecogStep, DataStep,
   vars, dataVars, Data!vars

LEMMA DataSets ==
    \A S : Data!Cardinality(S) = Cardinality(S) /\ (Data!IsFiniteSet(S) <=> IsFiniteSet(S))
BY DEF Data!Cardinality, Cardinality, Data!IsFiniteSet, IsFiniteSet

LEMMA DataAssumed ==
    /\ IsFiniteSet(Identity)
    /\ MinImages \in Nat /\ MinImages >= 3
    /\ MaxDistance \in Nat /\ MaxScore \in Nat /\ PairLimit \in Nat
    /\ \A c \in Trainings :
         /\ c.p \in Nat /\ c.k \in Nat /\ c.ratio \in 0 .. 100 /\ c.far \in Nat
         /\ c.photos \in [Identity -> Nat]
BY DataSets, HandlersAssumption DEF HandlersAssumption, Data!DataAssumption

\* A set of numbers that has a bound has a least and a greatest one.
LEMMA LeastIs ==
    ASSUME NEW S, S \subseteq Nat, S # {}
    PROVE  Data!Min(S) \in S /\ \A y \in S : Data!Min(S) <= y
<1> DEFINE Less == OpToRel(<, Nat)
<1>1. IsWellFoundedOn(Less, Nat)
  BY NatLessThanWellFounded
<1>2. \A x, y \in S : y < x => <<y, x>> \in Less
  BY DEF OpToRel
<1> HIDE DEF Less
<1>3. PICK x \in S : \A y \in S : ~ (<<y, x>> \in Less)
  BY <1>1, WFMin
<1>4. \A y \in S : ~ (y < x)
  BY <1>2, <1>3, Zenon
<1>5. \A y \in S : x <= y
  BY <1>4
<1>6. QED
  BY <1>5 DEF Data!Min

LEMMA GreatestIs ==
    ASSUME NEW S, S \subseteq Nat, S # {}, NEW n \in Nat, \A x \in S : x <= n
    PROVE  Data!Max(S) \in S /\ \A y \in S : Data!Max(S) >= y
<1> DEFINE T == {n - x : x \in S}
<1>1. T \subseteq Nat /\ T # {}
  <2>1. \A x \in S : n - x \in Nat
    OBVIOUS
  <2>2. PICK x : x \in S
    OBVIOUS
  <2>3. n - x \in T
    BY <2>2
  <2>4. T \subseteq Nat
    BY <2>1
  <2>5. QED
    BY <2>3, <2>4
<1>2. PICK t : t \in T /\ \A y \in T : t <= y
  <2> HIDE DEF T
  <2>1. QED
    BY <1>1, LeastIs
<1>3. PICK x \in S : t = n - x
  BY <1>2
<1>4. \A y \in S : x >= y
  <2>1. \A y \in S : t <= n - y
    BY <1>2
  <2>2. QED
    BY <1>3, <2>1
<1>5. QED
  BY <1>4 DEF Data!Max

LEMMA GreaterOfTwo ==
    ASSUME NEW a \in Nat, NEW b \in Nat
    PROVE  /\ Data!Max({a, b}) = IF a >= b THEN a ELSE b
           /\ Data!Min({a, b}) = IF a <= b THEN a ELSE b
<1>1. \A x \in {a, b} : (\A y \in {a, b} : x >= y) <=> x = IF a >= b THEN a ELSE b
  OBVIOUS
<1>2. \A x \in {a, b} : (\A y \in {a, b} : x <= y) <=> x = IF a <= b THEN a ELSE b
  OBVIOUS
<1>3. QED
  BY <1>1, <1>2 DEF Data!Max, Data!Min

LEMMA ShareAtMost ==
    ASSUME NEW m \in Nat, NEW q \in Nat \ {0}
    PROVE  m \div q \in 0 .. m
<1>1. PICK d \in Int : d = m \div q
  OBVIOUS
<1>2. PICK r \in 0 .. q - 1 : m = q * d + r
  BY <1>1
<1>3. d >= 0
  BY <1>2
<1>4. d <= m
  BY <1>2, <1>3
<1>5. QED
  BY <1>1, <1>3, <1>4

-----------------------------------------------------------------------------
\* The images that are held out of so many.
LEMMA ShareOfImages ==
    ASSUME NEW n \in Nat, NEW r \in 0 .. 100
    PROVE  /\ (n * r) \div 100 \in 0 .. n
           /\ r <= 50 => 2 * ((n * r) \div 100) <= n
<1>1. PICK m : m = n * r
  OBVIOUS
<1>2. m \in Nat /\ m <= n * 100 /\ (r <= 50 => m <= n * 50)
  BY <1>1
<1>3. m \div 100 \in 0 .. n /\ (r <= 50 => 2 * (m \div 100) <= n)
  BY <1>2
<1>4. QED
  BY <1>1, <1>3

LEMMA HeldOutIs ==
    ASSUME Data!Split, NEW i \in Data!Kept
    PROVE  /\ photos[i] \in Nat /\ photos[i] >= 3
           /\ Data!HeldOut(i) \in 1 .. photos[i]
           /\ config.ratio <= 50 => photos[i] - Data!HeldOut(i) >= 2
<1>1. /\ photos[i] \in Nat /\ photos[i] >= 3 /\ config.ratio \in 0 .. 100
  <2>1. i \in Identity /\ config \in Trainings /\ photos[i] = config.photos[i]
        /\ config.photos[i] >= MinImages
    BY DEF Data!Split, Data!Kept
  <2>2. config.photos[i] \in Nat
    BY <2>1, DataAssumed
  <2>3. QED
    BY <2>1, <2>2, DataAssumed
<1>2. PICK n, r, s : n = photos[i] /\ r = config.ratio /\ s = (n * r) \div 100
  OBVIOUS
<1>3. s \in 0 .. n /\ (r <= 50 => 2 * s <= n)
  BY <1>1, <1>2, ShareOfImages
<1>4. Data!Max({1, s}) = IF 1 >= s THEN 1 ELSE s
  <2>1. s \in Nat
    BY <1>1, <1>2, <1>3
  <2>2. QED
    BY <2>1, GreaterOfTwo
<1>5. Data!HeldOut(i) = IF n > 4 THEN (IF 1 >= s THEN 1 ELSE s) ELSE 1
  BY <1>2, <1>4 DEF Data!HeldOut
<1>6. QED
  BY <1>1, <1>2, <1>3, <1>5

LEMMA KeptIs ==
    ASSUME Data!Split
    PROVE  /\ Data!Kept \subseteq Identity /\ Data!Usable \subseteq Data!Kept
           /\ IsFiniteSet(Data!Kept) /\ IsFiniteSet(Data!Usable)
           /\ Cardinality(Data!Usable) \in Nat /\ Cardinality(Data!Kept) >= 2
           /\ Cardinality(Data!Usable) <= Cardinality(Identity) /\ Cardinality(Identity) \in Nat
           /\ config.ratio <= 50 => Data!Usable = Data!Kept
<1>1. Data!Kept \subseteq Identity /\ Data!Usable \subseteq Data!Kept
  BY DEF Data!Split, Data!Kept, Data!Usable
<1>2. /\ IsFiniteSet(Data!Kept) /\ IsFiniteSet(Data!Usable)
      /\ Cardinality(Data!Usable) \in Nat
      /\ Cardinality(Data!Usable) <= Cardinality(Identity) /\ Cardinality(Identity) \in Nat
  <2>1. IsFiniteSet(Data!Kept)
    BY <1>1, DataAssumed, FS_Subset
  <2>2. IsFiniteSet(Data!Usable) /\ Cardinality(Data!Usable) <= Cardinality(Identity)
    BY <1>1, DataAssumed, FS_Subset
  <2>3. QED
    BY <2>1, <2>2, DataAssumed, FS_CardinalityType
<1>3. Cardinality(Data!Kept) >= 2
  BY DataSets DEF Data!Split
<1>4. config.ratio <= 50 => Data!Usable = Data!Kept
  BY HeldOutIs DEF Data!Usable
<1>5. QED
  BY <1>1, <1>2, <1>3, <1>4

\* The images of an identity that a batch takes.
LEMMA TakenIs ==
    ASSUME Data!Split, NEW i \in Data!Usable
    PROVE  /\ Data!Taken(i) \subseteq 1 .. photos[i] - Data!HeldOut(i)
           /\ config.k >= 2 => {1, 2} \subseteq Data!Taken(i)
<1>1. i \in Data!Kept /\ photos[i] - Data!HeldOut(i) >= 2
  BY DEF Data!Usable
<1>2. PICK n, k : n = photos[i] - Data!HeldOut(i) /\ k = config.k
  OBVIOUS
<1>3. n \in Nat /\ n >= 2 /\ k \in Nat
  BY <1>1, <1>2, HeldOutIs, DataAssumed DEF Data!Split
<1>4. Data!Min({k, n}) = IF k <= n THEN k ELSE n
  BY <1>3, GreaterOfTwo
<1>5. Data!Taken(i) = 1 .. (IF k <= n THEN k ELSE n)
  BY <1>2, <1>4 DEF Data!Taken
<1>6. QED
  BY <1>2, <1>3, <1>5

LEMMA BatchesAtMost ==
    ASSUME Data!Split, Data!Usable # {}
    PROVE  Data!Batches \in 1 .. Cardinality(Identity)
<1>1. PICK m, n, p : m = Cardinality(Data!Usable) /\ n = Cardinality(Identity) /\ p = config.p
  OBVIOUS
<1>2. m \in Nat /\ n \in Nat /\ m <= n /\ m >= 1 /\ p \in Nat
  BY <1>1, KeptIs, FS_EmptySet, DataAssumed DEF Data!Split
<1>3. PICK q : q = IF 1 >= p THEN 1 ELSE p
  OBVIOUS
<1>4. q \in Nat \ {0}
  BY ONLY <1>2, <1>3
<1>5. m \div q \in 0 .. m
  BY ONLY <1>2, <1>4, ShareAtMost
<1>6. Data!Max({1, p}) = q
  BY <1>2, <1>3, GreaterOfTwo
<1>7. PICK d : d = m \div q
  OBVIOUS
<1>8. Data!Max({1, d}) = IF 1 >= d THEN 1 ELSE d
  BY <1>2, <1>5, <1>7, GreaterOfTwo
<1>9. Data!Batches = Data!Max({1, d})
  BY <1>1, <1>6, <1>7, DataSets DEF Data!Batches
<1>10. QED
  BY <1>1, <1>2, <1>5, <1>7, <1>8, <1>9

-----------------------------------------------------------------------------
\* What photos and settings determine stays with them, what a batch determines
\* with it.
LEMMA SamePhotos ==
    ASSUME UNCHANGED <<config, photos>>
    PROVE  /\ Data!Kept' = Data!Kept /\ Data!Usable' = Data!Usable
           /\ \A i : Data!HeldOut(i)' = Data!HeldOut(i) /\ Data!Taken(i)' = Data!Taken(i)
           /\ Data!Split' <=> Data!Split
           /\ Data!Scored' = Data!Scored /\ \A s, e : Data!Returns(s, e)' <=> Data!Returns(s, e)
<1>1. Data!Kept' = Data!Kept
  BY DEF Data!Kept
<1>2. \A i : Data!HeldOut(i)' = Data!HeldOut(i)
  BY DEF Data!HeldOut
<1>3. \A i : Data!Taken(i)' = Data!Taken(i)
  BY <1>2 DEF Data!Taken
<1>4. Data!Usable' = Data!Usable
  BY <1>1, <1>2 DEF Data!Usable
<1>5. Data!Split' <=> Data!Split
  BY <1>1 DEF Data!Split
<1>6. Data!Holdout' = Data!Holdout
  BY <1>1, <1>2 DEF Data!Holdout
<1>7. Data!PositivePairs' = Data!PositivePairs /\ Data!NegativePairs' = Data!NegativePairs
  BY <1>6 DEF Data!Pairs, Data!PositivePairs, Data!NegativePairs, Data!Same
<1>8. Data!Scored' = Data!Scored
  BY <1>7 DEF Data!Scored
<1>9. \A neg : Data!FarPosition(neg)' = Data!FarPosition(neg)
  BY DEF Data!FarPosition
<1>10. \A neg : Data!Threshold(neg)' = Data!Threshold(neg)
  BY <1>9 DEF Data!Threshold
<1>11. \A s, e : Data!Returns(s, e)' <=> Data!Returns(s, e)
  BY <1>6, <1>9, <1>10, ZenonT(60) DEF Data!Returns, Data!Ascending, Data!AtLeast, Data!Nothing
<1>12. QED
  BY <1>1, <1>2, <1>3, <1>4, <1>5, <1>8, <1>11

LEMMA SameBatch ==
    ASSUME UNCHANGED <<batch, distance>>, NEW a
    PROVE  /\ Data!HardestPositive(a)' = Data!HardestPositive(a)
           /\ Data!HardestNegative(a)' = Data!HardestNegative(a)
<1>1. \A x, y : Data!Distance(x, y)' = Data!Distance(x, y) /\ Data!Same(x, y)' = Data!Same(x, y)
  BY DEF Data!Distance, Data!Same
<1>2. Data!Farthest' = Data!Farthest
  BY <1>1 DEF Data!Farthest
<1>3. QED
  BY <1>1, <1>2 DEF Data!HardestPositive, Data!HardestNegative

\* Between two batches: what is asked of a step that leaves none.
LEMMA NoBatch ==
    ASSUME stage' \in {"idle", "epoch", "sample", "evaluate"}, batch' = {},
           stage' # "idle" => Data!Split', Data!Kept' \subseteq Identity,
           left' \in 0 .. Cardinality(Identity), stage' = "sample" => left' > 0
    PROVE  Data!IInv'
<1>1. Data!TypeOK'
  BY DataSets DEF Data!TypeOK, Data!Split
<1>2. QED
  BY <1>1 DEF Data!IInv

LEMMA DataTypes ==
    ASSUME Data!IInv
    PROVE  /\ stage \in {"idle", "epoch", "sample", "mine", "mined", "evaluate", "evaluated"}
           /\ left \in 0 .. Cardinality(Identity) /\ Data!Kept \subseteq Identity
           /\ stage # "idle" => Data!Split
           /\ stage \in {"mine", "mined"} => Data!Sampled
           /\ stage \notin {"mine", "mined"} => batch = {}
           /\ stage \in {"sample", "mine"} => left > 0
           /\ stage = "evaluated" => \E s \in Data!Scored : Data!Returns(s, evaluation)
BY DataSets DEF Data!IInv, Data!TypeOK

LEMMA DataInit == Init => Data!IInv
<1> SUFFICES ASSUME Init PROVE Data!IInv
  OBVIOUS
<1>1. stage = "idle" /\ left = 0 /\ batch = {} /\ Data!Kept = {}
  BY DEF Init, Data!Init, Data!Kept
<1>2. Cardinality(Identity) \in Nat
  BY DataAssumed, FS_CardinalityType
<1>3. Data!TypeOK
  BY <1>1, <1>2, DataSets DEF Data!TypeOK
<1>4. QED
  BY <1>1, <1>3 DEF Data!IInv

LEMMA BuildKeeps ==
    ASSUME Data!IInv, NEW c \in Trainings, Data!BuildDatasets(c)
    PROVE  Data!IInv'
<1>1. PICK kept : kept = {i \in Identity : c.photos[i] >= MinImages}
  OBVIOUS
<1>2. /\ stage = "idle" /\ Cardinality(kept) >= 2 /\ config' = c
      /\ photos' = [i \in kept |-> c.photos[i]] /\ stage' = "epoch"
      /\ left' = left /\ batch' = batch
  BY <1>1, DataSets DEF Data!BuildDatasets
<1>3. Data!Kept' = kept
  BY <1>2 DEF Data!Kept
<1>4. Data!Split'
  BY <1>1, <1>2, <1>3, DataSets DEF Data!Split
<1>5. QED
  BY <1>1, <1>2, <1>3, <1>4, DataTypes, NoBatch

LEMMA StartKeeps ==
    ASSUME Data!IInv, Data!StartEpoch
    PROVE  Data!IInv'
<1>1. /\ stage = "epoch" /\ UNCHANGED <<config, photos>> /\ batch' = batch
      /\ left' = IF Data!Usable = {} THEN 0 ELSE Data!Batches
      /\ stage' = IF Data!Usable = {} THEN "evaluate" ELSE "sample"
  BY DEF Data!StartEpoch
<1>2. Data!Split /\ Cardinality(Identity) \in Nat
  BY <1>1, DataTypes, DataAssumed, FS_CardinalityType
<1>3. left' \in 0 .. Cardinality(Identity) /\ (stage' = "sample" => left' > 0)
  BY <1>1, <1>2, BatchesAtMost
<1>4. Data!Split' /\ Data!Kept' \subseteq Identity
  BY <1>1, <1>2, SamePhotos, DataTypes
<1>5. stage' \in {"idle", "epoch", "sample", "evaluate"} /\ batch' = {}
  BY <1>1, DataTypes
<1>6. QED
  BY <1>3, <1>4, <1>5, NoBatch

LEMMA SampleKeeps ==
    ASSUME Data!IInv, Data!SampleBatch
    PROVE  Data!IInv'
<1>1. PICK chosen \in Data!kSubset(Data!Min({config.p, Data!Cardinality(Data!Usable)}), Data!Usable) :
        batch' = UNION {{i} \X Data!Taken(i) : i \in chosen}
  BY DEF Data!SampleBatch
<1>2. /\ stage = "sample" /\ stage' = "mine" /\ UNCHANGED <<config, photos, left>>
      /\ distance' \in [Data!kSubset(2, batch') -> 0 .. MaxDistance]
  BY DEF Data!SampleBatch
<1>3. Data!Split /\ Data!Split' /\ Data!Kept' \subseteq Identity
      /\ left' \in 0 .. Cardinality(Identity) /\ left' > 0
  BY <1>2, SamePhotos, DataTypes
<1>4. Data!Sampled'
  <2>1. PICK t : t = Data!Min({config.p, Data!Cardinality(Data!Usable)})
    OBVIOUS
  <2>2. t = Data!Min({config.p, Data!Cardinality(Data!Usable)})'
    BY <1>2, <2>1, SamePhotos
  <2>3. chosen \in Data!kSubset(t, Data!Usable')
    BY <1>1, <1>2, <2>1, SamePhotos
  <2>4. batch' = UNION {{i} \X Data!Taken(i)' : i \in chosen}
    BY <1>1, <1>2, SamePhotos
  <2>5. QED
    BY <1>2, <2>2, <2>3, <2>4 DEF Data!Sampled
<1>5. \A a \in batch' : a[1] \in Data!Usable /\ a[2] \in 1 .. photos[a[1]] - Data!HeldOut(a[1])
  <2>1. chosen \subseteq Data!Usable
    BY <1>1 DEF Data!kSubset
  <2>2. QED
    BY <1>1, <1>3, <2>1, TakenIs
<1>6. Data!TypeOK'
  BY <1>2, <1>3, <1>5, SamePhotos, DataSets DEF Data!TypeOK, Data!Split
<1>7. QED
  BY <1>2, <1>3, <1>4, <1>6 DEF Data!IInv

LEMMA MineKeeps ==
    ASSUME Data!IInv, Data!MineTriplets
    PROVE  Data!IInv'
<1>1. /\ stage = "mine" /\ stage' = "mined" /\ left' = left - 1
      /\ UNCHANGED <<config, photos, batch, distance>>
      /\ mined' = [a \in batch |-> [positive |-> Data!HardestPositive(a),
                                    negative |-> Data!HardestNegative(a)]]
  BY DEF Data!MineTriplets
<1>2. /\ Data!Split /\ Data!Split' /\ Data!Kept' \subseteq Identity /\ Data!Sampled
      /\ left' \in 0 .. Cardinality(Identity)
  BY <1>1, SamePhotos, DataTypes, DataAssumed, FS_CardinalityType
<1>3. Data!Sampled'
  BY <1>1, <1>2, SamePhotos DEF Data!Sampled
<1>4. Data!TypeOK'
  BY <1>1, <1>2, SamePhotos, DataSets DEF Data!IInv, Data!TypeOK, Data!Split
<1>5. mined' = [a \in batch' |-> [positive |-> Data!HardestPositive(a)',
                                  negative |-> Data!HardestNegative(a)']]
  BY <1>1, SameBatch
<1>6. QED
  BY <1>1, <1>2, <1>3, <1>4, <1>5 DEF Data!IInv

LEMMA OthersKeep ==
    ASSUME Data!IInv, Data!NextBatch \/ Data!Evaluate \/ Data!EpochOver \/ Data!Fails
    PROVE  Data!IInv'
<1>0. Cardinality(Identity) \in Nat
  BY DataAssumed, FS_CardinalityType
<1>1. CASE Data!NextBatch
  <2>1. /\ stage = "mined" /\ UNCHANGED <<config, photos, left>> /\ batch' = {}
        /\ stage' = IF left = 0 THEN "evaluate" ELSE "sample"
    BY <1>1 DEF Data!NextBatch
  <2>2. QED
    BY <2>1, SamePhotos, DataTypes, NoBatch
<1>2. CASE Data!Evaluate
  <2>1. /\ stage = "evaluate" /\ stage' = "evaluated" /\ UNCHANGED <<config, photos, left, batch>>
        /\ \E s \in Data!Scored : Data!Returns(s, evaluation')
    BY <1>2 DEF Data!Evaluate
  <2>2. (\E s \in Data!Scored : Data!Returns(s, evaluation))'
    <3>1. PICK s, e : s \in Data!Scored /\ e = evaluation' /\ Data!Returns(s, e)
      BY <2>1
    <3>2. s \in Data!Scored' /\ Data!Returns(s, e)'
      BY <2>1, <3>1, SamePhotos
    <3>3. QED
      BY <3>1, <3>2 DEF Data!Returns
  <2>3. Data!TypeOK'
    BY <2>1, SamePhotos, DataTypes, DataSets DEF Data!TypeOK, Data!Split
  <2>4. QED
    BY <2>1, <2>2, <2>3, SamePhotos, DataTypes DEF Data!IInv
<1>3. CASE Data!EpochOver
  <2>1. /\ stage = "evaluated" /\ UNCHANGED <<left, batch>>
        /\ \/ stage' = "epoch" /\ UNCHANGED <<photos, config>>
           \/ stage' = "idle" /\ photos' = [i \in {} |-> 0]
    BY <1>3 DEF Data!EpochOver
  <2>2. photos' = [i \in {} |-> 0] => Data!Kept' \subseteq Identity
    BY DEF Data!Kept
  <2>3. QED
    BY <2>1, <2>2, SamePhotos, DataTypes, NoBatch
<1>4. CASE Data!Fails
  <2>1. stage' = "idle" /\ left' = 0 /\ batch' = {} /\ photos' = [i \in {} |-> 0]
    BY <1>4 DEF Data!Fails
  <2>2. Data!Kept' \subseteq Identity
    BY <2>1 DEF Data!Kept
  <2>3. QED
    BY <1>0, <2>1, <2>2, NoBatch
<1>5. QED
  BY <1>1, <1>2, <1>3, <1>4

\* The inductive invariant of TrainingData.
LEMMA DataInvariant == Spec => []Data!IInv
<1>1. Data!IInv /\ [Next]_vars => Data!IInv'
  <2> SUFFICES ASSUME Data!IInv, [Data!Next]_(Data!vars) PROVE Data!IInv'
    BY DataMoves
  <2>1. CASE UNCHANGED Data!vars
    <3>1. UNCHANGED <<config, photos, stage, left, batch, distance, mined, evaluation>>
      BY <2>1 DEF Data!vars
    <3>2. Data!TypeOK'
      BY <3>1, SamePhotos DEF Data!IInv, Data!TypeOK
    <3>3. Data!Sampled => Data!Sampled'
      BY <3>1, SamePhotos DEF Data!Sampled
    <3>4. stage \in {"mine", "mined"} => Data!Sampled'
      BY <3>3 DEF Data!IInv
    <3>5. stage' = "mined" =>
            mined' = [a \in batch' |-> [positive |-> Data!HardestPositive(a)',
                                        negative |-> Data!HardestNegative(a)']]
      BY <3>1, SameBatch DEF Data!IInv
    <3>6. ASSUME stage' = "evaluated" PROVE (\E s \in Data!Scored : Data!Returns(s, evaluation))'
      <4>1. PICK s, e : s \in Data!Scored /\ e = evaluation /\ Data!Returns(s, e)
        BY <3>1, <3>6 DEF Data!IInv
      <4>2. s \in Data!Scored' /\ Data!Returns(s, e)'
        BY <3>1, <4>1, SamePhotos
      <4>3. QED
        BY <3>1, <4>1, <4>2 DEF Data!Returns
    <3>7. QED
      BY <3>1, <3>2, <3>4, <3>5, <3>6, SamePhotos DEF Data!IInv
  <2>2. QED
    BY <2>1, BuildKeeps, StartKeeps, SampleKeeps, MineKeeps, OthersKeep DEF Data!Next
<1>2. QED
  BY DataInit, <1>1, PTL DEF Spec

-----------------------------------------------------------------------------
\* The distances in a batch.
LEMMA DistancesAre ==
    ASSUME Data!Sampled
    PROVE  /\ \A a, b \in batch : Data!Distance(a, b) \in 0 .. MaxDistance
           /\ batch # {} => /\ Data!Farthest \in Nat
                            /\ \A a, b \in batch : Data!Distance(a, b) <= Data!Farthest
<1>1. ASSUME NEW a \in batch, NEW b \in batch
      PROVE  Data!Distance(a, b) \in 0 .. MaxDistance
  <2>1. CASE a = b
    BY <2>1, DataAssumed DEF Data!Distance
  <2>2. CASE a # b
    <3>1. Cardinality({a} \cup {b}) = 2
      <4>1. IsFiniteSet({a}) /\ Cardinality({a}) = 1
        BY FS_Singleton
      <4>2. b \notin {a}
        BY <2>2
      <4>3. Cardinality({a} \cup {b}) = Cardinality({a}) + 1
        BY <4>1, <4>2, FS_AddElement
      <4>4. QED
        BY <4>1, <4>3
    <3>2. {a} \cup {b} = {a, b}
      OBVIOUS
    <3>3. {a, b} \in Data!kSubset(2, batch)
      BY <3>1, <3>2, DataSets DEF Data!kSubset
    <3>4. QED
      BY <2>2, <3>3 DEF Data!Sampled, Data!Distance
  <2>3. QED
    BY <2>1, <2>2
<1>2. ASSUME NEW o \in batch
      PROVE  /\ Data!Farthest \in Nat
             /\ \A a, b \in batch : Data!Distance(a, b) <= Data!Farthest
  <2> DEFINE S == {Data!Distance(a, b) : a, b \in batch}
  <2>1. \A a, b \in batch : Data!Distance(a, b) \in S
    OBVIOUS
  <2>2. \A x \in S : \E a, b \in batch : x = Data!Distance(a, b)
    OBVIOUS
  <2>3. Data!Farthest = Data!Max(S)
    BY DEF Data!Farthest
  <2> HIDE DEF S
  <2>4. S \subseteq Nat /\ (\A x \in S : x <= MaxDistance) /\ MaxDistance \in Nat
    BY <1>1, <2>2, DataAssumed
  <2>5. Data!Max(S) \in S /\ \A y \in S : Data!Max(S) >= y
    BY <2>1, <2>4, GreatestIs
  <2>6. QED
    BY <2>1, <2>3, <2>4, <2>5
<1>3. QED
  BY <1>1, <1>2

\* Two identities, two images of each: every image has another of its identity in
\* the batch and one of another identity.
LEMMA BatchIsMixed ==
    ASSUME Data!Split, Data!Sampled, config.p >= 2, config.k >= 2, config.ratio <= 50,
           NEW a \in batch
    PROVE  /\ \E b \in batch \ {a} : Data!Same(a, b)
           /\ \E b \in batch : ~ Data!Same(a, b)
<1>1. PICK t : t = Data!Min({config.p, Data!Cardinality(Data!Usable)})
  OBVIOUS
<1>2. PICK chosen \in Data!kSubset(t, Data!Usable) :
        batch = UNION {{i} \X Data!Taken(i) : i \in chosen}
  BY <1>1 DEF Data!Sampled
<1>3. t >= 2
  <2>1. PICK p, m : p = config.p /\ m = Cardinality(Data!Usable)
    OBVIOUS
  <2>2. p \in Nat /\ m \in Nat /\ p >= 2 /\ m >= 2
    <3>1. config.p \in Nat
      BY DataAssumed DEF Data!Split
    <3>2. QED
      BY <2>1, <3>1, KeptIs
  <2>3. t = Data!Min({p, m})
    BY <1>1, <2>1, DataSets
  <2>4. Data!Min({p, m}) = IF p <= m THEN p ELSE m
    BY <2>2, GreaterOfTwo
  <2>5. QED
    BY <2>2, <2>3, <2>4
<1>4. chosen \subseteq Data!Usable /\ Cardinality(chosen) = t
  BY <1>2, DataSets DEF Data!kSubset
<1>5. \A i \in chosen : {1, 2} \subseteq Data!Taken(i)
  BY <1>4, TakenIs
<1>6. PICK i \in chosen : a \in {i} \X Data!Taken(i)
  BY <1>2
<1>7. PICK j \in chosen : j # i
  <2>1. SUFFICES ASSUME chosen \subseteq {i} PROVE FALSE
    OBVIOUS
  <2>2. IsFiniteSet({i}) /\ Cardinality({i}) = 1
    BY FS_Singleton
  <2>3. Cardinality(chosen) <= 1 /\ Cardinality(chosen) \in Nat
    BY <2>1, <2>2, FS_Subset, FS_CardinalityType
  <2>4. QED
    BY <1>3, <1>4, <2>3
<1>8. <<i, 1>> \in batch /\ <<i, 2>> \in batch /\ <<j, 1>> \in batch
  BY <1>2, <1>5, <1>7
<1>9. a[1] = i
  BY <1>6
<1>10. <<i, 1>> # <<i, 2>>
  OBVIOUS
<1>11. \E b \in batch \ {a} : Data!Same(a, b)
  BY <1>8, <1>9, <1>10 DEF Data!Same
<1>12. ~ Data!Same(a, <<j, 1>>)
  BY <1>7, <1>9 DEF Data!Same
<1>13. QED
  BY <1>8, <1>11, <1>12

LEMMA PositiveIsFarthest ==
    ASSUME Data!Sampled, NEW a \in batch, NEW o \in batch \ {a}, Data!Same(a, o)
    PROVE  Data!IsFarthest(Data!HardestPositive(a), a, {b \in batch \ {a} : Data!Same(a, b)})
<1> DEFINE V(b) == IF Data!Same(a, b) /\ a # b THEN Data!Distance(a, b) ELSE 0
<1>1. PICK S, m : S = {V(b) : b \in batch} /\ m = Data!Max(S)
  OBVIOUS
<1>2. \A b \in batch : V(b) \in S /\ Data!Distance(a, b) \in Nat /\ Data!Distance(a, b) <= MaxDistance
  BY <1>1, DistancesAre, DataAssumed
<1>3. S \subseteq Nat /\ \A x \in S : x <= MaxDistance
  BY <1>1, <1>2, DataAssumed
<1>4. m \in S /\ \A y \in S : m >= y
  BY <1>1, <1>2, <1>3, DataAssumed, GreatestIs
<1>5. \A b \in batch \ {a} : Data!Same(a, b) => Data!Distance(a, b) <= m
  BY <1>2, <1>3, <1>4
<1>6. PICK c \in batch : m = V(c)
  BY <1>1, <1>4
<1>7. \E b \in batch \ {a} : Data!Same(a, b) /\ m = Data!Distance(a, b)
  <2>1. CASE Data!Same(a, c) /\ a # c
    BY <1>6, <2>1
  <2>2. CASE ~ (Data!Same(a, c) /\ a # c)
    <3>1. m = 0
      BY <1>6, <2>2
    <3>2. Data!Distance(a, o) = 0
      BY <1>2, <1>5, <3>1
    <3>3. QED
      BY <3>1, <3>2
  <2>3. QED
    BY <2>1, <2>2
<1>8. Data!HardestPositive(a) = m
  BY <1>1 DEF Data!HardestPositive
<1>9. QED
  BY <1>5, <1>7, <1>8 DEF Data!IsFarthest

LEMMA NegativeIsNearest ==
    ASSUME Data!Sampled, NEW a \in batch, NEW o \in batch, ~ Data!Same(a, o)
    PROVE  Data!IsNearest(Data!HardestNegative(a), a, {b \in batch : ~ Data!Same(a, b)})
<1> DEFINE V(b) == Data!Distance(a, b) + IF Data!Same(a, b) THEN Data!Farthest ELSE 0
<1>1. PICK S, m : S = {V(b) : b \in batch} /\ m = Data!Min(S)
  OBVIOUS
<1>2. /\ Data!Farthest \in Nat
      /\ \A b \in batch : V(b) \in S /\ Data!Distance(a, b) \in Nat
                          /\ Data!Distance(a, b) <= Data!Farthest
  BY <1>1, DistancesAre, DataAssumed
<1>3. S \subseteq Nat
  BY <1>1, <1>2
<1>4. m \in S /\ \A y \in S : m <= y
  BY <1>1, <1>2, <1>3, LeastIs
<1>5. \A b \in batch : ~ Data!Same(a, b) => V(b) = Data!Distance(a, b) /\ m <= Data!Distance(a, b)
  BY <1>2, <1>4
<1>6. PICK c \in batch : m = V(c)
  BY <1>1, <1>4
<1>7. \E b \in batch : ~ Data!Same(a, b) /\ m = Data!Distance(a, b)
  <2>1. CASE ~ Data!Same(a, c)
    BY <1>5, <1>6, <2>1
  <2>2. CASE Data!Same(a, c)
    <3>1. m >= Data!Distance(a, o)
      BY <1>2, <1>6, <2>2
    <3>2. m <= Data!Distance(a, o)
      BY <1>5
    <3>3. m = Data!Distance(a, o)
      BY <1>2, <1>3, <1>4, <3>1, <3>2
    <3>4. QED
      BY <3>3
  <2>3. QED
    BY <2>1, <2>2
<1>8. Data!HardestNegative(a) = m
  BY <1>1 DEF Data!HardestNegative
<1>9. QED
  BY <1>5, <1>7, <1>8 DEF Data!IsNearest

\* Whatever photos there are and whatever the distances between them, a sampler that
\* is asked for two identities and two images of each finds them in every batch, and
\* the loss takes for every image its farthest of the same identity and its nearest
\* of another (dataset.py:125-150, losses.py:109-125).
THEOREM MinedAreHardest == Spec => []TripletsAreHardest
<1>1. Data!IInv => TripletsAreHardest
  <2> SUFFICES ASSUME Data!IInv, stage = "mined", config.p >= 2, config.k >= 2,
                      config.ratio <= 50, NEW a \in batch
               PROVE  /\ Data!IsFarthest(mined[a].positive, a, {b \in batch \ {a} : Data!Same(a, b)})
                      /\ Data!IsNearest(mined[a].negative, a, {b \in batch : ~ Data!Same(a, b)})
    BY DEF TripletsAreHardest, Data!TripletsAreHardest
  <2>1. Data!Split /\ Data!Sampled
    BY DataTypes
  <2>2. /\ mined[a].positive = Data!HardestPositive(a)
        /\ mined[a].negative = Data!HardestNegative(a)
    BY DEF Data!IInv
  <2>3. PICK b \in batch \ {a} : Data!Same(a, b)
    BY <2>1, BatchIsMixed
  <2>4. PICK c \in batch : ~ Data!Same(a, c)
    BY <2>1, BatchIsMixed
  <2>5. QED
    BY <2>1, <2>2, <2>3, <2>4, PositiveIsFarthest, NegativeIsNearest
<1>2. QED
  BY DataInvariant, <1>1, PTL

-----------------------------------------------------------------------------
\* The images that are held out and their pairs.
LEMMA HoldoutIsFinite ==
    ASSUME Data!Split
    PROVE  /\ IsFiniteSet(Data!Holdout) /\ IsFiniteSet(Data!Pairs)
           /\ Cardinality(Data!PositivePairs) \in Nat /\ Cardinality(Data!NegativePairs) \in Nat
           /\ IsFiniteSet(Data!PositivePairs) /\ IsFiniteSet(Data!NegativePairs)
<1> DEFINE Of(i) == {i} \X (1 .. Data!HeldOut(i))
<1>1. PICK T : T = {Of(i) : i \in Data!Kept}
  OBVIOUS
<1>2. IsFiniteSet(T)
  <2>1. PICK f : f = [i \in Data!Kept |-> Of(i)]
    OBVIOUS
  <2>2. f \in Surjection(Data!Kept, T)
    BY <1>1, <2>1 DEF Surjection
  <2>3. QED
    BY <2>2, KeptIs, FS_Surjection
<1>3. \A t \in T : IsFiniteSet(t)
  <2>1. ASSUME NEW i \in Data!Kept PROVE IsFiniteSet(Of(i))
    <3>1. PICK h \in Nat : h = Data!HeldOut(i)
      BY HeldOutIs
    <3>2. IsFiniteSet({i}) /\ IsFiniteSet(1 .. h)
      <4>1. IsFiniteSet({i})
        BY FS_Singleton
      <4>2. 1 \in Int /\ h \in Int
        OBVIOUS
      <4>3. IsFiniteSet(1 .. h)
        BY <4>2, FS_Interval
      <4>4. QED
        BY <4>1, <4>3
    <3>3. IsFiniteSet({i} \X (1 .. h))
      BY <3>2, FS_Product
    <3>4. QED
      BY <3>1, <3>3
  <2>2. QED
    BY <1>1, <2>1
<1>4. Data!Holdout = UNION T
  BY <1>1 DEF Data!Holdout
<1>5. IsFiniteSet(Data!Holdout)
  BY <1>2, <1>3, <1>4, FS_UNION
<1>6. IsFiniteSet(Data!Pairs)
  <2>1. IsFiniteSet(SUBSET Data!Holdout)
    BY <1>5, FS_SUBSET
  <2>2. Data!Pairs \subseteq SUBSET Data!Holdout
    BY DEF Data!Pairs, Data!kSubset
  <2>3. QED
    BY <2>1, <2>2, FS_Subset
<1>7. Data!PositivePairs \subseteq Data!Pairs /\ Data!NegativePairs \subseteq Data!Pairs
  BY DEF Data!PositivePairs, Data!NegativePairs
<1>8. IsFiniteSet(Data!PositivePairs) /\ IsFiniteSet(Data!NegativePairs)
  BY <1>6, <1>7, FS_Subset
<1>9. QED
  BY <1>5, <1>6, <1>8, FS_CardinalityType

\* A set of two.
LEMMA PairOf ==
    ASSUME NEW x, NEW y, x # y
    PROVE  Cardinality({x, y}) = 2
<1>1. IsFiniteSet({x}) /\ Cardinality({x}) = 1
  BY FS_Singleton
<1>2. y \notin {x}
  OBVIOUS
<1>3. Cardinality({x} \cup {y}) = Cardinality({x}) + 1
  BY <1>1, <1>2, FS_AddElement
<1>4. {x} \cup {y} = {x, y}
  OBVIOUS
<1>5. QED
  BY <1>1, <1>3, <1>4

LEMMA TwoInPair ==
    ASSUME NEW q, Cardinality(q) = 2
    PROVE  \E x, y \in q : x # y
<1>1. PICK x : x \in q
  <2>1. SUFFICES ASSUME q = {} PROVE FALSE
    OBVIOUS
  <2>2. QED
    BY <2>1, FS_EmptySet
<1>2. q # {x}
  BY FS_Singleton
<1>3. QED
  BY <1>1, <1>2

\* There are pairs of one identity if and only if one has two images held out, and
\* always pairs of different ones.
LEMMA BothKinds ==
    ASSUME Data!Split
    PROVE  /\ Cardinality(Data!PositivePairs) > 0 <=> \E i \in Data!Kept : Data!HeldOut(i) >= 2
           /\ Cardinality(Data!NegativePairs) > 0
<1>1. \A i \in Data!Kept : \A k \in 1 .. Data!HeldOut(i) : <<i, k>> \in Data!Holdout
  BY DEF Data!Holdout
<1>2. \A x, y \in Data!Holdout : x # y => {x, y} \in Data!Pairs
  BY PairOf, DataSets DEF Data!Pairs, Data!kSubset
<1>3. ASSUME NEW i \in Data!Kept, Data!HeldOut(i) >= 2
      PROVE  Data!PositivePairs # {}
  <2>1. 1 \in 1 .. Data!HeldOut(i) /\ 2 \in 1 .. Data!HeldOut(i)
    BY <1>3, HeldOutIs
  <2>2. {<<i, 1>>, <<i, 2>>} \in Data!Pairs
    <3>1. <<i, 1>> \in Data!Holdout /\ <<i, 2>> \in Data!Holdout
      BY <1>1, <2>1
    <3>2. <<i, 1>> # <<i, 2>>
      OBVIOUS
    <3>3. QED
      BY <1>2, <3>1, <3>2
  <2>3. {<<i, 1>>, <<i, 2>>} \in Data!PositivePairs
    BY <2>2 DEF Data!PositivePairs, Data!Same
  <2>4. QED
    BY <2>3
<1>4. ASSUME NEW q \in Data!PositivePairs
      PROVE  \E i \in Data!Kept : Data!HeldOut(i) >= 2
  <2>1. /\ q \subseteq Data!Holdout /\ Cardinality(q) = 2
        /\ \A a, b \in q : a[1] = b[1]
    BY DataSets DEF Data!PositivePairs, Data!Pairs, Data!kSubset, Data!Same
  <2>2. PICK x, y \in q : x # y
    BY <2>1, TwoInPair
  <2>3. PICK i \in Data!Kept : x \in {i} \X (1 .. Data!HeldOut(i))
    BY <2>1 DEF Data!Holdout
  <2>4. PICK j \in Data!Kept : y \in {j} \X (1 .. Data!HeldOut(j))
    BY <2>1 DEF Data!Holdout
  <2>5. PICK h \in Nat : h = Data!HeldOut(i)
    BY HeldOutIs
  <2>6. i = j
    BY <2>1, <2>3, <2>4
  <2>7. PICK m, n \in 1 .. h : x = <<i, m>> /\ y = <<i, n>>
    BY <2>3, <2>4, <2>5, <2>6
  <2>8. m # n
    BY <2>2, <2>7
  <2>9. h >= 2
    BY <2>5, <2>8
  <2>10. QED
    BY <2>5, <2>9
<1>5. PICK i, j \in Data!Kept : i # j
  <2>1. PICK i : i \in Data!Kept
    <3>1. SUFFICES ASSUME Data!Kept = {} PROVE FALSE
      OBVIOUS
    <3>2. QED
      BY <3>1, KeptIs, FS_EmptySet
  <2>2. Data!Kept # {i}
    BY KeptIs, FS_Singleton
  <2>3. QED
    BY <2>1, <2>2
<1>6. Data!NegativePairs # {}
  <2>1. 1 \in 1 .. Data!HeldOut(i) /\ 1 \in 1 .. Data!HeldOut(j)
    BY HeldOutIs
  <2>2. {<<i, 1>>, <<j, 1>>} \in Data!Pairs
    BY <1>1, <1>2, <1>5, <2>1
  <2>3. {<<i, 1>>, <<j, 1>>} \notin Data!PositivePairs
    BY <1>5 DEF Data!PositivePairs, Data!Same
  <2>4. QED
    BY <2>2, <2>3 DEF Data!NegativePairs
<1>7. \A S : IsFiniteSet(S) => (Cardinality(S) = 0 <=> S = {}) /\ Cardinality(S) \in Nat
  BY FS_EmptySet, FS_CardinalityType
<1>8. /\ Cardinality(Data!PositivePairs) > 0 <=> Data!PositivePairs # {}
      /\ Cardinality(Data!NegativePairs) > 0 <=> Data!NegativePairs # {}
  BY <1>7, HoldoutIsFinite
<1>9. QED
  BY <1>3, <1>4, <1>6, <1>8

-----------------------------------------------------------------------------
\* Sequences of scores that ascend, and where a position cuts them.
LEMMA AscendingIs ==
    ASSUME NEW n \in Nat, NEW neg \in Data!Ascending(n)
    PROVE  /\ neg \in Seq(Nat) /\ Len(neg) = n /\ DOMAIN neg = 1 .. n
           /\ \A k, l \in 1 .. n : neg[k] \in Nat /\ (k <= l => neg[k] <= neg[l])
<1>1. PICK below \in [1 .. MaxScore -> 0 .. n] :
        neg = [k \in 1 .. n |-> Cardinality({c \in 1 .. MaxScore : below[c] < k})]
  BY DataSets DEF Data!Ascending
<1> DEFINE C(k) == {c \in 1 .. MaxScore : below[c] < k}
<1>2. IsFiniteSet(1 .. MaxScore)
  BY DataAssumed, FS_Interval
<1>3. \A k \in 1 .. n : IsFiniteSet(C(k)) /\ Cardinality(C(k)) \in Nat
  BY <1>2, FS_Subset, FS_CardinalityType
<1>4. ASSUME NEW k \in 1 .. n, NEW l \in 1 .. n, k <= l
      PROVE  Cardinality(C(k)) <= Cardinality(C(l))
  <2>1. \A c \in 1 .. MaxScore : below[c] < k => below[c] < l
    BY <1>1, <1>4
  <2>2. C(k) \subseteq C(l)
    BY <2>1
  <2>3. QED
    BY <1>3, <2>2, FS_Subset
<1>5. \A k \in 1 .. n : neg[k] = Cardinality(C(k))
  BY <1>1
<1> HIDE DEF C
<1>6. DOMAIN neg = 1 .. n /\ \A k \in 1 .. n : neg[k] \in Nat
  BY <1>1, <1>3, <1>5
<1>7. neg \in [1 .. n -> Nat]
  BY <1>1, <1>6
<1>8. neg \in Seq(Nat) /\ Len(neg) = n
  BY <1>7
<1>9. QED
  BY <1>3, <1>4, <1>5, <1>6, <1>8

LEMMA CutSeparates ==
    ASSUME NEW n \in Nat, NEW neg \in Data!Ascending(n), NEW pos \in 1 .. n - 1
    PROVE  /\ Cardinality(Data!Above(neg, neg[n - pos])) <= pos
           /\ Cardinality(Data!AtLeast(neg, neg[n - pos])) > pos
<1>1. PICK t, cut : cut = n - pos /\ t = neg[cut]
  OBVIOUS
<1>2. cut \in 1 .. n /\ t \in Nat /\ DOMAIN neg = 1 .. n
  BY <1>1, AscendingIs
<1>3. \A k, l \in 1 .. n : neg[k] \in Nat /\ (k <= l => neg[k] <= neg[l])
  BY AscendingIs
<1>4. Data!Above(neg, t) \subseteq cut + 1 .. n
  <2>1. ASSUME NEW k \in 1 .. n, neg[k] > t PROVE k \in cut + 1 .. n
    <3>1. k <= cut => neg[k] <= neg[cut]
      BY <1>2, <1>3
    <3>2. ~ k <= cut
      BY <1>1, <1>2, <1>3, <2>1, <3>1
    <3>3. QED
      BY <1>2, <3>2
  <2>2. QED
    BY <1>2, <2>1 DEF Data!Above
<1>5. cut .. n \subseteq Data!AtLeast(neg, t)
  BY <1>1, <1>2, <1>3 DEF Data!AtLeast
<1>6. /\ IsFiniteSet(cut + 1 .. n) /\ Cardinality(cut + 1 .. n) = pos
      /\ IsFiniteSet(cut .. n) /\ Cardinality(cut .. n) = pos + 1
  <2>1. cut + 1 <= n /\ n - (cut + 1) + 1 = pos /\ n - cut + 1 = pos + 1
    BY <1>1
  <2>2. QED
    BY <1>2, <2>1, FS_Interval
<1>7. Cardinality(Data!Above(neg, t)) <= pos
  BY <1>4, <1>6, FS_Subset
<1>8. IsFiniteSet(Data!AtLeast(neg, t)) /\ Cardinality(Data!AtLeast(neg, t)) \in Nat
  <2>1. IsFiniteSet(1 .. n) /\ Data!AtLeast(neg, t) \subseteq 1 .. n
    BY <1>2, FS_Interval DEF Data!AtLeast
  <2>2. QED
    BY <2>1, FS_Subset, FS_CardinalityType
<1>9. Cardinality(Data!AtLeast(neg, t)) >= pos + 1
  BY <1>5, <1>6, <1>8, FS_Subset
<1>10. QED
  BY <1>1, <1>7, <1>8, <1>9

LEMMA AllReachNone ==
    ASSUME NEW n \in Nat, NEW pos \in Data!Ascending(n)
    PROVE  Cardinality(Data!AtLeast(pos, -1)) = n
<1>1. Data!AtLeast(pos, -1) = 1 .. n
  BY AscendingIs DEF Data!AtLeast
<1>2. QED
  BY <1>1, FS_Interval

\* An evaluation that is valid scored pairs of both kinds, and its threshold is the
\* cut of its negatives or -1.
LEMMA ValidIs ==
    ASSUME Data!IInv, stage = "evaluated", evaluation.valid
    PROVE  \E s \in Data!Scored :
             \E pos \in Data!Ascending(s.positive), neg \in Data!Ascending(s.negative) :
               /\ s.positive \in Nat /\ s.positive > 0 /\ s.negative \in Nat /\ s.negative > 0
               /\ s.positive <= Cardinality(Data!PositivePairs)
               /\ Cardinality(Data!Holdout) >= 4
               /\ Data!FarPosition(neg) < Len(neg)
               /\ evaluation = [valid |-> TRUE, positives |-> s.positive, negatives |-> neg,
                                threshold |-> Data!Threshold(neg),
                                accepted |-> Cardinality(Data!AtLeast(pos, Data!Threshold(neg)))]
<1>1. PICK s \in Data!Scored : Data!Returns(s, evaluation)
  BY DataTypes
<1>2. Data!Split
  BY DataTypes
<1>3. /\ s.positive \in 0 .. Cardinality(Data!PositivePairs)
      /\ s.negative \in 0 .. Cardinality(Data!NegativePairs)
  BY DataSets DEF Data!Scored
<1>4. evaluation # Data!Nothing
  BY DEF Data!Nothing
<1>5. /\ ~ (Cardinality(Data!Holdout) < 4) /\ s.positive # 0 /\ s.negative # 0
      /\ \E pos \in Data!Ascending(s.positive), neg \in Data!Ascending(s.negative) :
           /\ Data!FarPosition(neg) < Len(neg)
           /\ evaluation = [valid |-> TRUE, positives |-> s.positive, negatives |-> neg,
                            threshold |-> Data!Threshold(neg),
                            accepted |-> Cardinality(Data!AtLeast(pos, Data!Threshold(neg)))]
  BY <1>1, <1>4, DataSets DEF Data!Returns
<1>6. Cardinality(Data!Holdout) \in Nat
  BY <1>2, HoldoutIsFinite, FS_CardinalityType
<1>7. s.positive \in Nat /\ s.positive > 0 /\ s.negative \in Nat /\ s.negative > 0
      /\ s.positive <= Cardinality(Data!PositivePairs) /\ Cardinality(Data!Holdout) >= 4
  BY <1>2, <1>3, <1>5, <1>6, HoldoutIsFinite
<1>8. QED
  BY <1>5, <1>7

\* When all pairs are scored, enough images make an evaluation valid.
LEMMA EnoughIsValid ==
    ASSUME Data!IInv, stage = "evaluated", Cardinality(Data!Holdout) >= 4,
           NEW i \in Data!Kept, Data!HeldOut(i) >= 2,
           Cardinality(Data!PositivePairs) + Cardinality(Data!NegativePairs) <= PairLimit
    PROVE  evaluation.valid
<1>1. Data!Split
  BY DataTypes
<1>2. PICK s \in Data!Scored : Data!Returns(s, evaluation)
  BY DataTypes
<1>3. PICK p, n \in Nat : p = Cardinality(Data!PositivePairs) /\ n = Cardinality(Data!NegativePairs)
  BY <1>1, HoldoutIsFinite
<1>4. p > 0 /\ n > 0
  BY <1>1, <1>3, BothKinds
<1>5. PICK t : t = p + n
  OBVIOUS
<1>6. Data!Min({t, PairLimit}) = t
  <2>1. t \in Nat /\ t <= PairLimit /\ PairLimit \in Nat
    BY <1>3, <1>5, DataAssumed
  <2>2. Data!Min({t, PairLimit}) = IF t <= PairLimit THEN t ELSE PairLimit
    BY <2>1, GreaterOfTwo
  <2>3. QED
    BY <2>1, <2>2
<1>7. s.positive \in 0 .. p /\ s.negative \in 0 .. n /\ s.positive + s.negative = t
  <2>1. s.positive + s.negative = Data!Min({t, PairLimit})
    BY <1>3, <1>5, DataSets DEF Data!Scored
  <2>2. QED
    BY <1>3, <1>6, <2>1, DataSets DEF Data!Scored
<1>8. s.positive # 0 /\ s.negative # 0
  BY <1>3, <1>4, <1>5, <1>7
<1>9. Cardinality(Data!Holdout) \in Nat
  BY <1>1, HoldoutIsFinite, FS_CardinalityType
<1>10. ~ (Data!Cardinality(Data!Holdout) < 4)
  BY <1>9, DataSets
<1>11. PICK pos, neg :
         evaluation = [valid |-> TRUE, positives |-> s.positive, negatives |-> neg,
                       threshold |-> Data!Threshold(neg),
                       accepted |-> Data!Cardinality(Data!AtLeast(pos, Data!Threshold(neg)))]
  BY <1>2, <1>8, <1>10 DEF Data!Returns
<1>12. QED
  BY <1>11

\* Whatever the scores, the pairs of different people above the threshold of an
\* evaluation are within the target, and those that reach it are not; a target that
\* so few pairs cannot resolve lets everything through; and whether an evaluation is
\* valid hangs on the images that are held out (evaluator.py:69-86).
THEOREM ThresholdsSeparate == Spec => []ThresholdSeparates
<1> DEFINE Enough == Cardinality(Data!Holdout) >= 4 /\ \E i \in Data!Kept : Data!HeldOut(i) >= 2
<1>1. ASSUME Data!IInv, stage = "evaluated", evaluation.valid
      PROVE  /\ Enough
             /\ IF Data!FarPosition(evaluation.negatives) > 0
                  THEN /\ Cardinality(Data!Above(evaluation.negatives, evaluation.threshold))
                            <= Data!FarPosition(evaluation.negatives)
                       /\ Cardinality(Data!AtLeast(evaluation.negatives, evaluation.threshold))
                            > Data!FarPosition(evaluation.negatives)
                  ELSE evaluation.accepted = evaluation.positives
  <2>0. PICK s \in Data!Scored :
          \E pos \in Data!Ascending(s.positive), neg \in Data!Ascending(s.negative) :
            /\ s.positive \in Nat /\ s.positive > 0 /\ s.negative \in Nat /\ s.negative > 0
            /\ s.positive <= Cardinality(Data!PositivePairs)
            /\ Cardinality(Data!Holdout) >= 4
            /\ Data!FarPosition(neg) < Len(neg)
            /\ evaluation = [valid |-> TRUE, positives |-> s.positive, negatives |-> neg,
                             threshold |-> Data!Threshold(neg),
                             accepted |-> Cardinality(Data!AtLeast(pos, Data!Threshold(neg)))]
    BY <1>1, ValidIs
  <2>1. PICK pos \in Data!Ascending(s.positive), neg \in Data!Ascending(s.negative) :
            /\ s.positive \in Nat /\ s.positive > 0 /\ s.negative \in Nat /\ s.negative > 0
            /\ s.positive <= Cardinality(Data!PositivePairs)
            /\ Cardinality(Data!Holdout) >= 4
            /\ Data!FarPosition(neg) < Len(neg)
            /\ evaluation = [valid |-> TRUE, positives |-> s.positive, negatives |-> neg,
                             threshold |-> Data!Threshold(neg),
                             accepted |-> Cardinality(Data!AtLeast(pos, Data!Threshold(neg)))]
    BY <2>0
  <2>2. PICK n \in Nat : n = s.negative /\ neg \in Data!Ascending(n)
    BY <2>1
  <2>3. Data!Split
    BY <1>1, DataTypes
  <2>4. Enough
    <3>1. Cardinality(Data!PositivePairs) > 0
      BY <2>1, <2>3, HoldoutIsFinite
    <3>2. QED
      BY <2>1, <2>3, <3>1, BothKinds
  <2>5. Len(neg) = n
    BY <2>2, AscendingIs
  <2>6. PICK cut : cut = Data!FarPosition(neg)
    OBVIOUS
  <2>7. CASE cut > 0
    <3>1. cut \in Int
      <4>1. PICK f \in Nat : f = config.far
        BY <2>3, DataAssumed DEF Data!Split
      <4>2. f * n \in Nat
        BY <2>2, <4>1
      <4>3. QED
        BY <2>5, <2>6, <4>1, <4>2 DEF Data!FarPosition
    <3>2. cut \in 1 .. n - 1
      BY <2>1, <2>2, <2>5, <2>6, <2>7, <3>1
    <3>3. Data!Threshold(neg) = neg[n - cut]
      BY <2>5, <2>6, <2>7 DEF Data!Threshold
    <3>4. /\ Cardinality(Data!Above(neg, neg[n - cut])) <= cut
          /\ Cardinality(Data!AtLeast(neg, neg[n - cut])) > cut
      BY <2>2, <3>2, CutSeparates
    <3>5. QED
      BY <2>1, <2>4, <2>6, <2>7, <3>3, <3>4
  <2>8. CASE ~ (cut > 0)
    <3>1. Data!Threshold(neg) = -1
      BY <2>6, <2>8 DEF Data!Threshold
    <3>2. PICK p \in Nat : p = s.positive /\ pos \in Data!Ascending(p)
      BY <2>1
    <3>3. Cardinality(Data!AtLeast(pos, -1)) = p
      BY <3>2, AllReachNone
    <3>4. evaluation.accepted = evaluation.positives
      BY <2>1, <3>1, <3>2, <3>3
    <3>5. QED
      BY <2>1, <2>4, <2>6, <2>8, <3>4
  <2>9. QED
    BY <2>7, <2>8
<1>2. Data!IInv => ThresholdSeparates
  <2> SUFFICES ASSUME Data!IInv, stage = "evaluated"
               PROVE  /\ evaluation.valid => Enough
                      /\ /\ Enough
                         /\ Cardinality(Data!PositivePairs) + Cardinality(Data!NegativePairs) <= PairLimit
                         => evaluation.valid
                      /\ evaluation.valid =>
                           IF Data!FarPosition(evaluation.negatives) > 0
                             THEN /\ Cardinality(Data!Above(evaluation.negatives, evaluation.threshold))
                                       <= Data!FarPosition(evaluation.negatives)
                                  /\ Cardinality(Data!AtLeast(evaluation.negatives, evaluation.threshold))
                                       > Data!FarPosition(evaluation.negatives)
                             ELSE evaluation.accepted = evaluation.positives
    BY DataSets DEF ThresholdSeparates, Data!ThresholdSeparates
  <2>1. QED
    BY <1>1, EnoughIsValid
<1>3. QED
  BY DataInvariant, <1>2, PTL

\* Types and what each part keeps, for the system of all parts.
THEOREM InvariantOfHandlers == Spec => []IInv
BY ClientInvariant, ResetInvariant, DeptInvariant, RateInvariant, OrgInvariant, RecogInvariant,
   DataInvariant, PTL DEF IInv

=============================================================================

-------------------------- MODULE DashboardClient --------------------------
(***************************************************************************)
(* The dashboard in one browser: dashboard/src/api/client.ts and           *)
(* dashboard/src/auth/AuthContext.tsx, in tabs that share localStorage.    *)
(*                                                                         *)
(* A page is a tab since its last load.  It has at most one call of each   *)
(* kind under way, and at most one refresh, which every call that is       *)
(* answered 401 waits for.  The server is the one of AuthSessions at the   *)
(* granularity of a handler, for one user: a rotation revokes the          *)
(* presented token, a revoked token that is presented revokes everything.  *)
(* Any call may be answered 401, as access tokens expire at any time.      *)
(***************************************************************************)
EXTENDS Naturals, FiniteSetsExt

CONSTANTS
    Tab,
    Uses,      \* the kinds of call that a tab makes
    MaxPairs,  \* bound: token pairs the server mints
    MaxLoads   \* bound: pages that are loaded again

Kind == {"login", "me", "page", "stream", "logout"}

ClientAssumption ==
    Uses \in [Tab -> SUBSET Kind] /\ MaxPairs \in Nat /\ MaxLoads \in Nat

VARIABLES
    ledger,    \* refresh_tokens: "rotated" and "ended" are both revoked
    accepted,  \* pairs whose access token is accepted until it expires
    stored,    \* the pair in localStorage, or 0
    signedIn,  \* tabs with tokenData
    call,      \* what the calls of a page are at
    refresh,   \* the refresh of a page, while refreshInFlight is set
    event,     \* tabs with a storage event to handle
    loads,     \* pages loaded so far, by tab
    presented, \* history: the pages that presented a pair to /auth/refresh
    alarms,    \* history: rotated pairs that were presented again
    unanswered \* history: pairs whose answer no page took, while they stayed stored

vars == <<ledger, accepted, stored, signedIn, call, refresh, event, loads, presented,
          alarms, unanswered>>
server == <<ledger, accepted, alarms>>

Pair == 1 .. MaxPairs
Idle == [at |-> "idle"]
Loading == [at |-> "loading"]  \* the call of a page that has just been loaded
None == [at |-> "none"]
Page(t)  == <<t, loads[t]>>
Fresh    == {n \in Pair : ledger[n] = "absent"}
NextPair == CHOOSE n \in Fresh : \A k \in Fresh : n <= k

Init ==
    /\ ledger = [n \in Pair |-> "absent"] /\ accepted = {}
    /\ stored = 0 /\ signedIn = {}
    /\ call = [t \in Tab |-> [k \in Kind |-> Idle]]
    /\ refresh = [t \in Tab |-> None]
    /\ event = {}
    /\ loads = [t \in Tab |-> 0]
    /\ presented = [n \in Pair |-> {}]
    /\ alarms = {} /\ unanswered = {}

-----------------------------------------------------------------------------
(* The server.                                                             *)

Minted(L, n) == [L EXCEPT ![n] = "live"]

EndAll ==
    /\ ledger' = [n \in Pair |-> IF ledger[n] = "live" THEN "ended" ELSE ledger[n]]
    /\ accepted' = {}

\* POST /auth/refresh reaches the server.
ServeRefresh(t) ==
    LET n == refresh[t].pair IN
    /\ refresh[t].at = "sent"
    /\ \/ /\ ledger[n] = "live" /\ Fresh # {}
          /\ ledger' = Minted([ledger EXCEPT ![n] = "rotated"], NextPair)
          /\ accepted' = accepted \cup {NextPair}
          /\ refresh' = [refresh EXCEPT ![t] = [at |-> "granted", pair |-> n, new |-> NextPair]]
          /\ UNCHANGED alarms
       \/ /\ ledger[n] # "live"
          /\ EndAll
          /\ refresh' = [refresh EXCEPT ![t].at = "refused"]
          /\ alarms' = IF ledger[n] = "rotated" THEN alarms \cup {n} ELSE alarms
    /\ UNCHANGED <<stored, signedIn, call, event, loads, presented, unanswered>>

-----------------------------------------------------------------------------
(* The page: request, refreshTokens and the handlers of AuthContext.       *)

Becomes(t, k, what) == call' = [call EXCEPT ![t][k] = what]

\* localStorage is written: the other tabs get an event.
Write(t, n) ==
    /\ stored' = n
    /\ event' = event \cup (Tab \ {t})

\* The server does what the call asks for: the password is right, or the stored
\* access token is accepted.  Logout revokes everything.
Accept(t, k) ==
    \/ /\ k = "login" /\ Fresh # {}
       /\ ledger' = Minted(ledger, NextPair)
       /\ accepted' = accepted \cup {NextPair}
       /\ Becomes(t, k, [at |-> "ok", new |-> NextPair])
    \/ /\ k # "login" /\ stored \in accepted
       /\ IF k = "logout" THEN EndAll ELSE UNCHANGED <<ledger, accepted>>
       /\ Becomes(t, k, IF k \in {"me", "logout"} THEN [at |-> "ok"] ELSE Idle)

Deny(t, k) ==
    /\ Becomes(t, k, [at |-> "denied"])
    /\ UNCHANGED <<ledger, accepted>>

\* A signed-out tab shows the login form once it has asked who is signed in.
MaySend(t, k) ==
    CASE k = "login"  -> t \notin signedIn /\ call[t]["me"] = Idle
      [] k = "me"     -> FALSE
      [] k = "stream" -> t \in signedIn /\ stored # 0
      [] OTHER        -> t \in signedIn

\* A call is sent and reaches the server; the answer is on its way.
Send(t, k) ==
    /\ \/ call[t][k] = Loading
       \/ call[t][k] = Idle /\ k \in Uses[t] /\ MaySend(t, k)
    /\ Accept(t, k) \/ Deny(t, k)
    /\ UNCHANGED <<alarms, stored, signedIn, refresh, event, loads, presented, unanswered>>

\* How a call that fails ends, with a status or with 0 for a network error.
Fails(t, k, status) ==
    /\ call' = [call EXCEPT ![t][k] = Idle]
    /\ IF k = "logout" \/ (k = "me" /\ status \in {401, 403})
         THEN Write(t, 0) /\ signedIn' = signedIn \ {t}
         ELSE UNCHANGED <<stored, signedIn, event>>

\* The first 401 of a page sends the refresh, the others wait for the same one.
Denied(t, k) ==
    /\ call[t][k].at = "denied"
    /\ IF stored # 0
         THEN /\ Becomes(t, k, [at |-> "waiting"])
              /\ IF refresh[t] = None
                   THEN /\ refresh' = [refresh EXCEPT ![t] = [at |-> "sent", pair |-> stored]]
                        /\ presented' = [presented EXCEPT ![stored] = @ \cup {Page(t)}]
                   ELSE UNCHANGED <<refresh, presented>>
              /\ UNCHANGED <<stored, signedIn, event>>
         ELSE Fails(t, k, 401) /\ UNCHANGED <<refresh, presented>>
    /\ UNCHANGED <<server, loads, unanswered>>

\* The call cannot be sent, or its answer is lost or late.
NetworkError(t, k) ==
    /\ call[t][k].at \in {"loading", "ok", "denied", "again"}
    /\ Fails(t, k, 0)
    /\ UNCHANGED <<server, refresh, loads, presented, unanswered>>

\* The answer to a page that was loaded is that the account is inactive.
Forbidden(t) ==
    /\ call[t]["me"].at = "ok"
    /\ Fails(t, "me", 403)
    /\ UNCHANGED <<server, refresh, loads, presented, unanswered>>

Ok(t, k) ==
    /\ call[t][k].at = "ok"
    /\ Becomes(t, k, Idle)
    /\ CASE k = "login"  -> Write(t, call[t][k].new) /\ signedIn' = signedIn \cup {t}
         [] k = "me"     -> signedIn' = signedIn \cup {t} /\ UNCHANGED <<stored, event>>
         [] k = "logout" -> signedIn' = signedIn \ {t} /\ Write(t, 0)
         [] OTHER        -> UNCHANGED <<stored, signedIn, event>>
    /\ UNCHANGED <<server, refresh, loads, presented, unanswered>>

\* A call that waited for the refresh is sent once more; another 401 is final.
SendAgain(t, k) ==
    /\ call[t][k].at = "again"
    /\ \/ Accept(t, k) /\ UNCHANGED <<stored, signedIn, event>>
       \/ Fails(t, k, 401) /\ UNCHANGED <<ledger, accepted>>
    /\ UNCHANGED <<alarms, refresh, loads, presented, unanswered>>

Waiting(t) == {k \in Kind : call[t][k].at = "waiting"}

\* Mutant: the tokens of the answer are not stored.
RefreshGrantedUnstored(t) ==
    /\ refresh[t].at = "granted"
    /\ refresh' = [refresh EXCEPT ![t] = None]
    /\ call' = [call EXCEPT ![t] =
                  [k \in Kind |-> IF k \in Waiting(t) THEN [at |-> "again"] ELSE @[k]]]
    /\ UNCHANGED <<server, stored, event, signedIn, loads, presented, unanswered>>

\* The pair is stored and the calls are sent once more.
RefreshGranted(t) ==
    /\ refresh[t].at = "granted"
    /\ Write(t, refresh[t].new)
    /\ refresh' = [refresh EXCEPT ![t] = None]
    /\ call' = [call EXCEPT ![t] =
                  [k \in Kind |-> IF k \in Waiting(t)
                     THEN [at |-> "again"] ELSE IF @[k].at = "stopped" THEN Idle ELSE @[k]]]
    /\ UNCHANGED <<server, signedIn, loads, presented, unanswered>>

\* The calls that waited have failed: each dispatches at:session-expired, whose
\* handler clears the tokens.  A stream that was stopped returns before it does.
SessionExpired(t, clear) ==
    /\ refresh' = [refresh EXCEPT ![t] = None]
    /\ call' = [call EXCEPT ![t] =
                  [k \in Kind |-> IF @[k].at \in {"waiting", "stopped"} THEN Idle ELSE @[k]]]
    /\ IF clear \/ Waiting(t) # {} THEN Write(t, 0) ELSE UNCHANGED <<stored, event>>
    /\ signedIn' = IF Waiting(t) # {} THEN signedIn \ {t} ELSE signedIn
    /\ unanswered' = IF clear \/ Waiting(t) # {} THEN unanswered
                                               ELSE unanswered \cup {refresh[t].pair}
    /\ UNCHANGED <<server, loads, presented>>

RefreshRefused(t) ==
    /\ refresh[t].at = "refused"
    /\ SessionExpired(t, TRUE)

\* Mutant: what the comment in refreshTokens says.
RefreshLostKeepsTokens(t) ==
    /\ refresh[t] # None
    /\ refresh' = [refresh EXCEPT ![t] = None]
    /\ call' = [call EXCEPT ![t] =
                  [k \in Kind |-> IF @[k].at \in {"waiting", "stopped"} THEN Idle ELSE @[k]]]
    /\ UNCHANGED <<server, stored, signedIn, event, loads, presented, unanswered>>

\* The request or its answer is lost, or the answer is late.
RefreshLost(t) ==
    /\ refresh[t] # None
    /\ SessionExpired(t, FALSE)

StorageEvent(t) ==
    /\ t \in event
    /\ event' = event \ {t}
    /\ signedIn' = IF stored = 0 THEN signedIn \ {t} ELSE signedIn
    /\ UNCHANGED <<server, stored, call, refresh, loads, presented, unanswered>>

\* The page with the live feed is left for another one of the same tab.
StopStream(t) ==
    /\ call[t]["stream"].at \notin {"idle", "stopped"}
    /\ Becomes(t, "stream", IF "stream" \in Waiting(t) THEN [at |-> "stopped"] ELSE Idle)
    /\ UNCHANGED <<server, stored, signedIn, refresh, event, loads, presented, unanswered>>

\* The tab is loaded: what was in flight is abandoned, and AuthProvider asks
\* /users/me when there are tokens.
Load(t) ==
    /\ MapThenSumSet(LAMBDA x : loads[x], Tab) < MaxLoads
    /\ loads' = [loads EXCEPT ![t] = @ + 1]
    /\ signedIn' = signedIn \ {t}
    /\ event' = event \ {t}
    /\ unanswered' = IF refresh[t] = None THEN unanswered ELSE unanswered \cup {refresh[t].pair}
    /\ refresh' = [refresh EXCEPT ![t] = None]
    /\ call' = [call EXCEPT ![t] =
                  [k \in Kind |-> IF k = "me" /\ stored # 0 THEN Loading ELSE Idle]]
    /\ UNCHANGED <<server, stored, presented>>

-----------------------------------------------------------------------------
Next ==
    \/ \E t \in Tab : ServeRefresh(t) \/ RefreshGranted(t) \/ RefreshRefused(t) \/ RefreshLost(t)
    \/ \E t \in Tab : StorageEvent(t) \/ StopStream(t) \/ Load(t) \/ Forbidden(t)
    \/ \E t \in Tab, k \in Kind : Send(t, k) \/ SendAgain(t, k) \/ Denied(t, k)
    \/ \E t \in Tab, k \in Kind : NetworkError(t, k) \/ Ok(t, k)

Spec == Init /\ [][Next]_vars

-----------------------------------------------------------------------------
Granted   == [at : {"ok"}, new : Pair]
CallState ==
    Granted \cup [at : {"idle", "loading", "ok", "denied", "waiting", "again", "stopped"}]

TypeOK ==
    /\ ledger \in [Pair -> {"absent", "live", "rotated", "ended"}]
    /\ accepted \subseteq Pair /\ alarms \subseteq Pair /\ unanswered \subseteq Pair
    /\ stored \in 0 .. MaxPairs
    /\ signedIn \subseteq Tab /\ event \subseteq Tab
    /\ call \in [Tab -> [Kind -> CallState]]
    /\ \A t \in Tab : call[t]["login"].at = "ok" => call[t]["login"] \in Granted
    /\ refresh \in [Tab -> {None} \cup [at : {"sent", "refused"}, pair : Pair]
                                  \cup [at : {"granted"}, pair : Pair, new : Pair]]
    /\ loads \in [Tab -> Nat]
    /\ presented \in [Pair -> SUBSET (Tab \X Nat)]

\* Single flight (client.ts:103-107): the server takes a rotated token for a
\* stolen one only when two pages presented it, or when the page that did was
\* loaded again, or left its live feed, and nobody took the answer.  However many
\* calls of a page fail at once, and whatever answer they lose, they do not
\* raise the alarm.
AlarmTakesTwoPages ==
    \A n \in alarms : Cardinality(presented[n]) >= 2 \/ n \in unanswered

\* A rotated token stays in localStorage only while a page has yet to take the
\* answer of its rotation, or when nobody took it (client.ts:126-127).
StoredTokenIsCurrent ==
    stored # 0 /\ ledger[stored] = "rotated" =>
      \/ stored \in unanswered
      \/ \E t \in Tab : refresh[t] # None /\ refresh[t].pair = stored

\* A pair that waits to be stored, in the answer of a login or of a refresh.
LoginHas(t, n)   == call[t]["login"].at = "ok" /\ call[t]["login"].new = n
RefreshHas(t, n) == refresh[t].at = "granted" /\ refresh[t].new = n

\* One hand at most holds a pair, and only before it was stored and presented.
HandedOnce ==
    \A n \in Pair, t, x \in Tab :
      /\ LoginHas(t, n) /\ LoginHas(x, n) => t = x
      /\ RefreshHas(t, n) /\ RefreshHas(x, n) => t = x
      /\ ~ (LoginHas(t, n) /\ RefreshHas(x, n))
      /\ LoginHas(t, n) \/ RefreshHas(t, n) =>
           stored # n /\ presented[n] = {} /\ ledger[n] # "absent"

\* Nobody has a pair that was not minted, and a rotated one was presented.
UsedOnceMinted ==
    \A n \in Pair :
      /\ ledger[n] = "absent" => stored # n /\ presented[n] = {}
      /\ ledger[n] = "rotated" => presented[n] # {}

\* Every page that waits for a refresh presented its pair.
Presented ==
    /\ \A t \in Tab : refresh[t] # None => Page(t) \in presented[refresh[t].pair]
    /\ \A n \in Pair : IsFiniteSet(presented[n])

\* Whoever presents a rotated pair is the second page, or nobody took the answer.
SecondPresents ==
    \A t \in Tab :
      LET n == refresh[t].pair IN
      refresh[t].at = "sent" /\ ledger[n] = "rotated" =>
        Cardinality(presented[n]) >= 2 \/ n \in unanswered

IInv ==
    /\ TypeOK /\ HandedOnce /\ UsedOnceMinted /\ Presented /\ SecondPresents
    /\ AlarmTakesTwoPages /\ StoredTokenIsCurrent
=============================================================================

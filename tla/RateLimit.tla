------------------------------ MODULE RateLimit ------------------------------
(***************************************************************************)
(* The rate limiter (api/middleware/rate_limit.py) for one scope and one   *)
(* client address: a counter in Redis for every minute of the clock, and a *)
(* counter in each process for when Redis does not answer.                 *)
(*                                                                         *)
(* Redis is external: INCR is atomic, and a counter outlives its minute    *)
(* (EXPIRE, five seconds more).  A pipeline whose answer is lost may have  *)
(* been executed or not.                                                   *)
(***************************************************************************)
EXTENDS Naturals, FiniteSets

CONSTANTS
    Proc,
    Request,      \* requests at the limiter at once
    Limit,        \* _limit_for(scope)
    WindowLength, \* WINDOW_SECONDS, in ticks of the clock
    MaxRestarts   \* bound: restarts of processes within two minutes

LimiterAssumption ==
    /\ IsFiniteSet(Proc)
    /\ Limit \in Nat \ {0} /\ WindowLength \in Nat \ {0}
    /\ MaxRestarts \in Nat

\* The minute of the clock and the one before it, by turns: requests are counted
\* for no other, so that the figures of a minute are forgotten when its turn
\* comes again.
Minute == {0, 1}

VARIABLES
    clock,      \* ticks, over two minutes
    redisCount, \* the counter of each minute in Redis
    memory,     \* _counters of each process
    age,        \* how long ago _window_started_at of each process is
    request,    \* the process and the minute of a request that is being counted
    admitted,   \* history: requests let through, by the minute they counted for
    failures,   \* history: minutes in which a request fell back on a process
    restarts    \* history: restarts since each minute began

vars == <<clock, redisCount, memory, age, request, admitted, failures, restarts>>

None == [at |-> "none"]
Now  == clock \div WindowLength
Zero == [m \in Minute |-> 0]

\* Counts above the limit are not told apart.
Incr(n) == IF n > Limit THEN n ELSE n + 1

Init ==
    /\ clock = 0
    /\ redisCount = Zero
    /\ memory = [p \in Proc |-> Zero]
    /\ age = [p \in Proc |-> 0]
    /\ request = [r \in Request |-> None]
    /\ admitted = Zero
    /\ failures = {}
    /\ restarts = Zero

-----------------------------------------------------------------------------
\* dispatch: the minute is read before the counter is.
Arrive(r, p) ==
    /\ request[r] = None
    /\ request' = [request EXCEPT ![r] = [at |-> "counting", proc |-> p, minute |-> Now]]
    /\ UNCHANGED <<clock, redisCount, memory, age, admitted, failures, restarts>>

\* The request goes on or is answered 429.
Answer(r, count) ==
    /\ request' = [request EXCEPT ![r] = None]
    /\ admitted' = [admitted EXCEPT ![request[r].minute] = @ + IF count <= Limit THEN 1 ELSE 0]

IncrRedis(r) ==
    LET m == request[r].minute IN
    /\ request[r] # None
    /\ redisCount' = [redisCount EXCEPT ![m] = Incr(@)]
    /\ Answer(r, redisCount'[m])
    /\ UNCHANGED <<clock, memory, age, failures, restarts>>

\* Mutant: the start of the period is not moved.
IncrMemoryUnmoved(p, m) ==
    LET kept == IF age[p] >= WindowLength THEN Zero ELSE memory[p] IN
    memory' = [memory EXCEPT ![p] = [kept EXCEPT ![m] = Incr(@)]] /\ UNCHANGED age

\* _MemoryCounter.incr: its period runs from the first request that finds the
\* last one over, and all its counters start again.
IncrMemory(p, m) ==
    LET over == age[p] >= WindowLength
        kept == IF over THEN Zero ELSE memory[p] IN
    /\ memory' = [memory EXCEPT ![p] = [kept EXCEPT ![m] = Incr(@)]]
    /\ age' = [age EXCEPT ![p] = IF over THEN 0 ELSE @]

\* Redis is not there, or its answer is lost.
FallBack(r) ==
    LET p == request[r].proc
        m == request[r].minute IN
    /\ request[r] # None
    /\ \/ UNCHANGED redisCount
       \/ redisCount' = [redisCount EXCEPT ![m] = Incr(@)]
    /\ IncrMemory(p, m)
    /\ Answer(r, memory'[p][m])
    /\ failures' = failures \cup {m}
    /\ UNCHANGED <<clock, restarts>>

\* A request is counted before the next minute is over (socket_timeout).
Tick ==
    LET next == (clock + 1) % (2 * WindowLength)
        m    == next \div WindowLength
        Forget(f) == IF m = Now THEN f ELSE [f EXCEPT ![m] = 0] IN
    /\ \A r \in Request : request[r] # None /\ m # Now => request[r].minute = Now
    /\ clock' = next
    /\ age' = [p \in Proc |-> IF age[p] < WindowLength THEN age[p] + 1 ELSE age[p]]
    /\ redisCount' = Forget(redisCount)
    /\ memory' = [p \in Proc |-> Forget(memory[p])]
    /\ admitted' = Forget(admitted)
    /\ restarts' = Forget(restarts)
    /\ failures' = IF m = Now THEN failures ELSE failures \ {m}
    /\ UNCHANGED request

Restart(p) ==
    /\ \A m \in Minute : restarts[m] < MaxRestarts
    /\ restarts' = [m \in Minute |-> restarts[m] + 1]
    /\ memory' = [memory EXCEPT ![p] = Zero]
    /\ age' = [age EXCEPT ![p] = 0]
    /\ request' = [r \in Request |->
         IF request[r] # None /\ request[r].proc = p THEN None ELSE request[r]]
    /\ UNCHANGED <<clock, redisCount, admitted, failures>>

Next ==
    \/ \E r \in Request, p \in Proc : Arrive(r, p)
    \/ \E r \in Request : IncrRedis(r)
    \/ \E r \in Request : FallBack(r)
    \/ Tick
    \/ \E p \in Proc : Restart(p)

Spec == Init /\ [][Next]_vars

-----------------------------------------------------------------------------
TypeOK ==
    /\ clock \in 0 .. 2 * WindowLength - 1
    /\ redisCount \in [Minute -> 0 .. Limit + 1]
    /\ memory \in [Proc -> [Minute -> 0 .. Limit + 1]]
    /\ age \in [Proc -> 0 .. WindowLength]
    /\ request \in [Request -> {None} \cup [at : {"counting"}, proc : Proc, minute : Minute]]
    /\ admitted \in [Minute -> Nat]
    /\ failures \subseteq Minute
    /\ restarts \in [Minute -> 0 .. MaxRestarts]

\* How long ago a minute began.
Elapsed(m) == IF m = 0 THEN clock
              ELSE IF clock < WindowLength THEN clock + WindowLength ELSE clock - WindowLength

\* How many periods of a process can have ended since: one that is as old as the
\* minute began before it, and a second one can only end a period later.
Ended(p, m) == IF age[p] > Elapsed(m) THEN 0
               ELSE IF Elapsed(m) - age[p] < WindowLength THEN 1 ELSE 2

Counted(n) == IF n > Limit THEN Limit ELSE n

\* What a process can have let through in the periods that ended, and in this one.
Share(p, m) == Limit * Ended(p, m) + Counted(memory[p][m])
Shares(m)   == {s \in Proc \X (1 .. 3 * Limit) : s[2] <= Share(s[1], m)}

\* The counters account for what was let through.
AccountedFor ==
    \A m \in Minute :
      /\ m \notin failures => admitted[m] <= Counted(redisCount[m])
      /\ admitted[m] <= Counted(redisCount[m]) + Limit * restarts[m] + Cardinality(Shares(m))

\* The inductive invariant.
IInv == TypeOK /\ AccountedFor

\* What a minute lets through (rate_limit.py:68, 98-107).  While Redis answers,
\* the limit, however many processes serve and however late the requests are
\* counted.  A process that falls back adds at most three times the limit, as its
\* period may end twice before the minute's last request is counted, and once
\* more for every restart.
AdmittedPerMinute ==
    \A m \in Minute :
      /\ m \notin failures => admitted[m] <= Limit
      /\ admitted[m] <= Limit * (1 + 3 * Cardinality(Proc) + restarts[m])
=============================================================================

----------------------------- MODULE FeedProofs -----------------------------
(***************************************************************************)
(* Proofs about LiveFeed and the abstract feed it implements, in the       *)
(* system that Progress composes, for any constants that its assumption    *)
(* admits: any processes, streams, publishers, queue limit and outages.    *)
(***************************************************************************)
EXTENDS Progress, TLAPS

\* The other components leave the feed alone.
LEMMA FeedMoves == [Next]_vars => [Feed!Next]_(Feed!vars)
BY DEF Next, FeedStep, JobStep, UserStep, vars, feedVars, Feed!vars, Feed!streamVars

-----------------------------------------------------------------------------
(* Queues.                                                                 *)

\* A queue of events after low and after the one held, in order.
Sorted(q, low, held, last) ==
    \A k \in 1 .. Len(q) :
      /\ q[k] \in low + 1 .. last /\ q[k] > held
      /\ \A i \in 1 .. Len(q) : i < k => q[i] < q[k]

InQueue(q, e) == \E k \in 1 .. Len(q) : q[k] = e

LEMMA AppendFacts ==
    ASSUME NEW q \in Seq(Nat), NEW e \in Nat
    PROVE  /\ Append(q, e) \in Seq(Nat) /\ Len(q) \in Nat
           /\ Len(Append(q, e)) = Len(q) + 1 /\ Append(q, e)[Len(q) + 1] = e
           /\ \A k \in 1 .. Len(q) : Append(q, e)[k] = q[k] /\ q[k] \in Nat
OBVIOUS

LEMMA AppendSorted ==
    ASSUME NEW q \in Seq(Nat), NEW low \in Nat, NEW held \in Nat, NEW last \in Nat,
           low <= last, held <= last, Sorted(q, low, held, last)
    PROVE  Sorted(Append(q, last + 1), low, held, last + 1)
<1> DEFINE r == Append(q, last + 1)
           n == Len(q)
<1>1. /\ n \in Nat /\ Len(r) = n + 1 /\ r[n + 1] = last + 1
      /\ \A k \in 1 .. n : r[k] = q[k] /\ q[k] \in Nat
  BY AppendFacts
<1>2. \A k \in 1 .. n : q[k] \in low + 1 .. last /\ q[k] > held
                        /\ \A i \in 1 .. n : i < k => q[i] < q[k]
  BY DEF Sorted
<1> HIDE DEF r, n
<1>3. ASSUME NEW k \in 1 .. n + 1
      PROVE  /\ r[k] \in low + 1 .. last + 1 /\ r[k] > held
             /\ \A i \in 1 .. n + 1 : i < k => r[i] < r[k]
  <2>1. CASE k = n + 1
    <3>1. r[k] = last + 1 /\ \A i \in 1 .. n + 1 : i < k => r[i] \in low + 1 .. last
      BY <1>1, <1>2, <2>1
    <3>2. QED
      BY <3>1
  <2>2. CASE k # n + 1
    <3>1. k \in 1 .. n /\ r[k] = q[k] /\ q[k] \in low + 1 .. last /\ q[k] > held
      BY <1>1, <1>2, <2>2
    <3>2. \A i \in 1 .. n + 1 : i < k => i \in 1 .. n /\ r[i] = q[i] /\ q[i] < q[k]
      BY <1>1, <1>2, <3>1
    <3>3. QED
      BY <3>1, <3>2
  <2>3. QED
    BY <2>1, <2>2
<1>4. QED
  BY <1>1, <1>3 DEF Sorted, r

LEMMA LaterSorted ==
    ASSUME NEW q, NEW low \in Nat, NEW held, NEW last \in Nat, Sorted(q, low, held, last)
    PROVE  Sorted(q, low, held, last + 1)
<1>1. low + 1 .. last \subseteq low + 1 .. last + 1
  OBVIOUS
<1>2. QED
  BY <1>1 DEF Sorted

LEMMA AppendHas ==
    ASSUME NEW q \in Seq(Nat), NEW last \in Nat
    PROVE  /\ InQueue(Append(q, last), last)
           /\ \A e : InQueue(q, e) => InQueue(Append(q, last), e)
<1>1. 1 .. Len(q) \subseteq 1 .. Len(q) + 1 /\ Len(q) + 1 \in 1 .. Len(q) + 1
  BY AppendFacts
<1>2. QED
  BY <1>1, AppendFacts DEF InQueue

LEMMA TailFacts ==
    ASSUME NEW q \in Seq(Nat), q # <<>>
    PROVE  /\ Tail(q) \in Seq(Nat) /\ Len(q) \in Nat \ {0} /\ Head(q) = q[1]
           /\ Len(Tail(q)) = Len(q) - 1
           /\ \A k \in 1 .. Len(q) - 1 : Tail(q)[k] = q[k + 1]
           /\ \A k \in 1 .. Len(q) : q[k] \in Nat
OBVIOUS

\* The oldest event is the one to hold next.
LEMMA TailSorted ==
    ASSUME NEW q \in Seq(Nat), q # <<>>, NEW low \in Nat, NEW held \in Nat, NEW last \in Nat,
           Sorted(q, low, held, last)
    PROVE  Head(q) \in low + 1 .. last /\ Sorted(Tail(q), low, Head(q), last)
<1> DEFINE n == Len(q)
<1>1. /\ n \in Nat \ {0} /\ Head(q) = q[1] /\ Len(Tail(q)) = n - 1
      /\ \A k \in 1 .. n - 1 : Tail(q)[k] = q[k + 1]
      /\ \A k \in 1 .. n : q[k] \in Nat
  BY TailFacts
<1>2. \A k \in 1 .. n : q[k] \in low + 1 .. last /\ q[k] > held
                        /\ \A i \in 1 .. n : i < k => q[i] < q[k]
  BY DEF Sorted
<1> HIDE DEF n
<1>3. ASSUME NEW k \in 1 .. n - 1
      PROVE  /\ Tail(q)[k] \in low + 1 .. last /\ Tail(q)[k] > Head(q)
             /\ \A i \in 1 .. n - 1 : i < k => Tail(q)[i] < Tail(q)[k]
  <2>1. 1 \in 1 .. n /\ k + 1 \in 1 .. n /\ Tail(q)[k] = q[k + 1]
    BY <1>1
  <2>2. q[k + 1] \in low + 1 .. last /\ q[1] < q[k + 1]
    BY <1>1, <1>2, <2>1
  <2>3. ASSUME NEW i \in 1 .. n - 1, i < k PROVE Tail(q)[i] < Tail(q)[k]
    <3>1. i + 1 \in 1 .. n /\ i + 1 < k + 1 /\ Tail(q)[i] = q[i + 1]
      BY <1>1, <2>3
    <3>2. QED
      BY <1>2, <2>1, <3>1
  <2>4. QED
    BY <1>1, <2>1, <2>2, <2>3
<1>4. Head(q) \in low + 1 .. last
  <2>1. 1 \in 1 .. n
    BY <1>1
  <2>2. QED
    BY <1>1, <1>2, <2>1
<1>5. QED
  BY <1>1, <1>3, <1>4 DEF Sorted

\* What waits is newer than what was held, too.
LEMMA HeldSorted ==
    ASSUME NEW q \in Seq(Nat), NEW low \in Nat, NEW held \in Nat, NEW last \in Nat,
           Sorted(q, low, held, last)
    PROVE  Sorted(q, held, 0, last)
<1> SUFFICES ASSUME NEW k \in 1 .. Len(q) PROVE q[k] \in held + 1 .. last /\ q[k] > 0
  BY DEF Sorted
<1>1. q[k] \in low + 1 .. last /\ q[k] > held
  BY DEF Sorted
<1>2. QED
  BY <1>1

LEMMA TailHas ==
    ASSUME NEW q \in Seq(Nat), q # <<>>, NEW e, InQueue(q, e)
    PROVE  e = Head(q) \/ InQueue(Tail(q), e)
<1>1. PICK k \in 1 .. Len(q) : q[k] = e
  BY DEF InQueue
<1>2. CASE k = 1
  BY <1>1, <1>2, TailFacts
<1>3. CASE k # 1
  <2>1. k - 1 \in 1 .. Len(q) - 1 /\ (k - 1) + 1 = k
    BY <1>3, TailFacts
  <2>2. Tail(q)[k - 1] = e /\ k - 1 \in 1 .. Len(Tail(q))
    BY <1>1, <2>1, TailFacts
  <2>3. QED
    BY <2>2 DEF InQueue
<1>4. QED
  BY <1>2, <1>3

-----------------------------------------------------------------------------
(* What the invariant says of one stream.                                  *)

\* It was sent an event, is sending it, or has it waiting.
Has(s, e) == e \in shown[s] \cup {holding[s]} \/ InQueue(queue[s], e)

Ordered(s) ==
    /\ joined[s] <= Feed!Count /\ latest[s] <= Feed!Count
    /\ IF at[s] = "sending" THEN holding[s] \in latest[s] + 1 .. Feed!Count ELSE holding[s] = 0
    /\ Sorted(queue[s], latest[s], holding[s], Feed!Count)

Missed(s, e) ==
    log[e] = [via |-> "local", proc |-> home[s]] => Has(s, e) \/ e \in dropped[s]

AllOrdered == \A s \in Feed!Reading : Ordered(s)
Misses ==
    /\ subs \cup channel \subseteq Feed!Reading
    /\ \A s \in subs : \A e \in joined[s] + 1 .. Feed!Count : Missed(s, e)
Complete ==
    outages = 0 => \A s \in Feed!Reading : \A e \in joined[s] + 1 .. Feed!Count : Has(s, e)

FeedInv ==
    /\ Feed!TypeOK /\ Feed!NothingWhenClosed /\ AllOrdered /\ Feed!NobodyGivesUp
    /\ Misses /\ Complete

LEMMA FeedInvIs == FeedInv <=> Feed!IInv
<1> SUFFICES ASSUME Feed!TypeOK
             PROVE  /\ AllOrdered <=> Feed!InOrder
                    /\ subs \cup channel \subseteq Feed!Reading =>
                         (Misses <=> Feed!EveryMissIsAccountedFor)
                    /\ Complete <=> Feed!CompleteWhileRedisUp
  BY DEF FeedInv, Feed!IInv, Misses, Feed!EveryMissIsAccountedFor
<1>1. /\ Feed!Reading \subseteq Stream
      /\ \A s \in Stream : DOMAIN queue[s] = 1 .. Len(queue[s])
  BY DEF Feed!TypeOK, Feed!Reading
<1>2. \A s \in Stream : \A e : (\E k \in DOMAIN queue[s] : queue[s][k] = e) <=> InQueue(queue[s], e)
  BY <1>1 DEF InQueue
<1>3. AllOrdered <=> Feed!InOrder
  BY <1>1 DEF AllOrdered, Ordered, Sorted, Feed!InOrder
<1>4. subs \cup channel \subseteq Feed!Reading => (Misses <=> Feed!EveryMissIsAccountedFor)
  <2>1. ASSUME NEW s \in Stream, NEW e
        PROVE  Missed(s, e) <=>
                 (log[e] = [via |-> "local", proc |-> home[s]] =>
                    \/ e \in shown[s] \cup dropped[s] \cup {holding[s]}
                    \/ \E k \in DOMAIN queue[s] : queue[s][k] = e)
    BY <1>2 DEF Missed, Has
  <2>2. QED
    BY <1>1, <2>1 DEF Misses, Feed!EveryMissIsAccountedFor
<1>5. Complete <=> Feed!CompleteWhileRedisUp
  <2>1. ASSUME NEW s \in Stream, NEW e
        PROVE  Has(s, e) <=> \/ e \in shown[s] \cup {holding[s]}
                             \/ \E k \in DOMAIN queue[s] : queue[s][k] = e
    BY <1>2 DEF Has
  <2>2. QED
    BY <1>1, <2>1 DEF Complete, Feed!CompleteWhileRedisUp
<1>6. QED
  BY <1>3, <1>4, <1>5

LEMMA FeedShape ==
    ASSUME Feed!TypeOK
    PROVE  /\ Feed!Count \in Nat /\ Feed!Reading \subseteq Stream
           /\ \A s \in Stream :
                /\ queue[s] \in Seq(Nat) /\ holding[s] \in Nat
                /\ joined[s] \in Nat /\ latest[s] \in Nat
BY DEF Feed!TypeOK, Feed!Count, Feed!Reading

-----------------------------------------------------------------------------
(* Steps that touch no stream a dashboard reads.                           *)

LEMMA QuietKeeps ==
    ASSUME FeedInv,
           redisUp' \in BOOLEAN, outages' \in Nat, client' \in [Proc -> {"none", "set", "failed"}],
           publisher' \in [Publisher -> {Feed!Idle} \cup [at : {"ping", "publish"}, proc : Proc]],
           at' \in [Stream -> {"closed", "ping", "subscribing", "waiting", "sending", "pinged"}],
           home' \in [Stream -> Proc], Feed!Reading' = Feed!Reading,
           \A s \in Feed!Reading : at'[s] = at[s] /\ home'[s] = home[s],
           UNCHANGED <<subs, queue, holding, joined, shown, latest, log, dropped>>,
           channel' \subseteq Feed!Reading \ subs,
           outages' = 0 => outages = 0, Feed!NobodyGivesUp'
    PROVE  FeedInv'
<1> USE DEF FeedInv
<1>1. Feed!TypeOK'
  BY FeedShape DEF Feed!TypeOK, Feed!Announcement, Feed!Idle
<1>2. Feed!NothingWhenClosed'
  BY DEF Feed!NothingWhenClosed
<1>3. AllOrdered'
  BY DEF AllOrdered, Ordered, Feed!Count
<1>4. Misses'
  BY DEF Misses, Missed, Has, Feed!Count
<1>5. Complete'
  BY DEF Complete, Has, Feed!Count
<1>6. QED
  BY <1>1, <1>2, <1>3, <1>4, <1>5

-----------------------------------------------------------------------------
(* An announced event reaches the queues of S.                             *)

LEMMA AnnouncedKeeps ==
    ASSUME FeedInv, NEW m \in Feed!Announcement, NEW S \in SUBSET Feed!Reading,
           log' = Append(log, m), queue' = Feed!Append1(S),
           UNCHANGED <<redisUp, outages, at, home, subs, channel, holding, joined, shown, latest>>,
           client' \in [Proc -> {"none", "set", "failed"}],
           outages = 0 => client' = client,
           publisher' \in [Publisher -> {Feed!Idle} \cup [at : {"ping", "publish"}, proc : Proc]],
           dropped' \in [Stream -> SUBSET Nat],
           \A s \in Stream : dropped[s] \subseteq dropped'[s],
           \A s \in Stream \ Feed!Reading : dropped'[s] = {},
           \A s \in subs \cap S : Len(queue[s]) < QueueLimit,
           outages = 0 => Feed!Reading \subseteq S,
           \A s \in subs : m = [via |-> "local", proc |-> home[s]] =>
                             s \in S \/ Feed!Count + 1 \in dropped'[s]
    PROVE  FeedInv'
<1> USE DEF FeedInv
<1>1. Feed!Count \in Nat /\ Feed!Count' = Feed!Count + 1
  BY FeedShape DEF Feed!TypeOK, Feed!Count
<1>2. /\ log' \in Seq(Feed!Announcement) /\ log'[Feed!Count + 1] = m
      /\ \A e \in 1 .. Feed!Count : log'[e] = log[e]
  BY DEF Feed!TypeOK, Feed!Count
<1>3. Feed!Reading' = Feed!Reading /\ Feed!Reading \subseteq Stream /\ S \subseteq Stream
  BY DEF Feed!Reading
<1>4. \A s \in Stream :
        /\ s \in S => queue'[s] = Append(queue[s], Feed!Count + 1)
        /\ s \notin S => queue'[s] = queue[s]
  BY DEF Feed!Append1
<1>0. /\ Feed!Count + 1 \in Nat
      /\ \A s \in Stream : queue[s] \in Seq(Nat) /\ joined[s] \in Nat
  BY <1>1, FeedShape
<1>5. ASSUME NEW s \in Stream PROVE queue'[s] \in Seq(Nat)
  <2>1. queue[s] \in Seq(Nat) /\ Append(queue[s], Feed!Count + 1) \in Seq(Nat)
    BY <1>0, AppendFacts
  <2>2. QED
    BY <1>4, <2>1
<1>6. Feed!TypeOK'
  <2>1. \A s \in subs : Len(queue'[s]) <= QueueLimit
    <3> SUFFICES ASSUME NEW s \in subs PROVE Len(queue'[s]) <= QueueLimit
      OBVIOUS
    <3>1. QueueLimit \in Nat /\ Len(queue[s]) <= QueueLimit /\ s \in Stream
      BY ProgressAssumption DEF Feed!TypeOK, ProgressAssumption, Feed!LiveFeedAssumption
    <3>2. CASE s \in S
      <4>1. /\ Len(queue[s]) \in Nat /\ Len(queue[s]) < QueueLimit
            /\ Len(queue'[s]) = Len(queue[s]) + 1
        BY <1>1, <1>4, <3>1, <3>2, FeedShape, AppendFacts
      <4>2. QED
        BY <3>1, <4>1
    <3>3. CASE s \notin S
      BY <1>4, <3>1, <3>3
    <3>4. QED
      BY <3>2, <3>3
  <2>2. queue' \in [Stream -> Seq(Nat)]
    BY <1>5 DEF Feed!Append1
  <2>3. QED
    BY <1>2, <2>1, <2>2 DEF Feed!TypeOK, Feed!Announcement, Feed!Idle
<1>7. Feed!NothingWhenClosed'
  BY <1>3, <1>4 DEF Feed!NothingWhenClosed
<1>8. ASSUME NEW s \in Feed!Reading PROVE Ordered(s)'
  <2>1. /\ Ordered(s) /\ s \in Stream /\ queue[s] \in Seq(Nat) /\ holding[s] \in Nat
        /\ joined[s] \in Nat /\ latest[s] \in Nat
    BY <1>3, <1>8, FeedShape DEF AllOrdered
  <2>2. joined[s] <= Feed!Count /\ latest[s] <= Feed!Count /\ holding[s] <= Feed!Count
    BY <1>1, <2>1 DEF Ordered
  <2>3. Sorted(queue'[s], latest[s], holding[s], Feed!Count + 1)
    <3>1. Sorted(queue[s], latest[s], holding[s], Feed!Count)
      BY <2>1 DEF Ordered
    <3>2. Sorted(Append(queue[s], Feed!Count + 1), latest[s], holding[s], Feed!Count + 1)
      BY <1>1, <2>1, <2>2, <3>1, AppendSorted
    <3>3. Sorted(queue[s], latest[s], holding[s], Feed!Count + 1)
      BY <1>1, <2>1, <3>1, LaterSorted
    <3>4. QED
      BY <1>4, <2>1, <3>2, <3>3
  <2>4. IF at[s] = "sending" THEN holding[s] \in latest[s] + 1 .. Feed!Count + 1 ELSE holding[s] = 0
    BY <1>1, <2>1 DEF Ordered
  <2>5. QED
    BY <1>1, <2>1, <2>2, <2>3, <2>4 DEF Ordered
<1>9. Feed!NobodyGivesUp'
  BY <1>3 DEF Feed!NobodyGivesUp
<1>10. ASSUME NEW s \in Stream, NEW e, Has(s, e) PROVE Has(s, e)'
  <2>0. InQueue(queue[s], e) => InQueue(Append(queue[s], Feed!Count + 1), e)
    BY <1>0, <1>10, AppendHas
  <2>1. InQueue(queue[s], e) => InQueue(queue'[s], e)
    BY <1>4, <1>10, <2>0
  <2>2. QED
    BY <1>10, <2>1 DEF Has
<1>11. ASSUME NEW s \in S, NEW e, e = Feed!Count + 1 PROVE Has(s, e)'
  <2>1. InQueue(queue'[s], e)
    <3>1. InQueue(Append(queue[s], Feed!Count + 1), Feed!Count + 1)
      BY <1>0, <1>3, AppendHas
    <3>2. QED
      BY <1>3, <1>4, <1>11, <3>1
  <2>2. QED
    BY <2>1 DEF Has
<1>12. \A s \in Stream : \A e \in joined[s] + 1 .. Feed!Count + 1 :
         e = Feed!Count + 1 \/ (e \in joined[s] + 1 .. Feed!Count /\ log'[e] = log[e])
  <2> SUFFICES ASSUME NEW s \in Stream, NEW e \in joined[s] + 1 .. Feed!Count + 1,
                      e # Feed!Count + 1
               PROVE  e \in joined[s] + 1 .. Feed!Count /\ log'[e] = log[e]
    OBVIOUS
  <2>1. joined[s] \in Nat
    BY <1>0
  <2>2. e \in joined[s] + 1 .. Feed!Count /\ e \in 1 .. Feed!Count
    BY <1>1, <2>1
  <2>3. QED
    BY <1>2, <2>2
<1>13. Misses'
  <2>1. subs \cup channel \subseteq Feed!Reading
    BY DEF Misses
  <2>2. ASSUME NEW s \in subs, NEW e \in joined[s] + 1 .. Feed!Count + 1 PROVE Missed(s, e)'
    <3>1. s \in Stream
      BY <1>3, <2>1
    <3>2. CASE e = Feed!Count + 1
      <4>1. log'[e] = m
        BY <1>2, <3>2
      <4>2. QED
        BY <1>11, <3>2, <4>1 DEF Missed
    <3>3. CASE e # Feed!Count + 1
      <4>1. Missed(s, e) /\ log'[e] = log[e]
        BY <1>12, <2>2, <3>1, <3>3 DEF Misses
      <4>2. Has(s, e) => Has(s, e)'
        BY <1>10, <3>1
      <4>3. QED
        BY <3>1, <4>1, <4>2 DEF Missed
    <3>4. QED
      BY <3>2, <3>3
  <2>3. QED
    BY <1>1, <1>3, <2>1, <2>2 DEF Misses
<1>14. Complete'
  <2>1. ASSUME outages = 0, NEW s \in Feed!Reading, NEW e \in joined[s] + 1 .. Feed!Count + 1
        PROVE  Has(s, e)'
    <3>1. CASE e = Feed!Count + 1
      BY <1>11, <2>1, <3>1
    <3>2. CASE e # Feed!Count + 1
      <4>1. Has(s, e)
        BY <1>3, <1>12, <2>1, <3>2 DEF Complete
      <4>2. QED
        BY <1>3, <1>10, <4>1
    <3>3. QED
      BY <3>1, <3>2
  <2>2. QED
    BY <1>1, <1>3, <2>1 DEF Complete
<1>15. QED
  BY <1>3, <1>6, <1>7, <1>8, <1>9, <1>13, <1>14 DEF AllOrdered

-----------------------------------------------------------------------------
(* Streams open and close.                                                 *)

LEMMA OpensKeeps ==
    ASSUME FeedInv, NEW s \in Stream, s \notin Feed!Reading, Feed!Subscribed(s),
           \/ subs' = subs \cup {s} /\ channel' = channel
           \/ subs' = subs /\ channel' = channel \cup {s},
           home' \in [Stream -> Proc], \A x \in Stream : x # s => home'[x] = home[x],
           UNCHANGED <<redisUp, outages, publisher, log, holding>>,
           client' \in [Proc -> {"none", "set", "failed"}],
           outages = 0 => client' = client /\ channel' = channel \cup {s}
    PROVE  FeedInv'
<1> USE DEF FeedInv
<1>1. /\ Feed!Reading' = Feed!Reading \cup {s} /\ Feed!Count' = Feed!Count
      /\ Feed!Count \in Nat /\ Feed!Reading \subseteq Stream /\ at'[s] = "waiting"
      /\ \A x \in Stream : x # s =>
           at'[x] = at[x] /\ joined'[x] = joined[x] /\ latest'[x] = latest[x]
      /\ joined'[s] = Feed!Count /\ latest'[s] = Feed!Count
      /\ UNCHANGED <<queue, shown, dropped>>
  BY FeedShape DEF Feed!TypeOK, Feed!Reading, Feed!Count, Feed!Subscribed, Feed!Goes
<1>2. /\ queue[s] = <<>> /\ holding[s] = 0 /\ shown[s] = {} /\ dropped[s] = {}
      /\ s \notin subs /\ s \notin channel
  BY DEF Feed!NothingWhenClosed, Misses
<1>3. Feed!TypeOK'
  <2>1. \A x \in subs' : Len(queue[x]) <= QueueLimit
    BY <1>2, ProgressAssumption DEF Feed!TypeOK, ProgressAssumption, Feed!LiveFeedAssumption
  <2>2. /\ at' \in [Stream -> {"closed", "ping", "subscribing", "waiting", "sending", "pinged"}]
        /\ joined' \in [Stream -> Nat] /\ latest' \in [Stream -> Nat]
    BY <1>1 DEF Feed!TypeOK, Feed!Subscribed, Feed!Goes
  <2>3. subs' \subseteq Stream /\ channel' \subseteq Stream
    BY DEF Feed!TypeOK
  <2>4. QED
    BY <1>1, <2>1, <2>2, <2>3 DEF Feed!TypeOK, Feed!Announcement, Feed!Idle
<1>4. Feed!NothingWhenClosed'
  BY <1>1, <1>2 DEF Feed!NothingWhenClosed
<1>5. ASSUME NEW x \in Feed!Reading' PROVE Ordered(x)'
  <2>1. CASE x = s
    <3>1. Sorted(queue[s], Feed!Count, 0, Feed!Count)
      BY <1>2 DEF Sorted
    <3>2. QED
      BY <1>1, <1>2, <2>1, <3>1 DEF Ordered
  <2>2. CASE x # s
    BY <1>1, <2>2 DEF AllOrdered, Ordered
  <2>3. QED
    BY <2>1, <2>2
<1>6. Feed!NobodyGivesUp'
  BY <1>1 DEF Feed!NobodyGivesUp
<1>7. joined'[s] + 1 .. Feed!Count = {}
  BY <1>1
<1>8. Misses'
  <2>1. (subs \cup channel \subseteq Feed!Reading)'
    BY <1>1 DEF Misses
  <2>2. ASSUME NEW x \in subs', NEW e \in joined'[x] + 1 .. Feed!Count PROVE Missed(x, e)'
    <3>1. x # s /\ x \in subs /\ x \in Stream
      BY <1>7, <2>2 DEF Feed!TypeOK
    <3>2. Missed(x, e) /\ home'[x] = home[x]
      BY <1>1, <2>2, <3>1 DEF Misses
    <3>3. QED
      BY <1>1, <3>1, <3>2 DEF Missed, Has
  <2>3. QED
    BY <1>1, <2>1, <2>2 DEF Misses
<1>9. Complete'
  <2>1. ASSUME outages = 0, NEW x \in Feed!Reading', NEW e \in joined'[x] + 1 .. Feed!Count
        PROVE  Has(x, e)'
    <3>1. x # s /\ x \in Feed!Reading /\ x \in Stream
      BY <1>1, <1>7, <2>1
    <3>2. Has(x, e)
      BY <1>1, <2>1, <3>1 DEF Complete
    <3>3. QED
      BY <1>1, <3>1, <3>2 DEF Has
  <2>2. QED
    BY <1>1, <2>1 DEF Complete
<1>10. QED
  BY <1>3, <1>4, <1>5, <1>6, <1>8, <1>9 DEF AllOrdered

LEMMA ClosesKeeps ==
    ASSUME FeedInv, NEW S \in SUBSET Stream, Feed!Unsubscribed(S),
           at' \in [Stream -> {"closed", "ping", "subscribing", "waiting", "sending", "pinged"}],
           \A s \in S : at'[s] \notin {"waiting", "sending"} /\ holding'[s] = 0,
           \A s \in Stream \ S : at'[s] = at[s] /\ holding'[s] = holding[s],
           holding' \in [Stream -> Nat],
           UNCHANGED <<redisUp, outages, log, home>>,
           client' \in [Proc -> {"none", "set", "failed"}],
           outages = 0 => \A p \in Proc : client'[p] # "failed",
           publisher' \in [Publisher -> {Feed!Idle} \cup [at : {"ping", "publish"}, proc : Proc]]
    PROVE  FeedInv' /\ Feed!Reading' = Feed!Reading \ S
<1> USE DEF FeedInv
<1>1. /\ Feed!Reading' = Feed!Reading \ S /\ Feed!Count' = Feed!Count
      /\ Feed!Count \in Nat /\ Feed!Reading \subseteq Stream
  BY FeedShape DEF Feed!TypeOK, Feed!Reading, Feed!Count
<1>2. /\ subs' = subs \ S /\ channel' = channel \ S
      /\ \A s \in Stream \ S :
           /\ queue'[s] = queue[s] /\ joined'[s] = joined[s] /\ latest'[s] = latest[s]
           /\ shown'[s] = shown[s] /\ dropped'[s] = dropped[s]
      /\ \A s \in S :
           /\ queue'[s] = <<>> /\ joined'[s] = 0 /\ latest'[s] = 0
           /\ shown'[s] = {} /\ dropped'[s] = {}
  BY DEF Feed!Unsubscribed
<1>3. Feed!TypeOK'
  <2>1. \A x \in subs' : Len(queue'[x]) <= QueueLimit
    BY <1>2 DEF Feed!TypeOK
  <2>2. /\ queue' \in [Stream -> Seq(Nat)]
        /\ joined' \in [Stream -> Nat] /\ latest' \in [Stream -> Nat]
        /\ shown' \in [Stream -> SUBSET Nat] /\ dropped' \in [Stream -> SUBSET Nat]
    BY DEF Feed!TypeOK, Feed!Unsubscribed
  <2>3. subs' \subseteq Stream /\ channel' \subseteq Stream
    BY <1>2 DEF Feed!TypeOK
  <2>4. QED
    BY <2>1, <2>2, <2>3 DEF Feed!TypeOK, Feed!Announcement, Feed!Idle
<1>4. Feed!NothingWhenClosed'
  BY <1>1, <1>2 DEF Feed!NothingWhenClosed
<1>5. ASSUME NEW x \in Feed!Reading' PROVE Ordered(x)'
  BY <1>1, <1>2, <1>5 DEF AllOrdered, Ordered
<1>6. Feed!NobodyGivesUp'
  BY <1>1, <1>2 DEF Feed!NobodyGivesUp
<1>7. Misses'
  <2>1. (subs \cup channel \subseteq Feed!Reading)'
    BY <1>1, <1>2 DEF Misses
  <2>2. ASSUME NEW x \in subs', NEW e \in joined'[x] + 1 .. Feed!Count PROVE Missed(x, e)'
    <3>1. x \notin S /\ x \in subs /\ x \in Stream
      BY <1>2, <2>2 DEF Feed!TypeOK
    <3>2. Missed(x, e) /\ home'[x] = home[x]
      BY <1>1, <1>2, <2>2, <3>1 DEF Misses
    <3>3. QED
      BY <1>1, <1>2, <3>1, <3>2 DEF Missed, Has
  <2>3. QED
    BY <1>1, <2>1, <2>2 DEF Misses
<1>8. Complete'
  <2>1. ASSUME outages = 0, NEW x \in Feed!Reading', NEW e \in joined'[x] + 1 .. Feed!Count
        PROVE  Has(x, e)'
    <3>1. x \notin S /\ x \in Feed!Reading /\ x \in Stream
      BY <1>1, <2>1
    <3>2. Has(x, e)
      BY <1>2, <2>1, <3>1 DEF Complete
    <3>3. QED
      BY <1>2, <3>1, <3>2 DEF Has
  <2>2. QED
    BY <1>1, <2>1 DEF Complete
<1>9. QED
  BY <1>1, <1>3, <1>4, <1>5, <1>6, <1>7, <1>8 DEF AllOrdered

-----------------------------------------------------------------------------
(* A stream sends what waits for it.                                       *)

LEMMA TakeKeeps ==
    ASSUME FeedInv, NEW s \in Stream, Feed!Take(s)
    PROVE  FeedInv' /\ Feed!Reading' = Feed!Reading
<1> USE DEF FeedInv
<1>1. /\ at[s] = "waiting" /\ queue[s] # <<>> /\ at'[s] = "sending"
      /\ holding'[s] = Head(queue[s]) /\ queue'[s] = Tail(queue[s])
      /\ \A x \in Stream : x # s =>
           at'[x] = at[x] /\ queue'[x] = queue[x] /\ holding'[x] = holding[x]
      /\ UNCHANGED <<redisUp, outages, client, publisher, log, dropped, home, subs, channel,
                     joined, shown, latest>>
  BY DEF Feed!TypeOK, Feed!Take, Feed!Goes
<1>2. /\ Feed!Reading' = Feed!Reading /\ Feed!Count' = Feed!Count
      /\ Feed!Count \in Nat /\ Feed!Reading \subseteq Stream /\ s \in Feed!Reading
  BY <1>1, FeedShape DEF Feed!Reading, Feed!Count
<1>3. /\ queue[s] \in Seq(Nat) /\ latest[s] \in Nat /\ joined[s] \in Nat
      /\ holding[s] = 0 /\ Sorted(queue[s], latest[s], 0, Feed!Count)
  BY <1>1, <1>2, FeedShape DEF AllOrdered, Ordered
<1>4. /\ Head(queue[s]) \in latest[s] + 1 .. Feed!Count
      /\ Sorted(Tail(queue[s]), latest[s], Head(queue[s]), Feed!Count)
  BY <1>1, <1>2, <1>3, TailSorted
<1>5. /\ Tail(queue[s]) \in Seq(Nat) /\ Head(queue[s]) \in Nat
      /\ Len(Tail(queue[s])) = Len(queue[s]) - 1 /\ Len(queue[s]) \in Nat
  BY <1>1, <1>2, <1>3, <1>4, TailFacts
<1>6. Feed!TypeOK'
  <2>1. \A x \in subs : Len(queue'[x]) <= QueueLimit
    <3> SUFFICES ASSUME NEW x \in subs PROVE Len(queue'[x]) <= QueueLimit
      OBVIOUS
    <3>1. x \in Stream /\ Len(queue[x]) <= QueueLimit /\ QueueLimit \in Nat
      BY ProgressAssumption DEF Feed!TypeOK, ProgressAssumption, Feed!LiveFeedAssumption
    <3>2. CASE x = s
      <4>1. queue'[x] = Tail(queue[s]) /\ Len(queue[s]) <= QueueLimit
        BY <1>1, <3>1, <3>2
      <4>2. QED
        BY <1>5, <3>1, <4>1
    <3>3. CASE x # s
      BY <1>1, <3>1, <3>3
    <3>4. QED
      BY <3>2, <3>3
  <2>2. /\ at' \in [Stream -> {"closed", "ping", "subscribing", "waiting", "sending", "pinged"}]
        /\ queue' \in [Stream -> Seq(Nat)] /\ holding' \in [Stream -> Nat]
    BY <1>1, <1>5 DEF Feed!TypeOK, Feed!Take, Feed!Goes
  <2>3. QED
    BY <1>1, <2>1, <2>2 DEF Feed!TypeOK, Feed!Announcement, Feed!Idle
<1>7. Feed!NothingWhenClosed'
  BY <1>1, <1>2 DEF Feed!NothingWhenClosed
<1>8. ASSUME NEW x \in Feed!Reading PROVE Ordered(x)'
  <2>1. CASE x = s
    BY <1>1, <1>2, <1>4, <2>1 DEF AllOrdered, Ordered
  <2>2. CASE x # s
    BY <1>1, <1>2, <2>2 DEF AllOrdered, Ordered
  <2>3. QED
    BY <2>1, <2>2
<1>9. Feed!NobodyGivesUp'
  BY <1>1, <1>2 DEF Feed!NobodyGivesUp
<1>10. ASSUME NEW x \in Stream, NEW e \in joined[x] + 1 .. Feed!Count, Has(x, e) PROVE Has(x, e)'
  <2>1. CASE x = s
    <3>1. e # 0 /\ e # holding[s]
      BY <1>3, <2>1
    <3>2. CASE e \in shown[s]
      BY <1>1, <2>1, <3>2 DEF Has
    <3>3. CASE InQueue(queue[s], e)
      <4>1. e = Head(queue[s]) \/ InQueue(Tail(queue[s]), e)
        BY <1>1, <1>3, <3>3, TailHas
      <4>2. QED
        BY <1>1, <2>1, <4>1 DEF Has
    <3>4. QED
      BY <1>10, <2>1, <3>1, <3>2, <3>3 DEF Has
  <2>2. CASE x # s
    BY <1>1, <1>10, <2>2 DEF Has
  <2>3. QED
    BY <2>1, <2>2
<1>11. Misses'
  <2>1. ASSUME NEW x \in subs, NEW e \in joined[x] + 1 .. Feed!Count PROVE Missed(x, e)'
    <3>1. Missed(x, e) /\ x \in Stream
      BY <2>1 DEF Misses, Feed!TypeOK
    <3>2. Has(x, e) => Has(x, e)'
      BY <1>10, <2>1, <3>1
    <3>3. QED
      BY <1>1, <3>1, <3>2 DEF Missed
  <2>2. QED
    BY <1>1, <1>2, <2>1 DEF Misses
<1>12. Complete'
  <2>1. ASSUME outages = 0, NEW x \in Feed!Reading, NEW e \in joined[x] + 1 .. Feed!Count
        PROVE  Has(x, e)'
    BY <1>2, <1>10, <2>1 DEF Complete
  <2>2. QED
    BY <1>1, <1>2, <2>1 DEF Complete
<1>13. QED
  BY <1>2, <1>6, <1>7, <1>8, <1>9, <1>11, <1>12 DEF AllOrdered

LEMMA ShowKeeps ==
    ASSUME FeedInv, NEW s \in Stream, Feed!Show(s)
    PROVE  /\ FeedInv' /\ Feed!Reading' = Feed!Reading /\ s \in Feed!Reading
           /\ holding[s] \in latest[s] + 1 .. Feed!Count
<1> USE DEF FeedInv
<1>1. /\ at[s] = "sending" /\ at'[s] = "waiting" /\ holding'[s] = 0
      /\ shown'[s] = shown[s] \cup {holding[s]} /\ latest'[s] = holding[s]
      /\ \A x \in Stream : x # s =>
           at'[x] = at[x] /\ shown'[x] = shown[x] /\ latest'[x] = latest[x]
           /\ holding'[x] = holding[x]
      /\ UNCHANGED <<redisUp, outages, client, publisher, log, dropped, home, subs, channel,
                     queue, joined>>
  BY DEF Feed!TypeOK, Feed!Show, Feed!Goes
<1>2. /\ Feed!Reading' = Feed!Reading /\ Feed!Count' = Feed!Count
      /\ Feed!Count \in Nat /\ Feed!Reading \subseteq Stream /\ s \in Feed!Reading
  BY <1>1, FeedShape DEF Feed!Reading, Feed!Count
<1>3. /\ queue[s] \in Seq(Nat) /\ latest[s] \in Nat /\ joined[s] \in Nat /\ holding[s] \in Nat
      /\ holding[s] \in latest[s] + 1 .. Feed!Count
      /\ Sorted(queue[s], latest[s], holding[s], Feed!Count)
  BY <1>1, <1>2, FeedShape DEF AllOrdered, Ordered
<1>4. Feed!TypeOK'
  <2>1. /\ at' \in [Stream -> {"closed", "ping", "subscribing", "waiting", "sending", "pinged"}]
        /\ shown' \in [Stream -> SUBSET Nat] /\ holding' \in [Stream -> Nat]
        /\ latest' \in [Stream -> Nat]
    BY <1>1, <1>3 DEF Feed!TypeOK, Feed!Show, Feed!Goes
  <2>2. QED
    BY <1>1, <2>1 DEF Feed!TypeOK, Feed!Announcement, Feed!Idle
<1>5. Feed!NothingWhenClosed'
  BY <1>1, <1>2 DEF Feed!NothingWhenClosed
<1>6. ASSUME NEW x \in Feed!Reading PROVE Ordered(x)'
  <2>1. CASE x = s
    <3>1. Sorted(queue[s], holding[s], 0, Feed!Count)
      BY <1>2, <1>3, HeldSorted
    <3>2. joined[s] <= Feed!Count /\ holding[s] <= Feed!Count
      BY <1>2, <1>3 DEF AllOrdered, Ordered
    <3>3. QED
      BY <1>1, <1>2, <2>1, <3>1, <3>2 DEF Ordered
  <2>2. CASE x # s
    BY <1>1, <1>2, <2>2 DEF AllOrdered, Ordered
  <2>3. QED
    BY <2>1, <2>2
<1>7. Feed!NobodyGivesUp'
  BY <1>1, <1>2 DEF Feed!NobodyGivesUp
<1>8. ASSUME NEW x \in Stream, NEW e, Has(x, e) PROVE Has(x, e)'
  <2>1. CASE x = s
    BY <1>1, <1>8, <2>1 DEF Has
  <2>2. CASE x # s
    BY <1>1, <1>8, <2>2 DEF Has
  <2>3. QED
    BY <2>1, <2>2
<1>9. Misses'
  <2>1. ASSUME NEW x \in subs, NEW e \in joined[x] + 1 .. Feed!Count PROVE Missed(x, e)'
    <3>1. Missed(x, e) /\ x \in Stream
      BY <2>1 DEF Misses, Feed!TypeOK
    <3>2. Has(x, e) => Has(x, e)'
      BY <1>8, <3>1
    <3>3. QED
      BY <1>1, <3>1, <3>2 DEF Missed
  <2>2. QED
    BY <1>1, <1>2, <2>1 DEF Misses
<1>10. Complete'
  <2>1. ASSUME outages = 0, NEW x \in Feed!Reading, NEW e \in joined[x] + 1 .. Feed!Count
        PROVE  Has(x, e)'
    BY <1>2, <1>8, <2>1 DEF Complete
  <2>2. QED
    BY <1>1, <1>2, <2>1 DEF Complete
<1>11. QED
  BY <1>2, <1>3, <1>4, <1>5, <1>6, <1>7, <1>9, <1>10 DEF AllOrdered

-----------------------------------------------------------------------------
(* The steps of the abstract feed that those of the feed implement.        *)

LEMMA AnnounceIs ==
    ASSUME FeedInv, NEW m, log' = Append(log, m), UNCHANGED <<at, latest>>
    PROVE  Feed!Feed!Next
<1>1. Feed!Count' = Feed!Count + 1 /\ Feed!Reading' = Feed!Reading
  BY DEF FeedInv, Feed!TypeOK, Feed!Count, Feed!Reading
<1>2. QED
  BY <1>1 DEF Feed!Feed!Next, Feed!Feed!Announce

LEMMA SubscribeIs ==
    ASSUME FeedInv, NEW s \in Stream, s \notin Feed!Reading, Feed!Subscribed(s), log' = log
    PROVE  Feed!Feed!Next
<1>1. Feed!Count' = Feed!Count /\ Feed!Reading' = Feed!Reading \cup {s}
  BY DEF FeedInv, Feed!TypeOK, Feed!Count, Feed!Reading, Feed!Subscribed, Feed!Goes
<1>2. latest' = [latest EXCEPT ![s] = Feed!Count]
  BY DEF Feed!Subscribed
<1>3. Feed!Feed!Subscribe(s)
  BY <1>1, <1>2 DEF Feed!Feed!Subscribe
<1>4. QED
  BY <1>3 DEF Feed!Feed!Next

LEMMA CloseIs ==
    ASSUME FeedInv, NEW S \in SUBSET Stream, Feed!Unsubscribed(S), log' = log,
           Feed!Reading' = Feed!Reading \ S
    PROVE  Feed!Feed!Next
<1> DEFINE R == S \cap Feed!Reading
<1>1. Feed!Count' = Feed!Count /\ Feed!Reading' = Feed!Reading \ R
  BY DEF Feed!Count
<1>2. latest' = [s \in Stream |-> IF s \in R THEN 0 ELSE latest[s]]
  BY DEF Feed!Unsubscribed, FeedInv, Feed!NothingWhenClosed
<1>3. Feed!Feed!Close(R) /\ R \in SUBSET Feed!Reading
  BY <1>1, <1>2 DEF Feed!Feed!Close
<1>4. QED
  BY <1>3 DEF Feed!Feed!Next

LEMMA ShowIs ==
    ASSUME FeedInv, NEW s \in Stream, Feed!Show(s)
    PROVE  Feed!Feed!Next
<1>1. /\ Feed!Count' = Feed!Count /\ Feed!Reading' = Feed!Reading /\ s \in Feed!Reading
      /\ holding[s] \in latest[s] + 1 .. Feed!Count
      /\ latest' = [latest EXCEPT ![s] = holding[s]]
  BY ShowKeeps DEF Feed!Count, Feed!Show
<1>2. Feed!Feed!Show(s)
  BY <1>1 DEF Feed!Feed!Show
<1>3. QED
  BY <1>2 DEF Feed!Feed!Next

-----------------------------------------------------------------------------
(* Every step keeps the invariant and is one of the abstract feed.         *)

FeedGoesOn == FeedInv' /\ [Feed!Feed!Next]_(Feed!Feed!vars)

LEMMA PublisherShape ==
    ASSUME FeedInv, NEW h \in Publisher, publisher[h] # Feed!Idle
    PROVE  publisher[h].proc \in Proc /\ publisher[h].at \in {"ping", "publish"}
BY DEF FeedInv, Feed!TypeOK

LEMMA FanOutGoesOn ==
    ASSUME FeedInv, NEW p \in Proc, Feed!FanOut(p), outages # 0,
           UNCHANGED <<redisUp, outages, at, home, subs, channel, holding, joined, shown, latest>>,
           client' \in [Proc -> {"none", "set", "failed"}],
           publisher' \in [Publisher -> {Feed!Idle} \cup [at : {"ping", "publish"}, proc : Proc]]
    PROVE  FeedGoesOn
<1> DEFINE m == [via |-> "local", proc |-> p]
           mine == {s \in subs : home[s] = p}
           full == {s \in mine : Feed!Full(s)}
<1> USE DEF FeedInv
<1>1. /\ log' = Append(log, m) /\ queue' = Feed!Append1(mine \ full)
      /\ dropped' = [s \in Stream |-> IF s \in full THEN dropped[s] \cup {Feed!Count + 1}
                                                    ELSE dropped[s]]
  BY DEF Feed!FanOut
<1>2. /\ mine \ full \in SUBSET Feed!Reading /\ full \subseteq Feed!Reading
      /\ m \in Feed!Announcement /\ Feed!Count \in Nat
  BY FeedShape DEF Misses, Feed!Announcement
<1>3. \A s \in subs \cap (mine \ full) : Len(queue[s]) < QueueLimit
  <2> SUFFICES ASSUME NEW s \in subs, ~ (Len(queue[s]) >= QueueLimit)
               PROVE  Len(queue[s]) < QueueLimit
    BY DEF Feed!Full
  <2>1. queue[s] \in Seq(Nat) /\ QueueLimit \in Nat
    BY FeedShape, ProgressAssumption DEF Feed!TypeOK, ProgressAssumption, Feed!LiveFeedAssumption
  <2>2. QED
    BY <2>1
<1>4. \A s \in subs : m = [via |-> "local", proc |-> home[s]] =>
                        s \in mine \ full \/ Feed!Count + 1 \in dropped'[s]
  <2> SUFFICES ASSUME NEW s \in subs, m = [via |-> "local", proc |-> home[s]], s \notin mine \ full
               PROVE  Feed!Count + 1 \in dropped'[s]
    OBVIOUS
  <2>1. m.proc = home[s]
    OBVIOUS
  <2>2. s \in full /\ s \in Stream
    BY <2>1 DEF Feed!TypeOK
  <2>3. QED
    BY <1>1, <2>2
<1>5. /\ dropped' \in [Stream -> SUBSET Nat]
      /\ \A s \in Stream : dropped[s] \subseteq dropped'[s]
      /\ \A s \in Stream \ Feed!Reading : dropped'[s] = {}
  BY <1>1, <1>2 DEF Feed!TypeOK, Feed!NothingWhenClosed
<1> HIDE DEF m, mine, full
<1>6. FeedInv'
  BY <1>1, <1>2, <1>3, <1>4, <1>5, AnnouncedKeeps
<1>7. QED
  BY <1>1, <1>6, AnnounceIs DEF FeedGoesOn

LEMMA RedisPublishGoesOn ==
    ASSUME FeedInv, NEW h \in Publisher, Feed!RedisPublish(h)
    PROVE  FeedGoesOn
<1> DEFINE m == [via |-> IF redisUp THEN "redis" ELSE "raised"]
           S == IF redisUp THEN channel ELSE {}
<1> USE DEF FeedInv
<1>1. log' = Append(log, m) /\ queue' = Feed!Append1(S)
  BY DEF Feed!RedisPublish, Feed!Append1, Feed!TypeOK
<1>2. m \in Feed!Announcement /\ S \in SUBSET Feed!Reading
  BY DEF Misses, Feed!Announcement
<1>3. /\ UNCHANGED <<redisUp, outages, client, dropped, at, home, subs, channel, holding, joined,
                     shown, latest>>
      /\ publisher' \in [Publisher -> {Feed!Idle} \cup [at : {"ping", "publish"}, proc : Proc]]
  BY DEF Feed!RedisPublish, Feed!TypeOK
<1>4. \A s \in subs \cap S : Len(queue[s]) < QueueLimit
  BY DEF Feed!NothingWhenClosed
<1>5. outages = 0 => Feed!Reading \subseteq S
  BY DEF Feed!NobodyGivesUp
<1>6. \A s \in subs : m # [via |-> "local", proc |-> home[s]]
  <2> SUFFICES ASSUME NEW s \in subs, m = [via |-> "local", proc |-> home[s]] PROVE FALSE
    OBVIOUS
  <2>1. m.via = "local"
    OBVIOUS
  <2>2. QED
    BY <2>1
<1> HIDE DEF m, S
<1>7. dropped' \in [Stream -> SUBSET Nat] /\ \A s \in Stream \ Feed!Reading : dropped'[s] = {}
  BY <1>3 DEF Feed!TypeOK, Feed!NothingWhenClosed
<1>8. client' \in [Proc -> {"none", "set", "failed"}] /\ \A s \in Stream : dropped[s] \subseteq dropped'[s]
  BY <1>3 DEF Feed!TypeOK
<1>9. FeedInv'
  BY <1>1, <1>2, <1>3, <1>4, <1>5, <1>6, <1>7, <1>8, AnnouncedKeeps
<1>10. QED
  BY <1>1, <1>3, <1>9, AnnounceIs DEF FeedGoesOn

\* A step that leaves what dashboards read alone is none of the abstract feed's.
LEMMA QuietGoesOn ==
    ASSUME FeedInv',  Feed!Reading' = Feed!Reading, UNCHANGED <<log, latest>>
    PROVE  FeedGoesOn
BY DEF FeedGoesOn, Feed!Feed!vars, Feed!Count

LEMMA PublishGoesOn ==
    ASSUME FeedInv, NEW h \in Publisher, NEW p \in Proc, Feed!Publish(h, p)
    PROVE  FeedGoesOn
<1> USE DEF FeedInv
<1>1. UNCHANGED <<redisUp, outages, at, home, subs, channel, holding, joined, shown, latest>>
  BY DEF Feed!Publish
<1>2. CASE client[p] = "failed"
  <2>1. Feed!FanOut(p) /\ UNCHANGED <<client, publisher>> /\ outages # 0
    BY <1>2 DEF Feed!Publish, Feed!NobodyGivesUp
  <2>2. QED
    BY <1>1, <2>1, FanOutGoesOn DEF Feed!TypeOK
<1>3. CASE client[p] # "failed"
  <2>1. /\ client' = [client EXCEPT ![p] = "set"]
        /\ publisher' \in [Publisher -> {Feed!Idle} \cup [at : {"ping", "publish"}, proc : Proc]]
        /\ UNCHANGED <<queue, log, dropped>>
    <3>1. [at |-> IF client[p] = "none" THEN "ping" ELSE "publish", proc |-> p]
            \in [at : {"ping", "publish"}, proc : Proc]
      OBVIOUS
    <3>2. /\ client' = [client EXCEPT ![p] = "set"]
          /\ publisher' = [publisher EXCEPT ![h] =
                 [at |-> IF client[p] = "none" THEN "ping" ELSE "publish", proc |-> p]]
          /\ UNCHANGED <<queue, log, dropped>>
      BY <1>3 DEF Feed!Publish, Feed!Waits
    <3>3. publisher \in [Publisher -> {Feed!Idle} \cup [at : {"ping", "publish"}, proc : Proc]]
      BY DEF Feed!TypeOK
    <3>4. QED
      BY <3>1, <3>2, <3>3
  <2>2. Feed!Reading' = Feed!Reading /\ channel \subseteq Feed!Reading \ subs
    BY <1>1 DEF Feed!Reading, Misses, Feed!NothingWhenClosed
  <2>3. Feed!NobodyGivesUp'
    BY <1>1, <2>1, <2>2 DEF Feed!NobodyGivesUp, Feed!TypeOK
  <2>4. FeedInv'
    BY <1>1, <2>1, <2>2, <2>3, QuietKeeps DEF Feed!TypeOK
  <2>5. QED
    BY <1>1, <2>1, <2>2, <2>4, QuietGoesOn
<1>4. QED
  BY <1>2, <1>3

LEMMA PublisherPingedGoesOn ==
    ASSUME FeedInv, NEW h \in Publisher, publisher[h] # Feed!Idle, Feed!PublisherPinged(h)
    PROVE  FeedGoesOn
<1> USE DEF FeedInv
<1>1. UNCHANGED <<redisUp, outages, at, home, subs, channel, holding, joined, shown, latest>>
  BY DEF Feed!PublisherPinged
<1>2. publisher[h].proc \in Proc
  BY PublisherShape
<1>3. CASE redisUp
  <2>1. /\ publisher' \in [Publisher -> {Feed!Idle} \cup [at : {"ping", "publish"}, proc : Proc]]
        /\ UNCHANGED <<client, queue, log, dropped>>
    BY <1>2, <1>3 DEF Feed!PublisherPinged, Feed!TypeOK, Feed!Waits
  <2>2. Feed!Reading' = Feed!Reading /\ channel \subseteq Feed!Reading \ subs
    BY <1>1 DEF Feed!Reading, Misses, Feed!NothingWhenClosed
  <2>3. Feed!NobodyGivesUp'
    BY <1>1, <2>1, <2>2 DEF Feed!NobodyGivesUp
  <2>4. FeedInv'
    BY <1>1, <2>1, <2>2, <2>3, QuietKeeps DEF Feed!TypeOK
  <2>5. QED
    BY <1>1, <2>1, <2>2, <2>4, QuietGoesOn
<1>4. CASE ~ redisUp
  <2>1. /\ Feed!FanOut(publisher[h].proc) /\ outages # 0
        /\ client' \in [Proc -> {"none", "set", "failed"}]
        /\ publisher' \in [Publisher -> {Feed!Idle} \cup [at : {"ping", "publish"}, proc : Proc]]
    BY <1>2, <1>4 DEF Feed!PublisherPinged, Feed!NobodyGivesUp, Feed!TypeOK
  <2>2. QED
    BY <1>1, <1>2, <2>1, FanOutGoesOn
<1>5. QED
  BY <1>3, <1>4

LEMMA ConnectGoesOn ==
    ASSUME FeedInv, NEW s \in Stream, NEW p \in Proc, Feed!Connect(s, p)
    PROVE  FeedGoesOn
<1> USE DEF FeedInv
<1>1. /\ s \notin Feed!Reading /\ home' \in [Stream -> Proc]
      /\ \A x \in Stream : x # s => home'[x] = home[x]
      /\ UNCHANGED <<redisUp, outages, publisher, log, channel, holding>>
  BY DEF Feed!Connect, Feed!TypeOK, Feed!Reading
<1>2. CASE client[p] = "failed"
  <2>1. /\ Feed!Subscribed(s) /\ subs' = subs \cup {s} /\ UNCHANGED client /\ outages # 0
    BY <1>2 DEF Feed!Connect, Feed!SubscribeLocal, Feed!NobodyGivesUp
  <2>2. FeedInv'
    BY <1>1, <2>1, OpensKeeps DEF Feed!TypeOK
  <2>3. QED
    BY <1>1, <2>1, <2>2, SubscribeIs DEF FeedGoesOn
<1>3. CASE client[p] # "failed"
  <2>1. /\ at' \in [Stream -> {"closed", "ping", "subscribing", "waiting", "sending", "pinged"}]
        /\ at'[s] \notin {"waiting", "sending"} /\ \A x \in Stream : x # s => at'[x] = at[x]
        /\ client' = [client EXCEPT ![p] = "set"]
        /\ UNCHANGED <<subs, queue, joined, latest, shown, dropped>>
    BY <1>3 DEF Feed!Connect, Feed!Goes, Feed!TypeOK
  <2>2. Feed!Reading' = Feed!Reading /\ channel \subseteq Feed!Reading \ subs
    BY <1>1, <2>1 DEF Feed!Reading, Misses, Feed!NothingWhenClosed
  <2>3. Feed!NobodyGivesUp'
    BY <1>1, <2>1, <2>2 DEF Feed!NobodyGivesUp, Feed!TypeOK
  <2>4. \A x \in Feed!Reading : x # s /\ x \in Stream
    BY <1>1 DEF Feed!Reading
  <2>5. client' \in [Proc -> {"none", "set", "failed"}]
    BY <2>1 DEF Feed!TypeOK
  <2>6. FeedInv'
    BY <1>1, <2>1, <2>2, <2>3, <2>4, <2>5, QuietKeeps DEF Feed!TypeOK
  <2>7. QED
    BY <1>1, <2>1, <2>2, <2>6, QuietGoesOn
<1>4. QED
  BY <1>2, <1>3

LEMMA StreamPingedGoesOn ==
    ASSUME FeedInv, NEW s \in Stream, Feed!StreamPinged(s)
    PROVE  FeedGoesOn
<1> USE DEF FeedInv
<1>1. /\ s \notin Feed!Reading
      /\ UNCHANGED <<redisUp, outages, publisher, log, home, channel, holding>>
  BY DEF Feed!StreamPinged, Feed!TypeOK, Feed!Reading
<1>2. CASE redisUp
  <2>1. /\ at' \in [Stream -> {"closed", "ping", "subscribing", "waiting", "sending", "pinged"}]
        /\ at'[s] \notin {"waiting", "sending"} /\ \A x \in Stream : x # s => at'[x] = at[x]
        /\ UNCHANGED <<client, subs, queue, joined, latest, shown, dropped>>
    BY <1>2 DEF Feed!StreamPinged, Feed!Goes, Feed!TypeOK
  <2>2. Feed!Reading' = Feed!Reading /\ channel \subseteq Feed!Reading \ subs
    BY <1>1, <2>1 DEF Feed!Reading, Misses, Feed!NothingWhenClosed
  <2>3. Feed!NobodyGivesUp'
    BY <1>1, <2>1, <2>2 DEF Feed!NobodyGivesUp
  <2>4. \A x \in Feed!Reading : x # s /\ x \in Stream
    BY <1>1 DEF Feed!Reading
  <2>5. FeedInv'
    BY <1>1, <2>1, <2>2, <2>3, <2>4, QuietKeeps DEF Feed!TypeOK
  <2>6. QED
    BY <1>1, <2>1, <2>2, <2>5, QuietGoesOn
<1>3. CASE ~ redisUp
  <2>1. /\ Feed!Subscribed(s) /\ subs' = subs \cup {s} /\ outages # 0
        /\ client' \in [Proc -> {"none", "set", "failed"}]
    BY <1>3 DEF Feed!StreamPinged, Feed!SubscribeLocal, Feed!NobodyGivesUp, Feed!TypeOK
  <2>2. FeedInv'
    BY <1>1, <2>1, OpensKeeps DEF Feed!TypeOK
  <2>3. QED
    BY <1>1, <2>1, <2>2, SubscribeIs DEF FeedGoesOn
<1>4. QED
  BY <1>2, <1>3

LEMMA SubscribeChannelGoesOn ==
    ASSUME FeedInv, NEW s \in Stream, Feed!SubscribeChannel(s)
    PROVE  FeedGoesOn
<1> USE DEF FeedInv
<1>1. /\ s \notin Feed!Reading /\ Feed!Subscribed(s) /\ channel' = channel \cup {s}
      /\ UNCHANGED <<redisUp, outages, client, publisher, log, home, subs, holding>>
  BY DEF Feed!SubscribeChannel, Feed!TypeOK, Feed!Reading
<1>2. FeedInv'
  BY <1>1, OpensKeeps DEF Feed!TypeOK
<1>3. QED
  BY <1>1, <1>2, SubscribeIs DEF FeedGoesOn

\* Heartbeats, ends, disconnections and restarts.
LEMMA ClosingGoesOn ==
    ASSUME FeedInv, NEW S \in SUBSET Stream, Feed!Unsubscribed(S),
           at' \in [Stream -> {"closed", "ping", "subscribing", "waiting", "sending", "pinged"}],
           \A s \in S : at'[s] \notin {"waiting", "sending"} /\ holding'[s] = 0,
           \A s \in Stream \ S : at'[s] = at[s] /\ holding'[s] = holding[s],
           holding' \in [Stream -> Nat],
           UNCHANGED <<redisUp, outages, log, home>>,
           client' \in [Proc -> {"none", "set", "failed"}],
           outages = 0 => \A p \in Proc : client'[p] # "failed",
           publisher' \in [Publisher -> {Feed!Idle} \cup [at : {"ping", "publish"}, proc : Proc]]
    PROVE  FeedGoesOn
<1>1. FeedInv' /\ Feed!Reading' = Feed!Reading \ S
  BY ClosesKeeps
<1>2. QED
  BY <1>1, CloseIs DEF FeedGoesOn

LEMMA HeartbeatGoesOn ==
    ASSUME FeedInv, NEW s \in Stream, Feed!Heartbeat(s)
    PROVE  FeedGoesOn
<1> USE DEF FeedInv
<1>1. holding[s] = 0
  <2>1. at[s] \in {"ping", "subscribing", "waiting"}
    BY DEF Feed!Heartbeat
  <2>2. QED
    BY <2>1 DEF AllOrdered, Ordered, Feed!NothingWhenClosed, Feed!Reading
<1>2. /\ Feed!Unsubscribed({s}) /\ at'[s] = "pinged" /\ \A x \in Stream \ {s} : at'[x] = at[x]
      /\ at' \in [Stream -> {"closed", "ping", "subscribing", "waiting", "sending", "pinged"}]
      /\ UNCHANGED <<redisUp, outages, client, publisher, log, home, holding>>
  BY DEF Feed!Heartbeat, Feed!Goes, Feed!TypeOK
<1>3. QED
  BY <1>1, <1>2, ClosingGoesOn DEF Feed!TypeOK, Feed!NobodyGivesUp

LEMMA ClosedGoesOn ==
    ASSUME FeedInv, NEW S \in SUBSET Stream, Feed!Closed(S),
           client' \in [Proc -> {"none", "set", "failed"}],
           \A p \in Proc : client'[p] \in {client[p], "none"},
           publisher' \in [Publisher -> {Feed!Idle} \cup [at : {"ping", "publish"}, proc : Proc]]
    PROVE  FeedGoesOn
<1> USE DEF FeedInv
<1>1. /\ at' \in [Stream -> {"closed", "ping", "subscribing", "waiting", "sending", "pinged"}]
      /\ \A s \in S : at'[s] \notin {"waiting", "sending"} /\ holding'[s] = 0
      /\ \A s \in Stream \ S : at'[s] = at[s] /\ holding'[s] = holding[s]
      /\ holding' \in [Stream -> Nat] /\ Feed!Unsubscribed(S)
      /\ UNCHANGED <<redisUp, outages, log, home>>
  BY DEF Feed!Closed, Feed!TypeOK
<1>2. outages = 0 => \A p \in Proc : client'[p] # "failed"
  BY DEF Feed!NobodyGivesUp
<1>3. QED
  BY <1>1, <1>2, ClosingGoesOn

LEMMA RedisGoesOn ==
    ASSUME FeedInv, NEW s, Feed!RedisDown \/ Feed!RedisBack \/ Feed!Resubscribe(s)
    PROVE  FeedGoesOn
<1> USE DEF FeedInv
<1>1. /\ UNCHANGED <<client, publisher, log, dropped, at, home, subs, queue, holding, joined, shown,
                     latest>>
      /\ redisUp' \in BOOLEAN /\ outages' \in Nat
  <2>1. redisUp \in BOOLEAN /\ outages \in Nat
    BY DEF Feed!TypeOK
  <2>2. CASE Feed!RedisDown
    <3>1. outages' = outages + 1 /\ redisUp' = FALSE
      BY <2>2 DEF Feed!RedisDown
    <3>2. outages' \in Nat
      BY <2>1, <3>1
    <3>3. QED
      BY <2>2, <3>1, <3>2, Zenon DEF Feed!RedisDown
  <2>3. CASE Feed!RedisBack
    BY <2>1, <2>3 DEF Feed!RedisBack, Feed!streamVars
  <2>4. CASE Feed!Resubscribe(s)
    BY <2>1, <2>4 DEF Feed!Resubscribe
  <2>5. QED
    BY <2>2, <2>3, <2>4
<1>2. Feed!Reading' = Feed!Reading
  BY <1>1 DEF Feed!Reading
<1>3. channel' \subseteq Feed!Reading \ subs
  BY DEF Feed!RedisDown, Feed!RedisBack, Feed!Resubscribe, Feed!streamVars, Misses,
         Feed!NothingWhenClosed
<1>4. (outages' = 0 => outages = 0) /\ Feed!NobodyGivesUp'
  <2>1. CASE Feed!RedisDown
    <3>1. outages' # 0
      BY <2>1 DEF Feed!RedisDown, Feed!TypeOK
    <3>2. QED
      BY <3>1 DEF Feed!NobodyGivesUp
  <2>2. CASE Feed!RedisBack \/ Feed!Resubscribe(s)
    BY <1>1, <1>2, <2>2 DEF Feed!RedisBack, Feed!Resubscribe, Feed!streamVars, Feed!NobodyGivesUp
  <2>3. QED
    BY <2>1, <2>2
<1>5. FeedInv'
  BY <1>1, <1>2, <1>3, <1>4, QuietKeeps DEF Feed!TypeOK
<1>6. QED
  BY <1>1, <1>2, <1>5, QuietGoesOn

LEMMA FeedStepGoesOn ==
    ASSUME FeedInv, [Feed!Next]_(Feed!vars)
    PROVE  FeedGoesOn
<1> USE DEF FeedInv
<1>1. CASE UNCHANGED Feed!vars
  <2>1. FeedInv'
    BY <1>1 DEF Feed!vars, Feed!streamVars, Feed!TypeOK, Feed!NothingWhenClosed, Feed!NobodyGivesUp,
       AllOrdered, Ordered, Misses, Missed, Complete, Has, Feed!Count, Feed!Reading,
       Feed!Announcement, Feed!Idle
  <2>2. QED
    BY <1>1, <2>1, QuietGoesOn DEF Feed!vars, Feed!streamVars, Feed!Reading
<1>2. ASSUME NEW h \in Publisher, Feed!Publishing(h) PROVE FeedGoesOn
  BY <1>2, PublisherPingedGoesOn, RedisPublishGoesOn DEF Feed!Publishing
<1>3. ASSUME NEW s \in Stream, Feed!Take(s) PROVE FeedGoesOn
  BY <1>3, TakeKeeps, QuietGoesOn DEF Feed!Take
<1>4. ASSUME NEW s \in Stream, Feed!Show(s) PROVE FeedGoesOn
  BY <1>4, ShowKeeps, ShowIs DEF FeedGoesOn
<1>5. ASSUME NEW s \in Stream, Feed!EndAfterHeartbeat(s) \/ Feed!Disconnect(s) PROVE FeedGoesOn
  <2>1. Feed!Closed({s}) /\ UNCHANGED <<client, publisher>>
    BY <1>5 DEF Feed!EndAfterHeartbeat, Feed!Disconnect
  <2>2. QED
    BY <2>1, ClosedGoesOn DEF Feed!TypeOK
<1>6. ASSUME NEW p \in Proc, Feed!Restart(p) PROVE FeedGoesOn
  <2>1. /\ Feed!Closed({s \in Stream : home[s] = p})
        /\ client' \in [Proc -> {"none", "set", "failed"}]
        /\ \A q \in Proc : client'[q] \in {client[q], "none"}
        /\ publisher' \in [Publisher -> {Feed!Idle} \cup [at : {"ping", "publish"}, proc : Proc]]
    BY <1>6 DEF Feed!Restart, Feed!TypeOK
  <2>2. QED
    BY <2>1, ClosedGoesOn
<1>7. QED
  BY <1>1, <1>2, <1>3, <1>4, <1>5, <1>6, PublishGoesOn, ConnectGoesOn, StreamPingedGoesOn,
     SubscribeChannelGoesOn, HeartbeatGoesOn, RedisGoesOn DEF Feed!Next

LEMMA FeedInit == ProgressAssumption /\ Feed!Init => FeedInv /\ Feed!Feed!Init
<1> SUFFICES ASSUME ProgressAssumption, Feed!Init PROVE FeedInv /\ Feed!Feed!Init
  OBVIOUS
<1>1. /\ Feed!Count = 0 /\ Feed!Reading = {} /\ <<>> \in Seq(Nat)
      /\ <<>> \in Seq(Feed!Announcement)
  BY DEF Feed!Init, Feed!Count, Feed!Reading
<1>2. (CHOOSE p \in Proc : TRUE) \in Proc
  BY DEF ProgressAssumption, Feed!LiveFeedAssumption
<1>3. Feed!TypeOK
  BY <1>1, <1>2 DEF Feed!Init, Feed!TypeOK
<1>4. Feed!NothingWhenClosed /\ Feed!NobodyGivesUp /\ AllOrdered /\ Misses /\ Complete
  BY <1>1 DEF Feed!Init, Feed!NothingWhenClosed, Feed!NobodyGivesUp, AllOrdered, Misses, Complete
<1>5. Feed!Feed!Init
  BY <1>1 DEF Feed!Init, Feed!Feed!Init
<1>6. QED
  BY <1>3, <1>4, <1>5 DEF FeedInv

\* The inductive invariant of the live feed.
LEMMA FeedInvariant == FairSpec => []FeedInv
<1>1. Init => FeedInv
  BY ProgressAssumption, FeedInit DEF Init
<1>2. FeedInv /\ [Next]_vars => FeedInv'
  BY FeedMoves, FeedStepGoesOn DEF FeedGoesOn
<1>3. QED
  BY <1>1, <1>2, PTL DEF FairSpec

\* A stream whose process delivers locally misses an event of that process only when
\* its own queue was full when it was announced, and no queue or subscription
\* outlives its stream: for any processes, streams and queue limit, whatever clients,
\* handlers, Redis and restarts do (events.py:83-126).
THEOREM MissesMetAFullQueue == FairSpec => []EveryMissIsAccountedFor
<1>1. FeedInv => EveryMissIsAccountedFor
  BY FeedInvIs DEF Feed!IInv, EveryMissIsAccountedFor
<1>2. QED
  BY FeedInvariant, <1>1, PTL

\* Until Redis is away for the first time, an open stream misses nothing announced
\* since it subscribed, by whichever process (events.py:29-53, 71-116).
THEOREM NothingMissedWhileRedisAnswers == FairSpec => []CompleteWhileRedisUp
<1>1. FeedInv => CompleteWhileRedisUp
  BY FeedInvIs DEF Feed!IInv, CompleteWhileRedisUp
<1>2. QED
  BY FeedInvariant, <1>1, PTL

\* The live feed implements the abstract one: the events announced so far are counted
\* by the log, the open streams are those whose generator has subscribed, and every
\* step of the feed is a step of the abstract feed or leaves all it speaks of alone.
\* So a dashboard is shown events in the order of their announcement, none twice
\* and none from before it subscribed (events.py:97-126).
THEOREM FeedIsAnEventFeed == FairSpec => ImplementsEventFeed
<1>1. Init => Feed!Feed!Init
  BY ProgressAssumption, FeedInit DEF Init
<1>2. FeedInv /\ [Next]_vars => [Feed!Feed!Next]_(Feed!Feed!vars)
  BY FeedMoves, FeedStepGoesOn DEF FeedGoesOn
<1>3. QED
  BY FeedInvariant, <1>1, <1>2, PTL
     DEF FairSpec, ImplementsEventFeed, Feed!ImplementsEventFeed, Feed!Feed!Spec

=============================================================================

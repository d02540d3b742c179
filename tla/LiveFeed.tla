------------------------------ MODULE LiveFeed ------------------------------
(***************************************************************************)
(* The live attendance feed of one organization: the event bus             *)
(* (services/events.py) and GET /dashboard/stream, in several API          *)
(* processes that share one Redis.                                         *)
(*                                                                         *)
(* A process looks for Redis once: whoever needs the bus first stores a    *)
(* client and pings it, the others use the client meanwhile.  A failed     *)
(* ping makes the process deliver to its own streams for good.  Redis is   *)
(* external: a channel that hands each message to the connections that     *)
(* are subscribed, in order.  Organizations share only the client, so one  *)
(* is modelled.                                                            *)
(***************************************************************************)
EXTENDS Naturals, Sequences, FiniteSets

CONSTANTS
    Proc,
    Stream,
    Publisher,   \* marking handlers that announce a row, at most so many at once
    QueueLimit,  \* LOCAL_QUEUE_LIMIT
    MaxEvents,   \* bound: events announced
    MaxOutages   \* bound: times that Redis is away

LiveFeedAssumption ==
    /\ Proc # {} /\ QueueLimit \in Nat \ {0}
    /\ MaxEvents \in Nat /\ MaxOutages \in Nat

VARIABLES
    redisUp,
    outages,   \* history: times Redis was away
    client,    \* _redis_client and _redis_failed of a process
    publisher, \* what a publisher waits for
    at,        \* where the generator of a stream is
    home,      \* the process that serves a stream
    subs,      \* streams with a queue in _local_subscribers
    channel,   \* streams with a connection subscribed to the Redis channel
    queue,     \* events that wait for a stream, in its queue or its socket
    holding,   \* the event a stream is enriching and sending
    log,       \* history: how each event was announced, in order
    joined,    \* history: events announced before a stream subscribed
    shown,     \* history: events a dashboard was sent on its stream
    latest,    \* history: the newest of them
    dropped    \* history: events a full queue refused

streamVars == <<at, home, subs, channel, queue, holding, joined, shown, latest>>
vars == <<redisUp, outages, client, publisher, log, dropped, streamVars>>

Idle     == [at |-> "idle"]
Waits(p, what) == [at |-> what, proc |-> p]
Count    == Len(log)
Announcing == {h \in Publisher : publisher[h] # Idle}
Announcement == [via : {"redis", "raised"}] \cup [via : {"local"}, proc : Proc]

\* Generators that have subscribed and are not finished.
Reading == {s \in Stream : at[s] \in {"waiting", "sending"}}

TypeOK ==
    /\ redisUp \in BOOLEAN
    /\ outages \in Nat
    /\ client \in [Proc -> {"none", "set", "failed"}]
    /\ publisher \in [Publisher -> {Idle} \cup [at : {"ping", "publish"}, proc : Proc]]
    /\ at \in [Stream -> {"closed", "ping", "subscribing", "waiting", "sending", "pinged"}]
    /\ home \in [Stream -> Proc]
    /\ subs \subseteq Stream /\ channel \subseteq Stream
    /\ queue \in [Stream -> Seq(Nat)]
    /\ \A s \in subs : Len(queue[s]) <= QueueLimit
    /\ holding \in [Stream -> Nat]
    /\ log \in Seq(Announcement)
    /\ joined \in [Stream -> Nat] /\ latest \in [Stream -> Nat]
    /\ shown \in [Stream -> SUBSET Nat] /\ dropped \in [Stream -> SUBSET Nat]

Init ==
    /\ redisUp = TRUE
    /\ outages = 0
    /\ client = [p \in Proc |-> "none"]
    /\ publisher = [h \in Publisher |-> Idle]
    /\ at = [s \in Stream |-> "closed"]
    /\ home = [s \in Stream |-> CHOOSE p \in Proc : TRUE]
    /\ subs = {} /\ channel = {}
    /\ queue = [s \in Stream |-> <<>>]
    /\ holding = [s \in Stream |-> 0]
    /\ log = <<>>
    /\ joined = [s \in Stream |-> 0] /\ latest = [s \in Stream |-> 0]
    /\ shown = [s \in Stream |-> {}] /\ dropped = [s \in Stream |-> {}]

-----------------------------------------------------------------------------
(* Announcing an event: publish_attendance_event.                          *)

Append1(S) == [s \in Stream |-> IF s \in S THEN Append(queue[s], Count + 1) ELSE queue[s]]
Full(s)    == Len(queue[s]) >= QueueLimit

\* Mutant: the loop over the queues ends at the first full one.
FanOutUntilFull(p) ==
    LET mine == {s \in subs : home[s] = p}
        full == {s \in mine : Full(s)} IN
    /\ log' = Append(log, [via |-> "local", proc |-> p])
    /\ queue' = Append1(IF full = {} THEN mine ELSE {})
    /\ dropped' = [s \in Stream |-> IF s \in full THEN dropped[s] \cup {Count + 1}
                                                 ELSE dropped[s]]

\* To every queue of the process that has room; no await, so one step.
FanOut(p) ==
    LET mine == {s \in subs : home[s] = p}
        full == {s \in mine : Full(s)} IN
    /\ log' = Append(log, [via |-> "local", proc |-> p])
    /\ queue' = Append1(mine \ full)
    /\ dropped' = [s \in Stream |-> IF s \in full THEN dropped[s] \cup {Count + 1}
                                                 ELSE dropped[s]]

\* The handler marked attendance and announces the row; it waits for nothing
\* when its process has given Redis up.
Publish(h, p) ==
    /\ publisher[h] = Idle
    /\ Count + Cardinality(Announcing) < MaxEvents
    /\ \/ /\ client[p] = "failed"
          /\ FanOut(p)
          /\ UNCHANGED <<client, publisher>>
       \/ /\ client[p] # "failed"
          /\ publisher' = [publisher EXCEPT ![h] =
                             Waits(p, IF client[p] = "none" THEN "ping" ELSE "publish")]
          /\ client' = [client EXCEPT ![p] = "set"]
          /\ UNCHANGED <<queue, log, dropped>>
    /\ UNCHANGED <<redisUp, outages, at, home, subs, channel, holding, joined, shown, latest>>

\* Mutant: an event that arrives during the ping goes to the local queues.
PublisherPingedEager(h) ==
    LET p == publisher[h].proc IN
    /\ publisher[h].at = "ping"
    /\ client' = IF redisUp THEN client ELSE [client EXCEPT ![p] = "failed"]
    /\ FanOut(p)
    /\ publisher' = [publisher EXCEPT ![h] = Idle]
    /\ UNCHANGED <<redisUp, outages, at, home, subs, channel, holding, joined, shown, latest>>

PublisherPinged(h) ==
    LET p == publisher[h].proc IN
    /\ publisher[h].at = "ping"
    /\ \/ /\ redisUp
          /\ publisher' = [publisher EXCEPT ![h] = Waits(p, "publish")]
          /\ UNCHANGED <<client, queue, log, dropped>>
       \/ /\ ~ redisUp
          /\ client' = [client EXCEPT ![p] = "failed"]
          /\ FanOut(p)
          /\ publisher' = [publisher EXCEPT ![h] = Idle]
    /\ UNCHANGED <<redisUp, outages, at, home, subs, channel, holding, joined, shown, latest>>

\* Mutant: the error of the broken client leaves the handler waiting.
RedisPublishOnlyUp(h) ==
    /\ publisher[h].at = "publish"
    /\ redisUp
    /\ log' = Append(log, [via |-> "redis"])
    /\ queue' = Append1(channel)
    /\ publisher' = [publisher EXCEPT ![h] = Idle]
    /\ UNCHANGED <<redisUp, outages, client, dropped, at, home, subs, channel, holding,
                   joined, shown, latest>>

\* Redis hands the event to the connections; when it is away the error is
\* logged and the event is lost, whatever queues the process has by now.
RedisPublish(h) ==
    /\ publisher[h].at = "publish"
    /\ log' = Append(log, [via |-> IF redisUp THEN "redis" ELSE "raised"])
    /\ queue' = IF redisUp THEN Append1(channel) ELSE queue
    /\ publisher' = [publisher EXCEPT ![h] = Idle]
    /\ UNCHANGED <<redisUp, outages, client, dropped, at, home, subs, channel, holding,
                   joined, shown, latest>>

-----------------------------------------------------------------------------
(* A stream: generate() and, under it, subscribe_attendance_events.        *)

Goes(s, where) == at' = [at EXCEPT ![s] = where]

\* The subscription counts from here on.
Subscribed(s) ==
    /\ Goes(s, "waiting")
    /\ joined' = [joined EXCEPT ![s] = Count]
    /\ latest' = [latest EXCEPT ![s] = Count]
    /\ UNCHANGED <<queue, shown, dropped>>

SubscribeLocal(s) ==
    /\ Subscribed(s)
    /\ subs' = subs \cup {s}

\* What the finally clauses undo when generators are closed or cancelled; the
\* queues go with them, and the histories end.
Unsubscribed(S) ==
    /\ subs' = subs \ S
    /\ channel' = channel \ S
    /\ queue' = [s \in Stream |-> IF s \in S THEN <<>> ELSE queue[s]]
    /\ joined' = [s \in Stream |-> IF s \in S THEN 0 ELSE joined[s]]
    /\ latest' = [s \in Stream |-> IF s \in S THEN 0 ELSE latest[s]]
    /\ shown' = [s \in Stream |-> IF s \in S THEN {} ELSE shown[s]]
    /\ dropped' = [s \in Stream |-> IF s \in S THEN {} ELSE dropped[s]]

\* The generator runs up to its first await.
Connect(s, p) ==
    /\ at[s] = "closed"
    /\ home' = [home EXCEPT ![s] = p]
    /\ \/ /\ client[p] = "failed"
          /\ SubscribeLocal(s)
          /\ UNCHANGED client
       \/ /\ client[p] # "failed"
          /\ Goes(s, IF client[p] = "none" THEN "ping" ELSE "subscribing")
          /\ client' = [client EXCEPT ![p] = "set"]
          /\ UNCHANGED <<subs, queue, joined, latest, shown, dropped>>
    /\ UNCHANGED <<redisUp, outages, publisher, log, channel, holding>>

StreamPinged(s) ==
    /\ at[s] = "ping"
    /\ \/ /\ redisUp
          /\ Goes(s, "subscribing")
          /\ UNCHANGED <<client, subs, queue, joined, latest, shown, dropped>>
       \/ /\ ~ redisUp
          /\ client' = [client EXCEPT ![home[s]] = "failed"]
          /\ SubscribeLocal(s)
    /\ UNCHANGED <<redisUp, outages, publisher, log, home, channel, holding>>

\* pubsub.subscribe.
SubscribeChannel(s) ==
    /\ at[s] = "subscribing"
    /\ redisUp
    /\ Subscribed(s)
    /\ channel' = channel \cup {s}
    /\ UNCHANGED <<redisUp, outages, client, publisher, log, home, subs, holding>>

\* Mutant: the newest event first.
TakeNewest(s) ==
    /\ at[s] = "waiting"
    /\ queue[s] # <<>>
    /\ Goes(s, "sending")
    /\ holding' = [holding EXCEPT ![s] = queue[s][Len(queue[s])]]
    /\ queue' = [queue EXCEPT ![s] = SubSeq(@, 1, Len(@) - 1)]
    /\ UNCHANGED <<redisUp, outages, client, publisher, log, dropped, home, subs, channel,
                   joined, shown, latest>>

Take(s) ==
    /\ at[s] = "waiting"
    /\ queue[s] # <<>>
    /\ Goes(s, "sending")
    /\ holding' = [holding EXCEPT ![s] = Head(queue[s])]
    /\ queue' = [queue EXCEPT ![s] = Tail(@)]
    /\ UNCHANGED <<redisUp, outages, client, publisher, log, dropped, home, subs, channel,
                   joined, shown, latest>>

\* The names are looked up and the browser reads the event.
Show(s) ==
    /\ at[s] = "sending"
    /\ Goes(s, "waiting")
    /\ shown' = [shown EXCEPT ![s] = @ \cup {holding[s]}]
    /\ latest' = [latest EXCEPT ![s] = holding[s]]
    /\ holding' = [holding EXCEPT ![s] = 0]
    /\ UNCHANGED <<redisUp, outages, client, publisher, log, dropped, home, subs, channel,
                   queue, joined>>

\* SSE_HEARTBEAT_SECONDS without an event: wait_for cancels the read, and with
\* it the generator, whose finally clause unsubscribes.  A cancelled ping
\* leaves the client in place.
Heartbeat(s) ==
    /\ at[s] \in {"ping", "subscribing", "waiting"}
    /\ Goes(s, "pinged")
    /\ Unsubscribed({s})
    /\ UNCHANGED <<redisUp, outages, client, publisher, log, home, holding>>

Closed(S) ==
    /\ at' = [s \in Stream |-> IF s \in S THEN "closed" ELSE at[s]]
    /\ holding' = [s \in Stream |-> IF s \in S THEN 0 ELSE holding[s]]
    /\ Unsubscribed(S)
    /\ UNCHANGED <<redisUp, outages, log, home>>

\* The next read of the finished generator raises StopAsyncIteration.
EndAfterHeartbeat(s) ==
    /\ at[s] = "pinged"
    /\ Closed({s})
    /\ UNCHANGED <<client, publisher>>

\* Mutant: the queue stays registered.
DisconnectLeak(s) ==
    /\ at[s] # "closed"
    /\ Goes(s, "closed")
    /\ UNCHANGED <<redisUp, outages, client, publisher, log, dropped, home, subs, channel,
                   queue, holding, joined, shown, latest>>

\* The browser goes away, the name lookup fails, or the connection to Redis
\* cannot be made or breaks: the exception closes the generators.
Disconnect(s) ==
    /\ at[s] # "closed"
    /\ Closed({s})
    /\ UNCHANGED <<client, publisher>>

-----------------------------------------------------------------------------
(* Redis and the processes come and go.                                    *)

\* The subscribed connections break; a generator reads what its socket still
\* holds, and fails or resubscribes.
RedisDown ==
    /\ redisUp /\ outages < MaxOutages
    /\ redisUp' = FALSE
    /\ outages' = outages + 1
    /\ channel' = {}
    /\ UNCHANGED <<client, publisher, log, dropped, at, home, subs, queue, holding, joined,
                   shown, latest>>

RedisBack ==
    /\ ~ redisUp
    /\ redisUp' = TRUE
    /\ UNCHANGED <<outages, client, publisher, log, dropped, streamVars>>

\* The library reconnects a subscription and subscribes again.
Resubscribe(s) ==
    /\ redisUp
    /\ s \in Reading \ (subs \cup channel)
    /\ channel' = channel \cup {s}
    /\ UNCHANGED <<redisUp, outages, client, publisher, log, dropped, at, home, subs, queue,
                   holding, joined, shown, latest>>

Restart(p) ==
    /\ client' = [client EXCEPT ![p] = "none"]
    /\ publisher' = [h \in Publisher |->
                       IF publisher[h] # Idle /\ publisher[h].proc = p
                         THEN Idle ELSE publisher[h]]
    /\ Closed({s \in Stream : home[s] = p})

-----------------------------------------------------------------------------
Publishing(h) == publisher[h] # Idle /\ (PublisherPinged(h) \/ RedisPublish(h))

Next ==
    \/ \E h \in Publisher, p \in Proc : Publish(h, p)
    \/ \E h \in Publisher : Publishing(h)
    \/ \E s \in Stream, p \in Proc : Connect(s, p)
    \/ \E s \in Stream : StreamPinged(s)
    \/ \E s \in Stream : SubscribeChannel(s)
    \/ \E s \in Stream : Take(s)
    \/ \E s \in Stream : Show(s)
    \/ \E s \in Stream : Heartbeat(s)
    \/ \E s \in Stream : EndAfterHeartbeat(s)
    \/ \E s \in Stream : Disconnect(s)
    \/ RedisDown
    \/ RedisBack
    \/ \E s \in Stream : Resubscribe(s)
    \/ \E p \in Proc : Restart(p)

Spec == Init /\ [][Next]_vars

\* A ping or a publish ends or times out (socket_timeout).
Fairness == \A h \in Publisher : WF_vars(Publishing(h))

FairSpec == Spec /\ Fairness

-----------------------------------------------------------------------------
\* Every event announced in its own process while a stream with a local queue
\* was open is shown to it, waits for it, or met a full queue of its own: a
\* slow dashboard costs no other dashboard an event (events.py:83-94), and no
\* queue outlives its stream (events.py:123-126).
EveryMissIsAccountedFor ==
    /\ subs \cup channel \subseteq Reading
    /\ \A s \in subs : \A e \in joined[s] + 1 .. Count :
          log[e] = [via |-> "local", proc |-> home[s]] =>
            \/ e \in shown[s] \cup dropped[s] \cup {holding[s]}
            \/ \E k \in DOMAIN queue[s] : queue[s][k] = e

\* As long as Redis was never away, a stream misses nothing that any process
\* announces after it subscribed, whichever process pinged first and whatever
\* was cancelled (events.py:29-53, 71-116).
CompleteWhileRedisUp ==
    outages = 0 =>
      \A s \in Reading : \A e \in joined[s] + 1 .. Count :
        \/ e \in shown[s] \cup {holding[s]}
        \/ \E k \in DOMAIN queue[s] : queue[s][k] = e

\* Nothing is kept for a stream that is not open, and an open one reads from its
\* process or from Redis.
NothingWhenClosed ==
    /\ subs \cap channel = {}
    /\ \A s \in Stream \ Reading :
         /\ queue[s] = <<>> /\ holding[s] = 0 /\ joined[s] = 0 /\ latest[s] = 0
         /\ shown[s] = {} /\ dropped[s] = {}

\* What waits for a stream is newer than what it holds, and that than what it showed.
InOrder ==
    \A s \in Reading :
      /\ joined[s] <= Count /\ latest[s] <= Count
      /\ IF at[s] = "sending" THEN holding[s] \in latest[s] + 1 .. Count ELSE holding[s] = 0
      /\ \A k \in DOMAIN queue[s] :
           /\ queue[s][k] \in latest[s] + 1 .. Count /\ queue[s][k] > holding[s]
           /\ \A i \in DOMAIN queue[s] : i < k => queue[s][i] < queue[s][k]

\* No process gives Redis up while it answers.
NobodyGivesUp ==
    outages = 0 => redisUp /\ (\A p \in Proc : client[p] # "failed") /\ Reading \subseteq channel

IInv ==
    /\ TypeOK /\ NothingWhenClosed /\ InOrder /\ NobodyGivesUp
    /\ EveryMissIsAccountedFor /\ CompleteWhileRedisUp

\* A stream shows events in the order they were announced, none twice and none
\* from before it subscribed.
Feed == INSTANCE EventFeed WITH count <- Count, open <- Reading
ImplementsEventFeed == Feed!Spec

\* A handler that announces its row gets on, whatever Redis does: a broken feed
\* must not hold up attendance marking (events.py:72-75).
PublishingEnds == \A h \in Publisher : publisher[h] # Idle ~> publisher[h] = Idle
=============================================================================

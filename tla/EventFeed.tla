----------------------------- MODULE EventFeed -----------------------------
(***************************************************************************)
(* What the live feed promises a dashboard: while its stream is open it is *)
(* shown events announced since it subscribed, in the order they were      *)
(* announced, none of them twice.  It may miss some.                       *)
(***************************************************************************)
EXTENDS Naturals

CONSTANT Stream

VARIABLES
    count,  \* events announced so far: the k-th one is k
    open,   \* the subscribed streams
    latest  \* the newest event an open stream was shown, or the last before it subscribed

vars == <<count, open, latest>>

Init ==
    /\ count = 0
    /\ open = {}
    /\ latest = [s \in Stream |-> 0]

Announce ==
    /\ count' = count + 1
    /\ UNCHANGED <<open, latest>>

Subscribe(s) ==
    /\ s \notin open
    /\ open' = open \cup {s}
    /\ latest' = [latest EXCEPT ![s] = count]
    /\ UNCHANGED count

Show(s) ==
    /\ s \in open
    /\ \E e \in latest[s] + 1 .. count : latest' = [latest EXCEPT ![s] = e]
    /\ UNCHANGED <<count, open>>

\* Streams end one by one, or all those of a process at once.
Close(S) ==
    /\ open' = open \ S
    /\ latest' = [s \in Stream |-> IF s \in S THEN 0 ELSE latest[s]]
    /\ UNCHANGED count

Next ==
    \/ Announce
    \/ \E s \in Stream : Subscribe(s) \/ Show(s)
    \/ \E S \in SUBSET open : Close(S)

Spec == Init /\ [][Next]_vars
=============================================================================

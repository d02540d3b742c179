-------------------------- MODULE SessionLifecycle --------------------------
(***************************************************************************)
(* What the token machinery promises, with no tokens in it.  A session of a *)
(* user is opened at most once, by a login; it ends together with all the   *)
(* user's other open sessions and with nobody else's; and once ended it is  *)
(* never open again.  A login overtaken by a revocation yields a session    *)
(* that was never open at all.                                              *)
(***************************************************************************)
CONSTANTS User, Session

VARIABLES
    open,   \* pairs <<session, user>> whose tokens carry the current version
    over    \* pairs <<session, user>> whose tokens do not

vars == <<open, over>>

Known(s) == \E v \in User : <<s, v>> \in open \cup over
OfUser(u) == {x \in open : x[2] = u}

Init == open = {} /\ over = {}

Open(s, u) ==
    /\ ~ Known(s)
    /\ open' = open \cup {<<s, u>>}
    /\ UNCHANGED over

OpenTooLate(s, u) ==
    /\ ~ Known(s)
    /\ over' = over \cup {<<s, u>>}
    /\ UNCHANGED open

EndAll(u) ==
    /\ open' = open \ OfUser(u)
    /\ over' = over \cup OfUser(u)

Next ==
    \/ \E s \in Session, u \in User : Open(s, u) \/ OpenTooLate(s, u)
    \/ \E u \in User : EndAll(u)

Spec == Init /\ [][Next]_vars
=============================================================================

--------------------------- MODULE PasswordReset ---------------------------
(***************************************************************************)
(* Password reset links: services/password_reset.py under                  *)
(* POST /auth/forgot-password and POST /auth/reset-password.               *)
(*                                                                         *)
(* Links are numbered in the order in which their rows commit.  Between    *)
(* two statements of a handler other handlers run.  What follows the       *)
(* commit of a new password, the revocation of the sessions, is RevokeAll  *)
(* of AuthSessions.                                                        *)
(***************************************************************************)
EXTENDS Naturals, Sequences

CONSTANTS
    User,
    Handler,  \* handlers, at most so many at once
    MaxLinks  \* bound: links issued

ResetAssumption == MaxLinks \in Nat

VARIABLES
    active,  \* users.is_active
    links,   \* password_reset_tokens: owner, and how many links there were when the
             \* handler that issued it looked for pending ones (history)
    used,    \* links with used_at
    expired, \* links whose expires_at has passed
    deleted, \* links whose row is gone
    handler, \* what a handler is at
    uses,    \* history: passwords set with a link
    raced    \* history: links that two handlers were consuming at once

vars == <<active, links, used, expired, deleted, handler, uses, raced>>

Link == DOMAIN links
Idle == [at |-> "idle"]
Usable(k)     == k \notin used \cup expired \cup deleted
Pending(u)    == {k \in Link : links[k].owner = u /\ k \notin used \cup deleted}
Consuming(k)  == {h \in Handler : handler[h].at \in {"find_user", "consume"} /\ handler[h].link = k}
Goes(h, what) == handler' = [handler EXCEPT ![h] = what]

Init ==
    /\ active = User
    /\ links = <<>> /\ used = {} /\ expired = {} /\ deleted = {}
    /\ handler = [h \in Handler |-> Idle]
    /\ uses = [k \in 1 .. MaxLinks |-> 0]
    /\ raced = {}

-----------------------------------------------------------------------------
(* POST /auth/forgot-password.                                             *)

\* The organization and the user; nobody else gets a link.
ForgotPassword(h, u) ==
    /\ handler[h] = Idle
    /\ u \in active
    /\ Goes(h, [at |-> "list", user |-> u])
    /\ UNCHANGED <<active, links, used, expired, deleted, uses, raced>>

\* The user's unused links.  The new row is not flushed (autoflush=False).
ListPending(h) ==
    /\ handler[h].at = "list"
    /\ Goes(h, [at |-> "issue", user |-> handler[h].user,
                stale |-> Pending(handler[h].user), seen |-> Len(links)])
    /\ UNCHANGED <<active, links, used, expired, deleted, uses, raced>>

\* Mutant: only the new row is written.
IssueOnly(h) ==
    LET r == handler[h] IN
    /\ r.at = "issue" /\ Len(links) < MaxLinks
    /\ links' = Append(links, [owner |-> r.user, seen |-> r.seen])
    /\ Goes(h, Idle)
    /\ UNCHANGED <<active, used, expired, deleted, uses, raced>>

\* One commit writes the new row and expires the listed ones.
Issue(h) ==
    LET r == handler[h] IN
    /\ r.at = "issue" /\ Len(links) < MaxLinks
    /\ links' = Append(links, [owner |-> r.user, seen |-> r.seen])
    /\ expired' = expired \cup r.stale
    /\ Goes(h, Idle)
    /\ UNCHANGED <<active, used, deleted, uses, raced>>

-----------------------------------------------------------------------------
(* POST /auth/reset-password.                                              *)

FindLink(h, k) ==
    /\ handler[h] = Idle
    /\ Usable(k)
    /\ Goes(h, [at |-> "find_user", link |-> k])
    /\ raced' = IF Consuming(k) # {} THEN raced \cup {k} ELSE raced
    /\ UNCHANGED <<active, links, used, expired, deleted, uses>>

\* An inactive user's link is refused and stays unused.
FindUser(h) ==
    LET k == handler[h].link IN
    /\ handler[h].at = "find_user"
    /\ Goes(h, IF links[k].owner \in active THEN [at |-> "consume", link |-> k] ELSE Idle)
    /\ UNCHANGED <<active, links, used, expired, deleted, uses, raced>>

\* Mutant: the row is not marked.
ConsumeUnmarked(h) ==
    /\ handler[h].at = "consume"
    /\ uses' = [uses EXCEPT ![handler[h].link] = @ + 1]
    /\ Goes(h, Idle)
    /\ UNCHANGED <<active, links, used, expired, deleted, raced>>

\* One commit marks the link and sets the password; neither is checked again.
Consume(h) ==
    /\ handler[h].at = "consume"
    /\ used' = used \cup {handler[h].link}
    /\ uses' = [uses EXCEPT ![handler[h].link] = @ + 1]
    /\ Goes(h, Idle)
    /\ UNCHANGED <<active, links, expired, deleted, raced>>

-----------------------------------------------------------------------------
(* Everything else that touches these rows.                                *)

\* The handler fails or its process ends: nothing is committed.
Fail(h) ==
    /\ handler[h] # Idle
    /\ Goes(h, Idle)
    /\ UNCHANGED <<active, links, used, expired, deleted, uses, raced>>

SetUserActive(u) ==
    /\ active' = IF u \in active THEN active \ {u} ELSE active \cup {u}
    /\ UNCHANGED <<links, used, expired, deleted, handler, uses, raced>>

Expire(k) ==
    /\ k \notin expired
    /\ expired' = expired \cup {k}
    /\ UNCHANGED <<active, links, used, deleted, handler, uses, raced>>

\* cleanup_expired_tokens_task deletes rows used or expired a month ago, long
\* after any handler that read them has ended.
CleanupRow(k) ==
    /\ k \in (used \cup expired) \ deleted
    /\ \A h \in Handler :
         /\ handler[h].at \in {"find_user", "consume"} => handler[h].link # k
         /\ handler[h].at = "issue" => k \notin handler[h].stale
    /\ deleted' = deleted \cup {k}
    /\ UNCHANGED <<active, links, used, expired, handler, uses, raced>>

-----------------------------------------------------------------------------
Next ==
    \/ \E h \in Handler, u \in User : ForgotPassword(h, u)
    \/ \E h \in Handler : ListPending(h) \/ Issue(h)
    \/ \E h \in Handler, k \in Link : FindLink(h, k)
    \/ \E h \in Handler : FindUser(h) \/ Consume(h) \/ Fail(h)
    \/ \E u \in User : SetUserActive(u)
    \/ \E k \in Link : Expire(k) \/ CleanupRow(k)

Spec == Init /\ [][Next]_vars

-----------------------------------------------------------------------------
HandlerState ==
    {Idle} \cup [at : {"list"}, user : User]
      \cup [at : {"issue"}, user : User, stale : SUBSET Link, seen : 0 .. Len(links)]
      \cup [at : {"find_user", "consume"}, link : Link]

TypeOK ==
    /\ active \subseteq User
    /\ links \in Seq([owner : User, seen : Nat]) /\ Len(links) <= MaxLinks
    /\ used \subseteq Link /\ expired \subseteq Link /\ deleted \subseteq Link
    /\ raced \subseteq Link
    /\ handler \in [Handler -> HandlerState]
    /\ uses \in [1 .. MaxLinks -> Nat]

\* A user may only have one pending reset at a time (password_reset.py:42), and
\* it is the newest: a link that still works is followed by no other of its
\* user, used, expired or not, except one whose request overlapped its own and
\* listed the pending links before it was there.
OnlyNewestLinkWorks ==
    \A k, n \in Link :
      Usable(k) /\ n > k /\ links[n].owner = links[k].owner => links[n].seen < k

\* A link sets one password, unless two requests that presented it overlapped
\* and both found it unused (password_reset.py:62-77).
OncePerLink == \A k \in Link : uses[k] <= 1 \/ k \in raced

-----------------------------------------------------------------------------
(* The inductive invariant behind them.                                    *)

\* A link that set a password is marked; a handler that holds an unmarked link
\* is the only one, unless the link has been raced for.
UsedOnceSet == \A k \in 1 .. MaxLinks : k \notin used => uses[k] = 0
ConsumesAlone ==
    \A h \in Handler, k \in Link : h \in Consuming(k) /\ k \notin raced =>
        k \notin used /\ \A g \in Consuming(k) : g = h

\* A handler that is to issue a link has listed every older one that still works.
ListsUsable ==
    \A h \in Handler, k \in Link :
        handler[h].at = "issue" /\ k <= handler[h].seen
          /\ links[k].owner = handler[h].user /\ Usable(k) => k \in handler[h].stale

IInv ==
    /\ TypeOK
    /\ UsedOnceSet /\ ConsumesAlone /\ OncePerLink
    /\ ListsUsable /\ OnlyNewestLinkWorks
=============================================================================

---------------------------- MODULE LineBinding ----------------------------
(***************************************************************************)
(* The links between service accounts and LINE accounts (auth.py): binding *)
(* and unlinking, and the messages that are queued under a link's binding  *)
(* version and sent later (notifications.py, worker.py).                   *)
(*                                                                         *)
(* bind_line locks its challenge, then its account, looks for links, and   *)
(* commits; other requests come between.  A message keeps the number of the*)
(* binding it was queued under; its link is recorded here as history.      *)
(***************************************************************************)
EXTENDS Naturals, FiniteSets, FiniteSetsExt

CONSTANTS
  Accounts, Subjects, \* LINE accounts
  Challenges,  \* line challenges that may be asked for
  Requests,    \* bind requests under way at once
  Messages,    \* notifications that may be queued
  None,
  MaxLinks,    \* bound: links ever made
  MaxCalls     \* bound: calls to LINE for one message

BindingAssumption ==
  /\ Accounts \cap Challenges = {}
  /\ MaxLinks \in Nat /\ MaxCalls \in Nat /\ None \notin Accounts \cup Subjects \cup Challenges \cup Requests

VARIABLES
  links,      \* IdentityLink rows
  challenge,  \* challenge[c]: LineChallenge
  request,    \* request[r]: a bind under way
  lock,       \* who holds the row of an account or a challenge, or None
  message,    \* message[m]: NotificationIntent and its payload
  calls       \* calls made: message, link of the check, receiver

vars == <<links, challenge, request, lock, message, calls>>

Idle == [pc |-> "idle", challenge |-> None, subject |-> None, version |-> 0]

Init ==
  /\ links = {}
  /\ challenge = [c \in Challenges |-> [account |-> None, consumed |-> FALSE]]
  /\ request = [r \in Requests |-> Idle]
  /\ lock = [x \in Accounts \cup Challenges |-> None]
  /\ message = [m \in Messages |-> [status |-> "none", account |-> None, version |-> 0, link |-> None,
                                    to |-> None, checked |-> None]]
  /\ calls = {}

Active == {l \in links : ~l.revoked}
Of(r) == challenge[request[r].challenge].account

\* POST /identity-links/line/challenges
Challenge(c, a) ==
  /\ challenge[c].account = None
  /\ challenge' = [challenge EXCEPT ![c] = [challenge[c] EXCEPT !.account = a]]
  /\ UNCHANGED <<links, request, lock, message, calls>>

---------------------------------------------------------------------------
(* POST /identity-links/line                                               *)

\* The ID token is verified by LINE before anything is locked.
BindStart(r, c, s) ==
  /\ request[r].pc = "idle" /\ challenge[c].account # None
  /\ request' = [request EXCEPT ![r] = [Idle EXCEPT !.pc = "challenge", !.challenge = c, !.subject = s]]
  /\ UNCHANGED <<links, challenge, lock, message, calls>>

Unlocked(r) == [x \in DOMAIN lock |-> IF lock[x] = r THEN None ELSE lock[x]]

\* Slip: the challenge is read without FOR UPDATE.
ReadChallenge(r) ==
  /\ request[r].pc = "challenge"
  /\ IF challenge[request[r].challenge].consumed
     THEN request' = [request EXCEPT ![r] = Idle]
     ELSE request' = [request EXCEPT ![r] = [request[r] EXCEPT !.pc = "account"]]
  /\ UNCHANGED <<links, challenge, lock, message, calls>>

LockChallenge(r) ==
  /\ request[r].pc = "challenge" /\ lock[request[r].challenge] = None
  /\ IF challenge[request[r].challenge].consumed
     THEN request' = [request EXCEPT ![r] = Idle] /\ UNCHANGED lock
     ELSE /\ lock' = [lock EXCEPT ![request[r].challenge] = r]
          /\ request' = [request EXCEPT ![r] = [request[r] EXCEPT !.pc = "account"]]
  /\ UNCHANGED <<links, challenge, message, calls>>

Conflict(r) == \E l \in Active : l.account = Of(r) \/ l.subject = request[r].subject
NextVersion(a) == Max({0} \cup {l.version : l \in {x \in links : x.account = a}}) + 1

LockAccount(r) ==
  /\ request[r].pc = "account" /\ lock[Of(r)] = None
  /\ IF Conflict(r)
     THEN request' = [request EXCEPT ![r] = Idle] /\ lock' = Unlocked(r)
     ELSE /\ request' = [request EXCEPT ![r] = [request[r] EXCEPT !.pc = "insert", !.version = NextVersion(Of(r))]]
          /\ lock' = [lock EXCEPT ![Of(r)] = r]
  /\ UNCHANGED <<links, challenge, message, calls>>

\* The commit: the unique indexes of active links refuse what came between.
BindInsert(r) ==
  /\ request[r].pc = "insert" /\ Cardinality(links) < MaxLinks
  /\ IF Conflict(r)
     THEN UNCHANGED <<links, challenge>>
     ELSE /\ links' = links \cup {[id |-> Cardinality(links) + 1, account |-> Of(r), subject |-> request[r].subject,
                                   version |-> request[r].version, revoked |-> FALSE,
                                   challenge |-> request[r].challenge]}
          /\ challenge' = [challenge EXCEPT
               ![request[r].challenge] = [challenge[request[r].challenge] EXCEPT !.consumed = TRUE]]
  /\ request' = [request EXCEPT ![r] = Idle] /\ lock' = Unlocked(r)
  /\ UNCHANGED <<message, calls>>

\* DELETE /identity-links/line
Unlink(a) ==
  /\ \E l \in Active :
       /\ l.account = a
       /\ links' = (links \ {l}) \cup {[l EXCEPT !.revoked = TRUE, !.version = l.version + 1]}
  /\ UNCHANGED <<challenge, request, lock, message, calls>>

---------------------------------------------------------------------------
(* Messages.                                                               *)

\* enqueue_notification, for the account's link.
Enqueue(m, a) ==
  /\ message[m].status = "none"
  /\ \E l \in Active :
       /\ l.account = a
       /\ message' = [message EXCEPT ![m] = [message[m] EXCEPT !.status = "queued", !.account = a,
                                                               !.version = l.version, !.link = l.id]]
  /\ UNCHANGED <<links, challenge, request, lock, calls>>

\* Slip: any link of the account will do.
LinkOfAccount(m) == {l \in Active : l.account = message[m].account}

\* _active_link
ActiveLink(m) == {l \in Active : l.account = message[m].account /\ l.version = message[m].version}

\* The worker's check; the first one freezes the payload, a retry sends the same.
Check(m) ==
  /\ message[m].status = "queued"
  /\ IF \E l \in ActiveLink(m) : message[m].to \in {None, l.subject}
     THEN \E l \in ActiveLink(m) :
            message' = [message EXCEPT
              ![m] = [message[m] EXCEPT !.status = "processing", !.to = l.subject, !.checked = l.id]]
     ELSE message' = [message EXCEPT ![m] = [message[m] EXCEPT !.status = "skipped"]]
  /\ UNCHANGED <<links, challenge, request, lock, calls>>

\* The call, whose answer settles the message or sends it back to wait.
Call(m) ==
  /\ message[m].status = "processing"
  /\ Cardinality({x \in calls : x.message = m}) < MaxCalls
  /\ calls' = calls \cup {[message |-> m, link |-> message[m].checked, to |-> message[m].to,
                           n |-> Cardinality({x \in calls : x.message = m})]}
  /\ \E status \in {"queued", "settled"} :
       message' = [message EXCEPT ![m] = [message[m] EXCEPT !.status = status]]
  /\ UNCHANGED <<links, challenge, request, lock>>

Next ==
  \/ \E c \in Challenges, a \in Accounts : Challenge(c, a)
  \/ \E r \in Requests, c \in Challenges, s \in Subjects : BindStart(r, c, s)
  \/ \E r \in Requests : LockChallenge(r) \/ LockAccount(r) \/ BindInsert(r)
  \/ \E a \in Accounts : Unlink(a)
  \/ \E m \in Messages : (\E a \in Accounts : Enqueue(m, a)) \/ Check(m) \/ Call(m)

Spec == Init /\ [][Next]_vars

---------------------------------------------------------------------------
(* Properties.                                                             *)

BindingTypeOK ==
  /\ \A l \in links : l.account \in Accounts /\ l.subject \in Subjects /\ l.version \in 1..2 * MaxLinks
  /\ \A l, k \in Active : l # k => l.account # k.account /\ l.subject # k.subject
  /\ \A x \in DOMAIN lock : lock[x] # None => request[lock[x]].pc \in {"account", "insert"}

\* A message goes to the link it was queued under or to nobody: not to the link the
\* account made after, however binds, unlinks and retries interleave (auth.py:533).
NeverToAnother ==
  \A x \in calls :
    /\ x.link = message[x.message].link
    /\ \E l \in links : l.id = x.link /\ l.subject = x.to /\ l.account = message[x.message].account

\* A challenge binds once, also when it is sent twice at once and the first link is
\* gone before the second request looks.
BindsOnce == \A l, k \in links : l.challenge = k.challenge => l = k
=============================================================================

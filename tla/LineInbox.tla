----------------------------- MODULE LineInbox -----------------------------
(***************************************************************************)
(* Follow and unfollow events of LINE: the webhook that stores them        *)
(* (line_webhook of notifications.py), and the workers' passes that apply  *)
(* them to the links of the accounts (process_inbox of worker.py).         *)
(*                                                                         *)
(* A pass is one transaction: it locks a batch of rows, skipping what      *)
(* another pass has locked, then locks links one by one as it meets them;  *)
(* nothing of it is seen until it commits.  Two passes may wait for each   *)
(* other's link; the database then ends one, and its process with it.      *)
(***************************************************************************)
EXTENDS Naturals, FiniteSets, FiniteSetsExt

CONSTANTS
  Events,    \* webhookEventIds
  Subjects, Workers, None,
  Kind,      \* Kind[e]: "follow", "unfollow" or "other"
  At,        \* At[e]: when it happened
  Subject,   \* Subject[e]: to whom
  Limit,     \* one hundred: the rows of a batch
  MaxBinds   \* bound: how often a LINE account is linked

\* What a row says when its event is settled.
Final == {"PROCESSED", "SKIPPED_OLDER", "AMBIGUOUS", "IGNORED"}

InboxAssumption ==
  /\ Kind \in [Events -> {"follow", "unfollow", "other"}]
  /\ At \in [Events -> Nat \ {0}] /\ Subject \in [Events -> Subjects]
  /\ Limit \in Nat \ {0} /\ MaxBinds \in Nat
  /\ None \notin Workers \cup Final \cup {"PENDING", "WAITING_ASSOCIATION"}

VARIABLES
  inbox,   \* inbox[e]: the row's status, or None, and the binding it was applied to
  link,    \* link[s]: the binding of s: its number, whether it holds, status and time observed
  pass,    \* pass[w]: the batch, and what has been written but not committed
  lock     \* lock[s]: the pass that holds the row of the link, or None

vars == <<inbox, link, pass, lock>>

NoPass == [batch |-> {}, rows |-> <<>>, links |-> <<>>]

Init ==
  /\ inbox = [e \in Events |-> [status |-> None, binding |-> 0]]
  /\ link = [s \in Subjects |-> [binding |-> 0, active |-> FALSE, observed |-> "UNKNOWN", last |-> 0]]
  /\ pass = [w \in Workers |-> NoPass]
  /\ lock = [s \in Subjects |-> None]

\* Slip: a redelivered event is stored again.
StoreAgain(rows, e) == [rows EXCEPT ![e] = [status |-> "PENDING", binding |-> 0]]

\* The unique key of the inbox takes an event once.
Store(rows, e) == IF rows[e].status = None THEN [rows EXCEPT ![e] = [status |-> "PENDING", binding |-> 0]] ELSE rows

\* The webhook: LINE may deliver again what it delivered before.
Webhook(e) ==
  /\ inbox' = Store(inbox, e)
  /\ UNCHANGED <<link, pass, lock>>

---------------------------------------------------------------------------
(* A pass.                                                                 *)

\* Slip: what waits for its account is not looked at again.
PendingAlone == {e \in Events : inbox[e].status = "PENDING"}

Open == {e \in Events : inbox[e].status \in {"PENDING", "WAITING_ASSOCIATION"}}

Locked == UNION {pass[w].batch : w \in Workers}

\* Ties of event_at are broken by the id.
Before(d, e) == At[d] < At[e]

\* The first Limit rows in the order of event_at.
Batches ==
  LET free == Open \ Locked IN
  {b \in SUBSET free : /\ Cardinality(b) = Min({Limit, Cardinality(free)})
                       /\ \A d \in b, e \in free \ b : ~Before(e, d)}

Begin(w) ==
  /\ pass[w].batch = {}
  /\ \E b \in Batches \ {{}} : pass' = [pass EXCEPT ![w] = [NoPass EXCEPT !.batch = b]]
  /\ UNCHANGED <<inbox, link, lock>>

Done(w) == DOMAIN pass[w].rows
Next1(w) == {e \in pass[w].batch \ Done(w) : \A d \in pass[w].batch \ Done(w) : ~Before(d, e)}

\* The link as this transaction sees it.
Seen(w, s) == IF s \in DOMAIN pass[w].links THEN pass[w].links[s] ELSE link[s]
Put(f, x, v) == [y \in DOMAIN f \cup {x} |-> IF y = x THEN v ELSE f[y]]

Observed(e) == IF Kind[e] = "follow" THEN "FOLLOWING" ELSE "UNFOLLOWED"

\* Slip: what is older is not told from what is newer.
VerdictByArrival(e, l) ==
  IF ~l.active THEN "WAITING_ASSOCIATION" ELSE "PROCESSED"

Verdict(e, l) ==
  CASE ~l.active -> "WAITING_ASSOCIATION"
    [] l.active /\ At[e] < l.last -> "SKIPPED_OLDER"
    [] l.active /\ At[e] = l.last /\ l.observed # Observed(e) -> "AMBIGUOUS"
    [] OTHER -> "PROCESSED"

\* What a pass writes, seen by nobody before it commits.
Write(w, e, row, seen) ==
  pass' = [pass EXCEPT ![w] = [pass[w] EXCEPT !.rows = Put(pass[w].rows, e, row), !.links = seen]]

Ignore(w, e) ==
  /\ e \in Next1(w) /\ Kind[e] = "other"
  /\ Write(w, e, [status |-> "IGNORED", binding |-> 0], pass[w].links)
  /\ UNCHANGED <<inbox, link, lock>>

Apply(w, e) ==
  /\ e \in Next1(w) /\ Kind[e] # "other"
  /\ lock[Subject[e]] \in {None, w}
  /\ LET s == Subject[e]
         l == Seen(w, s)
         v == Verdict(e, l)
     IN /\ lock' = IF l.active THEN [lock EXCEPT ![s] = w] ELSE lock
        /\ Write(w, e, [status |-> v, binding |-> l.binding],
                 IF v = "PROCESSED" THEN Put(pass[w].links, s, [l EXCEPT !.observed = Observed(e), !.last = At[e]])
                 ELSE pass[w].links)
  /\ UNCHANGED <<inbox, link>>

\* The pass whose next row is of a locked link waits for it, and gets it when it is released.
WaitsAt(v, s) == \E e \in Next1(v) : Kind[e] # "other" /\ Subject[e] = s
Waiters(w, s) == {v \in Workers \ {w} : WaitsAt(v, s)}
Unlocked(w) ==
  [s \in Subjects |-> CASE lock[s] # w -> lock[s]
                       [] lock[s] = w /\ Waiters(w, s) = {} -> None
                       [] OTHER -> CHOOSE v \in Waiters(w, s) : TRUE]

Commit(w) ==
  /\ pass[w].batch # {} /\ Done(w) = pass[w].batch
  /\ inbox' = [e \in Events |-> IF e \in Done(w) THEN pass[w].rows[e] ELSE inbox[e]]
  /\ link' = [s \in Subjects |-> Seen(w, s)]
  /\ pass' = [pass EXCEPT ![w] = NoPass]
  /\ lock' = Unlocked(w)

\* The process dies, or the database ends it: its transaction is rolled back.
Die(w) ==
  /\ pass[w].batch # {}
  /\ pass' = [pass EXCEPT ![w] = NoPass]
  /\ lock' = Unlocked(w)
  /\ UNCHANGED <<inbox, link>>

WaitsFor(v, w) == \E s \in Subjects : WaitsAt(v, s) /\ lock[s] = w
DeadlockVictim(w) == Die(w) /\ \E v \in Workers \ {w} : WaitsFor(v, w) /\ WaitsFor(w, v)

---------------------------------------------------------------------------
(* Binding and unlinking, as far as the inbox sees them.                   *)

Bind(s) ==
  /\ ~link[s].active /\ link[s].binding < MaxBinds
  /\ link' = [link EXCEPT ![s] = [binding |-> link[s].binding + 1, active |-> TRUE, observed |-> "UNKNOWN", last |-> 0]]
  /\ UNCHANGED <<inbox, pass, lock>>

Unlink(s) ==
  /\ link[s].active /\ lock[s] = None
  /\ link' = [link EXCEPT ![s] = [link[s] EXCEPT !.active = FALSE]]
  /\ UNCHANGED <<inbox, pass, lock>>

Step(w) == Begin(w) \/ (\E e \in Events : Ignore(w, e) \/ Apply(w, e)) \/ Commit(w)

Next ==
  \/ \E e \in Events : Webhook(e)
  \/ \E w \in Workers : Step(w) \/ Die(w)
  \/ \E s \in Subjects : Bind(s) \/ Unlink(s)

Spec == Init /\ [][Next]_vars

\* No process dies but the victim of a deadlock; passes go on, and nobody unlinks.
Quiet ==
  \/ \E e \in Events : Webhook(e)
  \/ \E w \in Workers : Step(w) \/ DeadlockVictim(w)
  \/ \E s \in Subjects : Bind(s)
FairSpec ==
  /\ Init /\ [][Quiet]_vars
  /\ \A w \in Workers : WF_vars(Step(w)) /\ WF_vars(DeadlockVictim(w))

---------------------------------------------------------------------------
(* Properties.                                                             *)

InboxTypeOK ==
  /\ \A e \in Events : inbox[e].status \in Final \cup {None, "PENDING", "WAITING_ASSOCIATION"}
  /\ \A s \in Subjects : link[s].observed \in {"UNKNOWN", "FOLLOWING", "UNFOLLOWED"}
  /\ \A w \in Workers : Done(w) \subseteq pass[w].batch /\ pass[w].batch \subseteq Open
  /\ \A v, w \in Workers : v # w => pass[v].batch \cap pass[w].batch = {}
  /\ \A s \in Subjects : lock[s] # None => pass[lock[s]].batch # {}

\* What a link shows is the latest of the events that were counted for it, in
\* whatever order they came, were redelivered, or met in two passes; of two that
\* contradict each other at one instant it shows one, and the other is marked.
ObservedIsLatest ==
  \A s \in Subjects : link[s].active =>
    LET counted == {e \in Events : Subject[e] = s /\ inbox[e].status = "PROCESSED" /\ inbox[e].binding = link[s].binding}
    IN IF counted = {} THEN link[s].observed = "UNKNOWN" /\ link[s].last = 0
       ELSE /\ link[s].last = Max({At[e] : e \in counted})
            /\ \A e \in counted : At[e] = link[s].last => link[s].observed = Observed(e)

\* An event that was settled is never counted again, redelivered as it may be.
CountedOnceStep == \A e \in Events : inbox[e].status \in Final => inbox'[e] = inbox[e]
CountedOnce == [][CountedOnceStep]_vars

\* An event that was stored for a LINE account that has been linked is settled.
StoredIsSettled ==
  \A e \in Events : inbox[e].status \in {"PENDING", "WAITING_ASSOCIATION"} /\ link[Subject[e]].active
    ~> inbox[e].status \in Final
=============================================================================

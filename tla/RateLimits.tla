----------------------------- MODULE RateLimits -----------------------------
(***************************************************************************)
(* The limits of the login routes (auth_limits.py, _throttle of auth.py):  *)
(* one counter for the identity, one for the address, one for all, each    *)
(* with a window that begins with the first attempt counted in it.         *)
(*                                                                         *)
(* A request takes the time, then counts itself in each row in turn.  An   *)
(* upsert keeps its row locked until the commit, which comes before the    *)
(* refusal: who is turned away has been counted.                           *)
(***************************************************************************)
EXTENDS Naturals, FiniteSets, Sequences

CONSTANTS
  Identities, Requests, None,
  Window, Limit,   \* Window[k], Limit[k] of every counter
  MaxTime          \* bound of the clock

Keys == Identities \cup {"address", "global"}

LimitsAssumption ==
  /\ Identities \cap {"address", "global"} = {}
  /\ Window \in [Keys -> Nat \ {0}] /\ Limit \in [Keys -> Nat \ {0}]
  /\ MaxTime \in Nat /\ None \notin Requests

VARIABLES
  now,
  row,      \* row[k]: AuthRateLimit: counter and expires_at
  request,  \* request[q]: a request that counts itself
  lock,     \* lock[k]: the request whose upsert is not committed
  passed    \* requests let pass: identity, their time, and the windows they were counted in

vars == <<now, row, request, lock, passed>>

Idle == [pc |-> "idle", identity |-> None, at |-> 0, left |-> <<>>, counted |-> <<>>]

Init ==
  /\ now = 0
  /\ row = [k \in Keys |-> [counter |-> 0, until |-> 0]]
  /\ request = [q \in Requests |-> Idle]
  /\ lock = [k \in Keys |-> None]
  /\ passed = {}

\* Slip: half of the requests count themselves the other way round.
RulesEitherWay(i) == IF i = CHOOSE j \in Identities : TRUE THEN <<"global", "address", i>> ELSE <<i, "address", "global">>

\* The rules of _throttle, in their order.
Rules(i) == <<i, "address", "global">>

Arrive(q, i) ==
  /\ request[q].pc = "idle"
  /\ request' = [request EXCEPT ![q] = [Idle EXCEPT !.pc = "count", !.identity = i, !.at = now, !.left = Rules(i)]]
  /\ UNCHANGED <<now, row, lock, passed>>

\* Only whether it exceeds the limit is ever asked of a counter: it is counted to there.
PlusOne(k) == IF row[k].counter > Limit[k] THEN row[k].counter ELSE row[k].counter + 1

\* Slip: the window ends one moment early.
CountedEarly(q, k) ==
  IF row[k].until <= request[q].at + 1 THEN [counter |-> 1, until |-> request[q].at + Window[k]]
  ELSE [row[k] EXCEPT !.counter = PlusOne(k)]

\* The upsert: by the request's own time, which may be older than the row.
Counted(q, k) ==
  IF row[k].until <= request[q].at THEN [counter |-> 1, until |-> request[q].at + Window[k]]
  ELSE [row[k] EXCEPT !.counter = PlusOne(k)]

Put(f, x, v) == [y \in DOMAIN f \cup {x} |-> IF y = x THEN v ELSE f[y]]

\* q has counted itself in k and goes on to the next row.
Count(q, k) ==
  request' = [request EXCEPT ![q] = [request[q] EXCEPT
    !.counted = Put(request[q].counted, k, Counted(q, k)), !.left = Tail(request[q].left)]]

\* Slip: the counter is read and written in two statements, without a lock.
UpsertUnlocked(q) ==
  /\ request[q].pc = "count" /\ request[q].left # <<>>
  /\ Count(q, Head(request[q].left))
  /\ UNCHANGED <<now, row, lock, passed>>

Upsert(q) ==
  /\ request[q].pc = "count" /\ request[q].left # <<>>
  /\ LET k == Head(request[q].left) IN
     /\ lock[k] = None
     /\ lock' = [lock EXCEPT ![k] = q]
     /\ Count(q, k)
  /\ UNCHANGED <<now, row, passed>>

Refused(q) == \E k \in DOMAIN request[q].counted : request[q].counted[k].counter > Limit[k]
Ends(q) == request' = [request EXCEPT ![q] = Idle] /\ lock' = [k \in Keys |-> IF lock[k] = q THEN None ELSE lock[k]]

Commit(q) ==
  LET counted == request[q].counted IN
  /\ request[q].pc = "count" /\ request[q].left = <<>>
  /\ row' = [k \in Keys |-> IF k \in DOMAIN counted THEN counted[k] ELSE row[k]]
  /\ passed' = IF Refused(q) THEN passed
               ELSE passed \cup {[n |-> Cardinality(passed), identity |-> request[q].identity, at |-> request[q].at,
                                  windows |-> {<<k, counted[k].until>> : k \in DOMAIN counted}]}
  /\ Ends(q)
  /\ UNCHANGED now

\* The process dies: rolled back.
Die(q) == request[q].pc # "idle" /\ Ends(q) /\ UNCHANGED <<now, row, passed>>

Tick == now < MaxTime /\ now' = now + 1 /\ UNCHANGED <<row, request, lock, passed>>

Next ==
  \/ \E q \in Requests : (\E i \in Identities : Arrive(q, i)) \/ Upsert(q) \/ Commit(q) \/ Die(q)
  \/ Tick

Spec == Init /\ [][Next]_vars

---------------------------------------------------------------------------
(* Properties.                                                             *)

\* Counters and windows are within their types; a request holds the rows it has counted itself in.
LimitsTypeOK ==
  /\ \A k \in Keys : row[k].counter \in 0..Limit[k] + 1 /\ row[k].until \in 0..MaxTime + Window[k]
  /\ \A q \in Requests, k \in Keys : lock[k] = q <=> k \in DOMAIN request[q].counted

\* However many workers count at once, and however late a request with an old time
\* comes, no window lets more requests pass than its limit ("atomic across API
\* workers and processes", auth_limits.py:1).
PassesWithinLimit ==
  \A k \in Keys : \A u \in 1..MaxTime + Window[k] :
    Cardinality({p \in passed : <<k, u>> \in p.windows}) <= Limit[k]

\* Where one is let pass at a time, as with mails to one address, the times of two that
\* pass are a whole window apart ("a resend after 60 seconds at least", auth_notes.md:27).
ResendsAreSpaced ==
  \A p, r \in passed :
    p # r /\ p.identity = r.identity /\ Limit[p.identity] = 1 /\ p.at <= r.at => p.at + Window[p.identity] <= r.at

\* Requests that count themselves in several rows never wait for each other's rows in a
\* circle: of those under way, one has its next row or all of them.
NoCircleOfLimits ==
  (\E q \in Requests : request[q].pc = "count") =>
    \E q \in Requests : request[q].pc = "count" /\ (request[q].left = <<>> \/ lock[Head(request[q].left)] = None)
=============================================================================

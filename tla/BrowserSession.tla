--------------------------- MODULE BrowserSession ---------------------------
(***************************************************************************)
(* Tabs of one browser and the login they share: the session cookie, the   *)
(* CSRF token each tab keeps in memory (shared/api.ts), the identity each  *)
(* page shows (CitizenApp.tsx, AdminApp.tsx) and the sessions on the server*)
(* (auth.py).  A token is known by its session.  Every tab runs the same   *)
(* application.                                                            *)
(*                                                                         *)
(* A request is served as it is sent, with the cookie and the token of that*)
(* moment.  The answers that are awaited while the page goes on, GET /me   *)
(* and what a page reads, arrive later and in any order.                   *)
(***************************************************************************)
EXTENDS Naturals, FiniteSets

CONSTANTS
  Tabs, Accounts,
  Sessions,    \* sessions that may be issued, numbered in the order of their issue
  OwnerOf,     \* the account each is issued for
  None,
  MaxWaiting   \* bound: answers under way at once

SessionAssumption ==
  /\ MaxWaiting \in Nat
  /\ Sessions \subseteq Nat /\ OwnerOf \in [Sessions -> Accounts]
  /\ None \notin Accounts \cup Sessions

VARIABLES
  isAdmin, \* the tabs run AdminApp, not CitizenApp
  issued,  \* sessions that have been issued
  jar,     \* the session of the browser's cookies
  live,    \* that session is neither revoked nor expired
  tab,     \* tab[t]: what the page shows and keeps
  wire     \* answers under way

vars == <<isAdmin, issued, live, jar, tab, wire>>

\* `since` is the session with which the component below was mounted, `data` the one whose
\* answer it shows.
Unopened == [opened |-> FALSE, shown |-> None, csrf |-> None, checking |-> FALSE,
             since |-> None, data |-> None]

Init ==
  /\ isAdmin \in BOOLEAN
  /\ issued = {}
  /\ live = FALSE
  /\ jar = None
  /\ tab = [t \in Tabs |-> Unopened]
  /\ wire = {}

Owner(s) == IF s = None THEN None ELSE OwnerOf[s]

\* _authenticated_principal: who a request with the browser's cookies comes from.
Recognised == IF live THEN jar ELSE None

\* Slip: the server does not compare the token with the session.
AnyToken(t) == Recognised # None

\* The same for a request that changes something: the token must be the session's.
Accepted(t) == Recognised # None /\ tab[t].csrf = Recognised

---------------------------------------------------------------------------
(* Identity of a page.                                                     *)

\* On the staff's page an answer to GET /me is out of turn if it has been asked
\* again or the page has been given an identity meanwhile.
OutOfTurn(t) ==
  {IF isAdmin /\ r.tab = t /\ r.kind = "me" THEN [r EXCEPT !.turn = FALSE] ELSE r : r \in wire}

\* With another account the component below is mounted anew, or not at all: what it
\* waited for is lost on it.
Remounted(requests, t, a) ==
  IF a = Owner(tab[t].shown) THEN requests
  ELSE {IF r.tab = t /\ r.kind = "data" THEN [r EXCEPT !.turn = FALSE] ELSE r : r \in requests}

\* identify, acceptSession and expired: the page takes this identity, or none.
Show(t, s, requests, checking) ==
  /\ tab' = [tab EXCEPT ![t] =
       [opened |-> TRUE, shown |-> s, csrf |-> s, checking |-> checking,
        since |-> IF Owner(s) = Owner(@.shown) THEN @.since ELSE s,
        data |-> IF Owner(s) = Owner(@.shown) THEN @.data ELSE None]]
  /\ wire' = Remounted(requests, t, Owner(s))

\* A request was answered with 401: the token is dropped, the event empties the page.
Expired(t) == Show(t, None, OutOfTurn(t), tab[t].checking)

\* refresh, when the page is opened and on focus; the staff's page does without
\* while it shows its login.
Refresh(t) ==
  /\ Cardinality(wire) < MaxWaiting
  /\ isAdmin /\ tab[t].opened => tab[t].shown # None
  /\ wire' = OutOfTurn(t) \cup {[kind |-> "me", tab |-> t, turn |-> TRUE, session |-> Recognised]}
  /\ tab' = [tab EXCEPT ![t].opened = TRUE, ![t].checking = isAdmin]
  /\ UNCHANGED <<issued, live, jar>>

\* The staff's page drops an answer out of turn, the applicant's takes every one.
Adopts(r) == isAdmin => r.turn

\* The answer to GET /me.  The token is kept whether or not the page adopts it.
MeArrives(r) ==
  /\ r.kind = "me"
  /\ \/ /\ r.session = None
        /\ Show(r.tab, None, OutOfTurn(r.tab) \ {r, [r EXCEPT !.turn = FALSE]}, FALSE)
     \/ /\ r.session # None /\ Adopts(r)
        /\ Show(r.tab, r.session, OutOfTurn(r.tab) \ {r, [r EXCEPT !.turn = FALSE]}, FALSE)
     \/ /\ r.session # None /\ ~Adopts(r)
        /\ tab' = [tab EXCEPT ![r.tab].csrf = r.session, ![r.tab].checking = FALSE]
        /\ wire' = wire \ {r}
  /\ UNCHANGED <<issued, live, jar>>

\* No answer: the staff's page keeps its identity, the applicant's gives it up.
MeFails(r) ==
  /\ r.kind = "me"
  /\ IF isAdmin
     THEN tab' = [tab EXCEPT ![r.tab].checking = FALSE] /\ wire' = wire \ {r}
     ELSE Show(r.tab, None, wire \ {r}, FALSE)
  /\ UNCHANGED <<issued, live, jar>>

---------------------------------------------------------------------------
(* Operations.                                                             *)

\* The last step of a login: a new session replaces the cookies, whatever they were.
LogIn(t, s) ==
  /\ tab[t].opened /\ tab[t].shown = None /\ issued = {r \in Sessions : r < s}
  /\ issued' = issued \cup {s}
  /\ live' = TRUE
  /\ jar' = s
  /\ Show(t, s, OutOfTurn(t), tab[t].checking)

\* The server revokes the session and clears the cookies.
LogOut(t) ==
  /\ tab[t].shown # None
  /\ IF Accepted(t)
     THEN /\ live' = FALSE
          /\ jar' = None
          /\ Show(t, None, OutOfTurn(t), tab[t].checking)
     ELSE /\ IF Recognised = None THEN Expired(t) ELSE UNCHANGED <<tab, wire>>
          /\ UNCHANGED <<live, jar>>
  /\ UNCHANGED issued

\* The controls of the page; the staff's are disabled while the identity is checked.
Offered(t) == tab[t].shown # None /\ ~tab[t].checking

\* Anything that changes something.  If it is accepted the cookie's account acts; of the page
\* nothing changes but what the other modules are about.
Operate(t) ==
  /\ Offered(t)
  /\ IF Recognised = None THEN Expired(t) ELSE UNCHANGED <<tab, wire>>
  /\ UNCHANGED <<issued, live, jar>>

\* The list of cases, a case, the applicant's notifications.  No token goes with a GET (api.ts:45):
\* the session of the cookie answers it, whichever account the page shows.
Read(t) ==
  /\ Offered(t) /\ Cardinality(wire) < MaxWaiting
  /\ IF Recognised = None THEN Expired(t)
     ELSE /\ wire' = wire \cup {[kind |-> "data", tab |-> t, turn |-> TRUE, session |-> Recognised]}
          /\ UNCHANGED tab
  /\ UNCHANGED <<issued, live, jar>>

\* Slip: an answer is shown whoever has asked for it.
ShowsAny(r) == TRUE

\* The workspace of the staff's page is mounted anew with its account and then
\* ignores what it had asked for; the applicant's notifications are not.
Shows(r) == isAdmin => r.turn

DataArrives(r) ==
  /\ r.kind = "data"
  /\ tab' = [tab EXCEPT ![r.tab].data = IF Shows(r) THEN r.session ELSE @]
  /\ wire' = wire \ {r}
  /\ UNCHANGED <<issued, live, jar>>

\* Time runs out, an administrator or another device revokes it.
SessionEnds ==
  /\ live /\ live' = FALSE
  /\ UNCHANGED <<issued, jar, tab, wire>>

---------------------------------------------------------------------------
Next ==
  /\ \/ \E t \in Tabs : Refresh(t) \/ LogOut(t) \/ Operate(t) \/ Read(t)
     \/ \E t \in Tabs, s \in Sessions : LogIn(t, s)
     \/ \E r \in wire : MeArrives(r) \/ MeFails(r) \/ DataArrives(r)
     \/ SessionEnds
  /\ UNCHANGED isAdmin

Spec == Init /\ [][Next]_vars

---------------------------------------------------------------------------
(* Properties.                                                             *)

\* A page has a token whenever it has an identity, and an identity was issued.
SessionTypeOK ==
  /\ jar \in issued \cup {None} /\ (live => jar # None)
  /\ \A t \in Tabs : /\ tab[t].shown \in issued \cup {None}
                     /\ tab[t].shown # None => tab[t].csrf # None
                     /\ tab[t].shown = None => tab[t].data = None \/ ~isAdmin

\* Whatever a page offers and the server accepts is done as the account the page shows,
\* though another tab has logged out and in again behind its back.
ActsAsShown == \A t \in Tabs : Offered(t) /\ Accepted(t) => Owner(tab[t].shown) = Owner(jar)

\* A staff page shows nothing that was answered before the login with which its work area was mounted:
\* what an earlier login read does not stay there, nor come late.  A later login of another tab may
\* have answered, until GET /me finds it.
NothingOfAnEarlierLogin ==
  \A t \in Tabs : tab[t].data # None => tab[t].since # None /\ tab[t].since <= tab[t].data
=============================================================================

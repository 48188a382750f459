--------------------------- MODULE RequestsProofs ---------------------------
(***************************************************************************)
(* What the parts of Requests promise, for any number of requests, cases,  *)
(* claims and bodies: each part has an invariant of its own, and beside    *)
(* the others, which rest, a part behaves as it does alone.                *)
(***************************************************************************)
EXTENDS Requests, FiniteSetTheorems, NaturalsInduction, WellFoundedInduction, TLAPS

---------------------------------------------------------------------------
(* Sessions (AccountSessions).  Sessions, and logins under way, that were  *)
(* begun before a change of the account carry an older role_version; that  *)
(* is what refuses them.  A login by code holds the account's row, which   *)
(* the change of address waits for.                                        *)

Row == [method : {None, "email", "staff", "line"}, role : Nat, email : Nat, link : Nat, version : Nat,
        revoked : BOOLEAN, overtaken : BOOLEAN]
Seen == UNION {[S -> Nat] : S \in SUBSET Sessions}
RequestRow == [op : {None, "login", "admin", "reauth", "change"}, row : Row, version : Nat,
               session : Sessions \cup {None}, seen : Seen]

AccountRow == [status : {"ACTIVE", "DISABLED"}, role : Nat, email : Nat, version : Nat]

Types ==
  /\ account \in AccountRow
  /\ link \in Nat /\ links \in Nat
  /\ session \in [Sessions -> Row]
  /\ request \in [Requests -> RequestRow]

\* What was begun before a change carries an older role_version.
Older ==
  /\ \A s \in Sessions : session[s].role <= account.role /\ (session[s].overtaken => session[s].role < account.role)
  /\ \A r \in Requests : request[r].op = "login" =>
       /\ request[r].row.role <= account.role
       /\ request[r].row.overtaken => request[r].row.role < account.role

\* A login by code under way holds the account, and with it the address.
Held ==
  \A r \in Requests : request[r].op = "login" /\ request[r].row.method = "email" =>
    lock = r /\ request[r].row.email = account.email

Current == \A s \in Sessions : session[s].method = "email" /\ ~session[s].revoked => session[s].email = account.email

SessionsInv == Types /\ Older /\ Held /\ Current

LEMMA SessionRowFacts ==
  /\ NoSession \in Row
  /\ Idle \in RequestRow
PROOF
  <1>1. NoSession \in Row
    BY DEF NoSession, Row
  <1>2. <<>> \in Seen
    <2>1. <<>> \in [{} -> Nat]
      OBVIOUS
    <2>2. QED
      BY <2>1 DEF Seen
  <1>3. QED
    BY <1>1, <1>2 DEF Idle, RequestRow

\* What the changes of an account and of a session make of a row is a row.
LEMMA ChangedRows ==
  /\ \A a \in AccountRow, status \in {"ACTIVE", "DISABLED"} :
       [a EXCEPT !.status = status, !.role = @ + 1, !.version = @ + 1] \in AccountRow
  /\ \A a \in AccountRow : [a EXCEPT !.email = @ + 1, !.version = @ + 1] \in AccountRow
  /\ \A x \in Row : [x EXCEPT !.version = @ + 1] \in Row
  /\ \A x \in Row, e \in Nat, l \in Nat : [x EXCEPT !.email = e, !.link = l] \in Row
PROOF
  <1>1. ASSUME NEW a \in AccountRow, NEW status \in {"ACTIVE", "DISABLED"}
        PROVE  [a EXCEPT !.status = status, !.role = @ + 1, !.version = @ + 1] \in AccountRow
    <2>1. a.role + 1 \in Nat /\ a.version + 1 \in Nat
      BY DEF AccountRow
    <2>2. QED
      BY <2>1 DEF AccountRow
  <1>2. ASSUME NEW a \in AccountRow
        PROVE  [a EXCEPT !.email = @ + 1, !.version = @ + 1] \in AccountRow
    <2>1. a.email + 1 \in Nat /\ a.version + 1 \in Nat
      BY DEF AccountRow
    <2>2. QED
      BY <2>1 DEF AccountRow
  <1>3. ASSUME NEW x \in Row PROVE [x EXCEPT !.version = @ + 1] \in Row
    <2>1. x.version + 1 \in Nat
      BY DEF Row
    <2>2. QED
      BY <2>1 DEF Row
  <1>4. ASSUME NEW x \in Row, NEW e \in Nat, NEW l \in Nat PROVE [x EXCEPT !.email = e, !.link = l] \in Row
    BY DEF Row
  <1>5. QED
    BY <1>1, <1>2, <1>3, <1>4

LEMMA NewRow ==
  ASSUME Types, NEW method \in {"email", "staff", "line"}
  PROVE  /\ NewSession(method) \in Row
         /\ NewSession(method).role = account.role
         /\ NewSession(method).email = account.email
         /\ NewSession(method).method = method
         /\ ~NewSession(method).overtaken /\ ~NewSession(method).revoked
PROOF BY DEF Types, AccountRow, Row, NewSession

LEMMA RevokedRows ==
  ASSUME Types
  PROVE  /\ Revoked(session) \in [Sessions -> Row]
         /\ \A s \in Sessions :
              /\ Revoked(session)[s].role = session[s].role
              /\ Revoked(session)[s].overtaken = session[s].overtaken
              /\ Revoked(session)[s].method = session[s].method
              /\ session[s].revoked => Revoked(session)[s].revoked
              /\ session[s].method # None => Revoked(session)[s].revoked
PROOF BY DEF Types, Row, Revoked, Live, Exists

LEMMA InitInv == Init => SessionsInv
PROOF BY SessionRowFacts, SessionsAssumption DEF Init, SessionsInv, Types, AccountRow, Older, Held, Current, NoSession, Idle, Row

LEMMA TypesStep == Types /\ [Next]_vars => Types'
PROOF
  <1> SUFFICES ASSUME Types, [Next]_vars PROVE Types'
    OBVIOUS
  <1> USE SessionRowFacts
  <1>1. ASSUME NEW r \in Requests, NEW method \in {"email", "staff"}, CodeRead(r, method) PROVE Types'
    <2>1. NewSession(method) \in Row
      BY NewRow
    <2>2. [Idle EXCEPT !.op = "login", !.row = NewSession(method)] \in RequestRow
      BY <2>1 DEF RequestRow
    <2>3. QED
      BY <1>1, <2>2 DEF Types, CodeRead
  <1>2. ASSUME NEW r \in Requests, LineRead(r) PROVE Types'
    <2>1. NewSession("line") \in Row
      BY NewRow
    <2>2. [Idle EXCEPT !.op = "login", !.row = NewSession("line")] \in RequestRow
      BY <2>1 DEF RequestRow
    <2>3. QED
      BY <1>2, <2>2 DEF Types, LineRead
  <1>3. ASSUME NEW r \in Requests, AdminRead(r) PROVE Types'
    <2>1. [s \in Live |-> session[s].version] \in Seen
      <3>1. Live \in SUBSET Sessions
        BY DEF Live
      <3>2. [s \in Live |-> session[s].version] \in [Live -> Nat]
        BY <3>1 DEF Types, Row
      <3>3. QED
        BY <3>1, <3>2 DEF Seen
    <2>2. [Idle EXCEPT !.op = "admin", !.seen = [s \in Live |-> session[s].version]] \in RequestRow
      BY <2>1 DEF RequestRow
    <2>3. QED
      BY <1>3, <2>2 DEF Types, AdminRead
  <1>4. ASSUME NEW r \in Requests, NEW status \in {"ACTIVE", "DISABLED"}, AdminCommit(r, status) PROVE Types'
    <2>1. CASE Untouched(r)
      <3>1. account' \in AccountRow
        <4>1. account' = [account EXCEPT !.status = status, !.role = @ + 1, !.version = @ + 1]
          BY <1>4, <2>1 DEF AdminCommit
        <4>2. QED
          BY <4>1, ChangedRows DEF Types
      <3>2. session' \in [Sessions -> Row]
        <4>1. ASSUME NEW s \in Sessions, NEW gone \in BOOLEAN, NEW old \in BOOLEAN
              PROVE  [session[s] EXCEPT !.revoked = @ \/ gone, !.version = IF gone THEN @ + 1 ELSE @,
                                        !.overtaken = old] \in Row
          <5>1. session[s] \in Row /\ (session[s].revoked \/ gone) \in BOOLEAN
                /\ (IF gone THEN session[s].version + 1 ELSE session[s].version) \in Nat
            BY DEF Types, Row
          <5>2. QED
            BY <5>1 DEF Row
        <4>2. \A s \in Sessions : Exists(s) \in BOOLEAN /\ (s \in DOMAIN request[r].seen) \in BOOLEAN
          BY DEF Exists
        <4>3. session' = [s \in Sessions |->
                 [session[s] EXCEPT !.revoked = @ \/ s \in DOMAIN request[r].seen,
                                    !.version = IF s \in DOMAIN request[r].seen THEN @ + 1 ELSE @,
                                    !.overtaken = Exists(s)]]
          BY <1>4, <2>1, Zenon DEF AdminCommit
        <4>4. QED
          BY <4>1, <4>2, <4>3
      <3>3. request' \in [Requests -> RequestRow]
        <4>1. \A q \in Requests :
                [request[q] EXCEPT !.row.overtaken = request[q].op = "login"] \in RequestRow
          <5> TAKE q \in Requests
          <5>1. request[q] \in RequestRow /\ request[q].row \in Row /\ (request[q].op = "login") \in BOOLEAN
            BY DEF Types, RequestRow
          <5>2. [request[q].row EXCEPT !.overtaken = request[q].op = "login"] \in Row
            BY <5>1 DEF Row
          <5>3. QED
            BY <5>1, <5>2 DEF RequestRow
        <4>2. QED
          BY <1>4, <2>1, <4>1 DEF AdminCommit
      <3>4. QED
        BY <1>4, <3>1, <3>2, <3>3 DEF AdminCommit, Types
    <2>2. CASE ~Untouched(r)
      BY <1>4, <2>2 DEF AdminCommit, Ends, Types
    <2>3. QED
      BY <2>1, <2>2
  <1>5. ASSUME NEW r \in Requests, NEW s \in Sessions, LoginCommit(r, s) PROVE Types'
    <2>1. request[r].row \in Row
      BY DEF Types, RequestRow
    <2>2. QED
      BY <1>5, <2>1 DEF LoginCommit, Ends, Types
  <1>6. ASSUME NEW r \in Requests, NEW s \in Sessions, NEW op \in {"reauth", "change"}, OwnRead(r, s, op) PROVE Types'
    <2>1. session[s] \in Row /\ account.version \in Nat /\ session[s].version \in Nat
      BY DEF Types, AccountRow, Row
    <2>2. [Idle EXCEPT !.op = op, !.session = s,
             !.version = IF op = "change" THEN account.version ELSE session[s].version,
             !.row = session[s]] \in RequestRow
      BY <2>1 DEF RequestRow
    <2>3. QED
      BY <1>6, <2>2 DEF OwnRead, Types
  <1>7. ASSUME NEW r \in Requests, NEW s \in Sessions, ChangeCommit(r, s) PROVE Types'
    <2>1. CASE account.version = request[r].version
      <3>1. account' \in AccountRow
        <4>1. account' = [account EXCEPT !.email = @ + 1, !.version = @ + 1]
          BY <1>7, <2>1 DEF ChangeCommit
        <4>2. QED
          BY <4>1, ChangedRows DEF Types
      <3>2. request[r].row \in Row
        BY DEF Types, RequestRow
      <3>3. [NewSession(request[r].row.method) EXCEPT !.email = account.email + 1, !.link = request[r].row.link] \in Row
        <4>1. NewSession(request[r].row.method) \in Row
          BY <3>2 DEF NewSession, Row, Types, AccountRow
        <4>2. account.email + 1 \in Nat /\ request[r].row.link \in Nat
          BY <3>2 DEF Types, AccountRow, Row
        <4>3. QED
          BY <4>1, <4>2, ChangedRows
      <3>4. session' \in [Sessions -> Row]
        BY <1>7, <2>1, <3>3, RevokedRows DEF ChangeCommit
      <3>5. QED
        BY <1>7, <3>1, <3>4 DEF ChangeCommit, Ends, Types
    <2>2. CASE account.version # request[r].version
      BY <1>7, <2>2 DEF ChangeCommit, Ends, Types
    <2>3. QED
      BY <2>1, <2>2
  <1>8. ASSUME NEW r \in Requests, ReauthCommit(r) PROVE Types'
    <2> DEFINE q == request[r].session
    <2>1. session \in [Sessions -> Row]
      BY DEF Types
    <2>2. session' = [session EXCEPT ![q].version = IF @ = request[r].version THEN @ + 1 ELSE @]
      BY <1>8 DEF ReauthCommit
    <2>3. ASSUME NEW s \in Sessions PROVE session'[s] \in Row
      <3>1. session[s].version \in Nat /\ session[s].version + 1 \in Nat /\ session[s] \in Row
        BY <2>1 DEF Row
      <3>2. \A n \in Nat : [session[s] EXCEPT !.version = n] \in Row
        BY <3>1 DEF Row
      <3>3. QED
        BY <2>1, <2>2, <3>1, <3>2
    <2>4. session' = [s \in Sessions |-> session'[s]]
      BY <2>1, <2>2
    <2>5. session' \in [Sessions -> Row]
      BY <2>3, <2>4
    <2>6. QED
      BY <1>8, <2>5 DEF ReauthCommit, Ends, Types
  <1>9. CASE RevokeAll
    BY <1>9, RevokedRows DEF RevokeAll, Types
  <1>10. CASE Bind
    BY <1>10 DEF Bind, Types
  <1>11. CASE Unlink
    BY <1>11, RevokedRows DEF Unlink, Types
  <1>12. ASSUME NEW s \in Sessions, RevokeOne(s) PROVE Types'
    <2>1. session' \in [Sessions -> Row]
      BY <1>12 DEF RevokeOne, Types, Row
    <2>2. QED
      BY <1>12, <2>1 DEF RevokeOne, Types
  <1>13. CASE UNCHANGED vars
    BY <1>13 DEF vars, Types
  <1>14. QED
    BY <1>1, <1>2, <1>3, <1>4, <1>5, <1>6, <1>7, <1>8, <1>9, <1>10, <1>11, <1>12, <1>13 DEF Next

---------------------------------------------------------------------------
\* What a step of each kind does to the sessions and to the requests under way.

\* A step that keeps the account keeps, of each session, what Older and Current speak of,
\* or adds a session from the row of a login.
SameOrRevoked(s) ==
  /\ session'[s].role = session[s].role /\ session'[s].overtaken = session[s].overtaken
  /\ session'[s].email = session[s].email /\ session'[s].method = session[s].method
  /\ session[s].revoked => session'[s].revoked

LEMMA RevokedSame ==
  ASSUME Types, session' = Revoked(session) PROVE \A s \in Sessions : SameOrRevoked(s)
PROOF BY DEF Types, Row, Revoked, Live, Exists, SameOrRevoked

LEMMA RevokeAllSame ==
  ASSUME Types, RevokeAll \/ Unlink PROVE \A s \in Sessions : SameOrRevoked(s)
PROOF BY RevokedSame DEF RevokeAll, Unlink

LEMMA RevokeOneSame ==
  ASSUME Types, NEW x \in Sessions, RevokeOne(x) PROVE \A s \in Sessions : SameOrRevoked(s)
PROOF
  <1>1. session \in [Sessions -> Row]
    BY DEF Types
  <1>2. session' = [session EXCEPT ![x].revoked = TRUE, ![x].version = @ + 1]
    BY DEF RevokeOne
  <1>3. QED
    BY <1>1, <1>2 DEF Row, SameOrRevoked

LEMMA ReauthSame ==
  ASSUME Types, NEW r \in Requests, ReauthCommit(r) PROVE \A s \in Sessions : SameOrRevoked(s)
PROOF
  <1>1. session \in [Sessions -> Row]
    BY DEF Types
  <1>2. session' = [session EXCEPT ![request[r].session].version = IF @ = request[r].version THEN @ + 1 ELSE @]
    BY DEF ReauthCommit
  <1>3. QED
    BY <1>1, <1>2 DEF Row, SameOrRevoked

LEMMA AdminSame ==
  ASSUME Types, NEW r \in Requests, NEW status, AdminCommit(r, status), Untouched(r)
  PROVE  \A s \in Sessions :
           /\ session'[s].role = session[s].role /\ session'[s].email = session[s].email
           /\ session'[s].method = session[s].method
           /\ session[s].revoked => session'[s].revoked
PROOF
  <1>1. session \in [Sessions -> Row]
    BY DEF Types
  <1>2. session' = [s \in Sessions |->
             [session[s] EXCEPT !.revoked = @ \/ s \in DOMAIN request[r].seen,
                                !.version = IF s \in DOMAIN request[r].seen THEN @ + 1 ELSE @,
                                !.overtaken = Exists(s)]]
    BY Zenon DEF AdminCommit
  <1>3. QED
    BY <1>1, <1>2 DEF Row

---------------------------------------------------------------------------
LEMMA OlderStep == Types /\ Older /\ [Next]_vars => Older'
PROOF
  <1> SUFFICES ASSUME Types, Older, [Next]_vars PROVE Older'
    OBVIOUS
  <1>a. account.role \in Nat /\ account.role + 1 > account.role
    BY DEF Types, AccountRow
  <1>b. ASSUME account' = account, request' = request, \A s \in Sessions : SameOrRevoked(s) PROVE Older'
    BY <1>b DEF Older, SameOrRevoked
  <1>c. ASSUME NEW r \in Requests, account' = account, Ends(r), \A s \in Sessions : SameOrRevoked(s) PROVE Older'
    BY <1>c, SessionsAssumption DEF Older, SameOrRevoked, Ends, Idle, Types
  <1>1. ASSUME NEW r \in Requests, NEW method \in {"email", "staff"}, CodeRead(r, method) PROVE Older'
    BY <1>1, <1>a, NewRow DEF CodeRead, Older, Types, RequestRow, Idle
  <1>2. ASSUME NEW r \in Requests, LineRead(r) PROVE Older'
    BY <1>2, <1>a, NewRow DEF LineRead, Older, Types, RequestRow, Idle
  <1>3. ASSUME NEW r \in Requests, AdminRead(r) PROVE Older'
    BY <1>3 DEF AdminRead, Older, Types, RequestRow, Idle
  <1>4. ASSUME NEW r \in Requests, NEW status \in {"ACTIVE", "DISABLED"}, AdminCommit(r, status) PROVE Older'
    <2>1. CASE Untouched(r)
      <3>1. account'.role = account.role + 1
        <4>1. account' = [account EXCEPT !.status = status, !.role = @ + 1, !.version = @ + 1]
          BY <1>4, <2>1 DEF AdminCommit
        <4>2. QED
          BY <4>1 DEF Types, AccountRow
      <3>2. \A s \in Sessions : session'[s].role <= account.role
        BY <1>4, <2>1, AdminSame DEF Older
      <3>3. \A q \in Requests : request'[q].op = "login" => request'[q].row.role <= account.role
        <4>1. request' = [q \in Requests |->
                IF q = r THEN Idle ELSE [request[q] EXCEPT !.row.overtaken = request[q].op = "login"]]
          BY <1>4, <2>1 DEF AdminCommit
        <4>2. \A q \in Requests : q # r => request'[q].op = request[q].op /\ request'[q].row.role = request[q].row.role
          BY <4>1 DEF Types, RequestRow, Row
        <4>3. request'[r].op # "login"
          BY <4>1, SessionsAssumption DEF Idle
        <4>4. QED
          BY <4>2, <4>3 DEF Older
      <3>4. Types'
        BY TypesStep
      <3>5. QED
        BY <3>1, <3>2, <3>3, <3>4, <1>a DEF Older, Types, Row, RequestRow
    <2>2. CASE ~Untouched(r)
      <3>1. \A s \in Sessions : SameOrRevoked(s)
        BY <1>4, <2>2 DEF AdminCommit, SameOrRevoked
      <3>2. QED
        BY <1>4, <2>2, <3>1, <1>c DEF AdminCommit
    <2>3. QED
      BY <2>1, <2>2
  <1>5. ASSUME NEW r \in Requests, NEW s \in Sessions, LoginCommit(r, s) PROVE Older'
    BY <1>5, SessionsAssumption DEF LoginCommit, Ends, Older, Types, Idle
  <1>6. ASSUME NEW r \in Requests, NEW s \in Sessions, NEW op \in {"reauth", "change"}, OwnRead(r, s, op) PROVE Older'
    BY <1>6 DEF OwnRead, Older, Types, RequestRow, Idle
  <1>7. ASSUME NEW r \in Requests, NEW s \in Sessions, ChangeCommit(r, s) PROVE Older'
    <2>1. CASE account.version = request[r].version
      <3> DEFINE new == [NewSession(request[r].row.method) EXCEPT !.email = account.email + 1, !.link = request[r].row.link]
      <3>1. account'.role = account.role
        <4>1. account' = [account EXCEPT !.email = @ + 1, !.version = @ + 1]
          BY <1>7, <2>1 DEF ChangeCommit
        <4>2. QED
          BY <4>1 DEF Types, AccountRow
      <3>2. session' = [Revoked(session) EXCEPT ![s] = new]
        BY <1>7, <2>1 DEF ChangeCommit
      <3>3. new.role = account.role /\ ~new.overtaken
        BY DEF NewSession
      <3> HIDE DEF new
      <3>4. \A x \in Sessions : /\ session'[x].role <= account.role
                                /\ session'[x].overtaken => session'[x].role < account.role
        BY <3>2, <3>3, <1>a, RevokedRows DEF Older
      <3>5. QED
        BY <1>7, <3>1, <3>4, SessionsAssumption DEF ChangeCommit, Ends, Older, Types, Idle
    <2>2. CASE account.version # request[r].version
      <3>1. \A x \in Sessions : SameOrRevoked(x)
        BY <1>7, <2>2 DEF ChangeCommit, SameOrRevoked
      <3>2. QED
        BY <1>7, <2>2, <3>1, <1>c DEF ChangeCommit
    <2>3. QED
      BY <2>1, <2>2
  <1>8. ASSUME NEW r \in Requests, ReauthCommit(r) PROVE Older'
    BY <1>8, <1>c, ReauthSame DEF ReauthCommit
  <1>9. CASE RevokeAll \/ Unlink
    BY <1>9, <1>b, RevokeAllSame DEF RevokeAll, Unlink
  <1>10. CASE Bind
    BY <1>10 DEF Bind, Older
  <1>11. ASSUME NEW s \in Sessions, RevokeOne(s) PROVE Older'
    BY <1>11, <1>b, RevokeOneSame DEF RevokeOne
  <1>12. CASE UNCHANGED vars
    BY <1>12 DEF vars, Older
  <1>13. QED
    BY <1>1, <1>2, <1>3, <1>4, <1>5, <1>6, <1>7, <1>8, <1>9, <1>10, <1>11, <1>12 DEF Next

---------------------------------------------------------------------------
LEMMA HeldStep == Types /\ Held /\ [Next]_vars => Held'
PROOF
  <1> SUFFICES ASSUME Types, Held, [Next]_vars PROVE Held'
    OBVIOUS
  <1> USE SessionsAssumption
  <1>a. request \in [Requests -> RequestRow]
    BY DEF Types
  <1>b. ASSUME account'.email = account.email, lock' = lock, request' = request PROVE Held'
    BY <1>b DEF Held
  <1>1. ASSUME NEW r \in Requests, NEW method \in {"email", "staff"}, CodeRead(r, method) PROVE Held'
    BY <1>1, <1>a, NewRow DEF CodeRead, Held, Idle
  <1>2. ASSUME NEW r \in Requests, LineRead(r) PROVE Held'
    BY <1>2, <1>a, NewRow DEF LineRead, Held, Idle
  <1>3. ASSUME NEW r \in Requests, AdminRead(r) PROVE Held'
    BY <1>3, <1>a DEF AdminRead, Held, Idle
  <1>4. ASSUME NEW r \in Requests, NEW status \in {"ACTIVE", "DISABLED"}, AdminCommit(r, status) PROVE Held'
    <2>1. CASE Untouched(r)
      <3>1. account'.email = account.email
        <4>1. account' = [account EXCEPT !.status = status, !.role = @ + 1, !.version = @ + 1]
          BY <1>4, <2>1 DEF AdminCommit
        <4>2. QED
          BY <4>1 DEF Types, AccountRow
      <3>2. request' = [q \in Requests |->
                IF q = r THEN Idle ELSE [request[q] EXCEPT !.row.overtaken = request[q].op = "login"]]
        BY <1>4, <2>1 DEF AdminCommit
      <3>3. \A q \in Requests : q # r =>
               /\ request'[q].op = request[q].op /\ request'[q].row.method = request[q].row.method
               /\ request'[q].row.email = request[q].row.email
        BY <3>2, <1>a DEF RequestRow, Row
      <3>4. request'[r].op # "login"
        BY <3>2 DEF Idle
      <3>5. \A q \in Requests : q # r /\ lock = q => lock' = q
        BY <1>4 DEF AdminCommit, Unlock
      <3>6. QED
        BY <3>1, <3>3, <3>4, <3>5 DEF Held
    <2>2. CASE ~Untouched(r)
      BY <1>4, <2>2, <1>a DEF AdminCommit, Ends, Unlock, Held, Idle
    <2>3. QED
      BY <2>1, <2>2
  <1>5. ASSUME NEW r \in Requests, NEW s \in Sessions, LoginCommit(r, s) PROVE Held'
    BY <1>5, <1>a DEF LoginCommit, Ends, Unlock, Held, Idle
  <1>6. ASSUME NEW r \in Requests, NEW s \in Sessions, NEW op \in {"reauth", "change"}, OwnRead(r, s, op) PROVE Held'
    BY <1>6, <1>a DEF OwnRead, Held, Idle
  <1>7. ASSUME NEW r \in Requests, NEW s \in Sessions, ChangeCommit(r, s) PROVE Held'
    <2>1. \A q \in Requests : q # r => request'[q] = request[q]
      BY <1>7, <1>a DEF ChangeCommit, Ends
    <2>2. request'[r].op # "login"
      BY <1>7, <1>a DEF ChangeCommit, Ends, Idle
    <2>3. lock = None /\ lock' = None
      BY <1>7 DEF ChangeCommit
    <2>4. QED
      BY <2>1, <2>2, <2>3 DEF Held
  <1>8. ASSUME NEW r \in Requests, ReauthCommit(r) PROVE Held'
    BY <1>8, <1>a DEF ReauthCommit, Ends, Held, Idle
  <1>9. CASE RevokeAll \/ Unlink \/ Bind \/ (\E s \in Sessions : RevokeOne(s)) \/ UNCHANGED vars
    BY <1>9, <1>b DEF RevokeAll, Unlink, Bind, RevokeOne, vars
  <1>10. QED
    BY <1>1, <1>2, <1>3, <1>4, <1>5, <1>6, <1>7, <1>8, <1>9 DEF Next

LEMMA CurrentStep == Types /\ Held /\ Current /\ [Next]_vars => Current'
PROOF
  <1> SUFFICES ASSUME Types, Held, Current, [Next]_vars PROVE Current'
    OBVIOUS
  <1> USE SessionsAssumption
  <1>a. session \in [Sessions -> Row]
    BY DEF Types
  <1>b. ASSUME account'.email = account.email, \A s \in Sessions : SameOrRevoked(s) PROVE Current'
    <2>1. \A s \in Sessions : session[s].revoked \in BOOLEAN
      BY <1>a DEF Row
    <2>2. QED
      BY <1>b, <2>1 DEF Current, SameOrRevoked
  <1>c. ASSUME account' = account, session' = session PROVE Current'
    BY <1>c DEF Current
  <1>1. CASE \E r \in Requests : \/ \E method \in {"email", "staff"} : CodeRead(r, method)
                                 \/ LineRead(r) \/ AdminRead(r)
                                 \/ \E s \in Sessions : OwnRead(r, s, "reauth") \/ OwnRead(r, s, "change")
    BY <1>1, <1>c DEF CodeRead, LineRead, AdminRead, OwnRead
  <1>2. ASSUME NEW r \in Requests, NEW status \in {"ACTIVE", "DISABLED"}, AdminCommit(r, status) PROVE Current'
    <2>1. CASE Untouched(r)
      <3>1. account'.email = account.email
        <4>1. account' = [account EXCEPT !.status = status, !.role = @ + 1, !.version = @ + 1]
          BY <1>2, <2>1 DEF AdminCommit
        <4>2. QED
          BY <4>1 DEF Types, AccountRow
      <3>2. QED
        BY <1>2, <2>1, <3>1, AdminSame DEF Current
    <2>2. CASE ~Untouched(r)
      BY <1>2, <2>2, <1>c DEF AdminCommit
    <2>3. QED
      BY <2>1, <2>2
  <1>3. ASSUME NEW r \in Requests, NEW s \in Sessions, LoginCommit(r, s) PROVE Current'
    <2>1. session' = [session EXCEPT ![s] = request[r].row] /\ account' = account /\ request[r].op = "login"
      BY <1>3 DEF LoginCommit
    <2>2. request[r].row.method = "email" => request[r].row.email = account.email
      BY <2>1 DEF Held
    <2>3. QED
      BY <2>1, <2>2, <1>a DEF Current
  <1>4. ASSUME NEW r \in Requests, NEW s \in Sessions, ChangeCommit(r, s) PROVE Current'
    <2>1. CASE account.version = request[r].version
      <3> DEFINE new == [NewSession(request[r].row.method) EXCEPT !.email = account.email + 1, !.link = request[r].row.link]
      <3>1. account'.email = account.email + 1
        <4>1. account' = [account EXCEPT !.email = @ + 1, !.version = @ + 1]
          BY <1>4, <2>1 DEF ChangeCommit
        <4>2. QED
          BY <4>1 DEF Types, AccountRow
      <3>2. session' = [Revoked(session) EXCEPT ![s] = new]
        BY <1>4, <2>1 DEF ChangeCommit
      <3>3. new.email = account.email + 1
        BY DEF NewSession
      <3> HIDE DEF new
      <3>4. \A x \in Sessions : x # s => session'[x] = Revoked(session)[x]
        BY <3>2, RevokedRows
      <3>5. session'[s] = new
        BY <3>2, RevokedRows
      <3>6. \A x \in Sessions : session[x].method = "email" => Revoked(session)[x].revoked
        BY RevokedRows
      <3>7. \A x \in Sessions : Revoked(session)[x].method = session[x].method
        BY RevokedRows
      <3>8. QED
        BY <3>1, <3>3, <3>4, <3>5, <3>6, <3>7 DEF Current
    <2>2. CASE account.version # request[r].version
      BY <1>4, <2>2, <1>c DEF ChangeCommit
    <2>3. QED
      BY <2>1, <2>2
  <1>5. ASSUME NEW r \in Requests, ReauthCommit(r) PROVE Current'
    BY <1>5, <1>b, ReauthSame DEF ReauthCommit
  <1>6. CASE RevokeAll \/ Unlink
    BY <1>6, <1>b, RevokeAllSame DEF RevokeAll, Unlink
  <1>7. CASE Bind \/ UNCHANGED vars
    BY <1>7, <1>c DEF Bind, vars
  <1>8. ASSUME NEW s \in Sessions, RevokeOne(s) PROVE Current'
    BY <1>8, <1>b, RevokeOneSame DEF RevokeOne
  <1>9. QED
    BY <1>1, <1>2, <1>3, <1>4, <1>5, <1>6, <1>7, <1>8 DEF Next

THEOREM SessionsInvariant == Spec => []SessionsInv
PROOF
  <1>1. SessionsInv /\ [Next]_vars => SessionsInv'
    BY TypesStep, OlderStep, HeldStep, CurrentStep DEF SessionsInv
  <1>2. QED
    BY InitInv, <1>1, PTL DEF Spec

\* Whatever logins are under way when the status or the roles of an account change, no
\* session that was begun before serves afterwards.
THEOREM ChangesEndSessions == Spec => []ChangeEndsSessions
PROOF
  <1>1. SessionsInv => ChangeEndsSessions
    BY DEF SessionsInv, Older, Types, Row, AccountRow, ChangeEndsSessions, Usable
  <1>2. QED
    BY SessionsInvariant, <1>1, PTL

\* However codes and the change of the address interleave, no session of an earlier
\* address serves.
THEOREM AddressesEndSessions == Spec => []AddressEndsSessions
PROOF
  <1>1. SessionsInv => AddressEndsSessions
    BY DEF SessionsInv, Current, AddressEndsSessions, Usable, Live
  <1>2. QED
    BY SessionsInvariant, <1>1, PTL

\* No session outlives a change of the account's status, roles or address that it
\* was begun before.
THEOREM SessionsEndInTime == Spec => []SessionsEnd
PROOF BY ChangesEndSessions, AddressesEndSessions, PTL DEF SessionsEnd

\* No request of an account, ending after the session was revoked, gives it back.
THEOREM RevocationStands == Spec => RevokedStays
PROOF
  <1> DEFINE Stays == \A s \in Sessions : Exists(s) /\ session[s].revoked => session'[s].revoked
  <1>1. ASSUME Types, [Next]_vars PROVE Stays
    <2>a. session \in [Sessions -> Row]
      BY <1>1 DEF Types
    <2>b. ASSUME \A s \in Sessions : SameOrRevoked(s) PROVE Stays
      BY <2>b DEF SameOrRevoked
    <2>c. ASSUME session' = session PROVE Stays
      BY <2>c
    <2>1. CASE \E r \in Requests : \/ \E method \in {"email", "staff"} : CodeRead(r, method)
                                   \/ LineRead(r) \/ AdminRead(r)
                                   \/ \E s \in Sessions : OwnRead(r, s, "reauth") \/ OwnRead(r, s, "change")
      BY <2>1, <2>c DEF CodeRead, LineRead, AdminRead, OwnRead
    <2>2. ASSUME NEW r \in Requests, NEW status \in {"ACTIVE", "DISABLED"}, AdminCommit(r, status) PROVE Stays
      <3>1. CASE Untouched(r)
        BY <1>1, <2>2, <3>1, AdminSame
      <3>2. CASE ~Untouched(r)
        BY <2>2, <3>2, <2>c DEF AdminCommit
      <3>3. QED
        BY <3>1, <3>2
    <2>3. ASSUME NEW r \in Requests, NEW s \in Sessions, LoginCommit(r, s) PROVE Stays
      BY <2>3, <2>a DEF LoginCommit
    <2>4. ASSUME NEW r \in Requests, NEW s \in Sessions, ChangeCommit(r, s) PROVE Stays
      <3> DEFINE new == [NewSession(request[r].row.method) EXCEPT !.email = account.email + 1, !.link = request[r].row.link]
      <3>1. CASE account.version = request[r].version
        <4>1. session' = [Revoked(session) EXCEPT ![s] = new] /\ ~Exists(s)
          BY <2>4, <3>1 DEF ChangeCommit
        <4> HIDE DEF new
        <4>2. \A x \in Sessions : x # s => session'[x] = Revoked(session)[x]
          BY <4>1, <1>1, RevokedRows
        <4>3. QED
          BY <1>1, <4>1, <4>2, RevokedRows
      <3>2. CASE account.version # request[r].version
        BY <2>4, <3>2, <2>c DEF ChangeCommit
      <3>3. QED
        BY <3>1, <3>2
    <2>5. ASSUME NEW r \in Requests, ReauthCommit(r) PROVE Stays
      BY <1>1, <2>5, <2>b, ReauthSame
    <2>6. CASE RevokeAll \/ Unlink
      BY <1>1, <2>6, <2>b, RevokeAllSame
    <2>7. CASE Bind \/ UNCHANGED vars
      BY <2>7, <2>c DEF Bind, vars
    <2>8. ASSUME NEW s \in Sessions, RevokeOne(s) PROVE Stays
      BY <1>1, <2>8, <2>b, RevokeOneSame
    <2>9. QED
      BY <1>1, <2>1, <2>2, <2>3, <2>4, <2>5, <2>6, <2>7, <2>8 DEF Next
  <1>2. SessionsInv => Types
    BY DEF SessionsInv
  <1>3. QED
    BY SessionsInvariant, <1>1, <1>2, PTL DEF RevokedStays, Spec

---------------------------------------------------------------------------
(* Sessions: the rows as the code leaves them.                             *)

\* The account's row is locked by who is between reading it and committing, and nobody counts its
\* columns past their bound.
Locked(r) == request[r].op = "admin" \/ (request[r].op = "login" /\ request[r].row.method # "line")
Bounded ==
  /\ account.role \in 1..MaxChanges + 1 /\ account.email \in 1..MaxChanges + 1 /\ link <= links
  /\ \A r \in Requests : lock = r <=> Locked(r)
  /\ \A r \in Requests : request[r].op = "admin" => account.role <= MaxChanges
  /\ \A r \in Requests : request[r].op = "change" =>
       /\ request[r].version <= account.version
       /\ request[r].version = account.version => account.email <= MaxChanges

LEMMA BoundedStep == ASSUME Types, Bounded, [Next]_vars PROVE Bounded'
<1> USE SessionsAssumption
<1>a. request \in [Requests -> RequestRow] /\ account \in AccountRow
  BY DEF Types
<1>i. Idle.op = None /\ None \notin {"admin", "login", "change", "reauth"} /\ ~(Idle.op = "admin") /\ Idle.op # "login"
  BY DEF Idle
<1>b. ASSUME UNCHANGED <<account, link, links, lock, request>> PROVE Bounded'
  BY <1>b DEF Bounded, Locked
\* A request ends, or begins, and the account stays as it is.
<1>c. ASSUME NEW r \in Requests, UNCHANGED <<account, link, links>>, NEW x \in RequestRow,
             request' = [request EXCEPT ![r] = x],
             \A q \in Requests : lock' = q <=>
               IF q = r THEN x.op = "admin" \/ (x.op = "login" /\ x.row.method # "line") ELSE lock = q,
             x.op = "admin" => account.role <= MaxChanges,
             x.op = "change" => x.version <= account.version
                                /\ (x.version = account.version => account.email <= MaxChanges)
      PROVE  Bounded'
  BY <1>a, <1>c DEF Bounded, Locked
<1>d. ASSUME NEW r \in Requests, UNCHANGED <<account, link, links>>, Ends(r), Unlock(r) \/ (UNCHANGED lock /\ lock # r)
      PROVE  Bounded'
  BY <1>a, <1>d, <1>i, SessionRowFacts DEF Bounded, Locked, Ends, Unlock
<1>1. ASSUME NEW r \in Requests, NEW method \in {"email", "staff"}, CodeRead(r, method) PROVE Bounded'
  <2> DEFINE x == [Idle EXCEPT !.op = "login", !.row = NewSession(method)]
  <2>1. x \in RequestRow BY NewRow, SessionRowFacts DEF RequestRow
  <2>2. x.op = "login" /\ x.row.method # "line" BY NewRow DEF Idle
  <2> HIDE DEF x
  <2>3. QED BY <1>1, <1>c, <2>1, <2>2 DEF CodeRead, x
<1>2. ASSUME NEW r \in Requests, LineRead(r) PROVE Bounded'
  <2> DEFINE x == [Idle EXCEPT !.op = "login", !.row = NewSession("line")]
  <2>1. x \in RequestRow BY NewRow, SessionRowFacts DEF RequestRow
  <2>2. x.op = "login" /\ x.row.method = "line" BY NewRow DEF Idle
  <2>3. lock # r BY <1>2, <1>i DEF LineRead, Bounded, Locked
  <2> HIDE DEF x
  <2>4. QED BY <1>2, <1>c, <2>1, <2>2, <2>3 DEF LineRead, x
<1>3. ASSUME NEW r \in Requests, AdminRead(r) PROVE Bounded'
  <2> DEFINE x == [Idle EXCEPT !.op = "admin", !.seen = [s \in Live |-> session[s].version]]
  <2>1. x \in RequestRow
    <3>1. [s \in Live |-> session[s].version] \in Seen
      <4>1. Live \in SUBSET Sessions BY DEF Live
      <4>2. [s \in Live |-> session[s].version] \in [Live -> Nat] BY <4>1 DEF Types, Row
      <4> QED BY <4>1, <4>2 DEF Seen
    <3> QED BY <3>1, SessionRowFacts DEF RequestRow
  <2>2. x.op = "admin" BY DEF Idle
  <2> HIDE DEF x
  <2>3. QED BY <1>3, <1>c, <2>1, <2>2 DEF AdminRead, x
<1>4. ASSUME NEW r \in Requests, NEW status \in {"ACTIVE", "DISABLED"}, AdminCommit(r, status) PROVE Bounded'
  <2>1. CASE Untouched(r)
    <3>1. /\ account'.role = account.role + 1 /\ account'.email = account.email
          /\ account'.version = account.version + 1
      <4>1. account' = [account EXCEPT !.status = status, !.role = @ + 1, !.version = @ + 1]
        BY <1>4, <2>1 DEF AdminCommit
      <4> QED BY <1>a, <4>1 DEF AccountRow
    <3>2. request' = [q \in Requests |->
              IF q = r THEN Idle ELSE [request[q] EXCEPT !.row.overtaken = request[q].op = "login"]]
      BY <1>4, <2>1 DEF AdminCommit
    <3>3. \A q \in Requests : q # r =>
             /\ request'[q].op = request[q].op /\ request'[q].row.method = request[q].row.method
             /\ request'[q].version = request[q].version
      BY <1>a, <3>2 DEF RequestRow, Row
    <3>4. request'[r].op = None BY <1>i, <3>2
    <3>5. lock = r /\ lock' = None /\ UNCHANGED <<link, links>>
      BY <1>4 DEF AdminCommit, Unlock, Bounded, Locked
    <3>6. \A q \in Requests : q # r => ~Locked(q) BY <3>5 DEF Bounded
    <3>7. \A q \in Requests : ~Locked(q)' BY <1>i, <3>3, <3>4, <3>6 DEF Locked
    <3>8. account.role <= MaxChanges BY <1>4 DEF Bounded, AdminCommit
    <3>9. \A q \in Requests : request'[q].op = "change" => request'[q].version < account'.version
      BY <1>a, <1>i, <3>1, <3>3, <3>4 DEF Bounded, RequestRow, AccountRow
    <3>10. account'.role \in 1..MaxChanges + 1 /\ account'.email \in 1..MaxChanges + 1 /\ link' <= links'
      BY <3>1, <3>5, <3>8 DEF Bounded
    <3>11. \A q \in Requests : request'[q].op # "admin" BY <3>7 DEF Locked
    <3>12. \A q \in Requests : request'[q].op = "change" =>
             request'[q].version <= account'.version /\ request'[q].version # account'.version
      <4>1. account'.version \in Nat BY <1>a, <3>1 DEF AccountRow
      <4>2. \A q \in Requests : request'[q].version \in Nat \/ request'[q].op # "change"
        BY <1>a, <1>i, <3>3, <3>4 DEF RequestRow
      <4> QED BY <3>9, <4>1, <4>2
    <3> QED BY <3>5, <3>7, <3>10, <3>11, <3>12 DEF Bounded
  <2>2. CASE ~Untouched(r)
    BY <1>4, <1>d, <2>2 DEF AdminCommit
  <2> QED BY <2>1, <2>2
<1>5. ASSUME NEW r \in Requests, NEW s \in Sessions, LoginCommit(r, s) PROVE Bounded'
  BY <1>5, <1>d DEF LoginCommit
<1>6. ASSUME NEW r \in Requests, NEW s \in Sessions, NEW op \in {"reauth", "change"}, OwnRead(r, s, op) PROVE Bounded'
  <2> DEFINE x == [Idle EXCEPT !.op = op, !.session = s,
             !.version = IF op = "change" THEN account.version ELSE session[s].version, !.row = session[s]]
  <2>1. session[s] \in Row /\ account.version \in Nat /\ session[s].version \in Nat
    BY DEF Types, AccountRow, Row
  <2>2. x \in RequestRow BY <2>1, SessionRowFacts DEF RequestRow
  <2>3. x.op = op /\ (op = "change" => x.version = account.version) BY DEF Idle
  <2>4. op = "change" => account.email <= MaxChanges BY <1>6 DEF OwnRead
  <2>5. lock # r BY <1>6, <1>i DEF OwnRead, Bounded, Locked
  <2>6. request' = [request EXCEPT ![r] = x] /\ UNCHANGED <<account, link, links, lock>>
    BY <1>6 DEF OwnRead
  <2>7. account.version <= account.version BY <2>1
  <2> HIDE DEF x
  <2>8. \A q \in Requests : lock' = q <=>
           IF q = r THEN x.op = "admin" \/ (x.op = "login" /\ x.row.method # "line") ELSE lock = q
    BY <2>3, <2>5, <2>6
  <2>9. x.op # "admin" BY <2>3
  <2> QED BY <1>c, <2>2, <2>3, <2>4, <2>6, <2>7, <2>8, <2>9
<1>7. ASSUME NEW r \in Requests, NEW s \in Sessions, ChangeCommit(r, s) PROVE Bounded'
  <2>0. lock # r BY <1>7 DEF ChangeCommit
  <2>1. CASE account.version = request[r].version
    <3>1. /\ account'.role = account.role /\ account'.email = account.email + 1
          /\ account'.version = account.version + 1
      <4>1. account' = [account EXCEPT !.email = @ + 1, !.version = @ + 1]
        BY <1>7, <2>1 DEF ChangeCommit
      <4> QED BY <1>a, <4>1 DEF AccountRow
    <3>2. \A q \in Requests : request'[q] = IF q = r THEN Idle ELSE request[q]
      BY <1>7, <1>a DEF ChangeCommit, Ends
    <3>3. account.email <= MaxChanges /\ UNCHANGED <<link, links, lock>>
      BY <1>7, <2>1 DEF ChangeCommit, Bounded
    <3>4. account'.role \in 1..MaxChanges + 1 /\ account'.email \in 1..MaxChanges + 1 /\ link' <= links'
      BY <3>1, <3>3 DEF Bounded
    <3>5. \A q \in Requests : lock' = q <=> Locked(q)'
      BY <1>i, <2>0, <3>2, <3>3 DEF Bounded, Locked
    <3>6. \A q \in Requests : request'[q].op = "change" =>
             request'[q].version <= account'.version /\ request'[q].version # account'.version
      BY <1>a, <1>i, <3>1, <3>2 DEF Bounded, RequestRow, AccountRow
    <3>7. \A q \in Requests : request'[q].op = "admin" => account'.role <= MaxChanges
      BY <1>i, <3>1, <3>2 DEF Bounded
    <3> QED BY <3>4, <3>5, <3>6, <3>7 DEF Bounded
  <2>2. CASE account.version # request[r].version
    BY <1>7, <1>d, <2>0, <2>2 DEF ChangeCommit
  <2> QED BY <2>1, <2>2
<1>8. ASSUME NEW r \in Requests, ReauthCommit(r) PROVE Bounded'
  <2>1. lock # r BY <1>8 DEF ReauthCommit, Bounded, Locked
  <2> QED BY <1>8, <1>d, <2>1 DEF ReauthCommit
<1>9. CASE RevokeAll \/ (\E s \in Sessions : RevokeOne(s)) \/ UNCHANGED vars
  BY <1>9, <1>b DEF RevokeAll, RevokeOne, vars
<1>10. CASE Bind \/ Unlink
  <2>1. link' <= links' BY <1>10 DEF Bind, Unlink, Types
  <2> QED BY <1>10, <2>1 DEF Bind, Unlink, Bounded, Locked
<1> QED BY <1>1, <1>2, <1>3, <1>4, <1>5, <1>6, <1>7, <1>8, <1>9, <1>10 DEF Next

LEMMA BoundedInit == Init => Bounded
BY SessionsAssumption DEF Init, Bounded, Locked, Idle

LEMMA SessionsAreTyped == SessionsInv /\ Bounded => SessionsTypeOK
<1> SUFFICES ASSUME SessionsInv, Bounded PROVE SessionsTypeOK
  OBVIOUS
<1>1. link \in 0..links BY DEF SessionsInv, Types, Bounded
<1>2. \A s \in Sessions : session[s].method \in {None, "email", "staff", "line"}
  BY DEF SessionsInv, Types, Row
<1> QED BY <1>1, <1>2 DEF SessionsInv, Types, AccountRow, Older, Bounded, Locked, SessionsTypeOK

---------------------------------------------------------------------------
(* Idempotency records.                                                    *)

\* The part's cardinality is that of the theorems about finite sets.
LEMMA KeyedCardinality == \A S : Keyed!Cardinality(S) = Cardinality(S)
BY DEF Keyed!Cardinality, Cardinality

KeyRequest == [pc : {"idle", "look", "insert", "work", "answered"}, body : Contents \cup {None}, answer : {0, 1}]

\* The one effect a key has had, if it has had one.
EffectOf(b) == [n |-> 1, body |-> b]

KeysInv ==
  /\ keyed \in [Requests -> KeyRequest] /\ rules \in BOOLEAN
  /\ \A q \in Requests : keyed[q].pc = "work" <=> holder = q
  /\ \A q \in Requests : keyed[q].pc # "idle" => keyed[q].body \in Contents
  /\ holder # None => record = None
  /\ \/ record = None /\ effects = {}
     \/ record # None /\ \E b \in Contents : record = [body |-> b, effect |-> 1] /\ effects = {EffectOf(b)}
  /\ \A q \in Requests : keyed[q].pc = "answered" /\ keyed[q].answer # 0 => EffectOf(keyed[q].body) \in effects

LEMMA KeysInit == Keyed!Init => KeysInv
<1> SUFFICES ASSUME Keyed!Init PROVE KeysInv
  OBVIOUS
<1>1. keyed = [q \in Requests |-> Keyed!Idle] /\ Keyed!Idle \in KeyRequest /\ Keyed!Idle.pc = "idle"
  BY DEF Keyed!Init, Keyed!Idle, KeyRequest
<1>2. None \notin Requests
  BY RequestsAssumption DEF Keyed!IdempotencyAssumption
<1>3. QED
  BY <1>1, <1>2 DEF Keyed!Init, KeysInv

\* A request that looks, inserts or is refused changes itself and the holder only.
LEMMA KeysRequest ==
  ASSUME KeysInv, NEW q \in Requests, NEW s \in KeyRequest, keyed' = [keyed EXCEPT ![q] = s],
         UNCHANGED <<record, effects>>, rules' \in BOOLEAN, s.pc # "idle" => s.body \in Contents,
         s.pc = "answered" /\ s.answer # 0 => EffectOf(s.body) \in effects,
         holder' = IF s.pc = "work" THEN q ELSE IF holder = q THEN None ELSE holder,
         s.pc = "work" => record = None /\ holder = None
  PROVE  KeysInv'
BY RequestsAssumption DEF KeysInv, Keyed!IdempotencyAssumption

LEMMA KeysReplay ==
  ASSUME KeysInv, NEW q \in Requests, keyed[q].pc \in {"look", "insert"}, record # None, Keyed!Replay(q),
         UNCHANGED <<record, holder, effects, rules>>
  PROVE  KeysInv'
<1>1. PICK n, t, s : /\ n = (IF record.body = keyed[q].body THEN record.effect ELSE 0) /\ t = keyed[q]
                     /\ s = [t EXCEPT !.pc = "answered", !.answer = n]
  OBVIOUS
<1>2. n \in {0, 1} /\ (n # 0 => EffectOf(t.body) \in effects) /\ t \in KeyRequest /\ t.body \in Contents
  BY <1>1 DEF KeysInv, EffectOf
<1>3. s \in KeyRequest /\ s.pc = "answered" /\ s.answer = n /\ s.body = t.body
  BY <1>1, <1>2 DEF KeyRequest
<1>4. keyed' = [keyed EXCEPT ![q] = s]
  BY <1>1 DEF Keyed!Replay, Keyed!Answers
<1>5. holder # q
  BY DEF KeysInv
<1>6. QED
  BY <1>2, <1>3, <1>4, <1>5, KeysRequest DEF KeysInv

LEMMA KeysNext == KeysInv /\ [Keyed!Next]_keyVars => KeysInv'
<1> SUFFICES ASSUME KeysInv, [Keyed!Next]_keyVars PROVE KeysInv'
  OBVIOUS
<1>1. ASSUME NEW q \in Requests, NEW b \in Contents, Keyed!Send(q, b) PROVE KeysInv'
  <2>1. PICK s : s = [pc |-> "look", body |-> b, answer |-> 0]
    OBVIOUS
  <2>2. s \in KeyRequest /\ s.pc = "look" /\ s.body = b
    BY <2>1 DEF KeyRequest
  <2>3. keyed' = [keyed EXCEPT ![q] = s] /\ UNCHANGED <<record, holder, effects, rules>> /\ holder # q
    BY <1>1, <2>1 DEF Keyed!Send, KeysInv
  <2>4. QED
    BY <2>2, <2>3, KeysRequest DEF KeysInv
<1>2. ASSUME NEW q \in Requests, Keyed!Look(q) PROVE KeysInv'
  <2>1. CASE record # None
    BY <1>2, <2>1, KeysReplay DEF Keyed!Look
  <2>2. CASE record = None
    <3>1. PICK t, s : t = keyed[q] /\ s = [t EXCEPT !.pc = "insert"]
      OBVIOUS
    <3>2. t \in KeyRequest /\ t.body \in Contents
      BY <1>2, <3>1 DEF KeysInv, Keyed!Look
    <3>3. s \in KeyRequest /\ s.pc = "insert" /\ s.body = t.body
      BY <3>1, <3>2 DEF KeyRequest
    <3>4. keyed' = [keyed EXCEPT ![q] = s] /\ UNCHANGED <<record, holder, effects, rules>> /\ holder # q
      BY <1>2, <2>2, <3>1 DEF Keyed!Look, KeysInv
    <3>5. QED
      BY <3>2, <3>3, <3>4, KeysRequest DEF KeysInv
  <2>3. QED
    BY <2>1, <2>2
<1>3. ASSUME NEW q \in Requests, Keyed!Insert(q) PROVE KeysInv'
  <2>1. CASE record # None
    BY <1>3, <2>1, KeysReplay DEF Keyed!Insert
  <2>2. CASE record = None
    <3>1. PICK t, s : t = keyed[q] /\ s = [t EXCEPT !.pc = "work"]
      OBVIOUS
    <3>2. t \in KeyRequest /\ t.body \in Contents
      BY <1>3, <3>1 DEF KeysInv, Keyed!Insert
    <3>3. s \in KeyRequest /\ s.pc = "work" /\ s.body = t.body
      BY <3>1, <3>2 DEF KeyRequest
    <3>4. keyed' = [keyed EXCEPT ![q] = s] /\ holder = None /\ holder' = q /\ UNCHANGED <<record, effects, rules>>
      BY <1>3, <2>2, <3>1 DEF Keyed!Insert
    <3>5. QED
      BY <2>2, <3>2, <3>3, <3>4, KeysRequest DEF KeysInv
  <2>3. QED
    BY <2>1, <2>2
<1>4. ASSUME NEW q \in Requests, Keyed!Refuse(q) PROVE KeysInv'
  <2>1. PICK t, s : t = keyed[q] /\ s = [t EXCEPT !.pc = "answered", !.answer = 0]
    OBVIOUS
  <2>2. t \in KeyRequest /\ t.body \in Contents
    BY <1>4, <2>1 DEF KeysInv, Keyed!Refuse
  <2>3. s \in KeyRequest /\ s.pc = "answered" /\ s.answer = 0 /\ s.body = t.body
    BY <2>1, <2>2 DEF KeyRequest
  <2>4. keyed' = [keyed EXCEPT ![q] = s] /\ holder = q /\ holder' = None /\ UNCHANGED <<record, effects, rules>>
    BY <1>4, <2>1 DEF Keyed!Refuse, Keyed!Answers, KeysInv
  <2>5. QED
    BY <2>2, <2>3, <2>4, KeysRequest DEF KeysInv
<1>5. ASSUME NEW q \in Requests, Keyed!Finish(q) PROVE KeysInv'
  <2>1. holder = q /\ record = None /\ effects = {} /\ keyed[q] \in KeyRequest /\ keyed[q].body \in Contents
    <3>1. keyed[q].pc = "work" /\ holder = q
      BY <1>5 DEF KeysInv, Keyed!Finish
    <3>2. QED
      BY <3>1, RequestsAssumption DEF KeysInv, Keyed!IdempotencyAssumption
  <2>2. Cardinality({}) = 0
    BY FS_EmptySet
  <2>3. PICK t, s, b : t = keyed[q] /\ s = [t EXCEPT !.pc = "answered", !.answer = 1] /\ b = t.body
    OBVIOUS
  <2>4. s \in KeyRequest /\ s.pc = "answered" /\ s.body = b /\ b \in Contents
    BY <2>1, <2>3 DEF KeyRequest
  <2>5. /\ keyed' = [keyed EXCEPT ![q] = s] /\ holder' = None /\ UNCHANGED rules
        /\ effects' = {EffectOf(b)} /\ record' = [body |-> b, effect |-> 1]
    <3>1. PICK n : n = Keyed!Cardinality(effects) + 1
      OBVIOUS
    <3>2. n = 1
      BY <2>1, <2>2, <3>1, KeyedCardinality
    <3>3. /\ keyed' = [keyed EXCEPT ![q] = [keyed[q] EXCEPT !.pc = "answered", !.answer = n]]
          /\ holder' = None /\ UNCHANGED rules
          /\ effects' = effects \cup {[n |-> n, body |-> keyed[q].body]}
          /\ record' = [body |-> keyed[q].body, effect |-> n]
      BY <1>5, <3>1 DEF Keyed!Finish, Keyed!Answers
    <3>4. QED
      BY <2>1, <2>3, <3>2, <3>3 DEF EffectOf
  <2>6. record' # None
    <3>1. [body |-> b, effect |-> 1] \in [body : Contents, effect : Nat]
      BY <2>4
    <3>2. QED
      BY <2>5, <3>1, RequestsAssumption DEF Keyed!IdempotencyAssumption
  <2>7. \A p \in Requests : p # q => keyed[p].pc # "work" /\ ~(keyed[p].pc = "answered" /\ keyed[p].answer # 0)
    BY <2>1 DEF KeysInv
  <2>8. QED
    BY <2>1, <2>4, <2>5, <2>6, <2>7, RequestsAssumption DEF KeysInv, Keyed!IdempotencyAssumption
<1>6. ASSUME NEW q \in Requests, Keyed!Die(q) PROVE KeysInv'
  <2>1. Keyed!Idle \in KeyRequest /\ Keyed!Idle.pc = "idle"
    BY DEF Keyed!Idle, KeyRequest
  <2>2. PICK s : s = Keyed!Idle
    OBVIOUS
  <2>3. QED
    BY <1>6, <2>1, <2>2, KeysRequest DEF Keyed!Die, KeysInv
<1>7. CASE Keyed!RulesChange
  BY <1>7 DEF Keyed!RulesChange, KeysInv
<1>8. CASE UNCHANGED keyVars
  BY <1>8 DEF keyVars, KeysInv
<1>9. QED
  BY <1>1, <1>2, <1>3, <1>4, <1>5, <1>6, <1>7, <1>8 DEF Keyed!Next, Keyed!Step

LEMMA KeysAgree == KeysInv => Keyed!OneEffect /\ Keyed!AnswersAgree
<1> SUFFICES ASSUME KeysInv PROVE Keyed!OneEffect /\ Keyed!AnswersAgree
  OBVIOUS
<1>1. Keyed!OneEffect
  <2>1. CASE record = None /\ effects = {}
    BY <2>1, FS_EmptySet, KeyedCardinality DEF Keyed!OneEffect
  <2>2. ASSUME NEW b \in Contents, record # None, effects = {EffectOf(b)} PROVE Keyed!OneEffect
    <3>1. Keyed!Cardinality(effects) = 1 /\ effects # {}
      BY <2>2, FS_Singleton, KeyedCardinality
    <3>2. QED
      BY <2>2, <3>1 DEF Keyed!OneEffect
  <2>3. QED
    BY <2>1, <2>2 DEF KeysInv
<1>2. Keyed!AnswersAgree
  BY DEF KeysInv, KeyRequest, Keyed!AnswersAgree, EffectOf
<1>3. QED
  BY <1>1, <1>2

LEMMA KeysTyped == ASSUME KeysInv PROVE Keyed!IdempotencyTypeOK
BY DEF KeysInv, Keyed!IdempotencyTypeOK

---------------------------------------------------------------------------
(* Roles.                                                                  *)

\* Every high privilege there is lies within one that was given from outside.
RolesInv ==
  /\ grants \subseteq Granted!Grants /\ first \subseteq Granted!Grants
  /\ \A g \in grants : Granted!IsProtected(g) => \E old \in first : Granted!Within(g, old)

LEMMA GrantFacts ==
  ASSUME NEW g \in Granted!Grants
  PROVE  /\ g.scope \in Granted!Scopes /\ g.until \in Int /\ Granted!Within(g, g)
         /\ \/ g.scope = <<"GLOBAL">> /\ g.scope[1] = "GLOBAL"
            \/ g.scope = <<"SCHEME", g.scope[2]>> /\ g.scope[1] = "SCHEME"
            \/ g.scope = <<"CASE", g.scope[2]>> /\ g.scope[1] = "CASE"
<1>1. g.scope \in Granted!Scopes /\ g.until \in Int
  BY RequestsAssumption DEF Granted!Grants, Granted!Forever, Granted!RolesAssumption
<1>2. Granted!Within(g, g)
  BY <1>1 DEF Granted!Within
<1>3. QED
  BY <1>1, <1>2 DEF Granted!Scopes

LEMMA WithinIsTransitive ==
  ASSUME NEW g \in Granted!Grants, NEW h \in Granted!Grants, NEW k \in Granted!Grants,
         Granted!Within(g, h), Granted!Within(h, k)
  PROVE  Granted!Within(g, k)
<1>1. g.role = k.role /\ g.until <= k.until
  BY GrantFacts DEF Granted!Within
<1>2. k.scope = <<"GLOBAL">> \/ k.scope = h.scope \/ (k.scope[1] = "SCHEME" /\ h.scope[1] = "CASE")
  BY DEF Granted!Within
<1>3. CASE k.scope[1] = "SCHEME" /\ h.scope[1] = "CASE"
  <2>1. h.scope = g.scope
    BY <1>3, GrantFacts DEF Granted!Within
  <2>2. QED
    BY <1>1, <1>3, <2>1, GrantFacts DEF Granted!Within
<1>4. QED
  BY <1>1, <1>2, <1>3 DEF Granted!Within

LEMMA ProtectedWithin ==
  ASSUME NEW g \in Granted!Grants, NEW h \in Granted!Grants, Granted!Within(g, h), Granted!IsProtected(g)
  PROVE  Granted!IsProtected(h)
BY GrantFacts DEF Granted!Within, Granted!IsProtected

LEMMA RolesInit == Granted!Init => RolesInv
BY GrantFacts DEF Granted!Init, RolesInv

LEMMA RolesNext == RolesInv /\ [Granted!Next]_roleVars => RolesInv'
<1> SUFFICES ASSUME RolesInv, [Granted!Next]_roleVars PROVE RolesInv'
  OBVIOUS
<1>1. CASE Granted!Tick
  BY <1>1 DEF Granted!Tick, RolesInv
<1>2. ASSUME NEW new \in SUBSET {g \in Granted!Grants : Granted!Allowed(g)}, Granted!ChangeRoles(new)
      PROVE  RolesInv'
  <2>1. grants' \subseteq grants \cup new /\ first' = first
    BY <1>2 DEF Granted!ChangeRoles
  <2>2. ASSUME NEW g \in new, Granted!IsProtected(g) PROVE \E old \in first : Granted!Within(g, old)
    <3>1. PICK h \in grants : Granted!Within(g, h)
      BY <1>2, <2>2 DEF Granted!Allowed, Granted!InForce
    <3>2. PICK old \in first : Granted!Within(h, old)
      BY <2>2, <3>1, ProtectedWithin DEF RolesInv
    <3>3. QED
      BY <3>1, <3>2, WithinIsTransitive DEF RolesInv
  <2>3. QED
    BY <2>1, <2>2 DEF RolesInv
<1>3. CASE UNCHANGED roleVars
  BY <1>3 DEF roleVars, RolesInv
<1>4. QED
  BY <1>1, <1>2, <1>3 DEF Granted!Next

LEMMA RolesNarrow == RolesInv => Granted!AuthorityOnlyNarrows
<1> SUFFICES ASSUME RolesInv PROVE Granted!AuthorityOnlyNarrows
  OBVIOUS
<1>1. ASSUME NEW role \in Roles \cap Granted!Protected, NEW c \in GrantCases, NEW t \in now..MaxTime,
             Granted!Gives(grants, role, c, t)
      PROVE  Granted!Gives(first, role, c, t)
  <2>1. PICK g \in grants :
          /\ g.role = role /\ g.until > t
          /\ g.scope = <<"GLOBAL">> \/ g.scope = <<"SCHEME", SchemeOf[c]>> \/ g.scope = <<"CASE", c>>
    BY <1>1 DEF Granted!Gives
  <2>2. PICK old \in first : Granted!Within(g, old)
    BY <2>1 DEF RolesInv, Granted!IsProtected
  <2>3. g \in Granted!Grants /\ old \in Granted!Grants
    BY DEF RolesInv
  <2>4. old.role = role /\ old.until > t
    BY <2>1, <2>2, <2>3, GrantFacts DEF Granted!Within
  <2>5. old.scope = <<"GLOBAL">> \/ old.scope = <<"SCHEME", SchemeOf[c]>> \/ old.scope = <<"CASE", c>>
    <3>1. CASE old.scope[1] = "SCHEME" /\ g.scope[1] = "CASE" /\ SchemeOf[g.scope[2]] = old.scope[2]
      <4>1. g.scope = <<"CASE", c>>
        BY <2>1, <2>3, <3>1, GrantFacts
      <4>2. QED
        BY <2>3, <3>1, <4>1, GrantFacts
    <3>2. QED
      BY <2>1, <2>2, <3>1 DEF Granted!Within
  <2>6. QED
    BY <2>4, <2>5 DEF Granted!Gives
<1>2. ASSUME NEW g \in Granted!InForce(grants), Granted!IsProtected(g)
      PROVE  \E old \in first : Granted!Within(g, old)
  BY <1>2 DEF RolesInv, Granted!InForce
<1>3. QED
  BY <1>1, <1>2 DEF Granted!AuthorityOnlyNarrows
LEMMA GrantedCardinality == \A S : Granted!Cardinality(S) = Cardinality(S) /\ (Granted!IsFiniteSet(S) <=> IsFiniteSet(S))
BY DEF Granted!Cardinality, Cardinality, Granted!IsFiniteSet, IsFiniteSet

\* A list of which some have run out is a list.
LEMMA StillWellFormed ==
  ASSUME NEW old, NEW new \in SUBSET old, Granted!WellFormed(old) PROVE Granted!WellFormed(new)
<1>1. IsFiniteSet(old) /\ Cardinality(old) <= MaxGrants BY GrantedCardinality DEF Granted!WellFormed
<1>2. /\ IsFiniteSet(new) /\ Cardinality(new) <= Cardinality(old)
      /\ Cardinality(new) \in Nat /\ Cardinality(old) \in Nat
  BY <1>1, FS_Subset, FS_CardinalityType
<1>3. Cardinality(new) <= MaxGrants BY <1>1, <1>2, RequestsAssumption DEF Granted!RolesAssumption
<1>4. Granted!IsFiniteSet(new) /\ Granted!Cardinality(new) <= MaxGrants BY <1>2, <1>3, GrantedCardinality
<1>5. \A g \in new : g \in old OBVIOUS
<1> QED BY <1>4, <1>5 DEF Granted!WellFormed

LEMMA RolesTypedInit == ASSUME Granted!Init PROVE Granted!RolesTypeOK
<1>1. Granted!WellFormed(grants) /\ grants \subseteq Granted!Grants BY DEF Granted!Init
<1>2. Granted!WellFormed(Granted!InForce(grants)) BY <1>1, StillWellFormed DEF Granted!InForce
<1>3. now \in 0..MaxTime BY RequestsAssumption DEF Granted!Init, Granted!RolesAssumption
<1>4. \A g \in grants : g.role # "applicant" => enrolled BY DEF Granted!Init
<1>5. \A g \in grants : Granted!Global(g.role) => g.scope = <<"GLOBAL">> BY <1>1 DEF Granted!WellFormed
<1> QED BY <1>1, <1>2, <1>3, <1>4, <1>5 DEF Granted!RolesTypeOK

LEMMA RolesTypedNext == ASSUME Granted!RolesTypeOK, [Granted!Next]_roleVars PROVE Granted!RolesTypeOK'
<1>0. now \in Nat /\ MaxTime \in Nat /\ \A g \in Granted!Grants : g.until \in Nat
  BY RequestsAssumption DEF Granted!RolesTypeOK, Granted!Grants, Granted!Forever, Granted!RolesAssumption
<1>1. CASE Granted!Tick
  <2>1. now' = now + 1 /\ now < MaxTime /\ UNCHANGED <<enrolled, grants>> BY <1>1 DEF Granted!Tick
  <2>2. Granted!InForce(grants)' \subseteq Granted!InForce(grants)
    BY <1>0, <2>1 DEF Granted!InForce, Granted!RolesTypeOK
  <2>3. PICK old : old = Granted!InForce(grants) OBVIOUS
  <2>4. PICK new : new = Granted!InForce(grants)' OBVIOUS
  <2>5. Granted!WellFormed(new) BY <2>2, <2>3, <2>4, StillWellFormed DEF Granted!RolesTypeOK
  <2>6. Granted!WellFormed(Granted!InForce(grants))' BY <2>4, <2>5 DEF Granted!WellFormed
  <2> QED BY <1>0, <2>1, <2>6 DEF Granted!RolesTypeOK
<1>2. ASSUME NEW new \in SUBSET {g \in Granted!Grants : Granted!Allowed(g)}, Granted!ChangeRoles(new)
      PROVE  Granted!RolesTypeOK'
  <2>1. /\ grants' = (grants \ Granted!InForce(grants)) \cup new /\ UNCHANGED <<now, enrolled>>
        /\ Granted!WellFormed(new)
    BY <1>2 DEF Granted!ChangeRoles
  <2>2. \A g \in new : g.until > now /\ (g.role # "applicant" => enrolled) BY DEF Granted!Allowed
  <2>3. Granted!InForce(grants)' = new BY <2>1, <2>2 DEF Granted!InForce
  <2>4. Granted!WellFormed(Granted!InForce(grants))' BY <2>1, <2>3 DEF Granted!WellFormed
  <2>5. \A g \in new : Granted!Global(g.role) => g.scope = <<"GLOBAL">> BY <2>1 DEF Granted!WellFormed
  <2> QED BY <2>1, <2>2, <2>4, <2>5 DEF Granted!RolesTypeOK
<1>3. CASE UNCHANGED roleVars
  <2>1. UNCHANGED <<now, enrolled, grants>> BY <1>3 DEF roleVars
  <2> QED BY <2>1 DEF Granted!RolesTypeOK, Granted!InForce, Granted!WellFormed
<1> QED BY <1>1, <1>2, <1>3 DEF Granted!Next

---------------------------------------------------------------------------
(* Claims.                                                                 *)

Access == [case : ClaimCases \cup {None}, account : Accounts \cup {None}]
Claim == [by : Accounts \cup {None}, status : {None, "PENDING", "APPROVED", "REJECTED"},
          case : ClaimCases \cup {None}, version : {0, 1, 2}]
Review == [pc : {"idle", "case", "claim", "look", "write"}, claim : Claiming!Claims \cup {0},
           case : ClaimCases \cup {None}, seen : {0, 1, 2}, approve : BOOLEAN, found : BOOLEAN]

ClaimTypes ==
  /\ claim \in [Claiming!Claims -> Claim] /\ owner \in [Claiming!Rows -> Access]
  /\ asking \in [Handlers -> Accounts \cup {None}]
  /\ review \in [Requests -> Review] /\ claimLock \in [Claiming!Rows -> Requests \cup {None}]

\* Claims are made in their order; the version says how far one has come.
ClaimRows ==
  /\ \E n \in 0..NClaims : Claiming!Made = 1..n
  /\ \A c \in Claiming!Claims :
       /\ claim[c].version > 0 => claim[c].by \in Accounts
       /\ claim[c].version = 1 <=> claim[c].status = "PENDING"
       /\ claim[c].status \in {"APPROVED", "REJECTED"} => claim[c].version = 2

\* A request that has come so far holds the case, then the claim, which is still open;
\* what it has found out about the case's owners is still so.
Reviewing ==
  \A s \in Requests :
    LET v == review[s] IN
    /\ v.pc # "idle" => v.claim \in Claiming!Claims /\ v.case \in ClaimCases /\ v.seen > 0
    /\ v.pc \in {"claim", "look", "write"} => claimLock[<<"case", v.case>>] = s
    /\ v.pc \in {"look", "write"} => claimLock[<<"claim", v.claim>>] = s /\ claim[v.claim].version = 1
    /\ v.pc = "write" => (v.found <=> Claiming!Owns(claim[v.claim].by, v.case))

\* Who owns a case created it or had a claim of it approved, and is down for it once.
Owning ==
  /\ \A k \in ClaimCases : owner[<<"case", k>>] = [case |-> k, account |-> Creator[k]]
  /\ \A c \in Claiming!Claims :
       \/ owner[<<"claim", c>>] = Claiming!NoAccess
       \/ /\ claim[c].status = "APPROVED" /\ claim[c].case \in ClaimCases
          /\ owner[<<"claim", c>>] = [case |-> claim[c].case, account |-> claim[c].by]
  /\ \A c \in Claiming!Claims : claim[c].status = "APPROVED" => Claiming!Owns(claim[c].by, claim[c].case)
  /\ Claiming!OwnedOnce

ClaimsInv == ClaimTypes /\ ClaimRows /\ Reviewing /\ Owning

\* The part's cardinality is that of the theorems about finite sets.
LEMMA ClaimingCardinality == \A S : Claiming!Cardinality(S) = Cardinality(S)
BY DEF Claiming!Cardinality, Cardinality

LEMMA ClaimConstants ==
  /\ None \notin Accounts /\ None \notin ClaimCases /\ None \notin Requests /\ NClaims \in Nat
  /\ None # "PENDING" /\ None # "APPROVED" /\ None # "REJECTED"
  /\ \A k \in ClaimCases : Creator[k] \in Accounts
BY RequestsAssumption DEF Claiming!ClaimsAssumption

LEMMA RowFacts ==
  /\ \A k \in ClaimCases : <<"case", k>> \in Claiming!Rows
  /\ \A c \in Claiming!Claims : <<"claim", c>> \in Claiming!Rows
  /\ \A k, c : <<"case", k>> # <<"claim", c>>
  /\ \A r \in Claiming!Rows : (\E k \in ClaimCases : r = <<"case", k>>) \/ (\E c \in Claiming!Claims : r = <<"claim", c>>)
BY DEF Claiming!Rows

\* What a request that has come as far as v rests on.
Founded(s, v) ==
  /\ v.pc # "idle" => v.claim \in Claiming!Claims /\ v.case \in ClaimCases /\ v.seen > 0
  /\ v.pc \in {"claim", "look", "write"} => claimLock[<<"case", v.case>>] = s
  /\ v.pc \in {"look", "write"} => claimLock[<<"claim", v.claim>>] = s /\ claim[v.claim].version = 1
  /\ v.pc = "write" => (v.found <=> Claiming!Owns(claim[v.claim].by, v.case))

LEMMA ReviewingIsFounded == Reviewing <=> \A s \in Requests : Founded(s, review[s])
BY DEF Reviewing, Founded

\* A step of one request that takes free rows or leaves its own.
LEMMA ReviewStep ==
  ASSUME ClaimsInv, NEW s \in Requests, NEW v \in Review, review' = [review EXCEPT ![s] = v],
         UNCHANGED <<claim, owner, asking>>, claimLock' \in [Claiming!Rows -> Requests \cup {None}],
         \A r \in Claiming!Rows : claimLock[r] \in {None, s} \/ claimLock'[r] = claimLock[r],
         Founded(s, v)'
  PROVE  ClaimsInv'
<1>1. ClaimTypes' /\ ClaimRows' /\ Owning'
  BY DEF ClaimsInv, ClaimTypes, ClaimRows, Owning, Claiming!Made, Claiming!Owns, Claiming!OwnedOnce
<1>2. ASSUME NEW t \in Requests, t # s PROVE Founded(t, review[t])'
  <2>1. PICK u : u = review[t]
    OBVIOUS
  <2>2. Founded(t, u) /\ review'[t] = u
    BY <1>2, <2>1, ReviewingIsFounded DEF ClaimsInv, ClaimTypes
  <2>3. \A r \in Claiming!Rows : claimLock[r] = t => claimLock'[r] = t
    BY <1>2, ClaimConstants
  <2>4. \A a, k : Claiming!Owns(a, k)' <=> Claiming!Owns(a, k)
    BY DEF Claiming!Owns
  <2>5. Founded(t, u)'
    BY <2>2, <2>3, <2>4, RowFacts DEF Founded
  <2>6. QED
    BY <2>2, <2>5 DEF Founded
<1>3. Founded(s, review[s])'
  BY DEF Founded, ClaimsInv, ClaimTypes
<1>4. QED
  BY <1>1, <1>2, <1>3, ReviewingIsFounded DEF ClaimsInv, Reviewing, Founded

LEMMA ClaimsInit == Claiming!Init => ClaimsInv
<1> SUFFICES ASSUME Claiming!Init PROVE ClaimsInv
  OBVIOUS
<1>1. /\ \A c \in Claiming!Claims : claim[c] = [by |-> None, status |-> None, case |-> None, version |-> 0]
      /\ \A s \in Requests : review[s] = Claiming!Idle
  BY DEF Claiming!Init
<1>2. /\ \A k \in ClaimCases : owner[<<"case", k>>] = [case |-> k, account |-> Creator[k]]
      /\ \A c \in Claiming!Claims : owner[<<"claim", c>>] = Claiming!NoAccess
  BY RowFacts DEF Claiming!Init
<1>3. ClaimTypes
  <2>1. Claiming!Idle \in Review
    BY DEF Claiming!Idle, Review
  <2>2. \A r \in Claiming!Rows : owner[r] \in Access
    <3>1. Claiming!NoAccess \in Access /\ \A k \in ClaimCases : [case |-> k, account |-> Creator[k]] \in Access
      BY ClaimConstants DEF Access, Claiming!NoAccess
    <3>2. QED
      BY <1>2, <3>1, RowFacts
  <2>3. [by |-> None, status |-> None, case |-> None, version |-> 0] \in Claim
    BY DEF Claim
  <2>4. QED
    BY <2>1, <2>2, <2>3 DEF Claiming!Init, ClaimTypes
<1>4. ClaimRows
  <2>1. Claiming!Made = 1..0 /\ 0 \in 0..NClaims
    BY <1>1, ClaimConstants DEF Claiming!Made
  <2>2. QED
    BY <1>1, <2>1, ClaimConstants DEF ClaimRows
<1>5. Reviewing
  BY <1>1 DEF Reviewing, Claiming!Idle
<1>6. Owning
  <2>1. Claiming!OwnedOnce
    <3>1. \A k \in ClaimCases : owner[<<"case", k>>].case = k
      <4>1. \A k, a : [case |-> k, account |-> a].case = k
        OBVIOUS
      <4>2. TAKE k \in ClaimCases
      <4>3. owner[<<"case", k>>] = [case |-> k, account |-> Creator[k]]
        BY <1>2
      <4>4. QED
        BY <4>1, <4>3
    <3>2. \A r \in Claiming!Rows : owner[r] # Claiming!NoAccess => \E k \in ClaimCases : r = <<"case", k>>
      BY <1>2, RowFacts
    <3>3. QED
      BY <3>1, <3>2 DEF Claiming!OwnedOnce
  <2>2. QED
    BY <1>1, <1>2, <2>1, ClaimConstants DEF Owning
<1>7. QED
  BY <1>3, <1>4, <1>5, <1>6 DEF ClaimsInv

LEMMA ClaimsInsert ==
  ASSUME ClaimsInv, NEW h \in Handlers, Claiming!Insert(h) PROVE ClaimsInv'
<1>1. PICK n \in 0..NClaims : Claiming!Made = 1..n
  BY DEF ClaimsInv, ClaimRows
<1>2. Claiming!Cardinality(Claiming!Made) = n
  BY <1>1, ClaimingCardinality, ClaimConstants, FS_Interval
<1> DEFINE c == n + 1
<1>3. PICK new : new = [by |-> asking[h], status |-> "PENDING", case |-> None, version |-> 1]
  OBVIOUS
<1>4. /\ new \in Claim /\ new.by \in Accounts /\ new.status = "PENDING" /\ new.version = 1
      /\ asking[h] # None
  <2>1. asking[h] \in Accounts
    BY DEF Claiming!Insert, ClaimsInv, ClaimTypes
  <2>2. QED
    BY <1>3, <2>1, ClaimConstants DEF Claim
<1>5. c \in Claiming!Claims /\ claim[c].version = 0 /\ claim[c].status \notin {"PENDING", "APPROVED"}
  <2>1. c \in Claiming!Claims /\ c \notin Claiming!Made
    BY <1>1, <1>2, ClaimConstants DEF Claiming!Insert, Claiming!Claims
  <2>2. claim[c].version \in {0, 1, 2}
    BY <2>1 DEF ClaimsInv, ClaimTypes, Claim
  <2>3. QED
    BY <2>1, <2>2 DEF Claiming!Made, ClaimsInv, ClaimRows
<1>6. /\ claim' = [claim EXCEPT ![c] = new] /\ asking' = [asking EXCEPT ![h] = None]
      /\ UNCHANGED <<owner, review, claimLock>>
  BY <1>2, <1>3 DEF Claiming!Insert
<1>7. claim'[c] = new /\ \A d \in Claiming!Claims : d # c => claim'[d] = claim[d]
  BY <1>5, <1>6 DEF ClaimsInv, ClaimTypes
<1>8. ClaimTypes'
  BY <1>4, <1>5, <1>6 DEF ClaimsInv, ClaimTypes
<1>9. ClaimRows'
  <2>1. Claiming!Made' = 1..c /\ c \in 0..NClaims
    <3>1. \A d \in Claiming!Claims : d \in Claiming!Made' <=> d \in Claiming!Made \/ d = c
      BY <1>4, <1>7 DEF Claiming!Made
    <3>2. \A d : d \in Claiming!Made \/ d \in Claiming!Made' => d \in Claiming!Claims
      BY DEF Claiming!Made
    <3>3. n \in Nat /\ c \in 0..NClaims /\ \A d : d \in 1..c <=> d \in 1..n \/ d = c
      BY <1>5, ClaimConstants DEF Claiming!Claims
    <3>4. \A d : d \in Claiming!Made' <=> d \in Claiming!Made \/ d = c
      BY <1>5, <3>1, <3>2
    <3>5. QED
      BY <1>1, <3>3, <3>4
  <2>2. \A d \in Claiming!Claims :
       /\ claim'[d].version > 0 => claim'[d].by \in Accounts
       /\ claim'[d].version = 1 <=> claim'[d].status = "PENDING"
       /\ claim'[d].status \in {"APPROVED", "REJECTED"} => claim'[d].version = 2
    BY <1>4, <1>7 DEF ClaimsInv, ClaimRows
  <2>3. QED
    BY <2>1, <2>2 DEF ClaimRows
<1>10. \A a, k : Claiming!Owns(a, k)' <=> Claiming!Owns(a, k)
  BY <1>6 DEF Claiming!Owns
<1>11. \A s \in Requests : Founded(s, review[s])'
  <2>1. TAKE s \in Requests
  <2>2. PICK v : v = review[s]
    OBVIOUS
  <2>3. Founded(s, v) /\ review'[s] = v
    BY <1>6, <2>2, ReviewingIsFounded DEF ClaimsInv
  <2>4. v.pc \in {"look", "write"} => v.claim \in Claiming!Claims /\ v.claim # c
    BY <1>5, <2>3 DEF Founded
  <2>5. Founded(s, v)'
    BY <1>6, <1>7, <1>10, <2>3, <2>4 DEF Founded
  <2>6. QED
    BY <2>3, <2>5 DEF Founded
<1>12. Owning'
  <2>1. Claiming!OwnedOnce'
    BY <1>6 DEF ClaimsInv, Owning, Claiming!OwnedOnce
  <2>2. \A k \in ClaimCases : owner'[<<"case", k>>] = [case |-> k, account |-> Creator[k]]
    BY <1>6 DEF ClaimsInv, Owning
  <2>3. ASSUME NEW d \in Claiming!Claims
        PROVE  /\ \/ owner'[<<"claim", d>>] = Claiming!NoAccess
                  \/ /\ claim'[d].status = "APPROVED" /\ claim'[d].case \in ClaimCases
                     /\ owner'[<<"claim", d>>] = [case |-> claim'[d].case, account |-> claim'[d].by]
               /\ (claim[d].status = "APPROVED" => Claiming!Owns(claim[d].by, claim[d].case))'
    <3>1. CASE d = c
      BY <1>4, <1>5, <1>6, <1>7, <3>1 DEF ClaimsInv, Owning
    <3>2. CASE d # c
      <4>1. claim'[d] = claim[d]
        BY <1>7, <3>2
      <4>2. QED
        BY <1>6, <1>10, <4>1 DEF ClaimsInv, Owning
    <3>3. QED
      BY <3>1, <3>2
  <2>4. QED
    BY <2>1, <2>2, <2>3 DEF Owning
<1>13. QED
  BY <1>8, <1>9, <1>11, <1>12, ReviewingIsFounded DEF ClaimsInv, Reviewing, Founded

LEMMA ClaimsCount ==
  ASSUME ClaimsInv, NEW h \in Handlers, NEW a \in Accounts, Claiming!Count(h, a) PROVE ClaimsInv'
<1>1. ClaimTypes'
  BY DEF ClaimsInv, ClaimTypes, Claiming!Count
<1>2. ClaimRows' /\ Reviewing' /\ Owning'
  BY DEF ClaimsInv, ClaimRows, Reviewing, Owning, Claiming!Count, Claiming!Made, Claiming!Owns, Claiming!OwnedOnce
<1>3. QED
  BY <1>1, <1>2 DEF ClaimsInv

\* What a request holds and what its rows are while it works.
LEMMA ReviewFacts ==
  ASSUME ClaimsInv, NEW s \in Requests
  PROVE  /\ review[s] \in Review /\ Founded(s, review[s])
         /\ review[s].pc # "idle" =>
              /\ review[s].claim \in Claiming!Claims /\ review[s].case \in ClaimCases
              /\ <<"case", review[s].case>> \in Claiming!Rows /\ <<"claim", review[s].claim>> \in Claiming!Rows
BY ReviewingIsFounded, RowFacts DEF ClaimsInv, ClaimTypes, Founded

LEMMA ClaimsSend ==
  ASSUME ClaimsInv, NEW s \in Requests, NEW c \in Claiming!Claims, NEW k \in ClaimCases, NEW approve \in BOOLEAN,
         Claiming!Send(s, c, k, approve)
  PROVE  ClaimsInv'
<1>1. PICK n : n = claim[c].version
  OBVIOUS
<1>2. n \in {1, 2}
  BY <1>1 DEF Claiming!Send, Claiming!Made, ClaimsInv, ClaimTypes, Claim
<1>3. PICK v : v = [pc |-> "case", claim |-> c, case |-> k, seen |-> n, approve |-> approve, found |-> FALSE]
  OBVIOUS
<1>4. v \in Review
  BY <1>2, <1>3 DEF Review
<1>5. v.pc = "case" /\ v.claim = c /\ v.case = k /\ v.seen = n
  BY <1>3
<1>6. review' = [review EXCEPT ![s] = v] /\ UNCHANGED <<claim, owner, asking, claimLock>>
  BY <1>1, <1>3 DEF Claiming!Send
<1>7. Founded(s, v)'
  BY <1>2, <1>5 DEF Founded
<1>8. QED
  BY <1>4, <1>6, <1>7, ReviewStep DEF ClaimsInv, ClaimTypes

\* A step that ends a request leaves the rows of the others to them.
LEMMA ClaimsEnds ==
  ASSUME ClaimsInv, NEW s \in Requests, Claiming!Ends(s)
  PROVE  /\ Claiming!Idle \in Review /\ Founded(s, Claiming!Idle)'
         /\ review' = [review EXCEPT ![s] = Claiming!Idle]
         /\ claimLock' \in [Claiming!Rows -> Requests \cup {None}]
         /\ \A r \in Claiming!Rows : claimLock[r] \in {None, s} \/ claimLock'[r] = claimLock[r]
<1>1. Claiming!Idle \in Review /\ Claiming!Idle.pc = "idle"
  BY DEF Review, Claiming!Idle
<1>2. claimLock' = [r \in Claiming!Rows |-> IF claimLock[r] = s THEN None ELSE claimLock[r]]
  BY DEF Claiming!Ends, Claiming!Released
<1>3. claimLock' \in [Claiming!Rows -> Requests \cup {None}]
  BY <1>2 DEF ClaimsInv, ClaimTypes
<1>4. \A r \in Claiming!Rows : claimLock[r] \in {None, s} \/ claimLock'[r] = claimLock[r]
  BY <1>2
<1>5. Founded(s, Claiming!Idle)'
  BY <1>1 DEF Founded
<1>6. QED
  BY <1>1, <1>3, <1>4, <1>5 DEF Claiming!Ends

LEMMA ClaimsCaseFor ==
  ASSUME ClaimsInv, NEW s \in Requests, Claiming!CaseFor(s) PROVE ClaimsInv'
<1>1. PICK old : old = review[s]
  OBVIOUS
<1>2. old \in Review /\ old.pc = "case" /\ Founded(s, old) /\ <<"case", old.case>> \in Claiming!Rows
  BY <1>1, ReviewFacts DEF Claiming!CaseFor
<1>3. PICK v : v = [old EXCEPT !.pc = "claim"]
  OBVIOUS
<1>4. v \in Review /\ v.pc = "claim" /\ v.claim = old.claim /\ v.case = old.case /\ v.seen = old.seen
  BY <1>2, <1>3 DEF Review
<1>5. /\ review' = [review EXCEPT ![s] = v] /\ claimLock' = [claimLock EXCEPT ![<<"case", old.case>>] = s]
      /\ claimLock[<<"case", old.case>>] = None /\ UNCHANGED <<claim, owner, asking>>
  BY <1>1, <1>3 DEF Claiming!CaseFor
<1>6. claimLock' \in [Claiming!Rows -> Requests \cup {None}] /\ claimLock'[<<"case", old.case>>] = s
  BY <1>2, <1>5 DEF ClaimsInv, ClaimTypes
<1>7. \A r \in Claiming!Rows : claimLock[r] \in {None, s} \/ claimLock'[r] = claimLock[r]
  BY <1>2, <1>5 DEF ClaimsInv, ClaimTypes
<1>8. Founded(s, v)'
  BY <1>2, <1>4, <1>6 DEF Founded
<1>9. QED
  BY <1>4, <1>5, <1>6, <1>7, <1>8, ReviewStep

LEMMA ClaimsLockClaim ==
  ASSUME ClaimsInv, NEW s \in Requests, Claiming!LockClaim(s) PROVE ClaimsInv'
<1>1. PICK old : old = review[s]
  OBVIOUS
<1>2. /\ old \in Review /\ old.pc = "claim" /\ Founded(s, old) /\ old.claim \in Claiming!Claims
      /\ <<"claim", old.claim>> \in Claiming!Rows
  BY <1>1, ReviewFacts DEF Claiming!LockClaim
<1>3. PICK v : v = [old EXCEPT !.pc = "look"]
  OBVIOUS
<1>4. v \in Review /\ v.pc = "look" /\ v.claim = old.claim /\ v.case = old.case /\ v.seen = old.seen
  BY <1>2, <1>3 DEF Review
<1>5. /\ review' = [review EXCEPT ![s] = v] /\ claimLock' = [claimLock EXCEPT ![<<"claim", old.claim>>] = s]
      /\ claimLock[<<"claim", old.claim>>] = None /\ claim[old.claim].status = "PENDING"
      /\ UNCHANGED <<claim, owner, asking>>
  BY <1>1, <1>3 DEF Claiming!LockClaim, Claiming!Admissible
<1>6. claimLock' \in [Claiming!Rows -> Requests \cup {None}] /\ claimLock'[<<"claim", old.claim>>] = s
  BY <1>2, <1>5 DEF ClaimsInv, ClaimTypes
<1>7. \A r \in Claiming!Rows : claimLock[r] \in {None, s} \/ claimLock'[r] = claimLock[r]
  BY <1>2, <1>5 DEF ClaimsInv, ClaimTypes
<1>8. claim[old.claim].version = 1
  BY <1>2, <1>5 DEF ClaimsInv, ClaimRows
<1>9. claimLock'[<<"case", old.case>>] = s
  BY <1>2, <1>5, RowFacts, ClaimConstants DEF Founded, ClaimsInv, ClaimTypes
<1>10. Founded(s, v)'
  BY <1>2, <1>4, <1>5, <1>6, <1>8, <1>9 DEF Founded
<1>11. QED
  BY <1>4, <1>5, <1>6, <1>7, <1>10, ReviewStep

LEMMA ClaimsLook ==
  ASSUME ClaimsInv, NEW s \in Requests, Claiming!Look(s) PROVE ClaimsInv'
<1>1. PICK old : old = review[s]
  OBVIOUS
<1>2. old \in Review /\ old.pc = "look" /\ Founded(s, old)
  BY <1>1, ReviewFacts DEF Claiming!Look
<1>3. PICK found \in BOOLEAN : found <=> Claiming!Owns(claim[old.claim].by, old.case)
  OBVIOUS
<1>4. found = Claiming!Owns(claim[old.claim].by, old.case)
  BY <1>3 DEF Claiming!Owns
<1>5. PICK v : v = [old EXCEPT !.found = found, !.pc = "write"]
  OBVIOUS
<1>6. /\ v \in Review /\ v.pc = "write" /\ v.claim = old.claim /\ v.case = old.case /\ v.seen = old.seen
      /\ v.found = found
  BY <1>2, <1>3, <1>5 DEF Review
<1>7. review' = [review EXCEPT ![s] = v] /\ UNCHANGED <<claim, owner, asking, claimLock>>
  BY <1>1, <1>4, <1>5 DEF Claiming!Look
<1>8. \A a, k : Claiming!Owns(a, k)' <=> Claiming!Owns(a, k)
  BY <1>7 DEF Claiming!Owns
<1>9. Founded(s, v)'
  BY <1>2, <1>3, <1>6, <1>7, <1>8 DEF Founded
<1>10. QED
  BY <1>6, <1>7, <1>9, ReviewStep DEF ClaimsInv, ClaimTypes

LEMMA ClaimsStop ==
  ASSUME ClaimsInv, NEW s \in Requests, Claiming!Refuse(s) \/ Claiming!Die(s) PROVE ClaimsInv'
<1>1. Claiming!Ends(s) /\ UNCHANGED <<claim, owner, asking>>
  BY DEF Claiming!Refuse, Claiming!Die
<1>2. QED
  BY <1>1, ClaimsEnds, ReviewStep

LEMMA ClaimsCommit ==
  ASSUME ClaimsInv, NEW s \in Requests, Claiming!Commit(s) PROVE ClaimsInv'
<1>1. PICK v : v = review[s]
  OBVIOUS
<1> DEFINE c == v.claim
           k == v.case
<1>2. /\ v \in Review /\ v.pc = "write" /\ Founded(s, v) /\ c \in Claiming!Claims /\ k \in ClaimCases
      /\ <<"claim", c>> \in Claiming!Rows /\ <<"case", k>> \in Claiming!Rows
  BY <1>1, ReviewFacts DEF Claiming!Commit
<1>3. /\ claimLock[<<"case", k>>] = s /\ claimLock[<<"claim", c>>] = s
      /\ claim[c].version = 1 /\ (v.found <=> Claiming!Owns(claim[c].by, k))
  BY <1>2 DEF Founded
<1>4. PICK a : a = claim[c].by
  OBVIOUS
<1>5. a \in Accounts /\ claim[c].status = "PENDING"
  BY <1>2, <1>3, <1>4 DEF ClaimsInv, ClaimRows
<1>6. owner[<<"claim", c>>] = Claiming!NoAccess
  BY <1>2, <1>5 DEF ClaimsInv, Owning
<1>7. PICK new : new = [claim[c] EXCEPT !.status = IF v.approve THEN "APPROVED" ELSE "REJECTED",
                                        !.case = k, !.version = claim[c].version + 1]
  OBVIOUS
<1>8. /\ new \in Claim /\ new.by = a /\ new.case = k /\ new.version = 2
      /\ new.status = IF v.approve THEN "APPROVED" ELSE "REJECTED"
  <2>1. PICK old : old = claim[c]
    OBVIOUS
  <2>2. old \in Claim /\ old.version = 1 /\ old.by = a
    BY <1>2, <1>3, <1>4, <2>1 DEF ClaimsInv, ClaimTypes
  <2>3. new = [old EXCEPT !.status = IF v.approve THEN "APPROVED" ELSE "REJECTED", !.case = k, !.version = 2]
    BY <1>3, <1>7, <2>1
  <2>4. new \in Claim
    BY <1>2, <2>2, <2>3 DEF Claim
  <2>5. new.by = a /\ new.case = k /\ new.version = 2 /\ new.status = IF v.approve THEN "APPROVED" ELSE "REJECTED"
    BY <2>2, <2>3 DEF Claim
  <2>6. QED
    BY <2>4, <2>5
<1>9. PICK entry : entry = [case |-> k, account |-> a]
  OBVIOUS
<1>10. /\ entry \in Access /\ entry # Claiming!NoAccess
  BY <1>2, <1>5, <1>9, ClaimConstants DEF Access, Claiming!NoAccess
<1>11. /\ claim' = [claim EXCEPT ![c] = new] /\ Claiming!Ends(s) /\ asking' = asking
       /\ owner' = IF v.approve /\ ~v.found THEN [owner EXCEPT ![<<"claim", c>>] = entry] ELSE owner
  BY <1>1, <1>4, <1>7, <1>9 DEF Claiming!Commit
<1>12. claim'[c] = new /\ \A d \in Claiming!Claims : d # c => claim'[d] = claim[d]
  BY <1>2, <1>11 DEF ClaimsInv, ClaimTypes
<1>13. /\ Claiming!Idle \in Review /\ Founded(s, Claiming!Idle)'
       /\ review' = [review EXCEPT ![s] = Claiming!Idle]
       /\ claimLock' \in [Claiming!Rows -> Requests \cup {None}]
       /\ \A r \in Claiming!Rows : claimLock[r] \in {None, s} \/ claimLock'[r] = claimLock[r]
  BY <1>11, ClaimsEnds
<1>14. ClaimTypes'
  <2>1. claim' \in [Claiming!Claims -> Claim]
    BY <1>8, <1>11 DEF ClaimsInv, ClaimTypes
  <2>2. owner' \in [Claiming!Rows -> Access]
    BY <1>10, <1>11 DEF ClaimsInv, ClaimTypes
  <2>3. review' \in [Requests -> Review]
    BY <1>13 DEF ClaimsInv, ClaimTypes
  <2>4. QED
    BY <1>11, <1>13, <2>1, <2>2, <2>3 DEF ClaimsInv, ClaimTypes
<1>15. ClaimRows'
  <2>1. Claiming!Made' = Claiming!Made
    BY <1>2, <1>3, <1>8, <1>12 DEF Claiming!Made
  <2>2. \E n \in 0..NClaims : Claiming!Made' = 1..n
    BY <2>1 DEF ClaimsInv, ClaimRows
  <2>3. new.status # "PENDING"
    BY <1>8
  <2>4. \A d \in Claiming!Claims :
       /\ claim'[d].version > 0 => claim'[d].by \in Accounts
       /\ claim'[d].version = 1 <=> claim'[d].status = "PENDING"
       /\ claim'[d].status \in {"APPROVED", "REJECTED"} => claim'[d].version = 2
    BY <1>5, <1>8, <1>12, <2>3 DEF ClaimsInv, ClaimRows
  <2>5. QED
    BY <2>2, <2>4 DEF ClaimRows
<1>16. /\ \A r \in Claiming!Rows : r # <<"claim", c>> => owner'[r] = owner[r]
       /\ owner'[<<"claim", c>>] = IF v.approve /\ ~v.found THEN entry ELSE Claiming!NoAccess
  BY <1>2, <1>6, <1>11 DEF ClaimsInv, ClaimTypes
<1>17. \A b, l : [case |-> l, account |-> b] = Claiming!NoAccess => b = None /\ l = None
  <2>1. TAKE b, l
  <2>2. [case |-> l, account |-> b].account = b /\ [case |-> l, account |-> b].case = l
    OBVIOUS
  <2>3. Claiming!NoAccess.account = None /\ Claiming!NoAccess.case = None
    BY DEF Claiming!NoAccess
  <2>4. QED
    BY <2>2, <2>3
<1>18. ASSUME NEW b, NEW l
       PROVE  /\ b # None /\ Claiming!Owns(b, l) => Claiming!Owns(b, l)'
              /\ l # k /\ l # None /\ Claiming!Owns(b, l)' => Claiming!Owns(b, l)
  <2>1. PICK x : x = [case |-> l, account |-> b]
    OBVIOUS
  <2>2. (b # None \/ l # None => x # Claiming!NoAccess) /\ (l # k => x # entry)
    <3>1. x.case = l /\ entry.case = k
      BY <1>9, <2>1
    <3>2. QED
      BY <1>17, <2>1, <3>1
  <2>3. (Claiming!Owns(b, l) <=> \E r \in Claiming!Rows : owner[r] = x) /\
        (Claiming!Owns(b, l)' <=> \E r \in Claiming!Rows : owner'[r] = x)
    BY <2>1 DEF Claiming!Owns
  <2>4. QED
    BY <1>6, <1>16, <2>2, <2>3
<1>19. ASSUME NEW t \in Requests, t # s PROVE Founded(t, review[t])'
  <2>1. PICK u : u = review[t]
    OBVIOUS
  <2>2. Founded(t, u) /\ review'[t] = u
    BY <1>13, <1>19, <2>1, ReviewingIsFounded DEF ClaimsInv, ClaimTypes
  <2>3. \A r \in Claiming!Rows : claimLock[r] = t => claimLock'[r] = t
    BY <1>13, <1>19, ClaimConstants
  <2>4. u.pc \in {"look", "write"} => u.claim # c /\ u.claim \in Claiming!Claims
    BY <1>3, <1>19, <2>2 DEF Founded
  <2>5. u.pc = "write" => u.case # k /\ u.case \in ClaimCases
    BY <1>3, <1>19, <2>2 DEF Founded
  <2>6. u.pc = "write" => claim[u.claim].by \in Accounts
    BY <2>2, <2>4 DEF Founded, ClaimsInv, ClaimRows
  <2>7. u.pc = "write" => (u.found <=> Claiming!Owns(claim[u.claim].by, u.case))'
    <3>1. PICK b : b = claim[u.claim].by
      OBVIOUS
    <3>2. u.pc = "write" => claim'[u.claim].by = b /\ b # None
      BY <1>12, <2>4, <2>6, <3>1, ClaimConstants
    <3>3. u.pc = "write" => u.case # None /\ (u.found <=> Claiming!Owns(b, u.case))
      BY <2>2, <2>5, <3>1, ClaimConstants DEF Founded
    <3>4. u.pc = "write" => (u.found <=> Claiming!Owns(b, u.case)')
      BY <1>18, <2>5, <3>2, <3>3
    <3>5. QED
      BY <3>2, <3>4 DEF Claiming!Owns
  <2>8. u.pc \in {"look", "write"} => claim'[u.claim] = claim[u.claim]
    BY <1>12, <2>4
  <2>9. Founded(t, u)'
    BY <2>2, <2>3, <2>7, <2>8, RowFacts DEF Founded
  <2>10. QED
    BY <2>2, <2>9 DEF Founded
<1>20. Reviewing'
  <2>1. Founded(s, review[s])'
    BY <1>13 DEF Founded, ClaimsInv, ClaimTypes
  <2>2. QED
    BY <1>19, <2>1, ReviewingIsFounded DEF Reviewing, Founded
<1>21. Owning'
  <2>1. \A l \in ClaimCases : owner'[<<"case", l>>] = [case |-> l, account |-> Creator[l]]
    BY <1>16, RowFacts DEF ClaimsInv, Owning
  <2>2. ASSUME NEW d \in Claiming!Claims
        PROVE  \/ owner'[<<"claim", d>>] = Claiming!NoAccess
               \/ /\ claim'[d].status = "APPROVED" /\ claim'[d].case \in ClaimCases
                  /\ owner'[<<"claim", d>>] = [case |-> claim'[d].case, account |-> claim'[d].by]
    <3>1. CASE d = c
      BY <1>2, <1>8, <1>9, <1>12, <1>16, <3>1
    <3>2. CASE d # c
      <4>1. <<"claim", d>> \in Claiming!Rows /\ <<"claim", d>> # <<"claim", c>>
        BY <3>2, RowFacts
      <4>2. owner'[<<"claim", d>>] = owner[<<"claim", d>>] /\ claim'[d] = claim[d]
        BY <1>12, <1>16, <3>2, <4>1
      <4>3. QED
        BY <4>2 DEF ClaimsInv, Owning
    <3>3. QED
      BY <3>1, <3>2
  <2>3. ASSUME NEW d \in Claiming!Claims
        PROVE  (claim[d].status = "APPROVED" => Claiming!Owns(claim[d].by, claim[d].case))'
    <3>1. CASE d = c
      <4>1. v.approve => Claiming!Owns(a, k)'
        <5>1. CASE v.found
          BY <1>3, <1>4, <1>5, <1>18, <5>1, ClaimConstants
        <5>2. CASE ~v.found
          BY <1>2, <1>9, <1>16, <5>2 DEF Claiming!Owns
        <5>3. QED
          BY <5>1, <5>2
      <4>2. QED
        BY <1>8, <1>12, <3>1, <4>1 DEF Claiming!Owns
    <3>2. CASE d # c
      <4>1. claim'[d] = claim[d]
        BY <1>12, <3>2
      <4>2. claim[d].status = "APPROVED" => claim[d].by \in Accounts /\ Claiming!Owns(claim[d].by, claim[d].case)
        BY DEF ClaimsInv, ClaimRows, Owning
      <4>3. claim[d].status = "APPROVED" => Claiming!Owns(claim[d].by, claim[d].case)'
        BY <4>1, <4>2, <1>18, ClaimConstants DEF Claiming!Owns
      <4>4. QED
        BY <4>1, <4>3 DEF Claiming!Owns
    <3>3. QED
      BY <3>1, <3>2
  <2>4. Claiming!OwnedOnce'
    <3>1. ~v.found => \A r \in Claiming!Rows : owner[r] # entry
      BY <1>3, <1>4, <1>9 DEF Claiming!Owns
    <3>2. Claiming!OwnedOnce
      BY DEF ClaimsInv, Owning
    <3>3. QED
      BY <1>6, <1>16, <3>1, <3>2 DEF Claiming!OwnedOnce
  <2>5. QED
    BY <2>1, <2>2, <2>3, <2>4 DEF Owning
<1>22. QED
  BY <1>14, <1>15, <1>20, <1>21 DEF ClaimsInv

LEMMA ClaimsNext == ClaimsInv /\ [Claiming!Next]_claimVars => ClaimsInv'
<1> SUFFICES ASSUME ClaimsInv, [Claiming!Next]_claimVars PROVE ClaimsInv'
  OBVIOUS
<1>1. CASE UNCHANGED claimVars
  BY <1>1 DEF claimVars, ClaimsInv, ClaimTypes, ClaimRows, Reviewing, Owning,
              Claiming!Made, Claiming!Owns, Claiming!OwnedOnce
<1>2. CASE \E h \in Handlers : (\E a \in Accounts : Claiming!Count(h, a)) \/ Claiming!Insert(h)
  BY <1>2, ClaimsCount, ClaimsInsert
<1>3. CASE \E s \in Requests : \E c \in Claiming!Claims, k \in ClaimCases, approve \in BOOLEAN :
              Claiming!Send(s, c, k, approve)
  BY <1>3, ClaimsSend
<1>4. CASE \E s \in Requests : Claiming!Step(s) \/ Claiming!Die(s)
  BY <1>4, ClaimsCaseFor, ClaimsLockClaim, ClaimsLook, ClaimsCommit, ClaimsStop DEF Claiming!Step
<1>5. QED
  BY <1>1, <1>2, <1>3, <1>4 DEF Claiming!Next

LEMMA ClaimsOwned == ClaimsInv => Claiming!OwnedOnce /\ Claiming!OwnedByApproval
<1> SUFFICES ASSUME ClaimsInv PROVE Claiming!OwnedByApproval
  BY DEF ClaimsInv, Owning
<1>1. \A c \in Claiming!Made : claim[c].status = "APPROVED" => Claiming!Owns(claim[c].by, claim[c].case)
  BY DEF ClaimsInv, Owning, Claiming!Made
<1>2. ASSUME NEW a \in Accounts, NEW k \in ClaimCases, Claiming!Owns(a, k)
      PROVE  \/ a = Creator[k]
             \/ \E c \in Claiming!Made : claim[c] = [by |-> a, status |-> "APPROVED", case |-> k, version |-> 2]
  <2>1. PICK r \in Claiming!Rows : owner[r] = [case |-> k, account |-> a]
    BY <1>2 DEF Claiming!Owns
  <2>2. owner[r].case = k /\ owner[r].account = a
    BY <2>1
  <2>3. CASE \E l \in ClaimCases : r = <<"case", l>>
    <3>1. PICK l \in ClaimCases : r = <<"case", l>>
      BY <2>3
    <3>2. owner[r] = [case |-> l, account |-> Creator[l]]
      BY <3>1 DEF ClaimsInv, Owning
    <3>3. owner[r].case = l /\ owner[r].account = Creator[l]
      BY <3>2
    <3>4. QED
      BY <2>2, <3>3
  <2>4. CASE \E c \in Claiming!Claims : r = <<"claim", c>>
    <3>1. PICK c \in Claiming!Claims : r = <<"claim", c>>
      BY <2>4
    <3>2. owner[r] # Claiming!NoAccess
      BY <1>2, <2>2, ClaimConstants DEF Claiming!NoAccess
    <3>3. /\ claim[c].status = "APPROVED" /\ owner[r] = [case |-> claim[c].case, account |-> claim[c].by]
          /\ claim[c].version = 2 /\ claim[c] \in Claim
      BY <3>1, <3>2 DEF ClaimsInv, Owning, ClaimRows, ClaimTypes
    <3>4. claim[c].case = k /\ claim[c].by = a
      <4>1. owner[r].case = claim[c].case /\ owner[r].account = claim[c].by
        BY <3>3
      <4>2. QED
        BY <2>2, <4>1
    <3>5. claim[c] = [by |-> a, status |-> "APPROVED", case |-> k, version |-> 2]
      BY <3>3, <3>4 DEF Claim
    <3>6. QED
      BY <3>3, <3>5 DEF Claiming!Made
  <2>5. QED
    BY <2>3, <2>4, RowFacts
<1>3. QED
  BY <1>1, <1>2 DEF Claiming!OwnedByApproval

\* A claim that was answered is no claim that is made, nor one that a request holds open.
LEMMA ClaimsResolved ==
  ASSUME ClaimsInv, [Claiming!Next]_claimVars PROVE Claiming!ResolvedStandsStep
<1>1. CASE UNCHANGED claim
  BY <1>1 DEF Claiming!ResolvedStandsStep
<1>2. ASSUME NEW c \in Claiming!Claims, NEW x, claim' = [claim EXCEPT ![c] = x],
             claim[c].status \notin {"APPROVED", "REJECTED"}
      PROVE  Claiming!ResolvedStandsStep
  BY <1>2 DEF ClaimsInv, ClaimTypes, Claiming!ResolvedStandsStep
<1>3. CASE \E h \in Handlers : Claiming!Insert(h)
  <2>1. PICK h \in Handlers : Claiming!Insert(h)
    BY <1>3
  <2>2. PICK n \in 0..NClaims : Claiming!Made = 1..n
    BY DEF ClaimsInv, ClaimRows
  <2>3. Claiming!Cardinality(Claiming!Made) = n
    BY <2>2, ClaimingCardinality, ClaimConstants, FS_Interval
  <2>4. PICK c, x : c = n + 1 /\ x = [by |-> asking[h], status |-> "PENDING", case |-> None, version |-> 1]
    OBVIOUS
  <2>5. c \in Claiming!Claims /\ c \notin Claiming!Made
    BY <2>1, <2>2, <2>3, <2>4, ClaimConstants DEF Claiming!Insert, Claiming!Claims
  <2>6. claim' = [claim EXCEPT ![c] = x]
    BY <2>1, <2>3, <2>4 DEF Claiming!Insert
  <2>7. claim[c].version \in {0, 1, 2}
    BY <2>5 DEF ClaimsInv, ClaimTypes, Claim
  <2>8. claim[c].status \notin {"APPROVED", "REJECTED"}
    BY <2>5, <2>7 DEF Claiming!Made, ClaimsInv, ClaimRows
  <2>9. QED
    BY <1>2, <2>5, <2>6, <2>8
<1>4. CASE \E s \in Requests : Claiming!Commit(s)
  <2>1. PICK s \in Requests : Claiming!Commit(s)
    BY <1>4
  <2>2. PICK c : c = review[s].claim
    OBVIOUS
  <2>3. c \in Claiming!Claims /\ claim[c].version = 1
    BY <2>1, <2>2 DEF ClaimsInv, Reviewing, Claiming!Commit
  <2>4. claim[c].status = "PENDING"
    BY <2>3 DEF ClaimsInv, ClaimRows
  <2>5. \E x : claim' = [claim EXCEPT ![c] = x]
    BY <2>1, <2>2 DEF Claiming!Commit
  <2>6. QED
    BY <1>2, <2>3, <2>4, <2>5
<1>5. QED
  BY <1>1, <1>3, <1>4
     DEF Claiming!Next, Claiming!Step, Claiming!Count, Claiming!Send, Claiming!CaseFor, Claiming!LockClaim,
         Claiming!Refuse, Claiming!Look, Claiming!Die, claimVars

\* A claim's row is locked by who looks at it, or is about to write it, and nobody else.
ClaimsHeld ==
  \A s \in Requests, c \in Claiming!Claims :
    claimLock[<<"claim", c>>] = s => review[s].pc \in {"look", "write"} /\ review[s].claim = c

LEMMA ClaimsTyped == ASSUME ClaimsInv, ClaimsHeld PROVE Claiming!ClaimsTypeOK
<1>1. \A s \in Requests : review[s].pc \in {"look", "write"} =>
        /\ review[s].claim \in Claiming!Claims /\ claimLock[<<"claim", review[s].claim>>] = s
        /\ claim[review[s].claim].status = "PENDING"
  BY DEF ClaimsInv, Reviewing, ClaimRows
<1>2. \A c \in Claiming!Claims : claim[c].status \in {None, "PENDING", "APPROVED", "REJECTED"}
  BY DEF ClaimsInv, ClaimTypes, Claim
<1>3. \A s \in Requests, c \in Claiming!Claims :
        claimLock[<<"claim", c>>] = s <=> review[s].pc \in {"look", "write"} /\ review[s].claim = c
  <2> TAKE s \in Requests, c \in Claiming!Claims
  <2>1. ASSUME review[s].pc \in {"look", "write"}, review[s].claim = c PROVE claimLock[<<"claim", c>>] = s
    <3>1. claimLock[<<"claim", review[s].claim>>] = s BY <1>1, <2>1
    <3> QED BY <2>1, <3>1
  <2>2. claimLock[<<"claim", c>>] = s => review[s].pc \in {"look", "write"} /\ review[s].claim = c
    BY DEF ClaimsHeld
  <2> QED BY <2>1, <2>2
<1> QED BY <1>1, <1>2, <1>3 DEF Claiming!ClaimsTypeOK

LEMMA ClaimsHeldInit == ASSUME Claiming!Init PROVE ClaimsHeld
BY RowFacts, ClaimConstants DEF Claiming!Init, ClaimsHeld

LEMMA ClaimsHeldNext == ASSUME ClaimsInv, ClaimsHeld, [Claiming!Next]_claimVars PROVE ClaimsHeld'
<1>a. review \in [Requests -> Review] /\ claimLock \in [Claiming!Rows -> Requests \cup {None}]
  BY DEF ClaimsInv, ClaimTypes
<1>b. ASSUME UNCHANGED <<review, claimLock>> PROVE ClaimsHeld' BY <1>b DEF ClaimsHeld
<1>c. ASSUME NEW s \in Requests, Claiming!Ends(s) PROVE ClaimsHeld'
  <2>1. \A r \in Claiming!Rows : claimLock'[r] = IF claimLock[r] = s THEN None ELSE claimLock[r]
    BY <1>c DEF Claiming!Ends, Claiming!Released
  <2>2. \A t \in Requests : t # s => review'[t] = review[t] BY <1>a, <1>c DEF Claiming!Ends
  <2> QED BY <2>1, <2>2, RowFacts, ClaimConstants DEF ClaimsHeld
<1>1. ASSUME NEW s \in Requests, NEW c \in Claiming!Claims, NEW k \in ClaimCases, NEW approve \in BOOLEAN,
             Claiming!Send(s, c, k, approve)
      PROVE  ClaimsHeld'
  <2>1. UNCHANGED claimLock /\ \A t \in Requests : t # s => review'[t] = review[t]
    BY <1>a, <1>1 DEF Claiming!Send
  <2>2. \A d \in Claiming!Claims : claimLock[<<"claim", d>>] # s BY <1>1 DEF Claiming!Send, ClaimsHeld
  <2> QED BY <2>1, <2>2 DEF ClaimsHeld
<1>2. ASSUME NEW s \in Requests, Claiming!CaseFor(s) PROVE ClaimsHeld'
  <2>1. \A d \in Claiming!Claims : claimLock'[<<"claim", d>>] = claimLock[<<"claim", d>>]
    BY <1>a, <1>2, RowFacts DEF Claiming!CaseFor
  <2>2. \A t \in Requests : t # s => review'[t] = review[t] BY <1>a, <1>2 DEF Claiming!CaseFor
  <2>3. \A d \in Claiming!Claims : claimLock[<<"claim", d>>] # s BY <1>2 DEF Claiming!CaseFor, ClaimsHeld
  <2> QED BY <2>1, <2>2, <2>3 DEF ClaimsHeld
<1>3. ASSUME NEW s \in Requests, Claiming!LockClaim(s) PROVE ClaimsHeld'
  <2>1. \A d \in Claiming!Claims : d # review[s].claim =>
          claimLock'[<<"claim", d>>] = claimLock[<<"claim", d>>]
    BY <1>a, <1>3, RowFacts DEF Claiming!LockClaim
  <2>2. /\ review'[s].pc = "look" /\ review'[s].claim = review[s].claim
        /\ \A t \in Requests : t # s => review'[t] = review[t]
    BY <1>a, <1>3 DEF Claiming!LockClaim, Review
  <2>3. \A d \in Claiming!Claims : claimLock[<<"claim", d>>] # s BY <1>3 DEF Claiming!LockClaim, ClaimsHeld
  <2>4. \A d \in Claiming!Claims : d = review[s].claim => claimLock'[<<"claim", d>>] = s
    BY <1>a, <1>3, RowFacts DEF Claiming!LockClaim
  <2> QED BY <2>1, <2>2, <2>3, <2>4 DEF ClaimsHeld
<1>4. ASSUME NEW s \in Requests, Claiming!Look(s) PROVE ClaimsHeld'
  <2>1. UNCHANGED claimLock /\ \A t \in Requests : t # s => review'[t] = review[t]
    BY <1>a, <1>4 DEF Claiming!Look
  <2>2. review'[s].pc = "write" /\ review'[s].claim = review[s].claim
    BY <1>a, <1>4 DEF Claiming!Look, Review
  <2> QED BY <2>1, <2>2 DEF ClaimsHeld
<1>5. ASSUME NEW s \in Requests, Claiming!Refuse(s) \/ Claiming!Commit(s) \/ Claiming!Die(s) PROVE ClaimsHeld'
  BY <1>5, <1>c DEF Claiming!Refuse, Claiming!Commit, Claiming!Die
<1>6. CASE \E h \in Handlers : (\E a \in Accounts : Claiming!Count(h, a)) \/ Claiming!Insert(h)
  BY <1>6, <1>b DEF Claiming!Count, Claiming!Insert
<1>7. CASE UNCHANGED claimVars BY <1>7, <1>b DEF claimVars
<1> QED BY <1>1, <1>2, <1>3, <1>4, <1>5, <1>6, <1>7 DEF Claiming!Next, Claiming!Step

---------------------------------------------------------------------------
(* Assignment.                                                             *)

CaseRow == [version : Nat \ {0}, open : BOOLEAN, assigned : Staff \cup {None}]
AssignTypes ==
  /\ case \in [Assigning!Cases -> CaseRow] /\ able \subseteq Staff
  /\ batchLock \in [Assigning!Cases -> Requests \cup {None}] /\ DOMAIN batch = Requests

\* The fields of a batch.
IsBatch(x) == x = [list |-> x.list, seen |-> x.seen, to |-> x.to, held |-> x.held, pc |-> x.pc]

\* A batch x holds the rows it has locked, the first ones of its list by their ids; each is as
\* it was checked, and all are held when they are written.
Locking(b, x) ==
  LET listed == Assigning!Range(x.list) IN
  /\ IsBatch(x)
  /\ x.pc \in {"idle", "lock", "write"} /\ listed \subseteq Assigning!Cases /\ x.held \subseteq listed
  /\ x.pc # "idle" => x.to \in Staff
  /\ x.pc = "idle" => x.held = {}
  /\ x.pc = "write" => listed \subseteq x.held
  /\ \A c \in Assigning!Cases : batchLock[c] = b <=> c \in x.held
  /\ \A c \in x.held : case[c].version = x.seen[c] /\ case[c].open
  /\ \A c \in x.held, d \in listed \ x.held : c < d

AssignInv == AssignTypes /\ \A b \in Requests : Locking(b, batch[b])

LEMMA AssignConstants == NCases \in Nat /\ None \notin Requests /\ None \notin Staff
BY RequestsAssumption DEF Assigning!AssignmentAssumption

\* A set of numbers that is not empty has a least one.
LEMMA LeastExists ==
  ASSUME NEW S, S \subseteq Nat, S # {} PROVE \E x \in S : \A y \in S : x <= y
<1> DEFINE R == {ss \in Nat \X Nat : ss[1] < ss[2]}
<1>1. IsWellFoundedOn(R, Nat)
  BY NatLessThanWellFounded, Zenon DEF OpToRel
<1>2. \E x \in S : \A y \in S : ~ (<<y, x>> \in R)
  BY <1>1, WFMin, Zenon
<1>3. \A x, y \in Nat : <<y, x>> \in R <=> y < x
  OBVIOUS
<1>4. PICK x \in S : \A y \in S : ~ (<<y, x>> \in R)
  BY <1>2
<1> HIDE DEF R
<1>5. ASSUME NEW y \in S PROVE x <= y
  <2>1. ~ (y < x) /\ x \in Nat /\ y \in Nat
    BY <1>3, <1>4
  <2>2. QED
    BY <2>1
<1>6. QED
  BY <1>5

LEMMA NextRow ==
  ASSUME AssignInv, NEW b \in Requests, Assigning!Left(b) # {}
  PROVE  /\ Assigning!InIdOrder(b) \in Assigning!Left(b)
         /\ \A d \in Assigning!Left(b) : Assigning!InIdOrder(b) <= d
<1>1. Assigning!Left(b) \subseteq Nat
  BY DEF AssignInv, Locking, Assigning!Left, Assigning!Listed, Assigning!Cases
<1>2. \E x \in Assigning!Left(b) : \A y \in Assigning!Left(b) : x <= y
  BY <1>1, LeastExists
<1>3. QED
  BY <1>2 DEF Assigning!InIdOrder, Assigning!Min

\* What a batch does to its own rows and to free ones leaves the other batches as they are.
LEMMA AssignStep ==
  ASSUME AssignInv, NEW b \in Requests, NEW x, batch' = [batch EXCEPT ![b] = x], AssignTypes', Locking(b, x)',
         \A c \in Assigning!Cases : \/ batchLock[c] \in {None, b} /\ batchLock'[c] \in {None, b}
                                    \/ batchLock'[c] = batchLock[c] /\ case'[c] = case[c]
  PROVE  AssignInv'
<1>1. ASSUME NEW t \in Requests, t # b PROVE Locking(t, batch[t])'
  <2>1. PICK y : y = batch[t]
    OBVIOUS
  <2>2. Locking(t, y) /\ batch'[t] = y
    BY <1>1, <2>1 DEF AssignInv, AssignTypes
  <2>3. \A c \in Assigning!Cases : (batchLock'[c] = t <=> batchLock[c] = t) /\ (batchLock[c] = t => case'[c] = case[c])
    BY <1>1, AssignConstants
  <2>4. y.held \subseteq Assigning!Cases
    BY <2>2 DEF Locking
  <2>5. Locking(t, y)'
    BY <2>2, <2>3, <2>4 DEF Locking
  <2>6. QED
    BY <2>2, <2>5 DEF Locking
<1>2. Locking(b, batch[b])'
  BY DEF Locking, AssignInv, AssignTypes
<1>3. QED
  BY <1>1, <1>2 DEF AssignInv

LEMMA IdleBatch ==
  /\ Assigning!Idle.pc = "idle" /\ Assigning!Idle.held = {} /\ Assigning!Range(Assigning!Idle.list) = {}
  /\ Assigning!Idle' = Assigning!Idle
  /\ IsBatch(Assigning!Idle)
<1>1. Assigning!Idle.pc = "idle" /\ Assigning!Idle.held = {} /\ Assigning!Idle.list = << >>
  BY DEF Assigning!Idle
<1>2. Assigning!Range(<< >>) = {}
  BY DEF Assigning!Range
<1>3. QED
  BY <1>1, <1>2 DEF Assigning!Idle, IsBatch

LEMMA AssignEnds ==
  ASSUME AssignInv, NEW b \in Requests, Assigning!Ends(b), case' \in [Assigning!Cases -> CaseRow], able' \subseteq Staff,
         \A c \in Assigning!Cases : batchLock[c] = b \/ case'[c] = case[c]
  PROVE  AssignInv'
<1>1. batchLock' = [c \in Assigning!Cases |-> IF batchLock[c] = b THEN None ELSE batchLock[c]]
      /\ batch' = [batch EXCEPT ![b] = Assigning!Idle]
  BY DEF Assigning!Ends
<1>2. AssignTypes'
  BY <1>1 DEF AssignInv, AssignTypes
<1>3. \A c \in Assigning!Cases : batchLock'[c] # b
  BY <1>1, AssignConstants
<1>4. Locking(b, Assigning!Idle)'
  BY <1>3, IdleBatch DEF Locking
<1>5. QED
  BY <1>1, <1>2, <1>4, AssignStep

LEMMA AssignInit == Assigning!Init => AssignInv
<1> SUFFICES ASSUME Assigning!Init PROVE AssignInv
  OBVIOUS
<1>1. [version |-> 1, open |-> TRUE, assigned |-> None] \in CaseRow
  BY DEF CaseRow
<1>2. AssignTypes
  BY <1>1 DEF Assigning!Init, AssignTypes
<1>3. ASSUME NEW b \in Requests PROVE Locking(b, batch[b])
  BY IdleBatch, AssignConstants DEF Assigning!Init, Locking
<1>4. QED
  BY <1>2, <1>3 DEF AssignInv

LEMMA AssignSend ==
  ASSUME AssignInv, NEW b \in Requests, Assigning!Send(b) PROVE AssignInv'
<1>1. PICK S \in SUBSET Assigning!Cases \ {{}} : \E list \in Assigning!SetToSeqs(S), to \in Staff :
       batch' = [batch EXCEPT ![b] = [list |-> list, seen |-> [c \in S |-> case[c].version], to |-> to,
                                      held |-> {}, pc |-> "lock"]]
  BY DEF Assigning!Send
<1>2. PICK list \in Assigning!SetToSeqs(S), to \in Staff :
       batch' = [batch EXCEPT ![b] = [list |-> list, seen |-> [c \in S |-> case[c].version], to |-> to,
                                      held |-> {}, pc |-> "lock"]]
  BY <1>1
<1>3. PICK x : x = [list |-> list, seen |-> [c \in S |-> case[c].version], to |-> to, held |-> {}, pc |-> "lock"]
  OBVIOUS
<1>4. x.list = list /\ x.to = to /\ x.held = {} /\ x.pc = "lock" /\ IsBatch(x)
  BY <1>3 DEF IsBatch
<1>5. Assigning!Range(list) \subseteq Assigning!Cases
  BY DEF Assigning!Range, Assigning!SetToSeqs
<1>6. UNCHANGED <<case, able, batchLock>> /\ batch' = [batch EXCEPT ![b] = x]
  BY <1>2, <1>3 DEF Assigning!Send
<1>7. AssignTypes'
  BY <1>6 DEF AssignInv, AssignTypes
<1>8. \A c \in Assigning!Cases : batchLock[c] # b
  BY DEF AssignInv, Locking, Assigning!Send
<1>9. Locking(b, x)'
  BY <1>4, <1>5, <1>6, <1>8 DEF Locking
<1>10. QED
  BY <1>6, <1>7, <1>9, AssignStep

LEMMA AssignLockNext ==
  ASSUME AssignInv, NEW b \in Requests, Assigning!LockNext(b) PROVE AssignInv'
<1>1. PICK c : c = Assigning!InIdOrder(b)
  OBVIOUS
<1>2. c \in Assigning!Left(b) /\ (\A d \in Assigning!Left(b) : c <= d) /\ batchLock[c] = None
  BY <1>1, NextRow DEF Assigning!LockNext
<1>3. PICK old : old = batch[b]
  OBVIOUS
<1>4. Locking(b, old) /\ old.pc = "lock" /\ c \in Assigning!Range(old.list) \ old.held
      /\ (\A d \in Assigning!Range(old.list) \ old.held : c <= d)
  BY <1>2, <1>3 DEF AssignInv, Assigning!Left, Assigning!Listed, Assigning!LockNext
<1>5. CASE Assigning!Ends(b)
  BY <1>5, AssignEnds DEF Assigning!LockNext, AssignInv, AssignTypes
<1>6. CASE /\ case[c].version = batch[b].seen[c] /\ case[c].open
           /\ batchLock' = [batchLock EXCEPT ![c] = b]
           /\ batch' = [batch EXCEPT ![b].held = @ \cup {c}]
  <2>1. PICK x : x = [old EXCEPT !.held = old.held \cup {c}]
    OBVIOUS
  <2>2. batch' = [batch EXCEPT ![b] = x]
    BY <1>3, <1>6, <2>1
  <2>3. PICK list, seen, to, held, pc : old = [list |-> list, seen |-> seen, to |-> to, held |-> held, pc |-> pc]
    BY <1>4 DEF Locking, IsBatch
  <2>4. x = [list |-> list, seen |-> seen, to |-> to, held |-> held \cup {c}, pc |-> pc]
    BY <2>1, <2>3
  <2>5. /\ x.list = old.list /\ x.held = old.held \cup {c} /\ x.pc = "lock" /\ x.to = old.to /\ x.seen = old.seen
        /\ IsBatch(x)
    BY <1>4, <2>3, <2>4 DEF IsBatch
  <2>6. UNCHANGED <<case, able>> /\ c \in Assigning!Cases
    BY <1>4 DEF Assigning!LockNext, Locking
  <2>7. AssignTypes' /\ batchLock'[c] = b /\ \A d \in Assigning!Cases : d # c => batchLock'[d] = batchLock[d]
    BY <1>6, <2>2, <2>6 DEF AssignInv, AssignTypes
  <2>8. Locking(b, x)'
    <3>1. \A d \in Assigning!Cases : batchLock'[d] = b <=> d \in x.held
      BY <1>4, <2>5, <2>7 DEF Locking
    <3>2. \A d \in x.held : case'[d].version = x.seen[d] /\ case'[d].open
      BY <1>3, <1>4, <1>6, <2>5, <2>6 DEF Locking
    <3>3. \A d \in x.held, e \in Assigning!Range(x.list) \ x.held : d < e
      <4>1. \A d, e \in Assigning!Cases : d \in Nat /\ e \in Nat
        BY DEF Assigning!Cases
      <4>2. \A e \in Assigning!Range(old.list) \ x.held : c < e
        BY <1>4, <2>5, <4>1 DEF Locking
      <4>3. QED
        BY <1>4, <2>5, <4>2 DEF Locking
    <3>4. QED
      BY <1>4, <2>5, <3>1, <3>2, <3>3 DEF Locking
  <2>9. \A d \in Assigning!Cases : \/ batchLock[d] \in {None, b} /\ batchLock'[d] \in {None, b}
                                   \/ batchLock'[d] = batchLock[d] /\ case'[d] = case[d]
    BY <1>2, <2>6, <2>7
  <2>10. QED
    BY <2>2, <2>7, <2>8, <2>9, AssignStep
<1>7. QED
  BY <1>1, <1>5, <1>6 DEF Assigning!LockNext

LEMMA AssignCheckAssignee ==
  ASSUME AssignInv, NEW b \in Requests, Assigning!CheckAssignee(b) PROVE AssignInv'
<1>1. CASE Assigning!Ends(b)
  BY <1>1, AssignEnds DEF Assigning!CheckAssignee, AssignInv, AssignTypes
<1>2. CASE batch' = [batch EXCEPT ![b].pc = "write"] /\ UNCHANGED batchLock
  <2>1. PICK old, x : old = batch[b] /\ x = [old EXCEPT !.pc = "write"]
    OBVIOUS
  <2>2. Locking(b, old) /\ old.pc = "lock" /\ Assigning!Range(old.list) \subseteq old.held
    BY <2>1 DEF AssignInv, Assigning!CheckAssignee, Assigning!Left, Assigning!Listed
  <2>3. PICK list, seen, to, held, pc : old = [list |-> list, seen |-> seen, to |-> to, held |-> held, pc |-> pc]
    BY <2>2 DEF Locking, IsBatch
  <2>4. x = [list |-> list, seen |-> seen, to |-> to, held |-> held, pc |-> "write"]
    BY <2>1, <2>3
  <2>5. /\ x.list = old.list /\ x.held = old.held /\ x.pc = "write" /\ x.to = old.to /\ x.seen = old.seen
        /\ IsBatch(x)
    BY <2>3, <2>4 DEF IsBatch
  <2>6. UNCHANGED <<case, able, batchLock>> /\ batch' = [batch EXCEPT ![b] = x]
    BY <1>2, <2>1 DEF Assigning!CheckAssignee
  <2>7. AssignTypes' /\ Locking(b, x)'
    BY <2>2, <2>5, <2>6 DEF AssignInv, AssignTypes, Locking
  <2>8. QED
    BY <2>6, <2>7, AssignStep
<1>3. QED
  BY <1>1, <1>2 DEF Assigning!CheckAssignee

\* What a batch writes it holds, as it was seen; a row it does not change is assigned so already.
LEMMA AssignWrites ==
  ASSUME AssignInv, NEW b \in Requests, Assigning!Write(b)
  PROVE  /\ Assigning!Ends(b) /\ case' \in [Assigning!Cases -> CaseRow] /\ UNCHANGED able
         /\ \A c \in Assigning!Cases : c \in Assigning!Listed(b) \/ case'[c] = case[c]
         /\ \A c \in Assigning!Listed(b) :
              /\ batchLock[c] = b /\ case'[c].assigned = batch[b].to
              /\ case[c].version = batch[b].seen[c] /\ case[c].open
<1>1. PICK x : x = batch[b]
  OBVIOUS
<1>2. Locking(b, x) /\ x.pc = "write" /\ Assigning!Listed(b) = Assigning!Range(x.list)
  BY <1>1 DEF AssignInv, Assigning!Write, Assigning!Listed
<1>3. Assigning!Listed(b) \subseteq Assigning!Cases /\ Assigning!Listed(b) = x.held /\ x.to \in Staff
  BY <1>2 DEF Locking
<1>4. case' = [c \in Assigning!Cases |->
                 IF c \in Assigning!Listed(b)
                 THEN [case[c] EXCEPT !.assigned = x.to, !.version = case[c].version + 1] ELSE case[c]]
  BY <1>1 DEF Assigning!Write
<1>5. ASSUME NEW c \in Assigning!Cases
      PROVE  case'[c] \in CaseRow /\ (c \in Assigning!Listed(b) => case'[c].assigned = x.to)
  <2>1. PICK old : old = case[c]
    OBVIOUS
  <2>2. old \in CaseRow
    BY <2>1 DEF AssignInv, AssignTypes
  <2>3. PICK n \in Nat \ {0} : n = old.version + 1
    BY <2>2 DEF CaseRow
  <2>4. PICK new : new = [old EXCEPT !.assigned = x.to, !.version = n]
    OBVIOUS
  <2>5. new \in CaseRow /\ new.assigned = x.to
    BY <1>3, <2>2, <2>4 DEF CaseRow
  <2>6. case'[c] = IF c \in Assigning!Listed(b) THEN new ELSE old
    BY <1>4, <2>1, <2>3, <2>4
  <2>7. QED
    BY <2>2, <2>5, <2>6
<1>6. case' \in [Assigning!Cases -> CaseRow]
  BY <1>4, <1>5
<1>7. \A c \in Assigning!Cases : c \in Assigning!Listed(b) \/ case'[c] = case[c]
  BY <1>4
<1>8. \A c \in Assigning!Listed(b) : batchLock[c] = b /\ case[c].version = x.seen[c] /\ case[c].open
  BY <1>2, <1>3 DEF Locking
<1>9. \A c \in Assigning!Listed(b) : case'[c].assigned = x.to
  BY <1>3, <1>5
<1>10. Assigning!Ends(b) /\ UNCHANGED able
  BY DEF Assigning!Write
<1>11. QED
  BY <1>1, <1>6, <1>7, <1>8, <1>9, <1>10

LEMMA AssignWrite ==
  ASSUME AssignInv, NEW b \in Requests, Assigning!Write(b) PROVE AssignInv'
BY AssignWrites, AssignEnds DEF AssignInv, AssignTypes

LEMMA AssignHandler ==
  ASSUME AssignInv, NEW c \in Assigning!Cases, NEW open \in BOOLEAN, Assigning!Handler(c, open)
  PROVE  AssignInv' /\ \A d \in Assigning!Cases : case'[d].assigned = case[d].assigned
<1>1. PICK old : old = case[c]
  OBVIOUS
<1>2. old \in CaseRow
  BY <1>1 DEF AssignInv, AssignTypes
<1>3. PICK n \in Nat \ {0} : n = old.version + 1
  BY <1>2 DEF CaseRow
<1>4. PICK new : new = [old EXCEPT !.version = n, !.open = open]
  OBVIOUS
<1>5. new \in CaseRow /\ new.assigned = old.assigned
  BY <1>2, <1>4 DEF CaseRow
<1>6. case' = [case EXCEPT ![c] = new] /\ UNCHANGED <<able, batch, batchLock>> /\ batchLock[c] = None
  BY <1>1, <1>3, <1>4 DEF Assigning!Handler
<1>7. AssignTypes' /\ \A d \in Assigning!Cases : d # c => case'[d] = case[d]
  BY <1>5, <1>6 DEF AssignInv, AssignTypes
<1>8. ASSUME NEW b \in Requests PROVE Locking(b, batch[b])'
  <2>1. PICK x : x = batch[b]
    OBVIOUS
  <2>2. Locking(b, x) /\ batch'[b] = x
    BY <1>6, <2>1 DEF AssignInv
  <2>3. c \notin x.held /\ x.held \subseteq Assigning!Cases
    BY <1>6, <2>2, AssignConstants DEF Locking
  <2>4. Locking(b, x)'
    BY <1>6, <1>7, <2>2, <2>3 DEF Locking
  <2>5. QED
    BY <2>2, <2>4 DEF Locking
<1>9. \A d \in Assigning!Cases : case'[d].assigned = case[d].assigned
  BY <1>1, <1>5, <1>6, <1>7 DEF AssignInv, AssignTypes
<1>10. QED
  BY <1>7, <1>8, <1>9 DEF AssignInv

LEMMA AssignNext ==
  ASSUME AssignInv, [Assigning!Next]_batchVars PROVE AssignInv' /\ Assigning!AssignedAsSeenStep
<1>1. CASE UNCHANGED batchVars
  BY <1>1 DEF batchVars, AssignInv, AssignTypes, Locking, Assigning!AssignedAsSeenStep
<1>2. CASE \E b \in Requests : Assigning!Send(b)
  BY <1>2, AssignSend DEF Assigning!Send, Assigning!AssignedAsSeenStep
<1>3. CASE \E b \in Requests : Assigning!LockNext(b) \/ Assigning!CheckAssignee(b)
  BY <1>3, AssignLockNext, AssignCheckAssignee
     DEF Assigning!LockNext, Assigning!CheckAssignee, Assigning!AssignedAsSeenStep
<1>4. CASE \E b \in Requests : Assigning!Write(b)
  <2>1. PICK b \in Requests : Assigning!Write(b)
    BY <1>4
  <2>2. Assigning!AssignedAsSeenStep
    BY <2>1, AssignWrites DEF Assigning!AssignedAsSeenStep
  <2>3. QED
    BY <2>1, <2>2, AssignWrite
<1>5. CASE \E b \in Requests : Assigning!Die(b)
  BY <1>5, AssignEnds DEF Assigning!Die, Assigning!AssignedAsSeenStep, AssignInv, AssignTypes
<1>6. CASE \E c \in Assigning!Cases, open \in BOOLEAN : Assigning!Handler(c, open)
  BY <1>6, AssignHandler DEF Assigning!AssignedAsSeenStep
<1>7. CASE \E a \in Staff : Assigning!Disabled(a)
  <2>1. able' \subseteq Staff /\ UNCHANGED <<case, batch, batchLock>>
    BY <1>7 DEF Assigning!Disabled, AssignInv, AssignTypes
  <2>2. QED
    BY <2>1 DEF AssignInv, AssignTypes, Locking, Assigning!AssignedAsSeenStep
<1>8. QED
  BY <1>1, <1>2, <1>3, <1>4, <1>5, <1>6, <1>7 DEF Assigning!Next, Assigning!Step

\* Of the batches that wait, the one that waits for the greatest id waits for nobody: who held
\* that row would wait for a greater one.
LEMMA BatchesGetOn == AssignInv => Assigning!NoCircleOfBatches
<1> SUFFICES ASSUME AssignInv, \E b \in Requests : batch[b].pc # "idle",
                    \A b \in Requests : batch[b].pc # "idle" =>
                      Assigning!Left(b) # {} /\ batchLock[Assigning!InIdOrder(b)] # None
             PROVE  FALSE
  BY DEF Assigning!NoCircleOfBatches
<1> DEFINE Active == {b \in Requests : batch[b].pc # "idle"}
           Dist(b) == NCases - Assigning!InIdOrder(b)
           D == {Dist(b) : b \in Active}
<1>1. ASSUME NEW b \in Active
      PROVE  /\ Assigning!InIdOrder(b) \in 1..NCases /\ Dist(b) \in Nat
             /\ batchLock[Assigning!InIdOrder(b)] \in Requests
  <2>1. Assigning!Left(b) # {} /\ batchLock[Assigning!InIdOrder(b)] # None
    OBVIOUS
  <2>2. Assigning!InIdOrder(b) \in Assigning!Cases
    BY <2>1, NextRow DEF AssignInv, Locking, Assigning!Left, Assigning!Listed
  <2>3. QED
    BY <2>1, <2>2, AssignConstants DEF Assigning!Cases, AssignInv, AssignTypes
<1>2. D \subseteq Nat /\ D # {}
  BY <1>1
<1>3. PICK n \in D : \A m \in D : n <= m
  BY <1>2, LeastExists
<1>4. PICK b \in Active : n = Dist(b)
  OBVIOUS
<1>5. PICK c : c = Assigning!InIdOrder(b)
  OBVIOUS
<1>6. PICK t \in Requests : t = batchLock[c] /\ c \in Assigning!Cases
  BY <1>1, <1>5 DEF Assigning!Cases
<1>7. c \in batch[t].held /\ t \in Active
  BY <1>6 DEF AssignInv, Locking
<1>8. c < Assigning!InIdOrder(t)
  <2>1. Assigning!InIdOrder(t) \in Assigning!Left(t)
    BY <1>7, NextRow
  <2>2. QED
    BY <1>7, <2>1 DEF AssignInv, Locking, Assigning!Left, Assigning!Listed
<1>9. Dist(t) < Dist(b)
  BY <1>1, <1>5, <1>7, <1>8, AssignConstants
<1>10. Dist(b) <= Dist(t) /\ Dist(b) \in Nat /\ Dist(t) \in Nat
  BY <1>1, <1>3, <1>4, <1>7
<1>11. QED
  BY <1>9, <1>10

LEMMA AssignTyped == ASSUME AssignInv PROVE Assigning!AssignmentTypeOK
<1>1. \A c \in Assigning!Cases : case[c].assigned \in Staff \cup {None} /\ case[c].version \in Nat \ {0}
  BY DEF AssignInv, AssignTypes, CaseRow
<1> QED BY <1>1 DEF AssignInv, Locking, Assigning!AssignmentTypeOK

---------------------------------------------------------------------------
(* Exports.                                                                *)

JobRow == [status : {None, "PENDING", "READY", "CANCELLED"}, expired : BOOLEAN]
ExportTypes == job \in [Exporting!Jobs -> JobRow] /\ DOMAIN file = Exporting!Jobs /\ DOMAIN pass = Workers

\* The fields of a pass.
IsPass(x) == x = [jobs |-> x.jobs, next |-> x.next, writing |-> x.writing]

\* A pass x holds jobs that wait, knows what some of them will be, and writes the file of another;
\* what it is about to make ready has its whole file.
Passing(x) ==
  /\ IsPass(x) /\ x.jobs \subseteq Exporting!Pending /\ DOMAIN x.next \subseteq x.jobs
  /\ x.writing # 0 => x.writing \in x.jobs \ DOMAIN x.next
  /\ \A j \in DOMAIN x.next : x.next[j] = "CANCELLED" \/ (x.next[j] = "READY" /\ file[j] = "whole")

ExportsInv ==
  /\ ExportTypes /\ \A w \in Workers : Passing(pass[w])
  /\ \A v, w \in Workers : v # w => pass[v].jobs \cap pass[w].jobs = {}
  /\ Exporting!ReadyIsWhole

\* What a pass does to its own jobs, and to free ones, leaves the other passes as they are.
LEMMA PassStep ==
  ASSUME ExportsInv, NEW w \in Workers, NEW x, pass' = [pass EXCEPT ![w] = x], ExportTypes', Passing(x)',
         \A v \in Workers \ {w} : x.jobs \cap pass[v].jobs = {},
         \A v \in Workers \ {w} : \A j \in pass[v].jobs : job'[j] = job[j] /\ file'[j] = file[j],
         Exporting!ReadyIsWhole'
  PROVE  ExportsInv'
<1>1. ASSUME NEW v \in Workers, v # w PROVE Passing(pass[v])'
  <2>1. PICK y : y = pass[v]
    OBVIOUS
  <2>2. Passing(y) /\ pass'[v] = y /\ y.jobs \subseteq Exporting!Pending
    BY <1>1, <2>1 DEF ExportsInv, ExportTypes, Passing
  <2>3. \A j \in y.jobs : job'[j] = job[j] /\ file'[j] = file[j]
    BY <1>1, <2>1
  <2>4. y.jobs \subseteq Exporting!Pending'
    BY <2>2, <2>3 DEF Exporting!Pending
  <2>5. Passing(y)'
    BY <2>2, <2>3, <2>4 DEF Passing
  <2>6. QED
    BY <2>2, <2>5 DEF Passing
<1>2. pass'[w] = x /\ \A v \in Workers \ {w} : pass'[v] = pass[v]
  BY DEF ExportsInv, ExportTypes
<1>3. \A v \in Workers : Passing(pass[v])'
  BY <1>1, <1>2 DEF Passing
<1>4. \A u, v \in Workers : u # v => pass'[u].jobs \cap pass'[v].jobs = {}
  BY <1>2 DEF ExportsInv
<1>5. QED
  BY <1>3, <1>4 DEF ExportsInv

\* What leaves the passes and their jobs as they are.
LEMMA PassesStay ==
  ASSUME ExportsInv, UNCHANGED pass, ExportTypes', Exporting!ReadyIsWhole',
         \A j \in Exporting!Pending : job'[j].status = "PENDING" /\ file'[j] = file[j]
  PROVE  ExportsInv'
<1>1. \A v \in Workers : Passing(pass[v])'
  <2>1. TAKE v \in Workers
  <2>2. PICK y : y = pass[v]
    OBVIOUS
  <2>3. Passing(y)
    BY <2>2 DEF ExportsInv
  <2>4. y.jobs \subseteq Exporting!Pending'
    BY <2>3 DEF Passing, Exporting!Pending
  <2>5. Passing(y)'
    BY <2>3, <2>4 DEF Passing
  <2>6. QED
    BY <2>2, <2>5 DEF Passing
<1>2. QED
  BY <1>1 DEF ExportsInv

LEMMA NoPassHolds == Passing(Exporting!NoPass) /\ Passing(Exporting!NoPass)' /\ Exporting!NoPass.jobs = {}
<1>1. PICK x : x = Exporting!NoPass
  OBVIOUS
<1>2. x.jobs = {} /\ x.next = << >> /\ x.writing = 0 /\ IsPass(x)
  BY <1>1 DEF Exporting!NoPass, IsPass
<1>3. DOMAIN << >> = {}
  OBVIOUS
<1>4. Passing(x) /\ Passing(x)'
  BY <1>2, <1>3 DEF Passing
<1>5. QED
  BY <1>1, <1>2, <1>4 DEF Passing, Exporting!NoPass

\* The job a pass deals with next.
LEMMA NextJob ==
  ASSUME ExportsInv, NEW w \in Workers, Exporting!Todo(w) # {}
  PROVE  Exporting!Min(Exporting!Todo(w)) \in Exporting!Todo(w)
<1>1. Exporting!Todo(w) \subseteq Nat
  BY DEF ExportsInv, Passing, Exporting!Todo, Exporting!Pending, Exporting!Jobs
<1>2. \E x \in Exporting!Todo(w) : \A y \in Exporting!Todo(w) : x <= y
  BY <1>1, LeastExists
<1>3. QED
  BY <1>2 DEF Exporting!Min

LEMMA ExportsInit == Exporting!Init => ExportsInv
<1> SUFFICES ASSUME Exporting!Init PROVE ExportsInv
  OBVIOUS
<1>1. ExportTypes
  BY DEF Exporting!Init, ExportTypes, JobRow
<1>2. \A w \in Workers : Passing(pass[w]) /\ pass[w].jobs = {}
  BY NoPassHolds DEF Exporting!Init
<1>3. None # "READY" => Exporting!ReadyIsWhole
  BY DEF Exporting!Init, Exporting!ReadyIsWhole
<1>4. QED
  BY <1>1, <1>2, <1>3, RequestsAssumption DEF ExportsInv, Exporting!ExportsAssumption

LEMMA ExportsInsert ==
  ASSUME ExportsInv, NEW r \in Requests, Exporting!Insert(r) PROVE ExportsInv'
<1>1. PICK n : n = Exporting!Cardinality(Exporting!Made) + 1
  OBVIOUS
<1>2. UNCHANGED <<file, pass, got>> /\ job' = [job EXCEPT ![n].status = "PENDING"]
  BY <1>1 DEF Exporting!Insert
<1>3. ASSUME NEW j \in Exporting!Jobs
      PROVE  job'[j] \in JobRow /\ (job'[j] = job[j] \/ job'[j].status = "PENDING")
  <2>1. PICK old, new : old = job[j] /\ new = [old EXCEPT !.status = "PENDING"]
    OBVIOUS
  <2>2. old \in JobRow
    BY <2>1 DEF ExportsInv, ExportTypes
  <2>3. new \in JobRow /\ new.status = "PENDING"
    BY <2>1, <2>2 DEF JobRow
  <2>4. job'[j] \in {old, new}
    BY <1>2, <2>1 DEF ExportsInv, ExportTypes
  <2>5. QED
    BY <2>1, <2>2, <2>3, <2>4
<1>4. ExportTypes'
  BY <1>2, <1>3 DEF ExportsInv, ExportTypes
<1>5. Exporting!ReadyIsWhole'
  BY <1>2, <1>3 DEF ExportsInv, Exporting!ReadyIsWhole
<1>6. QED
  BY <1>2, <1>3, <1>4, <1>5, PassesStay DEF Exporting!Pending

LEMMA ExportsExpires ==
  ASSUME ExportsInv, NEW j \in Exporting!Jobs, Exporting!Expires(j) PROVE ExportsInv'
<1>1. PICK old, new : old = job[j] /\ new = [old EXCEPT !.expired = TRUE]
  OBVIOUS
<1>2. old \in JobRow
  BY <1>1 DEF ExportsInv, ExportTypes
<1>3. new \in JobRow /\ new.status = old.status
  BY <1>1, <1>2 DEF JobRow
<1>4. UNCHANGED <<file, pass, got>> /\ job' = [job EXCEPT ![j] = new]
  BY <1>1 DEF Exporting!Expires
<1>5. ExportTypes' /\ \A i \in Exporting!Jobs : job'[i].status = job[i].status
  BY <1>1, <1>3, <1>4 DEF ExportsInv, ExportTypes
<1>6. Exporting!ReadyIsWhole'
  BY <1>4, <1>5 DEF ExportsInv, Exporting!ReadyIsWhole
<1>7. QED
  BY <1>4, <1>5, <1>6, PassesStay DEF Exporting!Pending

LEMMA ExportsDownload ==
  ASSUME ExportsInv, NEW j \in Exporting!Jobs, Exporting!Download(j) PROVE ExportsInv'
<1>1. UNCHANGED <<job, file, pass>> /\ got' = got \cup {[job |-> j, file |-> file[j]]} /\ job[j].status = "READY"
  BY DEF Exporting!Download
<1>2. ExportTypes' /\ Exporting!ReadyIsWhole'
  BY <1>1 DEF ExportsInv, ExportTypes, Exporting!ReadyIsWhole
<1>3. QED
  BY <1>1, <1>2, PassesStay DEF Exporting!Pending

LEMMA ExportsTake ==
  ASSUME ExportsInv, NEW w \in Workers, Exporting!Take(w) PROVE ExportsInv'
<1>1. PICK old : old = pass[w]
  OBVIOUS
<1>2. Passing(old) /\ old.jobs = {}
  BY <1>1 DEF ExportsInv, Exporting!Take
<1>3. PICK next, writing : old = [jobs |-> {}, next |-> next, writing |-> writing]
  BY <1>2 DEF Passing, IsPass
<1>4. PICK x : x = [jobs |-> Exporting!Oldest, next |-> next, writing |-> writing]
  OBVIOUS
<1>5. x.jobs = Exporting!Oldest /\ x.next = old.next /\ x.writing = old.writing /\ IsPass(x)
  BY <1>3, <1>4 DEF IsPass
<1>6. UNCHANGED <<job, file, got>> /\ pass' = [pass EXCEPT ![w] = x]
  <2>1. pass' = [pass EXCEPT ![w] = [old EXCEPT !.jobs = Exporting!Oldest]]
    BY <1>1, Zenon DEF Exporting!Take
  <2>2. [old EXCEPT !.jobs = Exporting!Oldest] = x
    BY <1>3, <1>4
  <2>3. QED
    BY <2>1, <2>2 DEF Exporting!Take
<1>7. x.jobs \subseteq Exporting!Pending \ Exporting!Locked
  BY <1>5 DEF Exporting!Oldest
<1>8. Exporting!Pending' = Exporting!Pending
  BY <1>6 DEF Exporting!Pending
<1>9. Passing(x)'
  BY <1>2, <1>5, <1>6, <1>7, <1>8 DEF Passing
<1>10. ExportTypes' /\ Exporting!ReadyIsWhole'
  BY <1>6 DEF ExportsInv, ExportTypes, Exporting!ReadyIsWhole
<1>11. \A v \in Workers : x.jobs \cap pass[v].jobs = {}
  BY <1>7 DEF Exporting!Locked
<1>12. QED
  BY <1>6, <1>9, <1>10, <1>11, PassStep

\* What a pass has decided of a job.
LEMMA Decides ==
  ASSUME NEW x, Passing(x), NEW j \in x.jobs \ DOMAIN x.next, NEW y, NEW to,
         y.jobs = x.jobs, y.next = Exporting!Put(x.next, j, to), y.writing = 0, IsPass(y),
         UNCHANGED job, \A i \in x.jobs \ {j} : file'[i] = file[i],
         to \in {"CANCELLED", "READY"}, to = "READY" => file'[j] = "whole"
  PROVE  Passing(y)'
<1>1. DOMAIN y.next = DOMAIN x.next \cup {j} /\ y.next[j] = to /\ \A i \in DOMAIN x.next : y.next[i] = x.next[i]
  BY DEF Exporting!Put
<1>2. Exporting!Pending' = Exporting!Pending
  BY DEF Exporting!Pending
<1>3. y.jobs \subseteq Exporting!Pending /\ DOMAIN y.next \subseteq y.jobs
  BY <1>1 DEF Passing
<1>4. \A i \in DOMAIN y.next : y.next[i] = "CANCELLED" \/ (y.next[i] = "READY" /\ file'[i] = "whole")
  BY <1>1 DEF Passing
<1>5. QED
  BY <1>2, <1>3, <1>4 DEF Passing

LEMMA ExportsCancel ==
  ASSUME ExportsInv, NEW w \in Workers, Exporting!Cancel(w) PROVE ExportsInv'
<1>1. PICK j, old : j = Exporting!Min(Exporting!Todo(w)) /\ old = pass[w]
  OBVIOUS
<1>2. Passing(old) /\ j \in old.jobs \ DOMAIN old.next /\ old.writing = 0
  BY <1>1, NextJob DEF ExportsInv, Exporting!Cancel, Exporting!Todo
<1>3. PICK jobs, next, writing : old = [jobs |-> jobs, next |-> next, writing |-> writing]
  BY <1>2 DEF Passing, IsPass
<1>4. PICK x : x = [jobs |-> jobs, next |-> Exporting!Put(next, j, "CANCELLED"), writing |-> writing]
  OBVIOUS
<1>5. x.jobs = old.jobs /\ x.next = Exporting!Put(old.next, j, "CANCELLED") /\ x.writing = 0 /\ IsPass(x)
  BY <1>2, <1>3, <1>4 DEF IsPass
<1>6. UNCHANGED <<job, file, got>>
  BY DEF Exporting!Cancel
<1>7. pass' = [pass EXCEPT ![w] = x]
  <2>1. pass' = [pass EXCEPT ![w] = [old EXCEPT !.next = Exporting!Put(old.next, j, "CANCELLED")]]
    BY <1>1, Zenon DEF Exporting!Cancel
  <2>2. old.next = next
    BY <1>3
  <2>3. [old EXCEPT !.next = Exporting!Put(next, j, "CANCELLED")] = x
    BY <1>3, <1>4
  <2>4. QED
    BY <2>1, <2>2, <2>3
<1>8. Passing(x)'
  <2>1. UNCHANGED job /\ \A i \in old.jobs \ {j} : file'[i] = file[i]
    BY <1>6
  <2>2. QED
    BY <1>2, <1>5, <2>1, Decides
<1>9. ExportTypes' /\ Exporting!ReadyIsWhole'
  BY <1>6, <1>7 DEF ExportsInv, ExportTypes, Exporting!ReadyIsWhole
<1>10. QED
  BY <1>1, <1>5, <1>6, <1>7, <1>8, <1>9, PassStep DEF ExportsInv

LEMMA ExportsOpen ==
  ASSUME ExportsInv, NEW w \in Workers, Exporting!Open(w) PROVE ExportsInv'
<1>1. PICK j, old : j = Exporting!Min(Exporting!Todo(w)) /\ old = pass[w]
  OBVIOUS
<1>2. Passing(old) /\ j \in old.jobs \ DOMAIN old.next /\ old.writing = 0
  BY <1>1, NextJob DEF ExportsInv, Exporting!Open, Exporting!Todo
<1>3. PICK jobs, next, writing : old = [jobs |-> jobs, next |-> next, writing |-> writing]
  BY <1>2 DEF Passing, IsPass
<1>4. PICK x : x = [jobs |-> jobs, next |-> next, writing |-> j]
  OBVIOUS
<1>5. x.jobs = old.jobs /\ x.next = old.next /\ x.writing = j /\ IsPass(x)
  BY <1>3, <1>4 DEF IsPass
<1>6. UNCHANGED <<job, got>> /\ file' = [file EXCEPT ![j] = "part"]
  BY <1>1 DEF Exporting!Open
<1>7. pass' = [pass EXCEPT ![w] = x]
  <2>1. pass' = [pass EXCEPT ![w] = [old EXCEPT !.writing = j]]
    BY <1>1, Zenon DEF Exporting!Open
  <2>2. [old EXCEPT !.writing = j] = x
    BY <1>3, <1>4
  <2>3. QED
    BY <2>1, <2>2
<1>8. j \in Exporting!Jobs /\ job[j].status = "PENDING" /\ \A i \in Exporting!Jobs : i # j => file'[i] = file[i]
  BY <1>2, <1>6 DEF Passing, Exporting!Pending, ExportsInv, ExportTypes
<1>9. Exporting!Pending' = Exporting!Pending
  BY <1>6 DEF Exporting!Pending
<1>10. Passing(x)'
  BY <1>2, <1>5, <1>8, <1>9 DEF Passing, Exporting!Pending
<1>11. ExportTypes' /\ Exporting!ReadyIsWhole'
  BY <1>6, <1>7, <1>8 DEF ExportsInv, ExportTypes, Exporting!ReadyIsWhole
<1>12. \A v \in Workers \ {w} : pass[v].jobs \subseteq Exporting!Jobs \ {j} /\ x.jobs \cap pass[v].jobs = {}
  BY <1>1, <1>2, <1>5 DEF ExportsInv, Passing, Exporting!Pending
<1>13. QED
  BY <1>6, <1>7, <1>8, <1>10, <1>11, <1>12, PassStep

LEMMA ExportsClose ==
  ASSUME ExportsInv, NEW w \in Workers, Exporting!Close(w) PROVE ExportsInv'
<1>1. PICK j, old : j = pass[w].writing /\ old = pass[w]
  OBVIOUS
<1>2. Passing(old) /\ j \in old.jobs \ DOMAIN old.next /\ old.writing = j
  BY <1>1 DEF ExportsInv, Exporting!Close, Passing
<1>3. PICK jobs, next, writing : old = [jobs |-> jobs, next |-> next, writing |-> writing]
  BY <1>2 DEF Passing, IsPass
<1>4. PICK x, y : y = Exporting!Put(next, j, "READY") /\ x = [jobs |-> jobs, next |-> y, writing |-> 0]
  OBVIOUS
<1>5. x.jobs = old.jobs /\ x.next = Exporting!Put(old.next, j, "READY") /\ x.writing = 0 /\ IsPass(x)
  BY <1>3, <1>4 DEF IsPass
<1>6. UNCHANGED <<job, got>> /\ file' = [file EXCEPT ![j] = "whole"]
  BY <1>1 DEF Exporting!Close
<1>7. pass' = [pass EXCEPT ![w] = x]
  <2>1. pass' = [pass EXCEPT ![w] = [jobs |-> old.jobs, next |-> Exporting!Put(old.next, j, "READY"), writing |-> 0]]
    BY <1>1 DEF Exporting!Close
  <2>2. QED
    BY <1>3, <1>4, <2>1
<1>8. j \in Exporting!Jobs /\ file'[j] = "whole" /\ \A i \in Exporting!Jobs : i # j => file'[i] = file[i]
  BY <1>2, <1>6 DEF Passing, Exporting!Pending, ExportsInv, ExportTypes
<1>9. old.jobs \subseteq Exporting!Jobs
  BY <1>2 DEF Passing, Exporting!Pending
<1>10. Passing(x)'
  BY <1>2, <1>5, <1>6, <1>8, <1>9, Decides
<1>11. ExportTypes' /\ Exporting!ReadyIsWhole'
  BY <1>6, <1>7, <1>8 DEF ExportsInv, ExportTypes, Exporting!ReadyIsWhole
<1>12. \A v \in Workers \ {w} : pass[v].jobs \subseteq Exporting!Jobs \ {j} /\ x.jobs \cap pass[v].jobs = {}
  BY <1>1, <1>2, <1>5 DEF ExportsInv, Passing, Exporting!Pending
<1>13. QED
  BY <1>6, <1>7, <1>8, <1>10, <1>11, <1>12, PassStep

LEMMA ExportsCommit ==
  ASSUME ExportsInv, NEW w \in Workers, Exporting!Commit(w) PROVE ExportsInv'
<1>1. PICK old : old = pass[w]
  OBVIOUS
<1>2. Passing(old) /\ old.jobs \subseteq DOMAIN old.next
  BY <1>1 DEF ExportsInv, Exporting!Commit, Exporting!Todo
<1>3. UNCHANGED <<file, got>> /\ pass' = [pass EXCEPT ![w] = Exporting!NoPass]
      /\ job' = [j \in Exporting!Jobs |-> IF j \in old.jobs THEN [job[j] EXCEPT !.status = old.next[j]] ELSE job[j]]
  BY <1>1 DEF Exporting!Commit
<1>4. ASSUME NEW j \in Exporting!Jobs
      PROVE  job'[j] \in JobRow /\ (job'[j].status = "READY" => file[j] = "whole")
  <2>1. CASE j \in old.jobs
    <3>1. PICK row1, to : row1 = job[j] /\ to = old.next[j]
      OBVIOUS
    <3>2. PICK new : new = [row1 EXCEPT !.status = to]
      OBVIOUS
    <3>3. row1 \in JobRow /\ (to = "CANCELLED" \/ (to = "READY" /\ file[j] = "whole"))
      BY <1>2, <2>1, <3>1 DEF ExportsInv, ExportTypes, Passing
    <3>4. new \in JobRow /\ new.status = to
      BY <3>2, <3>3 DEF JobRow
    <3>5. job'[j] = new
      BY <1>3, <2>1, <3>1, <3>2
    <3>6. QED
      BY <3>3, <3>4, <3>5
  <2>2. CASE j \notin old.jobs
    BY <1>3, <2>2 DEF ExportsInv, ExportTypes, Exporting!ReadyIsWhole
  <2>3. QED
    BY <2>1, <2>2
<1>5. ExportTypes' /\ Exporting!ReadyIsWhole'
  BY <1>3, <1>4 DEF ExportsInv, ExportTypes, Exporting!ReadyIsWhole
<1>6. \A v \in Workers \ {w} : \A j \in pass[v].jobs : job'[j] = job[j]
  BY <1>1, <1>3 DEF ExportsInv, Passing, Exporting!Pending
<1>7. QED
  BY <1>3, <1>5, <1>6, NoPassHolds, PassStep

LEMMA ExportsDie ==
  ASSUME ExportsInv, NEW w \in Workers, Exporting!Die(w) PROVE ExportsInv'
<1>1. UNCHANGED <<job, file, got>> /\ pass' = [pass EXCEPT ![w] = Exporting!NoPass]
  BY DEF Exporting!Die
<1>2. ExportTypes' /\ Exporting!ReadyIsWhole'
  BY <1>1 DEF ExportsInv, ExportTypes, Exporting!ReadyIsWhole
<1>3. QED
  BY <1>1, <1>2, NoPassHolds, PassStep

LEMMA ExportsNext ==
  ASSUME ExportsInv, [Exporting!Next]_exportVars PROVE ExportsInv'
<1>1. CASE UNCHANGED <<job, file, pass, got>>
  <2>1. ExportTypes' /\ Exporting!ReadyIsWhole'
    BY <1>1 DEF ExportsInv, ExportTypes, Exporting!ReadyIsWhole
  <2>2. QED
    BY <1>1, <2>1, PassesStay DEF Exporting!Pending
<1>2. CASE \E r \in Requests : Exporting!Count(r) \/ Exporting!Insert(r)
  BY <1>1, <1>2, ExportsInsert DEF Exporting!Count
<1>3. CASE \E w \in Workers : Exporting!Step(w) \/ Exporting!Die(w)
  BY <1>3, ExportsTake, ExportsCancel, ExportsOpen, ExportsClose, ExportsCommit, ExportsDie DEF Exporting!Step
<1>4. CASE \E j \in Exporting!Jobs : Exporting!Download(j) \/ Exporting!Expires(j)
  BY <1>4, ExportsDownload, ExportsExpires
<1>5. QED
  BY <1>1, <1>2, <1>3, <1>4 DEF Exporting!Next, Exporting!AccessChanges, exportVars

LEMMA ExportsTyped == ASSUME ExportsInv PROVE Exporting!ExportsTypeOK
<1>1. \A j \in Exporting!Jobs : job[j].status \in {None, "PENDING", "READY", "CANCELLED"}
  BY DEF ExportsInv, ExportTypes, JobRow
<1> QED BY <1>1 DEF ExportsInv, Passing, Exporting!ExportsTypeOK

---------------------------------------------------------------------------
(* Uploads: sizes.                                                         *)

LEMMA UploadCardinality == \A S : Upload!Cardinality(S) = Cardinality(S)
BY DEF Upload!Cardinality, Cardinality

LEMMA UploadConstants ==
  /\ TaskFiles \subseteq Files /\ IsFiniteSet(Files) /\ Size \in [Files -> Nat \ {0}] /\ Quota \in Nat
  /\ None \notin Contents \cup Requests \cup {"intent", "content", "complete"}
  /\ None \notin {"PENDING_UPLOAD", "PENDING_SCAN", "EXPIRED"}
<1>1. \A S : Upload!IsFiniteSet(S) <=> IsFiniteSet(S)
  BY DEF Upload!IsFiniteSet, IsFiniteSet
<1>2. QED
  BY <1>1, RequestsAssumption DEF Upload!UploadAssumption

BytesOf(f) == {f} \X (1..Size[f])
AllBytes(S) == UNION {BytesOf(f) : f \in S}

LEMMA BytesOfFile ==
  ASSUME NEW f \in Files PROVE IsFiniteSet(BytesOf(f)) /\ Cardinality(BytesOf(f)) = Size[f] /\ Size[f] \in Nat
<1>1. PICK n \in Nat : n = Size[f]
  BY UploadConstants
<1>2. IsFiniteSet(1..n) /\ Cardinality(1..n) = n
  BY FS_Interval
<1>3. IsFiniteSet({f}) /\ Cardinality({f}) = 1
  BY FS_Singleton
<1>4. IsFiniteSet({f} \X (1..n)) /\ Cardinality({f} \X (1..n)) = 1 * n
  BY <1>2, <1>3, FS_Product
<1>5. 1 * n = n
  OBVIOUS
<1>6. QED
  BY <1>1, <1>4, <1>5 DEF BytesOf

LEMMA BytesFinite ==
  ASSUME NEW S, S \subseteq Files
  PROVE  IsFiniteSet(AllBytes(S)) /\ Upload!SizeOf(S) = Cardinality(AllBytes(S)) /\ Upload!SizeOf(S) \in Nat
<1>1. \A f \in Files : IsFiniteSet(BytesOf(f))
  BY BytesOfFile
<1>2. IsFiniteSet(S)
  BY UploadConstants, FS_Subset
<1>3. IsFiniteSet({BytesOf(f) : f \in S})
  <2>1. PICK g : g = [f \in S |-> BytesOf(f)]
    OBVIOUS
  <2>2. g \in [S -> {BytesOf(f) : f \in S}] /\ \A T \in {BytesOf(f) : f \in S} : \E f \in S : g[f] = T
    BY <2>1
  <2>3. g \in Surjection(S, {BytesOf(f) : f \in S})
    BY <2>2 DEF Surjection
  <2>4. QED
    BY <1>2, <2>3, FS_Surjection
<1>4. IsFiniteSet(AllBytes(S))
  BY <1>1, <1>3, FS_UNION DEF AllBytes
<1>5. Upload!SizeOf(S) = Cardinality(AllBytes(S))
  BY UploadCardinality DEF Upload!SizeOf, AllBytes, BytesOf
<1>6. QED
  BY <1>4, <1>5, FS_CardinalityType

LEMMA SizeGrows ==
  ASSUME NEW T, T \subseteq Files, NEW S, S \subseteq T PROVE Upload!SizeOf(S) <= Upload!SizeOf(T)
<1>1. AllBytes(S) \subseteq AllBytes(T)
  BY DEF AllBytes
<1>2. QED
  BY <1>1, BytesFinite, FS_Subset

LEMMA SizeAdds ==
  ASSUME NEW S, S \subseteq Files, NEW f \in Files
  PROVE  Upload!SizeOf(S \cup {f}) <= Upload!SizeOf(S) + Size[f]
<1>1. AllBytes(S \cup {f}) = AllBytes(S) \cup BytesOf(f)
  BY DEF AllBytes
<1>2. IsFiniteSet(BytesOf(f)) /\ Cardinality(BytesOf(f)) = Size[f] /\ Size[f] \in Nat
  BY BytesOfFile
<1>3. IsFiniteSet(AllBytes(S)) /\ Upload!SizeOf(S) = Cardinality(AllBytes(S))
  BY BytesFinite
<1>4. Upload!SizeOf(S \cup {f}) = Cardinality(AllBytes(S) \cup BytesOf(f))
  BY <1>1, BytesFinite
<1>5. Cardinality(AllBytes(S) \cup BytesOf(f))
        = Cardinality(AllBytes(S)) + Cardinality(BytesOf(f)) - Cardinality(AllBytes(S) \cap BytesOf(f))
  BY <1>2, <1>3, FS_Union
<1>6. Cardinality(AllBytes(S) \cap BytesOf(f)) \in Nat /\ Cardinality(AllBytes(S)) \in Nat
  BY <1>2, <1>3, FS_Intersection, FS_CardinalityType
<1>7. QED
  BY <1>2, <1>3, <1>4, <1>5, <1>6, UploadConstants

---------------------------------------------------------------------------
(* Uploads: requests and rows.                                             *)

Version == [status : {None, "PENDING_UPLOAD", "PENDING_SCAN", "EXPIRED"}, sha : Contents \cup {None}, version : Nat]
UploadRequest == [op : {None, "intent", "content", "complete"}, file : Files \cup {None},
                  pc : {"idle", "lock", "insert", "body", "record"}, seenCase : {None, "DRAFT", "UNDER_REVIEW"},
                  seen : Version]
UploadTypes ==
  /\ row \in [Files -> Version] /\ passed \in [Files -> BOOLEAN]
  /\ object \in [Files -> Contents \cup {None}] /\ told \in [Files -> Contents \cup {None}]
  /\ part \in [Files -> BOOLEAN] /\ req \in [Requests -> UploadRequest] /\ upLock \in Requests \cup {None}
  /\ upCase \in {"DRAFT", "UNDER_REVIEW"} /\ started \in Nat

\* The last state of a row that is not there yet, and of one that has expired.
RowsStand ==
  \A f \in Files :
    /\ row[f].version = 0 <=> row[f] = Upload!NoRow
    /\ row[f].status = None => row[f] = Upload!NoRow
    /\ row[f].status = "EXPIRED" => passed[f]

\* What a request q of its file has read, holds and found.
Sound(r, q) ==
  q.op # None =>
    /\ q.file \in Files /\ q.pc # "idle"
    /\ q.seen.version <= row[q.file].version
    /\ q.seen.version = row[q.file].version => q.seen = row[q.file]
    /\ q.seen.status = "EXPIRED" => passed[q.file]
    /\ q.pc # "lock" => upLock = r
    /\ q.op = "intent" => q.pc \in {"lock", "insert"} /\ row[q.file] = Upload!NoRow
    /\ q.op = "content" => q.pc \in {"lock", "body", "record"} /\ q.seen.version > 0
    /\ q.op = "complete" => q.pc \in {"lock", "record"} /\ q.seen.version > 0 /\ ~Upload!Uploaded(q.seen)
    /\ q.op = "content" /\ q.pc # "lock" => Upload!Pending(q.seen)
    /\ q.pc = "body" => object[q.file] = None
    /\ q.pc = "record" => object[q.file] # None
    /\ q.op = "complete" /\ q.pc = "record" =>
         q.seen.status # "EXPIRED" /\ (q.file \in TaskFiles => task \in {"OPEN", "REOPENED"})

Serving ==
  /\ \A r \in Requests : Sound(r, req[r]) /\ (req[r].op = None => req[r] = Upload!Idle)
  /\ \A q, r \in Requests : req[q].op = "intent" /\ req[r].op = "intent" /\ req[q].file = req[r].file => q = r

\* Files that have room in the quota, or are about to have it.
Roomed(q) == q.pc = "insert" \/ (q.op = "complete" /\ q.pc = "record")
Promised == {f \in Files : Upload!Reserved(f) \/ \E r \in Requests : Roomed(req[r]) /\ req[r].file = f}

UploadInv == UploadTypes /\ RowsStand /\ Serving /\ Upload!SizeOf(Promised) <= Quota /\ Upload!StoredAsTold

LEMMA UploadIdle ==
  /\ Upload!NoRow \in Version /\ Upload!NoRow.version = 0 /\ Upload!NoRow.status = None
  /\ Upload!Idle \in UploadRequest /\ Upload!Idle.op = None /\ Upload!Idle.pc = "idle" /\ ~Roomed(Upload!Idle)
<1>1. Upload!NoRow \in Version /\ Upload!NoRow.version = 0 /\ Upload!NoRow.status = None
  BY DEF Upload!NoRow, Version
<1>2. Upload!Idle \in UploadRequest /\ Upload!Idle.op = None /\ Upload!Idle.pc = "idle"
  BY <1>1 DEF Upload!Idle, UploadRequest
<1>3. QED
  BY <1>1, <1>2, UploadConstants DEF Roomed

LEMMA UploadMoved ==
  ASSUME NEW old \in UploadRequest, NEW p \in {"idle", "lock", "insert", "body", "record"}, NEW q, q = [old EXCEPT !.pc = p]
  PROVE  q \in UploadRequest /\ q.pc = p /\ q.op = old.op /\ q.file = old.file /\ q.seenCase = old.seenCase /\ q.seen = old.seen
BY DEF UploadRequest

\* What a request has found stays so while others only raise versions, and only the holder of
\* the lock moves the task or publishes an object.
LEMMA StaysSound ==
  ASSUME UploadTypes, UploadTypes', NEW s \in Requests, NEW q \in UploadRequest, Sound(s, q),
         \A f \in Files : row'[f] = row[f] \/ row'[f].version > row[f].version,
         \A f \in Files : (passed[f] => passed'[f]) /\ (object[f] # None => object'[f] # None),
         q.op = "intent" => row'[q.file] = row[q.file],
         q.op # None /\ q.pc # "lock" => upLock' = upLock /\ task' = task /\ object'[q.file] = object[q.file]
  PROVE  Sound(s, q)'
<1> SUFFICES ASSUME q.op # None PROVE Sound(s, q)'
  BY DEF Sound
<1>1. q.file \in Files /\ q.seen \in Version /\ q.seen.version \in Nat
  BY DEF Sound, UploadRequest, Version
<1>2. row[q.file].version \in Nat /\ row'[q.file].version \in Nat
  BY <1>1 DEF UploadTypes, Version
<1>3. q.seen.version <= row'[q.file].version /\ (q.seen.version = row'[q.file].version => q.seen = row'[q.file])
  BY <1>1, <1>2 DEF Sound
<1>4. QED
  BY <1>1, <1>3 DEF Sound

LEMMA ServingStep ==
  ASSUME UploadInv, UploadTypes', NEW r \in Requests, NEW q, req' = [req EXCEPT ![r] = q],
         Sound(r, q)', q.op = None => q = Upload!Idle,
         \A s \in Requests \ {r} : q.op = "intent" /\ req[s].op = "intent" => req[s].file # q.file,
         \A f \in Files : row'[f] = row[f] \/ row'[f].version > row[f].version,
         \A f \in Files : (passed[f] => passed'[f]) /\ (object[f] # None => object'[f] # None),
         \A s \in Requests \ {r} : req[s].op = "intent" => row'[req[s].file] = row[req[s].file],
         \/ upLock' = upLock /\ object' = object /\ task' = task
         \/ upLock \in {None, r} /\ upLock' \in {None, r}
  PROVE  Serving'
<1>1. ASSUME NEW s \in Requests, s # r PROVE Sound(s, req[s])' /\ (req'[s].op = None => req'[s] = Upload!Idle)
  <2>1. PICK y : y = req[s]
    OBVIOUS
  <2>2. y \in UploadRequest /\ Sound(s, y) /\ req'[s] = y /\ (y.op = None => y = Upload!Idle)
    BY <1>1, <2>1 DEF UploadInv, UploadTypes, Serving
  <2>3. y.op # None /\ y.pc # "lock" => upLock' = upLock /\ task' = task /\ object'[y.file] = object[y.file]
    BY <1>1, <2>2, UploadConstants DEF Sound
  <2>4. Sound(s, y)'
    BY <1>1, <2>1, <2>2, <2>3, StaysSound DEF UploadInv
  <2>5. QED
    BY <2>2, <2>4 DEF Sound
<1>2. req'[r] = q /\ \A s \in Requests \ {r} : req'[s] = req[s]
  BY DEF UploadInv, UploadTypes
<1>3. Sound(r, req[r])'
  BY <1>2 DEF Sound
<1>4. \A s, t \in Requests : req'[s].op = "intent" /\ req'[t].op = "intent" /\ req'[s].file = req'[t].file => s = t
  BY <1>2 DEF UploadInv, Serving
<1>5. QED
  BY <1>1, <1>2, <1>3, <1>4 DEF Serving

LEMMA UploadInit == Upload!Init => UploadInv
<1> SUFFICES ASSUME Upload!Init PROVE UploadInv
  OBVIOUS
<1>1. UploadTypes
  BY UploadIdle DEF Upload!Init, UploadTypes
<1>2. RowsStand /\ Upload!StoredAsTold
  BY UploadIdle, UploadConstants DEF Upload!Init, RowsStand, Upload!StoredAsTold, Upload!Uploaded
<1>3. Serving
  BY UploadIdle, UploadConstants DEF Upload!Init, Serving, Sound
<1>4. Promised = {}
  BY UploadIdle DEF Upload!Init, Promised, Upload!Reserved
<1>5. Upload!SizeOf({}) = 0
  <2>1. AllBytes({}) = {}
    BY DEF AllBytes
  <2>2. QED
    BY <2>1, BytesFinite, FS_EmptySet
<1>6. QED
  BY <1>1, <1>2, <1>3, <1>4, <1>5, UploadConstants DEF UploadInv

\* What promises no more keeps to the quota.
LEMMA PromisesKept ==
  ASSUME UploadInv, Promised' \subseteq Promised PROVE (Upload!SizeOf(Promised) <= Quota)'
<1>1. PICK P : P = Promised'
  OBVIOUS
<1>2. PICK N : N = Promised
  OBVIOUS
<1>3. P \subseteq N /\ N \subseteq Files /\ Upload!SizeOf(N) <= Quota
  BY <1>1, <1>2 DEF UploadInv, Promised
<1>4. Upload!SizeOf(P) <= Upload!SizeOf(N) /\ Upload!SizeOf(P) \in Nat /\ Upload!SizeOf(N) \in Nat
  BY <1>3, SizeGrows, BytesFinite
<1>5. Upload!SizeOf(P) <= Quota
  BY <1>3, <1>4, UploadConstants
<1>6. QED
  BY <1>1, <1>5 DEF Upload!SizeOf

LEMMA UploadStep ==
  ASSUME UploadInv, UploadTypes', RowsStand', Serving', Upload!StoredAsTold', Promised' \subseteq Promised
  PROVE  UploadInv'
BY PromisesKept DEF UploadInv

\* A step of a request that leaves rows and objects as they are.
LEMMA QuietStep ==
  ASSUME UploadInv, NEW r \in Requests, NEW q \in UploadRequest, req' = [req EXCEPT ![r] = q],
         UNCHANGED <<row, passed, object, told, task, upCase>>, part' \in [Files -> BOOLEAN], started' \in Nat,
         Sound(r, q)', q.op = None => q = Upload!Idle,
         \A s \in Requests \ {r} : q.op = "intent" /\ req[s].op = "intent" => req[s].file # q.file,
         upLock' \in Requests \cup {None}, upLock' = upLock \/ (upLock \in {None, r} /\ upLock' \in {None, r})
  PROVE  UploadTypes' /\ RowsStand' /\ Serving' /\ Upload!StoredAsTold'
<1>1. UploadTypes'
  BY DEF UploadInv, UploadTypes
<1>2. RowsStand' /\ Upload!StoredAsTold'
  BY DEF UploadInv, RowsStand, Upload!StoredAsTold
<1>3. Serving'
  BY <1>1, ServingStep
<1>4. QED
  BY <1>1, <1>2, <1>3

\* A request that is not about to write, or that is done, keeps no room.
LEMMA QuietPromises ==
  ASSUME UploadInv, NEW r \in Requests, NEW q, req' = [req EXCEPT ![r] = q], UNCHANGED <<row, passed>>, ~Roomed(q)
  PROVE  Promised' \subseteq Promised
BY DEF UploadInv, UploadTypes, Promised, Upload!Reserved

LEMMA UploadAnswers ==
  ASSUME UploadInv, NEW r \in Requests, Upload!Answer(r), UNCHANGED <<row, passed, object, told, task, upCase>>,
         part' \in [Files -> BOOLEAN], started' \in Nat
  PROVE  UploadInv'
<1>1. PICK q : q = Upload!Idle
  OBVIOUS
<1>2. q \in UploadRequest /\ q.op = None /\ q.pc = "idle" /\ ~Roomed(q) /\ req' = [req EXCEPT ![r] = q]
  BY <1>1, UploadIdle DEF Upload!Answer
<1>3. upLock' = IF upLock = r THEN None ELSE upLock
  BY DEF Upload!Answer, Upload!Release
<1>4. UploadTypes' /\ RowsStand' /\ Serving' /\ Upload!StoredAsTold'
  <2>1. Sound(r, q)'
    BY <1>2 DEF Sound
  <2>2. upLock' \in Requests \cup {None} /\ (upLock' = upLock \/ (upLock \in {None, r} /\ upLock' \in {None, r}))
    BY <1>3 DEF UploadInv, UploadTypes
  <2>3. QED
    BY <1>1, <1>2, <2>1, <2>2, UploadConstants, QuietStep
<1>5. QED
  BY <1>2, <1>4, QuietPromises, UploadStep

LEMMA UploadBegins ==
  ASSUME UploadInv, NEW r \in Requests, NEW f \in Files, NEW op \in {"intent", "content", "complete"},
         Upload!Begin(r, op, f, "lock"), UNCHANGED <<row, passed, object, told, task, upCase, part, upLock>>,
         op = "intent" => row[f] = Upload!NoRow /\ \A s \in Requests : req[s].op = "intent" => req[s].file # f,
         op # "intent" => row[f] # Upload!NoRow,
         op = "complete" => ~Upload!Uploaded(row[f])
  PROVE  UploadInv'
<1>1. PICK v : v = row[f]
  OBVIOUS
<1>2. PICK q : q = [op |-> op, file |-> f, pc |-> "lock", seenCase |-> upCase, seen |-> v]
  OBVIOUS
<1>3. v \in Version /\ upCase \in {"DRAFT", "UNDER_REVIEW"} /\ v.version \in Nat
  BY <1>1 DEF UploadInv, UploadTypes, Version
<1>4. q \in UploadRequest /\ q.op = op /\ q.file = f /\ q.pc = "lock" /\ q.seen = v
  BY <1>2, <1>3 DEF UploadRequest
<1>5. req' = [req EXCEPT ![r] = q] /\ started' = started + 1
  BY <1>1, <1>2 DEF Upload!Begin
<1>6. Sound(r, q)'
  <2>1. op # "intent" => v.version > 0
    BY <1>1, <1>3 DEF UploadInv, RowsStand
  <2>2. v.status = "EXPIRED" => passed[f]
    BY <1>1 DEF UploadInv, RowsStand
  <2>3. op = "complete" => ~Upload!Uploaded(v)
    BY <1>1
  <2>4. row'[f] = v /\ passed'[f] = passed[f]
    BY <1>1
  <2>5. QED
    BY <1>1, <1>3, <1>4, <2>1, <2>2, <2>3, <2>4 DEF Sound
<1>7. ~Roomed(q) /\ q.op # None
  BY <1>4, UploadConstants DEF Roomed
<1>8. \A s \in Requests \ {r} : q.op = "intent" /\ req[s].op = "intent" => req[s].file # q.file
  BY <1>4
<1>9. started' \in Nat /\ part' \in [Files -> BOOLEAN] /\ upLock' = upLock /\ upLock' \in Requests \cup {None}
  BY <1>5 DEF UploadInv, UploadTypes
<1>10. UploadTypes' /\ RowsStand' /\ Serving' /\ Upload!StoredAsTold'
  BY <1>4, <1>5, <1>6, <1>7, <1>8, <1>9, QuietStep
<1>11. QED
  BY <1>5, <1>7, <1>10, QuietPromises, UploadStep

\* A request that found what it needs takes the lock and goes on.
LEMMA UploadLocks ==
  ASSUME UploadInv, NEW r \in Requests, NEW p \in {"insert", "body", "record"}, upLock = None, upLock' = r,
         NEW q, q = [req[r] EXCEPT !.pc = p], req' = [req EXCEPT ![r] = q], req[r].op # None, Sound(r, q)',
         UNCHANGED <<row, passed, object, told, task, upCase, started>>, part' \in [Files -> BOOLEAN]
  PROVE  UploadTypes' /\ RowsStand' /\ Serving' /\ Upload!StoredAsTold'
<1>1. PICK old : old = req[r]
  OBVIOUS
<1>2. old \in UploadRequest
  BY <1>1 DEF UploadInv, UploadTypes
<1>3. q \in UploadRequest /\ q.pc = p /\ q.op = old.op /\ q.file = old.file
  BY <1>1, <1>2, UploadMoved
<1>4. \A s \in Requests \ {r} : q.op = "intent" /\ req[s].op = "intent" => req[s].file # q.file
  BY <1>1, <1>3 DEF UploadInv, Serving
<1>5. started' \in Nat /\ upLock' \in Requests \cup {None} /\ q.op # None
  BY <1>1, <1>3 DEF UploadInv, UploadTypes
<1>6. QED
  BY <1>3, <1>4, <1>5, QuietStep

LEMMA UploadIntentCheck ==
  ASSUME UploadInv, NEW r \in Requests, Upload!IntentCheck(r) PROVE UploadInv'
<1>1. PICK old : old = req[r]
  OBVIOUS
<1>2. PICK f : f = old.file
  OBVIOUS
<1>3. old \in UploadRequest /\ Sound(r, old) /\ old.op = "intent" /\ old.op # None /\ f \in Files
  BY <1>1, <1>2, UploadConstants DEF UploadInv, UploadTypes, Serving, Sound, Upload!IntentCheck
<1>4. UNCHANGED <<row, passed, object, told, task, upCase, part, started>> /\ upLock = None
  BY DEF Upload!IntentCheck, Upload!env, Upload!disk
<1>5. part' \in [Files -> BOOLEAN] /\ started' \in Nat
  BY <1>4 DEF UploadInv, UploadTypes
<1>6. CASE Upload!Answer(r)
  BY <1>4, <1>5, <1>6, UploadAnswers
<1>7. CASE /\ Upload!Spent + Size[f] <= Quota /\ upLock' = r
           /\ req' = [req EXCEPT ![r] = [old EXCEPT !.pc = "insert"]]
  <2>1. PICK q : q = [old EXCEPT !.pc = "insert"]
    OBVIOUS
  <2>2. q.pc = "insert" /\ q.op = old.op /\ q.file = old.file /\ q.seen = old.seen
    BY <1>3, <2>1, UploadMoved
  <2>3. Sound(r, q)'
    BY <1>3, <1>4, <1>7, <2>2 DEF Sound
  <2>4. UploadTypes' /\ RowsStand' /\ Serving' /\ Upload!StoredAsTold'
    BY <1>1, <1>3, <1>4, <1>5, <1>7, <2>1, <2>3, UploadLocks
  <2>5. PICK S : S = {g \in Files : Upload!Reserved(g)}
    OBVIOUS
  <2>6. \A s \in Requests : ~Roomed(req[s])
    BY <1>4, UploadIdle, UploadConstants DEF UploadInv, Serving, Sound, Roomed
  <2>7. PICK P : P = Promised'
    OBVIOUS
  <2>8. P \subseteq S \cup {f}
    BY <1>2, <1>4, <1>7, <2>1, <2>2, <2>5, <2>6, <2>7 DEF Promised, Upload!Reserved, UploadInv, UploadTypes
  <2>9. S \subseteq Files /\ Upload!SizeOf(S) = Upload!Spent
    BY <2>5 DEF Upload!Spent
  <2>10. Upload!SizeOf(S) + Size[f] <= Quota
    BY <1>7, <2>9
  <2>11. /\ Upload!SizeOf(P) <= Upload!SizeOf(S \cup {f}) /\ Upload!SizeOf(S \cup {f}) <= Upload!SizeOf(S) + Size[f]
         /\ Upload!SizeOf(P) \in Nat /\ Upload!SizeOf(S \cup {f}) \in Nat /\ Upload!SizeOf(S) \in Nat /\ Size[f] \in Nat
    BY <1>3, <2>8, <2>9, SizeGrows, SizeAdds, BytesFinite, BytesOfFile
  <2>12. Upload!SizeOf(P) <= Quota
    BY <2>10, <2>11, UploadConstants
  <2>13. (Upload!SizeOf(Promised) <= Quota)'
    BY <2>7, <2>12 DEF Upload!SizeOf
  <2>14. QED
    BY <2>4, <2>13 DEF UploadInv
<1>8. QED
  BY <1>1, <1>2, <1>6, <1>7 DEF Upload!IntentCheck

LEMMA UploadContentLock ==
  ASSUME UploadInv, NEW r \in Requests, Upload!ContentLock(r) PROVE UploadInv'
<1>1. PICK old : old = req[r]
  OBVIOUS
<1>2. PICK f : f = old.file
  OBVIOUS
<1>3. old \in UploadRequest /\ Sound(r, old) /\ old.op = "content" /\ old.op # None /\ f \in Files
  BY <1>1, <1>2, UploadConstants DEF UploadInv, UploadTypes, Serving, Sound, Upload!ContentLock
<1>4. UNCHANGED <<row, passed, object, told, task, upCase, started>> /\ upLock = None
  BY DEF Upload!ContentLock, Upload!env
<1>5. started' \in Nat /\ part \in [Files -> BOOLEAN]
  BY <1>4 DEF UploadInv, UploadTypes
<1>6. CASE Upload!Answer(r) /\ UNCHANGED part
  BY <1>4, <1>5, <1>6, UploadAnswers
<1>7. CASE /\ Upload!Pending(old.seen) /\ object[f] = None /\ upLock' = r /\ part' = [part EXCEPT ![f] = TRUE]
           /\ req' = [req EXCEPT ![r] = [old EXCEPT !.pc = "body"]]
  <2>1. PICK q : q = [old EXCEPT !.pc = "body"]
    OBVIOUS
  <2>2. q.pc = "body" /\ q.op = old.op /\ q.file = old.file /\ q.seen = old.seen
    BY <1>3, <2>1, UploadMoved
  <2>3. Sound(r, q)'
    BY <1>2, <1>3, <1>4, <1>7, <2>2 DEF Sound
  <2>4. part' \in [Files -> BOOLEAN]
    BY <1>5, <1>7
  <2>5. UploadTypes' /\ RowsStand' /\ Serving' /\ Upload!StoredAsTold'
    BY <1>1, <1>3, <1>4, <1>7, <2>1, <2>3, <2>4, UploadLocks
  <2>6. ~Roomed(q)
    BY <1>3, <2>2 DEF Roomed
  <2>7. QED
    BY <1>4, <1>7, <2>1, <2>5, <2>6, QuietPromises, UploadStep
<1>8. QED
  BY <1>1, <1>2, <1>6, <1>7 DEF Upload!ContentLock

\* An upload that is neither expired nor past its time has its room already.
LEMMA UploadCompleteCheck ==
  ASSUME UploadInv, NEW r \in Requests, Upload!CompleteCheck(r) PROVE UploadInv'
<1>1. PICK old : old = req[r]
  OBVIOUS
<1>2. PICK f : f = old.file
  OBVIOUS
<1>3. old \in UploadRequest /\ Sound(r, old) /\ old.op = "complete" /\ old.op # None /\ f \in Files
  BY <1>1, <1>2, UploadConstants DEF UploadInv, UploadTypes, Serving, Sound, Upload!CompleteCheck
<1>4. UNCHANGED <<row, passed, object, told, task, upCase, part, started>> /\ upLock = None
  BY DEF Upload!CompleteCheck, Upload!env, Upload!disk
<1>5. part' \in [Files -> BOOLEAN] /\ started' \in Nat
  BY <1>4 DEF UploadInv, UploadTypes
<1>6. CASE Upload!Answer(r)
  BY <1>4, <1>5, <1>6, UploadAnswers
<1>7. CASE /\ Upload!Editable(f, old.seenCase) /\ ~passed[f] /\ object[f] # None /\ upLock' = r
           /\ req' = [req EXCEPT ![r] = [old EXCEPT !.pc = "record"]]
  <2>1. PICK q : q = [old EXCEPT !.pc = "record"]
    OBVIOUS
  <2>2. q.pc = "record" /\ q.op = old.op /\ q.file = old.file /\ q.seen = old.seen
    BY <1>3, <2>1, UploadMoved
  <2>3. f \in TaskFiles => task \in {"OPEN", "REOPENED"}
    BY <1>7 DEF Upload!Editable
  <2>4. Sound(r, q)'
    BY <1>2, <1>3, <1>4, <1>7, <2>2, <2>3 DEF Sound
  <2>5. UploadTypes' /\ RowsStand' /\ Serving' /\ Upload!StoredAsTold'
    BY <1>1, <1>3, <1>4, <1>5, <1>7, <2>1, <2>4, UploadLocks
  <2>6. Upload!Reserved(f)
    <3>1. old.seen.version \in Nat /\ row[f].version \in Nat
      BY <1>3 DEF UploadRequest, Version, UploadInv, UploadTypes
    <3>2. row[f].version # 0
      BY <1>2, <1>3, <3>1 DEF Sound
    <3>3. row[f].status # None
      BY <1>3, <3>2 DEF UploadInv, RowsStand
    <3>4. row[f].status # "EXPIRED"
      BY <1>3, <1>7 DEF UploadInv, RowsStand
    <3>5. QED
      BY <1>7, <3>3, <3>4 DEF Upload!Reserved
  <2>7. Promised' \subseteq Promised
    BY <1>2, <1>3, <1>4, <1>7, <2>1, <2>2, <2>6 DEF Promised, Upload!Reserved, UploadInv, UploadTypes
  <2>8. QED
    BY <2>5, <2>7, UploadStep
<1>8. QED
  BY <1>1, <1>2, <1>6, <1>7 DEF Upload!CompleteCheck

LEMMA UploadBodyFails ==
  ASSUME UploadInv, NEW r \in Requests, Upload!BodyFails(r) PROVE UploadInv'
<1>1. PICK f : f = req[r].file
  OBVIOUS
<1>2. part' = [part EXCEPT ![f] = FALSE] /\ UNCHANGED <<row, passed, object, told, task, upCase, started>> /\ Upload!Answer(r)
  BY <1>1 DEF Upload!BodyFails, Upload!env
<1>3. part' \in [Files -> BOOLEAN] /\ started' \in Nat
  BY <1>2 DEF UploadInv, UploadTypes
<1>4. QED
  BY <1>2, <1>3, UploadAnswers

\* The holder of the lock writes its row and answers.
LEMMA UploadWrites ==
  ASSUME UploadInv, NEW r \in Requests, NEW f \in Files, NEW v \in Version, Upload!Answer(r), upLock = r,
         req[r].op # None, req[r].file = f, row' = [row EXCEPT ![f] = v],
         v.version > row[f].version, v.status \notin {None, "EXPIRED"},
         row[f] # Upload!NoRow \/ req[r].op = "intent",
         f \in Promised \/ v.status = row[f].status,
         told' \in [Files -> Contents \cup {None}], \A g \in Files \ {f} : told'[g] = told[g],
         told'[f] # None => object[f] = told'[f] /\ v.sha = told'[f],
         Upload!Uploaded(v) => object[f] # None /\ v.sha = object[f],
         UNCHANGED <<passed, object, task, upCase, started>>, part' \in [Files -> BOOLEAN]
  PROVE  UploadInv'
<1>1. PICK q : q = Upload!Idle
  OBVIOUS
<1>2. q \in UploadRequest /\ q.op = None /\ q.pc = "idle" /\ ~Roomed(q) /\ req' = [req EXCEPT ![r] = q]
  BY <1>1, UploadIdle DEF Upload!Answer
<1>3. upLock' \in {None, r} /\ upLock \in {None, r}
  BY DEF Upload!Answer, Upload!Release
<1>4. row'[f] = v /\ \A g \in Files \ {f} : row'[g] = row[g]
  BY DEF UploadInv, UploadTypes
<1>5. UploadTypes'
  BY <1>2, <1>3 DEF UploadInv, UploadTypes
<1>6. RowsStand'
  <2>1. v.version # 0 /\ v # Upload!NoRow
    <3>1. row[f].version \in Nat /\ v.version \in Nat
      BY DEF UploadInv, UploadTypes, Version
    <3>2. QED
      BY <3>1, UploadIdle
  <2>2. QED
    BY <1>4, <2>1 DEF UploadInv, RowsStand
<1>7. Upload!StoredAsTold'
  BY <1>4 DEF UploadInv, Upload!StoredAsTold
<1>8. Serving'
  <2>1. \A s \in Requests \ {r} : req[s].op = "intent" => row'[req[s].file] = row[req[s].file]
    <3>1. ASSUME NEW s \in Requests \ {r}, req[s].op = "intent" PROVE req[s].file \in Files \ {f}
      <4>1. req[s].file \in Files /\ row[req[s].file] = Upload!NoRow
        BY <3>1, UploadConstants DEF UploadInv, Serving, Sound
      <4>2. req[r].op = "intent" => req[s].file # f
        BY <3>1 DEF UploadInv, Serving
      <4>3. QED
        BY <4>1, <4>2
    <3>2. QED
      BY <1>4, <3>1
  <2>2. Sound(r, q)'
    BY <1>2 DEF Sound
  <2>3. q.op # "intent"
    BY <1>2, UploadConstants
  <2>4. \A g \in Files : row'[g] = row[g] \/ row'[g].version > row[g].version
    BY <1>4
  <2>5. QED
    BY <1>1, <1>2, <1>3, <1>5, <2>1, <2>2, <2>3, <2>4, ServingStep
<1>9. Promised' \subseteq Promised
  <2>1. \A g \in Files : Upload!Reserved(g)' => Upload!Reserved(g) \/ g \in Promised
    BY <1>4 DEF Upload!Reserved, Upload!Uploaded
  <2>2. \A s \in Requests : Roomed(req'[s]) => req'[s] = req[s]
    BY <1>2 DEF UploadInv, UploadTypes
  <2>3. QED
    BY <2>1, <2>2 DEF Promised
<1>10. QED
  BY <1>5, <1>6, <1>7, <1>8, <1>9, UploadStep

LEMMA UploadIntentInsert ==
  ASSUME UploadInv, NEW r \in Requests, Upload!IntentInsert(r) PROVE UploadInv'
<1>1. PICK f, v : f = req[r].file /\ v = [status |-> "PENDING_UPLOAD", sha |-> None, version |-> 1]
  OBVIOUS
<1>2. v \in Version /\ v.version = 1 /\ v.status = "PENDING_UPLOAD" /\ v.sha = None
  BY <1>1 DEF Version
<1>3. /\ Upload!Answer(r) /\ row' = [row EXCEPT ![f] = v] /\ req[r].op = "intent" /\ req[r].pc = "insert"
      /\ UNCHANGED <<passed, object, task, upCase, started, part, told>>
  BY <1>1 DEF Upload!IntentInsert, Upload!env, Upload!disk
<1>4. f \in Files /\ row[f] = Upload!NoRow /\ upLock = r /\ req[r].op # None
  BY <1>1, <1>3, UploadConstants DEF UploadInv, Serving, Sound
<1>5. row[f].version = 0 /\ row[f].sha = None
  BY <1>4 DEF Upload!NoRow
<1>6. told[f] = None /\ ~Upload!Uploaded(v)
  BY <1>2, <1>4, <1>5 DEF UploadInv, Upload!StoredAsTold, Upload!Uploaded
<1>7. f \in Promised
  BY <1>1, <1>3, <1>4 DEF Promised, Roomed
<1>8. told' \in [Files -> Contents \cup {None}] /\ part' \in [Files -> BOOLEAN]
  BY <1>3 DEF UploadInv, UploadTypes
<1>9. v.version > row[f].version /\ v.status \notin {None, "EXPIRED"} /\ req[r].file = f
  BY <1>1, <1>2, <1>5, UploadConstants
<1>10. told'[f] = None /\ \A g \in Files \ {f} : told'[g] = told[g]
  BY <1>3, <1>6
<1>11. QED
  BY <1>2, <1>3, <1>4, <1>6, <1>7, <1>8, <1>9, <1>10, UploadWrites

LEMMA UploadContentRecord ==
  ASSUME UploadInv, NEW r \in Requests, Upload!ContentRecord(r) PROVE UploadInv'
<1>1. PICK old : old = req[r]
  OBVIOUS
<1>2. PICK f, seen : f = old.file /\ seen = old.seen
  OBVIOUS
<1>3. PICK v : v = [seen EXCEPT !.sha = object[f], !.version = seen.version + 1]
  OBVIOUS
<1>4. old \in UploadRequest /\ Sound(r, old) /\ old.op = "content" /\ old.op # None /\ old.pc = "record"
  BY <1>1, UploadConstants DEF UploadInv, UploadTypes, Serving, Upload!ContentRecord
<1>5. /\ f \in Files /\ upLock = r /\ object[f] # None /\ Upload!Pending(seen) /\ seen \in Version
      /\ (seen.version = row[f].version => seen = row[f]) /\ seen.version > 0
  BY <1>2, <1>4 DEF Sound, UploadRequest
<1>6. PICK n, o : n = seen.version + 1 /\ o = object[f]
  OBVIOUS
<1>7. n \in Nat /\ n > seen.version /\ o \in Contents
  BY <1>5, <1>6 DEF Version, UploadInv, UploadTypes
<1>8. v = [seen EXCEPT !.sha = o, !.version = n]
  BY <1>3, <1>6
<1>9. v \in Version /\ v.status = "PENDING_UPLOAD" /\ v.sha = o /\ v.version = n
  BY <1>5, <1>7, <1>8 DEF Version, Upload!Pending
<1>10. /\ part' = [part EXCEPT ![f] = FALSE] /\ Upload!Answer(r)
       /\ UNCHANGED <<passed, object, task, upCase, started>>
  BY <1>1, <1>2 DEF Upload!ContentRecord, Upload!env
<1>11. part' \in [Files -> BOOLEAN] /\ started' \in Nat
  BY <1>10 DEF UploadInv, UploadTypes
<1>12. CASE UNCHANGED <<row, told>>
  BY <1>10, <1>11, <1>12, UploadAnswers
<1>13. CASE seen.version = row[f].version /\ row' = [row EXCEPT ![f] = v] /\ told' = [told EXCEPT ![f] = o]
  <2>1. row[f] = seen /\ seen.status = "PENDING_UPLOAD"
    BY <1>5, <1>13 DEF Upload!Pending
  <2>2. row[f] # Upload!NoRow
    BY <1>5, <2>1, UploadIdle
  <2>3. /\ told' \in [Files -> Contents \cup {None}] /\ told'[f] = o
        /\ \A g \in Files \ {f} : told'[g] = told[g]
    BY <1>5, <1>7, <1>13 DEF UploadInv, UploadTypes
  <2>4. v.version > row[f].version /\ v.status = row[f].status /\ ~Upload!Uploaded(v)
    BY <1>7, <1>9, <2>1 DEF Upload!Uploaded
  <2>5. req[r].op # None /\ req[r].file = f /\ object[f] = told'[f] /\ v.sha = told'[f]
    BY <1>1, <1>2, <1>4, <1>6, <1>9, <2>3
  <2>6. v.status \notin {None, "EXPIRED"}
    BY <1>9, UploadConstants
  <2>7. QED
    BY <1>5, <1>9, <1>10, <1>11, <1>13, <2>2, <2>3, <2>4, <2>5, <2>6, UploadWrites
<1>14. QED
  BY <1>1, <1>2, <1>3, <1>6, <1>12, <1>13 DEF Upload!ContentRecord, Upload!Writes

LEMMA UploadCompleteRecord ==
  ASSUME UploadInv, NEW r \in Requests, Upload!CompleteRecord(r) PROVE UploadInv'
<1>1. PICK old : old = req[r]
  OBVIOUS
<1>2. PICK f, seen : f = old.file /\ seen = old.seen
  OBVIOUS
<1>3. old \in UploadRequest /\ Sound(r, old) /\ old.op = "complete" /\ old.op # None /\ old.pc = "record"
  BY <1>1, UploadConstants DEF UploadInv, UploadTypes, Serving, Upload!CompleteRecord
<1>4. /\ f \in Files /\ upLock = r /\ object[f] # None /\ seen \in Version
      /\ (seen.version = row[f].version => seen = row[f]) /\ seen.version > 0
  BY <1>2, <1>3 DEF Sound, UploadRequest
<1>5. PICK n, o : n = seen.version + 1 /\ o = object[f]
  OBVIOUS
<1>6. n \in Nat /\ n > seen.version /\ o \in Contents
  BY <1>4, <1>5 DEF Version, UploadInv, UploadTypes
<1>7. PICK v : v = [status |-> "PENDING_SCAN", sha |-> o, version |-> n]
  OBVIOUS
<1>8. v \in Version /\ v.status = "PENDING_SCAN" /\ v.sha = o /\ v.version = n
  BY <1>6, <1>7 DEF Version
<1>9. Upload!Answer(r) /\ UNCHANGED <<passed, object, task, upCase, started, part, told>>
  BY DEF Upload!CompleteRecord, Upload!env, Upload!disk
<1>10. part' \in [Files -> BOOLEAN] /\ started' \in Nat /\ told' \in [Files -> Contents \cup {None}]
  BY <1>9 DEF UploadInv, UploadTypes
<1>11. CASE UNCHANGED row
  BY <1>9, <1>10, <1>11, UploadAnswers
<1>12. CASE seen.version = row[f].version /\ row' = [row EXCEPT ![f] = v]
  <2>1. row[f] = seen /\ row[f] # Upload!NoRow
    BY <1>4, <1>12, UploadIdle
  <2>2. told'[f] # None => object[f] = told'[f] /\ v.sha = told'[f]
    BY <1>4, <1>5, <1>8, <1>9 DEF UploadInv, Upload!StoredAsTold
  <2>3. f \in Promised
    BY <1>1, <1>2, <1>3, <1>4 DEF Promised, Roomed
  <2>4. v.version > row[f].version /\ object[f] # None /\ v.sha = object[f]
    BY <1>4, <1>5, <1>6, <1>8, <2>1
  <2>5. req[r].op # None /\ req[r].file = f
    BY <1>1, <1>2, <1>3
  <2>6. v.status \notin {None, "EXPIRED"} /\ \A g \in Files \ {f} : told'[g] = told[g]
    BY <1>8, <1>9, UploadConstants
  <2>7. QED
    BY <1>4, <1>8, <1>9, <1>10, <1>12, <2>1, <2>2, <2>3, <2>4, <2>5, <2>6, UploadWrites
<1>13. QED
  BY <1>1, <1>2, <1>5, <1>7, <1>11, <1>12 DEF Upload!CompleteRecord, Upload!Writes

LEMMA UploadBodyStored ==
  ASSUME UploadInv, NEW r \in Requests, NEW c \in Contents, Upload!BodyStored(r, c) PROVE UploadInv'
<1>1. PICK old : old = req[r]
  OBVIOUS
<1>2. PICK f, q : f = old.file /\ q = [old EXCEPT !.pc = "record"]
  OBVIOUS
<1>3. old \in UploadRequest /\ Sound(r, old) /\ old.op = "content" /\ old.op # None /\ old.pc = "body"
  BY <1>1, UploadConstants DEF UploadInv, UploadTypes, Serving, Upload!BodyStored
<1>4. f \in Files /\ upLock = r /\ object[f] = None
  BY <1>2, <1>3 DEF Sound
<1>5. q \in UploadRequest /\ q.pc = "record" /\ q.op = old.op /\ q.file = old.file /\ q.seen = old.seen
  BY <1>2, <1>3, UploadMoved
<1>6. /\ req' = [req EXCEPT ![r] = q] /\ object' = [object EXCEPT ![f] = c]
      /\ UNCHANGED <<row, passed, told, task, upCase, started, part, upLock>>
  BY <1>1, <1>2 DEF Upload!BodyStored, Upload!env
<1>7. object'[f] = c /\ c # None /\ \A g \in Files \ {f} : object'[g] = object[g]
  BY <1>4, <1>6, UploadConstants DEF UploadInv, UploadTypes
<1>8. UploadTypes'
  BY <1>5, <1>6 DEF UploadInv, UploadTypes
<1>9. RowsStand'
  BY <1>6 DEF UploadInv, RowsStand
<1>10. Upload!StoredAsTold'
  BY <1>4, <1>6, <1>7 DEF UploadInv, Upload!StoredAsTold
<1>11. Serving'
  <2>1. Sound(r, q)'
    BY <1>2, <1>3, <1>5, <1>6, <1>7 DEF Sound
  <2>2. \A g \in Files : object[g] # None => object'[g] # None
    BY <1>4, <1>7
  <2>3. q.op # "intent" /\ q.op # None
    BY <1>3, <1>5
  <2>4. QED
    BY <1>4, <1>6, <1>8, <2>1, <2>2, <2>3, ServingStep
<1>12. ~Roomed(q)
  BY <1>3, <1>5 DEF Roomed
<1>13. QED
  BY <1>6, <1>8, <1>9, <1>10, <1>11, <1>12, QuietPromises, UploadStep

\* What happens beside the requests.
LEMMA ServingStays ==
  ASSUME UploadInv, UploadTypes', UNCHANGED <<req, upLock, object>>, task' = task \/ upLock = None,
         \A f \in Files : row'[f] = row[f] \/ (row'[f].version > row[f].version /\ row[f] # Upload!NoRow),
         \A f \in Files : passed[f] => passed'[f]
  PROVE  Serving'
<1>1. ASSUME NEW s \in Requests PROVE Sound(s, req[s])' /\ (req'[s].op = None => req'[s] = Upload!Idle)
  <2>1. PICK y : y = req[s]
    OBVIOUS
  <2>2. y \in UploadRequest /\ Sound(s, y) /\ req'[s] = y /\ (y.op = None => y = Upload!Idle)
    BY <2>1 DEF UploadInv, UploadTypes, Serving
  <2>3. y.op # None /\ y.pc # "lock" => upLock' = upLock /\ task' = task /\ object'[y.file] = object[y.file]
    BY <2>2, UploadConstants DEF Sound
  <2>4. y.op = "intent" => row'[y.file] = row[y.file]
    BY <2>2, UploadConstants DEF Sound
  <2>5. Sound(s, y)'
    BY <2>2, <2>3, <2>4, StaysSound DEF UploadInv
  <2>6. QED
    BY <2>2, <2>5 DEF Sound
<1>2. QED
  BY <1>1 DEF UploadInv, Serving

LEMMA UploadWorker ==
  ASSUME UploadInv, NEW f \in Files, Upload!Worker(f) PROVE UploadInv'
<1>1. PICK old : old = row[f]
  OBVIOUS
<1>2. old \in Version /\ old.status = "PENDING_UPLOAD" /\ passed[f] /\ old.version \in Nat
  BY <1>1 DEF UploadInv, UploadTypes, Upload!Worker, Upload!Pending, Version
<1>3. PICK n \in Nat : n = old.version + 1 /\ n > old.version /\ n # 0
  BY <1>2
<1>4. PICK v : v = [old EXCEPT !.status = "EXPIRED", !.version = n]
  OBVIOUS
<1>5. v \in Version /\ v.status = "EXPIRED" /\ v.version = n /\ v.sha = old.sha
  BY <1>2, <1>4 DEF Version
<1>6. row' = [row EXCEPT ![f] = v] /\ UNCHANGED <<req, upLock, object, passed, told, task, upCase, part, started>>
  BY <1>1, <1>3, <1>4 DEF Upload!Worker, Upload!env, Upload!disk
<1>7. row'[f] = v /\ \A g \in Files \ {f} : row'[g] = row[g]
  BY <1>6 DEF UploadInv, UploadTypes
<1>8. old # Upload!NoRow /\ v # Upload!NoRow
  BY <1>2, <1>3, <1>5, UploadIdle, UploadConstants
<1>9. UploadTypes'
  BY <1>5, <1>6 DEF UploadInv, UploadTypes
<1>10. RowsStand'
  BY <1>2, <1>3, <1>5, <1>6, <1>7, <1>8, UploadConstants DEF UploadInv, RowsStand
<1>11. Upload!StoredAsTold'
  BY <1>1, <1>5, <1>6, <1>7 DEF UploadInv, Upload!StoredAsTold, Upload!Uploaded
<1>12. Serving'
  BY <1>1, <1>3, <1>5, <1>6, <1>7, <1>8, <1>9, ServingStays
<1>13. Promised' \subseteq Promised
  BY <1>5, <1>6, <1>7 DEF Promised, Upload!Reserved
<1>14. QED
  BY <1>9, <1>10, <1>11, <1>12, <1>13, UploadStep

LEMMA UploadClock ==
  ASSUME UploadInv, NEW f \in Files, Upload!Clock(f) PROVE UploadInv'
<1>1. /\ passed' = [passed EXCEPT ![f] = TRUE]
      /\ UNCHANGED <<row, req, upLock, object, told, task, upCase, part, started>>
  BY DEF Upload!Clock, Upload!env, Upload!disk
<1>2. \A g \in Files : passed[g] => passed'[g]
  BY <1>1 DEF UploadInv, UploadTypes
<1>3. UploadTypes' /\ RowsStand' /\ Upload!StoredAsTold'
  BY <1>1, <1>2 DEF UploadInv, UploadTypes, RowsStand, Upload!StoredAsTold
<1>4. Serving'
  BY <1>1, <1>2, <1>3, ServingStays
<1>5. Promised' \subseteq Promised
  BY <1>1, <1>2 DEF Promised, Upload!Reserved
<1>6. QED
  BY <1>3, <1>4, <1>5, UploadStep

LEMMA UploadCaseMoves ==
  ASSUME UploadInv, Upload!CaseMoves PROVE UploadInv'
<1>1. /\ upLock = None /\ upCase' \in {"DRAFT", "UNDER_REVIEW"}
      /\ UNCHANGED <<row, req, upLock, object, told, passed, part, started>>
  BY DEF Upload!CaseMoves, Upload!disk, UploadInv, UploadTypes
<1>2. UploadTypes' /\ RowsStand' /\ Upload!StoredAsTold'
  BY <1>1 DEF UploadInv, UploadTypes, RowsStand, Upload!StoredAsTold
<1>3. Serving'
  BY <1>1, <1>2, ServingStays
<1>4. Promised' \subseteq Promised
  BY <1>1 DEF Promised, Upload!Reserved
<1>5. QED
  BY <1>2, <1>3, <1>4, UploadStep

LEMMA UploadCrash ==
  ASSUME UploadInv, Upload!Crash PROVE UploadInv'
<1>1. /\ req' = [r \in Requests |-> Upload!Idle] /\ upLock' = None
      /\ UNCHANGED <<row, object, told, passed, part, started, task, upCase>>
  BY DEF Upload!Crash, Upload!disk, Upload!env
<1>2. UploadTypes' /\ RowsStand' /\ Upload!StoredAsTold'
  BY <1>1, UploadIdle DEF UploadInv, UploadTypes, RowsStand, Upload!StoredAsTold
<1>3. PICK q : q = Upload!Idle /\ q.op = None /\ ~Roomed(q) /\ req' = [r \in Requests |-> q]
  BY <1>1, UploadIdle
<1>4. Serving'
  BY <1>3, UploadConstants DEF Serving, Sound
<1>5. Promised' \subseteq Promised
  BY <1>1, <1>3 DEF Promised, Upload!Reserved
<1>6. QED
  BY <1>2, <1>4, <1>5, UploadStep

LEMMA UploadNext == UploadInv /\ [Upload!Next]_uploadVars => UploadInv'
<1> SUFFICES ASSUME UploadInv, [Upload!Next]_uploadVars PROVE UploadInv'
  OBVIOUS
<1>1. CASE UNCHANGED uploadVars
  BY <1>1 DEF uploadVars, UploadInv, UploadTypes, RowsStand, Serving, Sound, Promised, Upload!Reserved, Upload!StoredAsTold
<1>2. CASE \E r \in Requests, f \in Files : Upload!IntentStart(r, f)
  BY <1>2, UploadBegins DEF Upload!IntentStart, Upload!env, Upload!disk
<1>3. CASE \E r \in Requests, f \in Files : Upload!ContentStart(r, f)
  BY <1>3, UploadBegins DEF Upload!ContentStart, Upload!env, Upload!disk
<1>4. CASE \E r \in Requests, f \in Files : Upload!CompleteStart(r, f)
  BY <1>4, UploadBegins DEF Upload!CompleteStart, Upload!env, Upload!disk
<1>5. CASE \E r \in Requests : Upload!Handler(r)
  BY <1>5, UploadIntentCheck, UploadIntentInsert, UploadContentLock, UploadBodyFails, UploadBodyStored,
     UploadContentRecord, UploadCompleteCheck, UploadCompleteRecord DEF Upload!Handler
<1>6. CASE \E f \in Files : Upload!Worker(f) \/ Upload!Clock(f)
  BY <1>6, UploadWorker, UploadClock
<1>7. QED
  BY <1>1, <1>2, <1>3, <1>4, <1>5, <1>6, UploadCaseMoves, UploadCrash DEF Upload!Next

LEMMA UploadQuota == UploadInv => Upload!QuotaHolds /\ Upload!StoredAsTold
<1> SUFFICES ASSUME UploadInv PROVE Upload!QuotaHolds
  BY DEF UploadInv
<1>1. PICK S, N : S = {f \in Files : Upload!Reserved(f)} /\ N = Promised
  OBVIOUS
<1>2. S \subseteq N /\ N \subseteq Files /\ Upload!SizeOf(N) <= Quota
  BY <1>1 DEF Promised, UploadInv
<1>3. Upload!SizeOf(S) <= Upload!SizeOf(N) /\ Upload!SizeOf(S) \in Nat /\ Upload!SizeOf(N) \in Nat
  BY <1>2, SizeGrows, BytesFinite
<1>4. Upload!SizeOf(S) <= Quota
  BY <1>2, <1>3, UploadConstants
<1>5. QED
  BY <1>1, <1>4 DEF Upload!QuotaHolds, Upload!Spent

\* What an upload decided stands: by which step, and while what held.
LEMMA UploadDecides ==
  ASSUME UploadInv, [Upload!Next]_uploadVars
  PROVE  Upload!FinalStandsStep /\ Upload!TaskFilesInTimeStep
<1>1. CASE UNCHANGED row
  BY <1>1 DEF Upload!FinalStandsStep, Upload!TaskFilesInTimeStep
<1>2. ASSUME NEW f \in Files, NEW v, row' = [row EXCEPT ![f] = v], row[f].status \notin {"EXPIRED", "PENDING_SCAN"},
             f \in TaskFiles /\ Upload!Uploaded(v) => task \in {"OPEN", "REOPENED"}
      PROVE  Upload!FinalStandsStep /\ Upload!TaskFilesInTimeStep
  <2>1. row'[f] = v /\ \A g \in Files \ {f} : row'[g] = row[g]
    BY <1>2 DEF UploadInv, UploadTypes
  <2>2. QED
    BY <1>2, <2>1, UploadConstants DEF Upload!FinalStandsStep, Upload!TaskFilesInTimeStep, Upload!Uploaded
<1>3. CASE \E r \in Requests : Upload!IntentInsert(r)
  <2>1. PICK r \in Requests : Upload!IntentInsert(r)
    BY <1>3
  <2>2. PICK f, v : f = req[r].file /\ v = [status |-> "PENDING_UPLOAD", sha |-> None, version |-> 1]
    OBVIOUS
  <2>3. row' = [row EXCEPT ![f] = v] /\ req[r].op = "intent" /\ v.status = "PENDING_UPLOAD"
    BY <2>1, <2>2 DEF Upload!IntentInsert
  <2>4. f \in Files /\ row[f].status = None
    BY <2>2, <2>3, UploadConstants, UploadIdle DEF UploadInv, Serving, Sound
  <2>5. QED
    BY <1>2, <2>3, <2>4, UploadConstants DEF Upload!Uploaded
<1>4. CASE \E r \in Requests : Upload!ContentRecord(r)
  <2>1. PICK r \in Requests : Upload!ContentRecord(r)
    BY <1>4
  <2>2. PICK f, seen : f = req[r].file /\ seen = req[r].seen
    OBVIOUS
  <2>3. PICK v : v = [seen EXCEPT !.sha = object[f], !.version = seen.version + 1]
    OBVIOUS
  <2>4. req[r].op = "content" /\ req[r].pc = "record" /\ req[r] \in UploadRequest /\ Sound(r, req[r])
    BY <2>1 DEF Upload!ContentRecord, UploadInv, UploadTypes, Serving
  <2>5. f \in Files /\ Upload!Pending(seen) /\ seen \in Version /\ (seen.version = row[f].version => seen = row[f])
    BY <2>2, <2>4, UploadConstants DEF Sound, UploadRequest
  <2>6. PICK o, n : o = object[f] /\ n = seen.version + 1
    OBVIOUS
  <2>7. v = [seen EXCEPT !.sha = o, !.version = n]
    BY <2>3, <2>6
  <2>8. v.status = "PENDING_UPLOAD"
    BY <2>5, <2>7 DEF Version, Upload!Pending
  <2>9. UNCHANGED row \/ (seen.version = row[f].version /\ row' = [row EXCEPT ![f] = v])
    BY <2>1, <2>2, <2>3 DEF Upload!ContentRecord, Upload!Writes
  <2>10. QED
    BY <1>1, <1>2, <2>5, <2>8, <2>9 DEF Upload!Pending, Upload!Uploaded
<1>5. CASE \E r \in Requests : Upload!CompleteRecord(r)
  <2>1. PICK r \in Requests : Upload!CompleteRecord(r)
    BY <1>5
  <2>2. PICK f, seen : f = req[r].file /\ seen = req[r].seen
    OBVIOUS
  <2>3. PICK v : v = [status |-> "PENDING_SCAN", sha |-> object[f], version |-> seen.version + 1]
    OBVIOUS
  <2>4. req[r].op = "complete" /\ req[r].pc = "record" /\ Sound(r, req[r])
    BY <2>1 DEF Upload!CompleteRecord, UploadInv, Serving
  <2>5. /\ f \in Files /\ ~Upload!Uploaded(seen) /\ (seen.version = row[f].version => seen = row[f])
        /\ seen.status # "EXPIRED" /\ (f \in TaskFiles => task \in {"OPEN", "REOPENED"})
    BY <2>2, <2>4, UploadConstants DEF Sound
  <2>6. UNCHANGED row \/ (seen.version = row[f].version /\ row' = [row EXCEPT ![f] = v])
    BY <2>1, <2>2, <2>3 DEF Upload!CompleteRecord, Upload!Writes
  <2>7. QED
    BY <1>1, <1>2, <2>5, <2>6 DEF Upload!Uploaded
<1>6. CASE \E f \in Files : Upload!Worker(f)
  <2>1. PICK f \in Files : Upload!Worker(f)
    BY <1>6
  <2>2. PICK old : old = row[f]
    OBVIOUS
  <2>3. PICK n, v : n = old.version + 1 /\ v = [old EXCEPT !.status = "EXPIRED", !.version = n]
    OBVIOUS
  <2>4. old \in Version /\ old.status = "PENDING_UPLOAD" /\ row' = [row EXCEPT ![f] = v]
    BY <2>1, <2>2, <2>3 DEF Upload!Worker, Upload!Pending, UploadInv, UploadTypes
  <2>5. v.status = "EXPIRED"
    BY <2>3, <2>4 DEF Version
  <2>6. QED
    BY <1>2, <2>2, <2>4, <2>5 DEF Upload!Uploaded
<1>7. QED
  BY <1>1, <1>3, <1>4, <1>5, <1>6
     DEF Upload!Next, Upload!Handler, Upload!IntentStart, Upload!ContentStart, Upload!CompleteStart, Upload!IntentCheck,
         Upload!ContentLock, Upload!BodyFails, Upload!BodyStored, Upload!CompleteCheck, Upload!Clock, Upload!CaseMoves,
         Upload!Crash, uploadVars

\* A .part file that nobody writes is the beginning of nothing.
LEMMA UploadResumesNot ==
  ASSUME UploadInv, [Upload!Next]_uploadVars PROVE Upload!NeverResumedStep
<1> SUFFICES ASSUME NEW f \in Files, part[f], object[f] = None, \A r \in Upload!Bodies : req[r].pc = "body" => req[r].file # f
             PROVE  object'[f] = None /\ \A r \in Requests : ~(req'[r].pc = "body" /\ req'[r].file = f)
  BY DEF Upload!NeverResumedStep
<1>1. \A r \in Requests : ~(req[r].pc = "body" /\ req[r].file = f)
  BY UploadIdle DEF UploadInv, UploadTypes, UploadRequest, Serving, Sound, Upload!Bodies
<1> DEFINE NoBody == \A s \in Requests : ~(req'[s].pc = "body" /\ req'[s].file = f)
<1>2. ASSUME NEW r \in Requests, NEW q, req' = [req EXCEPT ![r] = q], ~(q.pc = "body" /\ q.file = f) PROVE NoBody
  BY <1>1, <1>2 DEF UploadInv, UploadTypes
<1>3. UNCHANGED req => NoBody
  BY <1>1
<1> HIDE DEF NoBody
<1>4. ASSUME NEW r \in Requests, Upload!Answer(r) PROVE NoBody
  BY <1>2, <1>4, UploadIdle DEF Upload!Answer
<1>5. ASSUME NEW r \in Requests, NEW p \in {"insert", "record"}, req' = [req EXCEPT ![r].pc = p] PROVE NoBody
  <2>1. PICK old, q : old = req[r] /\ q = [old EXCEPT !.pc = p]
    OBVIOUS
  <2>2. q.pc = p /\ req' = [req EXCEPT ![r] = q]
    BY <1>5, <2>1, UploadMoved DEF UploadInv, UploadTypes
  <2>3. QED
    BY <1>2, <2>2
<1>6. ASSUME NEW r \in Requests, NEW g \in Files, NEW op, Upload!Begin(r, op, g, "lock") PROVE NoBody
  <2>1. PICK q : q = [op |-> op, file |-> g, pc |-> "lock", seenCase |-> upCase, seen |-> row[g]]
    OBVIOUS
  <2>2. req' = [req EXCEPT ![r] = q] /\ q.pc = "lock"
    BY <1>6, <2>1 DEF Upload!Begin
  <2>3. QED
    BY <1>2, <2>2
<1>7. CASE \E r \in Requests : Upload!ContentLock(r)
  <2>1. PICK r \in Requests : Upload!ContentLock(r)
    BY <1>7
  <2>2. PICK old, q : old = req[r] /\ q = [old EXCEPT !.pc = "body"]
    OBVIOUS
  <2>3. q.pc = "body" /\ q.file = old.file
    BY <2>2, UploadMoved DEF UploadInv, UploadTypes
  <2>4. UNCHANGED object /\ (Upload!Answer(r) \/ (~part[old.file] /\ req' = [req EXCEPT ![r] = q]))
    BY <2>1, <2>2 DEF Upload!ContentLock
  <2>5. NoBody
    BY <1>2, <1>4, <2>3, <2>4
  <2>6. QED
    BY <2>4, <2>5 DEF NoBody
<1>8. CASE \E r \in Requests, c \in Contents : Upload!BodyStored(r, c)
  <2>1. PICK r \in Requests, c \in Contents : Upload!BodyStored(r, c)
    BY <1>8
  <2>2. PICK g : g = req[r].file
    OBVIOUS
  <2>3. req[r].pc = "body" /\ object' = [object EXCEPT ![g] = c] /\ req' = [req EXCEPT ![r].pc = "record"]
    BY <2>1, <2>2 DEF Upload!BodyStored
  <2>4. g # f /\ NoBody
    BY <1>1, <1>5, <2>2, <2>3
  <2>5. object'[f] = None
    BY <2>3, <2>4 DEF UploadInv, UploadTypes
  <2>6. QED
    BY <2>4, <2>5 DEF NoBody
<1>9. CASE Upload!Crash
  <2>1. PICK q : q = Upload!Idle /\ q.pc = "idle" /\ req' = [r \in Requests |-> q] /\ UNCHANGED object
    BY <1>9, UploadIdle DEF Upload!Crash, Upload!disk
  <2>2. QED
    BY <2>1
<1>10. CASE \E r \in Requests : Upload!IntentCheck(r) \/ Upload!CompleteCheck(r)
  <2>1. NoBody /\ UNCHANGED object
    BY <1>4, <1>5, <1>10 DEF Upload!IntentCheck, Upload!CompleteCheck, Upload!disk
  <2>2. QED
    BY <2>1 DEF NoBody
<1>11. CASE \E r \in Requests : Upload!IntentInsert(r) \/ Upload!BodyFails(r) \/ Upload!ContentRecord(r) \/ Upload!CompleteRecord(r)
  <2>1. NoBody /\ UNCHANGED object
    BY <1>4, <1>11 DEF Upload!IntentInsert, Upload!BodyFails, Upload!ContentRecord, Upload!CompleteRecord, Upload!disk
  <2>2. QED
    BY <2>1 DEF NoBody
<1>12. CASE \E r \in Requests, g \in Files : Upload!IntentStart(r, g) \/ Upload!ContentStart(r, g) \/ Upload!CompleteStart(r, g)
  <2>1. NoBody /\ UNCHANGED object
    BY <1>6, <1>12 DEF Upload!IntentStart, Upload!ContentStart, Upload!CompleteStart, Upload!disk
  <2>2. QED
    BY <2>1 DEF NoBody
<1>13. CASE UNCHANGED <<req, object>>
  BY <1>3, <1>13 DEF NoBody
<1>14. QED
  BY <1>7, <1>8, <1>9, <1>10, <1>11, <1>12, <1>13
     DEF Upload!Next, Upload!Handler, Upload!Worker, Upload!Clock, Upload!CaseMoves, Upload!disk, uploadVars

---------------------------------------------------------------------------
(* Uploads: the order in which a row is written.                           *)

\* How often a row may have been written that has come as far as v, while its object is o: once when it
\* was granted, once with the digest of the object, once at its end.
Written(v, o) ==
  /\ Upload!Pending(v) => v.version = 1 \/ (v.version = 2 /\ o # None)
  /\ v.status \in {"PENDING_SCAN", "EXPIRED"} => v.version \in {2, 3}

\* A body is taken of a row that was granted only.
WrittenSeen(q) ==
  q.op = "content" => /\ Written(q.seen, object[q.file])
                      /\ q.pc \in {"body", "record"} => q.seen.version = 1

\* Who holds the case's row has checked; who holds the event loop has not yet, or is past the body.
Holding ==
  /\ upLock # None => req[upLock].pc \in {"insert", "body", "record"}
  /\ loop # None => loop \in Requests /\ req[loop].op = "content" /\ req[loop].pc \in {"lock", "record"}

WrittenInOrder ==
  /\ \A f \in Files : Written(row[f], object[f])
  /\ \A r \in Requests : WrittenSeen(req[r])

UploadsKept == WrittenInOrder /\ Holding /\ task \in {None, "OPEN", "SUBMITTED", "REOPENED"}

LEMMA UploadsTyped == ASSUME UploadInv, UploadsKept PROVE Upload!UploadTypeOK
<1>1. \A f \in Files : row[f].version \in 0..3
  <2> TAKE f \in Files
  <2>1. row[f] \in Version BY DEF UploadInv, UploadTypes
  <2>2. row[f].status = None => row[f].version = 0 BY DEF UploadInv, RowsStand
  <2> QED BY <2>1, <2>2 DEF UploadsKept, WrittenInOrder, Written, Version, Upload!Pending
<1>2. row \in [Files -> [status : {None, "PENDING_UPLOAD", "PENDING_SCAN", "EXPIRED"},
                         sha : Contents \cup {None}, version : 0..3]]
  BY <1>1 DEF UploadInv, UploadTypes, Version
<1>3. \A r \in Requests : req[r].pc \in {"idle", "lock", "insert", "body", "record"}
  BY DEF UploadInv, UploadTypes, UploadRequest
<1>4. loop # None => loop \in Upload!Bodies /\ req[loop].pc \in {"lock", "record"}
  BY DEF UploadsKept, Holding, Upload!Bodies
<1> QED BY <1>2, <1>3, <1>4 DEF UploadInv, UploadTypes, UploadsKept, Holding, Upload!UploadTypeOK

LEMMA UploadsKeptInit == ASSUME Upload!Init PROVE UploadsKept
BY UploadIdle, UploadConstants
   DEF Upload!Init, UploadsKept, WrittenInOrder, Written, WrittenSeen, Holding, Upload!Pending

\* A request that goes on leaves the rows, and no object vanishes.
LEMMA OrderStays ==
  ASSUME UploadInv, WrittenInOrder, NEW r \in Requests, NEW q, req' = [req EXCEPT ![r] = q], UNCHANGED row,
         \A f \in Files : object[f] # None => object'[f] # None, WrittenSeen(q)'
  PROVE  WrittenInOrder'
<1>1. \A f \in Files : Written(row[f], object[f])' BY DEF WrittenInOrder, Written
<1>2. ASSUME NEW s \in Requests, s # r PROVE WrittenSeen(req[s])'
  <2>1. PICK y : y = req[s] OBVIOUS
  <2>2. WrittenSeen(y) /\ Sound(s, y) /\ req'[s] = y
    BY <1>2, <2>1 DEF WrittenInOrder, UploadInv, UploadTypes, Serving
  <2>3. y.op = "content" => y.file \in Files BY <2>2, UploadConstants DEF Sound
  <2>4. WrittenSeen(y)' BY <2>2, <2>3 DEF WrittenSeen, Written
  <2> QED BY <2>2, <2>4 DEF WrittenSeen
<1>3. req'[r] = q BY DEF UploadInv, UploadTypes
<1>4. WrittenSeen(req[r])' BY <1>3 DEF WrittenSeen
<1> QED BY <1>1, <1>2, <1>4 DEF WrittenInOrder

\* A request that ends and writes one row.
LEMMA OrderWrites ==
  ASSUME UploadInv, WrittenInOrder, \A r \in Requests : req'[r] = req[r] \/ req'[r] = Upload!Idle,
         NEW f \in Files, NEW v, row' = [row EXCEPT ![f] = v] \/ row' = row, Written(v, object[f]), UNCHANGED object
  PROVE  WrittenInOrder'
<1>1. ASSUME NEW g \in Files PROVE Written(row[g], object[g])'
  <2>1. PICK w : w = row'[g] OBVIOUS
  <2>2. w = row[g] \/ (g = f /\ w = v) BY <2>1 DEF UploadInv, UploadTypes
  <2>3. Written(w, object[g]) BY <2>2 DEF WrittenInOrder
  <2>4. Written(w, object[g])' BY <2>3 DEF Written
  <2> QED BY <2>1, <2>4 DEF Written
<1>2. ASSUME NEW s \in Requests PROVE WrittenSeen(req[s])'
  <2>1. PICK y : y = req'[s] OBVIOUS
  <2>2. y = req[s] \/ y = Upload!Idle BY <2>1
  <2>3. WrittenSeen(y) BY <2>2, UploadIdle, UploadConstants DEF WrittenInOrder, WrittenSeen
  <2>4. WrittenSeen(y)' BY <2>3 DEF WrittenSeen, Written
  <2> QED BY <2>1, <2>4 DEF WrittenSeen
<1> QED BY <1>1, <1>2 DEF WrittenInOrder

LEMMA HoldingStep ==
  ASSUME UploadInv, Holding, NEW r \in Requests, NEW q, req' = [req EXCEPT ![r] = q],
         upLock' # None => (upLock' = r /\ q.pc \in {"insert", "body", "record"}) \/ (upLock' # r /\ upLock' = upLock),
         loop' # None => \/ loop' = r /\ q.op = "content" /\ q.pc \in {"lock", "record"}
                         \/ loop' # r /\ loop' = loop
  PROVE  Holding'
<1>1. req'[r] = q /\ \A s \in Requests : s # r => req'[s] = req[s] BY DEF UploadInv, UploadTypes
<1>2. upLock \in Requests \cup {None} BY DEF UploadInv, UploadTypes
<1> QED BY <1>1, <1>2 DEF Holding

LEMMA AnswerKeeps ==
  ASSUME UploadInv, UploadsKept, NEW r \in Requests, Upload!Answer(r), UNCHANGED <<row, object, task>>
  PROVE  UploadsKept'
<1>1. req' = [req EXCEPT ![r] = Upload!Idle] BY DEF Upload!Answer
<1>2. WrittenSeen(Upload!Idle)' BY UploadIdle, UploadConstants DEF WrittenSeen
<1>3. WrittenInOrder' BY <1>1, <1>2, OrderStays DEF UploadsKept
<1>4. Holding' BY <1>1, HoldingStep DEF UploadsKept, Upload!Answer, Upload!Release
<1> QED BY <1>3, <1>4 DEF UploadsKept

LEMMA BeginKeeps ==
  ASSUME UploadInv, UploadsKept, NEW r \in Requests, NEW f \in Files, NEW op \in {"intent", "content", "complete"},
         Upload!Begin(r, op, f, "lock"), UNCHANGED <<row, object, task, upLock>>,
         loop' = loop \/ (op = "content" /\ loop' = r)
  PROVE  UploadsKept'
<1>1. PICK q : q = [op |-> op, file |-> f, pc |-> "lock", seenCase |-> upCase, seen |-> row[f]] OBVIOUS
<1>2. req' = [req EXCEPT ![r] = q] /\ req[r] = Upload!Idle /\ loop = None BY <1>1 DEF Upload!Begin
<1>3. WrittenSeen(q)' BY <1>1 DEF WrittenSeen, UploadsKept, WrittenInOrder, Written
<1>4. WrittenInOrder' BY <1>2, <1>3, OrderStays DEF UploadsKept
<1>5. upLock # r BY <1>2, UploadIdle, UploadConstants DEF UploadsKept, Holding
<1>6. q.op = op /\ q.pc = "lock" BY <1>1
<1>7. Holding' BY <1>2, <1>5, <1>6, HoldingStep DEF UploadsKept
<1> QED BY <1>4, <1>7 DEF UploadsKept

\* A request takes the case's row.
LEMMA LockKeeps ==
  ASSUME UploadInv, UploadsKept, NEW r \in Requests, NEW p \in {"insert", "body", "record"},
         req' = [req EXCEPT ![r].pc = p], upLock' = r, UNCHANGED <<row, object, task>>,
         loop' = None \/ (loop' = loop /\ req[r].op # "content"),
         req[r].op = "content" => req[r].seen.version = 1
  PROVE  UploadsKept'
<1>1. PICK q : q = [req[r] EXCEPT !.pc = p] OBVIOUS
<1>2. req[r] \in UploadRequest BY DEF UploadInv, UploadTypes
<1>3. q.pc = p /\ q.op = req[r].op /\ q.seen = req[r].seen /\ q.file = req[r].file
  BY <1>1, <1>2, UploadMoved
<1>4. req' = [req EXCEPT ![r] = q] BY <1>1
<1>5. WrittenSeen(q)' BY <1>3 DEF WrittenSeen, UploadsKept, WrittenInOrder, Written
<1>6. WrittenInOrder' BY <1>4, <1>5, OrderStays DEF UploadsKept
<1>7. loop' # None => loop' # r BY DEF UploadsKept, Holding
<1>8. Holding' BY <1>3, <1>4, <1>7, HoldingStep DEF UploadsKept
<1> QED BY <1>6, <1>8 DEF UploadsKept

LEMMA StoredKeeps ==
  ASSUME UploadInv, UploadsKept, NEW r \in Requests, NEW c \in Contents, Upload!BodyStored(r, c)
  PROVE  UploadsKept'
<1>0. req[r] \in UploadRequest /\ Sound(r, req[r]) /\ req[r].op = "content" /\ req[r].pc = "body"
  BY DEF UploadInv, UploadTypes, Serving, Upload!BodyStored
<1>1. PICK q : q = [req[r] EXCEPT !.pc = "record"] OBVIOUS
<1>2. q.pc = "record" /\ q.op = "content" /\ q.seen = req[r].seen /\ q.file = req[r].file
  BY <1>0, <1>1, UploadMoved
<1>3. /\ req' = [req EXCEPT ![r] = q] /\ UNCHANGED <<row, task, upLock>> /\ loop' = r
      /\ object' = [object EXCEPT ![q.file] = c]
  BY <1>1, <1>2 DEF Upload!BodyStored, Upload!env
<1>4. \A f \in Files : object[f] # None => object'[f] # None
  BY <1>3, UploadConstants DEF UploadInv, UploadTypes
<1>5. WrittenSeen(q)'
  <2>1. q.file \in Files BY <1>0, <1>2, UploadConstants DEF Sound
  <2>2. Written(q.seen, object[q.file]) /\ q.seen.version = 1
    BY <1>0, <1>2 DEF UploadsKept, WrittenInOrder, WrittenSeen
  <2> QED BY <1>4, <2>1, <2>2 DEF WrittenSeen, Written
<1>6. WrittenInOrder' BY <1>3, <1>4, <1>5, OrderStays DEF UploadsKept
<1>7. Holding' BY <1>2, <1>3, HoldingStep DEF UploadsKept, Holding
<1> QED BY <1>3, <1>6, <1>7 DEF UploadsKept

\* What is written to a row when its request ends.
LEMMA WriteKeeps ==
  ASSUME UploadInv, UploadsKept, NEW r \in Requests, Upload!Answer(r), UNCHANGED <<object, task>>,
         NEW f \in Files, NEW v, row' = [row EXCEPT ![f] = v] \/ row' = row, Written(v, object[f])
  PROVE  UploadsKept'
<1>1. req' = [req EXCEPT ![r] = Upload!Idle] BY DEF Upload!Answer
<1>2. \A s \in Requests : req'[s] = req[s] \/ req'[s] = Upload!Idle BY <1>1 DEF UploadInv, UploadTypes
<1>3. WrittenInOrder' BY <1>2, OrderWrites DEF UploadsKept
<1>4. Holding' BY <1>1, HoldingStep DEF UploadsKept, Upload!Answer, Upload!Release
<1> QED BY <1>3, <1>4 DEF UploadsKept

LEMMA RecordKeeps ==
  ASSUME UploadInv, UploadsKept, NEW r \in Requests, Upload!ContentRecord(r) PROVE UploadsKept'
<1>1. PICK f, seen, o : f = req[r].file /\ seen = req[r].seen /\ o = object[f] OBVIOUS
<1>2. /\ req[r].op = "content" /\ req[r].pc = "record" /\ req[r] \in UploadRequest /\ Sound(r, req[r])
      /\ UNCHANGED <<object, task>> /\ Upload!Answer(r)
  BY DEF Upload!ContentRecord, UploadInv, UploadTypes, Serving, Upload!env
<1>3. f \in Files /\ seen \in Version /\ Upload!Pending(seen) /\ o # None
  BY <1>1, <1>2, UploadConstants DEF Sound, UploadRequest
<1>4. seen.version = 1 BY <1>1, <1>2 DEF UploadsKept, WrittenInOrder, WrittenSeen
<1>5. PICK v : v = [seen EXCEPT !.sha = o, !.version = seen.version + 1] OBVIOUS
<1>6. row' = [row EXCEPT ![f] = v] \/ row' = row BY <1>1, <1>5 DEF Upload!ContentRecord
<1>7. v.version = 2 /\ v.status = "PENDING_UPLOAD" BY <1>3, <1>4, <1>5 DEF Version, Upload!Pending
<1>8. Written(v, o) BY <1>3, <1>7 DEF Written
<1> QED BY <1>1, <1>2, <1>3, <1>6, <1>8, WriteKeeps

LEMMA CompleteKeeps ==
  ASSUME UploadInv, UploadsKept, NEW r \in Requests, Upload!CompleteRecord(r) PROVE UploadsKept'
<1>1. PICK f, seen, o : f = req[r].file /\ seen = req[r].seen /\ o = object[f] OBVIOUS
<1>2. /\ req[r].op = "complete" /\ req[r].pc = "record" /\ req[r] \in UploadRequest /\ Sound(r, req[r])
      /\ UNCHANGED <<object, task>> /\ Upload!Answer(r)
  BY DEF Upload!CompleteRecord, UploadInv, UploadTypes, Serving, Upload!env, Upload!disk
<1>3. /\ f \in Files /\ seen \in Version /\ seen.version > 0 /\ ~Upload!Uploaded(seen) /\ seen.status # "EXPIRED"
      /\ seen.version = row[f].version => seen = row[f]
  BY <1>1, <1>2, UploadConstants DEF Sound, UploadRequest
<1>4. PICK v : v = [status |-> "PENDING_SCAN", sha |-> o, version |-> seen.version + 1] OBVIOUS
<1>5. row' = (IF row[f].version = seen.version THEN [row EXCEPT ![f] = v] ELSE row)
  BY <1>1, <1>4 DEF Upload!CompleteRecord, Upload!Writes
<1>6. CASE seen = row[f]
  <2>1. Upload!Pending(seen)
    <3>1. seen.status # None BY <1>3, <1>6, UploadIdle DEF UploadInv, RowsStand
    <3> QED BY <1>3, <3>1 DEF Version, Upload!Pending, Upload!Uploaded
  <2>2. seen.version \in {1, 2} BY <1>6, <1>3, <2>1 DEF UploadsKept, WrittenInOrder, Written
  <2>3. v.version \in {2, 3} /\ v.status = "PENDING_SCAN" BY <1>4, <2>2
  <2>4. Written(v, o) BY <2>3 DEF Written, Upload!Pending
  <2> QED BY <1>1, <1>2, <1>3, <1>5, <2>4, WriteKeeps
<1>7. CASE seen # row[f]
  <2>1. row' = row BY <1>3, <1>5, <1>7
  <2> QED BY <1>2, <2>1, AnswerKeeps
<1> QED BY <1>6, <1>7

LEMMA UploadsKeptNext == ASSUME UploadInv, UploadsKept, [Upload!Next]_uploadVars PROVE UploadsKept'
<1> USE DEF Upload!env, Upload!disk
<1>1. ASSUME NEW r \in Requests, NEW f \in Files,
             Upload!IntentStart(r, f) \/ Upload!ContentStart(r, f) \/ Upload!CompleteStart(r, f)
      PROVE  UploadsKept'
  BY <1>1, BeginKeeps DEF Upload!IntentStart, Upload!ContentStart, Upload!CompleteStart
<1>2. ASSUME NEW r \in Requests, Upload!IntentCheck(r) PROVE UploadsKept'
  <2>1. UNCHANGED <<row, object, task>> /\ req[r].op # "content" BY <1>2, UploadConstants DEF Upload!IntentCheck
  <2>2. \/ Upload!Answer(r)
        \/ upLock' = r /\ req' = [req EXCEPT ![r].pc = "insert"] /\ UNCHANGED loop
    BY <1>2 DEF Upload!IntentCheck
  <2> QED BY <2>1, <2>2, AnswerKeeps, LockKeeps
<1>3. ASSUME NEW r \in Requests, Upload!IntentInsert(r) PROVE UploadsKept'
  <2>1. PICK f, v : f = req[r].file /\ v = [status |-> "PENDING_UPLOAD", sha |-> None, version |-> 1] OBVIOUS
  <2>2. row' = [row EXCEPT ![f] = v] /\ Upload!Answer(r) /\ UNCHANGED <<object, task>> /\ req[r].op = "intent"
    BY <1>3, <2>1 DEF Upload!IntentInsert
  <2>3. f \in Files BY <2>1, <2>2, UploadConstants DEF UploadInv, Serving, Sound
  <2>4. Written(v, object[f]) BY <2>1 DEF Written
  <2> QED BY <2>2, <2>3, <2>4, WriteKeeps
<1>4. ASSUME NEW r \in Requests, Upload!ContentLock(r) PROVE UploadsKept'
  <2>0. req[r].op = "content" /\ Sound(r, req[r]) /\ req[r] \in UploadRequest
    BY <1>4 DEF Upload!ContentLock, UploadInv, UploadTypes, Serving
  <2>1. UNCHANGED <<row, object, task>> BY <1>4 DEF Upload!ContentLock
  <2>2. \/ Upload!Answer(r)
        \/ /\ upLock' = r /\ req' = [req EXCEPT ![r].pc = "body"] /\ loop' = None
           /\ Upload!Pending(req[r].seen) /\ object[req[r].file] = None
    BY <1>4 DEF Upload!ContentLock
  <2>3. Upload!Pending(req[r].seen) /\ object[req[r].file] = None => req[r].seen.version = 1
    BY <2>0 DEF UploadsKept, WrittenInOrder, WrittenSeen, Written
  <2> QED BY <2>1, <2>2, <2>3, AnswerKeeps, LockKeeps
<1>5. ASSUME NEW r \in Requests, Upload!BodyFails(r) PROVE UploadsKept'
  BY <1>5, AnswerKeeps DEF Upload!BodyFails
<1>6. ASSUME NEW r \in Requests, Upload!CompleteCheck(r) PROVE UploadsKept'
  <2>1. UNCHANGED <<row, object, task>> /\ req[r].op # "content" BY <1>6, UploadConstants DEF Upload!CompleteCheck
  <2>2. \/ Upload!Answer(r)
        \/ upLock' = r /\ req' = [req EXCEPT ![r].pc = "record"] /\ UNCHANGED loop
    BY <1>6 DEF Upload!CompleteCheck
  <2> QED BY <2>1, <2>2, AnswerKeeps, LockKeeps
<1>7. ASSUME NEW f \in Files, Upload!Worker(f) PROVE UploadsKept'
  <2>1. PICK v : v = [row[f] EXCEPT !.status = "EXPIRED", !.version = row[f].version + 1] OBVIOUS
  <2>2. row' = [row EXCEPT ![f] = v] /\ UNCHANGED <<object, task, req, upLock, loop>> /\ Upload!Pending(row[f])
    BY <1>7, <2>1 DEF Upload!Worker
  <2>3. row[f] \in Version BY DEF UploadInv, UploadTypes
  <2>4. row[f].version \in {1, 2} BY <2>2 DEF UploadsKept, WrittenInOrder, Written
  <2>5. v.status = "EXPIRED" /\ v.version \in {2, 3} BY <2>1, <2>3, <2>4 DEF Version
  <2>6. Written(v, object[f]) BY <2>5 DEF Written, Upload!Pending
  <2>7. WrittenInOrder' BY <2>2, <2>6, OrderWrites DEF UploadsKept
  <2> QED BY <2>2, <2>7 DEF UploadsKept, Holding
<1>8. CASE Upload!CaseMoves \/ (\E f \in Files : Upload!Clock(f)) \/ UNCHANGED uploadVars
  <2>1. UNCHANGED <<row, object, req, upLock, loop>> BY <1>8 DEF Upload!CaseMoves, Upload!Clock, uploadVars
  <2>2. task' \in {None, "OPEN", "SUBMITTED", "REOPENED"}
    BY <1>8 DEF UploadsKept, Upload!CaseMoves, Upload!Clock, uploadVars
  <2> QED BY <2>1, <2>2 DEF UploadsKept, Holding, WrittenInOrder, Written, WrittenSeen
<1>9. CASE Upload!Crash
  <2>1. UNCHANGED <<row, object, task>> /\ upLock' = None /\ loop' = None
        /\ \A r \in Requests : req'[r] = Upload!Idle
    BY <1>9 DEF Upload!Crash
  <2>2. \A r \in Requests : WrittenSeen(req[r])' BY <2>1, UploadIdle, UploadConstants DEF WrittenSeen
  <2> QED BY <2>1, <2>2 DEF UploadsKept, Holding, WrittenInOrder, Written
<1> QED BY <1>1, <1>2, <1>3, <1>4, <1>5, <1>6, <1>7, <1>8, <1>9, StoredKeeps, RecordKeeps, CompleteKeeps
        DEF Upload!Next, Upload!Handler

---------------------------------------------------------------------------
(* The requests together: each behaviour is about one part.                *)

Parts == {"sessions", "roles", "claims", "assignment", "exports", "keys", "uploads"}
RequestsInv ==
  /\ which \in Parts
  /\ which = "roles" => RolesInv
  /\ which = "claims" => ClaimsInv
  /\ which = "assignment" => AssignInv
  /\ which = "exports" => ExportsInv
  /\ which = "keys" => KeysInv
  /\ which = "uploads" => UploadInv

\* A step of the requests is a step of the part it is about, and leaves the others alone.
LEMMA StepOfAPart ==
  ASSUME [RequestsNext]_allVars
  PROVE  /\ which' = which /\ [Next]_vars
         /\ which = "roles" => [Granted!Next]_roleVars
         /\ which = "claims" => [Claiming!Next]_claimVars
         /\ which = "assignment" => [Assigning!Next]_batchVars
         /\ which = "exports" => [Exporting!Next]_exportVars
         /\ which = "keys" => [Keyed!Next]_keyVars
         /\ which = "uploads" => [Upload!Next]_uploadVars
BY DEF RequestsNext, Rest, allVars

\* Whatever the requests do, the rows of the part they are about stay sound.
THEOREM RequestsInvariant == RequestsSpec => []RequestsInv
<1>1. RequestsInit => RequestsInv
  BY RolesInit, ClaimsInit, AssignInit, ExportsInit, KeysInit, UploadInit DEF RequestsInit, RequestsInv, Parts
<1>2. RequestsInv /\ [RequestsNext]_allVars => RequestsInv'
  BY StepOfAPart, RolesNext, ClaimsNext, AssignNext, ExportsNext, KeysNext, UploadNext DEF RequestsInv
<1>3. QED
  BY <1>1, <1>2, PTL DEF RequestsSpec

\* Nobody's authority exceeds what was given from outside: a grant narrows the grant it rests on,
\* and a case is owned once, by who created it or had a claim of it approved (admin.py).
THEOREM AuthorityGiven == RequestsSpec => []AuthorityIsGiven
<1>1. RequestsInv => AuthorityIsGiven
  BY RolesNarrow, ClaimsOwned DEF RequestsInv, AuthorityIsGiven
<1>2. QED
  BY <1>1, RequestsInvariant, PTL

\* What a client is told was done: an export that is ready, or was handed out, is whole; a key has one
\* effect that all answers under it agree on; bytes said to be kept are kept, and within the quota.
\* Batches that lock the same rows never wait for each other in a circle (admin.py, common.py,
\* files.py, cases.py).
THEOREM DoneIsAsTold == RequestsSpec => []DoneAsTold
<1>1. ExportsInv => Exporting!ReadyIsWhole
  BY DEF ExportsInv
<1>2. RequestsInv => DoneAsTold
  BY <1>1, KeysAgree, UploadQuota, BatchesGetOn DEF RequestsInv, DoneAsTold
<1>3. QED
  BY <1>2, RequestsInvariant, PTL

\* What was decided stands: an answered claim, an expired or completed upload; a file of a task comes
\* while the task takes files, what a crash left of a body is never continued, and cases change hands
\* as a whole list, each as its supervisor saw it (admin.py, files.py, storage.py, cases.py).
THEOREM WhatIsDecidedStands == RequestsSpec => DecidedStands
<1> DEFINE Stands ==
      /\ which = "claims" => Claiming!ResolvedStandsStep
      /\ which = "assignment" => Assigning!AssignedAsSeenStep
      /\ which = "uploads" => Upload!FinalStandsStep /\ Upload!TaskFilesInTimeStep /\ Upload!NeverResumedStep
<1>1. RequestsInv /\ [RequestsNext]_allVars => [Stands]_allVars
  BY StepOfAPart, ClaimsResolved, AssignNext, UploadDecides, UploadResumesNot DEF RequestsInv
<1>2. QED
  BY <1>1, RequestsInvariant, PTL DEF RequestsSpec, DecidedStands

\* Beside the other requests a session does what it does alone: what was begun before a change of
\* status, roles or address never serves again, and what is revoked stays so (auth.py, admin.py).
THEOREM SessionsHold == RequestsSpec => []SessionsEnd /\ RevokedStays
<1>1. RequestsInit => Init
  BY DEF RequestsInit
<1>2. [RequestsNext]_allVars => [Next]_vars
  BY StepOfAPart
<1>3. RequestsSpec => Spec
  BY <1>1, <1>2, PTL DEF RequestsSpec, Spec
<1>4. QED
  BY <1>3, SessionsEndInTime, RevocationStands, PTL

\* What the parts rest on besides, for their rows to be as the code leaves them.
RequestsKept ==
  /\ SessionsInv /\ Bounded
  /\ which = "roles" => Granted!RolesTypeOK
  /\ which = "claims" => ClaimsHeld
  /\ which = "uploads" => UploadsKept

\* The rows of each part stay as the code leaves them: a role that reaches everywhere has the one scope
\* that says so, a claim's row is locked by who decides it and by nobody else, a version counts the
\* writes of a row, and who holds a row's lock is between reading it and committing (auth.py, admin.py,
\* common.py, cases.py, files.py, worker.py).
THEOREM RequestsStayTyped == RequestsSpec => []RequestsTypeOK
<1>1. RequestsInit => RequestsKept
  BY InitInv, BoundedInit, RolesTypedInit, ClaimsHeldInit, UploadsKeptInit DEF RequestsInit, RequestsKept
<1>2. RequestsInv /\ RequestsKept /\ [RequestsNext]_allVars => RequestsKept'
  <2> SUFFICES ASSUME RequestsInv, RequestsKept, [RequestsNext]_allVars PROVE RequestsKept'
    OBVIOUS
  <2>1. which' = which /\ [Next]_vars
    BY StepOfAPart
  <2>2. SessionsInv'
    BY <2>1, TypesStep, OlderStep, HeldStep, CurrentStep DEF RequestsKept, SessionsInv
  <2>3. Bounded'
    BY <2>1, BoundedStep DEF RequestsKept, SessionsInv
  <2>4. which = "roles" => Granted!RolesTypeOK'
    BY StepOfAPart, RolesTypedNext DEF RequestsKept
  <2>5. which = "claims" => ClaimsHeld'
    BY StepOfAPart, ClaimsHeldNext DEF RequestsInv, RequestsKept
  <2>6. which = "uploads" => UploadsKept'
    BY StepOfAPart, UploadsKeptNext DEF RequestsInv, RequestsKept
  <2>7. QED
    BY <2>1, <2>2, <2>3, <2>4, <2>5, <2>6 DEF RequestsKept
<1>3. RequestsInv /\ RequestsKept => RequestsTypeOK
  BY SessionsAreTyped, ClaimsTyped, AssignTyped, ExportsTyped, KeysTyped, UploadsTyped
     DEF RequestsInv, RequestsKept, RequestsTypeOK
<1>4. QED
  BY <1>1, <1>2, <1>3, RequestsInvariant, PTL DEF RequestsSpec
=============================================================================

-------------------------- MODULE AccountSessions --------------------------
(***************************************************************************)
(* The sessions of one account (auth.py): logins by e-mail code, LINE and  *)
(* staff second factor, revocation, the change of address, unlinking LINE, *)
(* and an administrator's change of status or roles (admin.py).            *)
(*                                                                         *)
(* A request that reads and writes later is split there.  Logins by code   *)
(* and the administrator lock the account's row; a LINE login does not.    *)
(* Bulk revocation leaves the version column of a session alone.  A session*)
(* records what was true when its request read the account.                *)
(***************************************************************************)
EXTENDS Naturals, FiniteSets

CONSTANTS
  Sessions, Requests, None,
  MaxChanges   \* bound: changes of the account, new codes of a session, links ever made

ASSUME SessionsAssumption ==
  /\ MaxChanges \in Nat /\ None \notin Sessions \cup Requests
  /\ None \notin {"email", "staff", "line", "login", "admin", "reauth", "change"}

VARIABLES
  account,  \* Account: status, role_version, address, version
  link,     \* the active link's number, or 0
  links,    \* links ever made
  session,  \* session[s]: AuthSession, or NoSession
  request,  \* request[r]: a request under way
  lock      \* who holds the account's row, or None

vars == <<account, link, links, session, request, lock>>

NoSession == [method |-> None, role |-> 0, email |-> 0, link |-> 0, version |-> 0, revoked |-> FALSE,
              overtaken |-> FALSE]
Idle == [op |-> None, row |-> NoSession, version |-> 0, session |-> None, seen |-> <<>>]

Init ==
  /\ account = [status |-> "ACTIVE", role |-> 1, email |-> 1, version |-> 1]
  /\ link = 0 /\ links = 0
  /\ session = [s \in Sessions |-> NoSession]
  /\ request = [r \in Requests |-> Idle]
  /\ lock = None

Exists(s) == session[s].method # None
Live == {s \in Sessions : Exists(s) /\ ~session[s].revoked}

\* Slip: only the status of the account is looked at.
UsableByStatus(s) == s \in Live /\ account.status = "ACTIVE"

\* _authenticated_principal
Usable(s) == s \in Live /\ account.status = "ACTIVE" /\ account.role = session[s].role

NewSession(method) ==
  [method |-> method, role |-> account.role, email |-> account.email,
   link |-> IF method = "line" THEN link ELSE 0, version |-> 1, revoked |-> FALSE, overtaken |-> FALSE]

Ends(r) == request' = [request EXCEPT ![r] = Idle]
Unlock(r) == lock' = IF lock = r THEN None ELSE lock
\* _revoke_sessions of auth.py: one UPDATE over what is committed.
Revoked(sessions) == [s \in Sessions |-> IF s \in Live THEN [sessions[s] EXCEPT !.revoked = TRUE] ELSE sessions[s]]

---------------------------------------------------------------------------
(* Logins.                                                                 *)

\* Slip: the account is read without FOR UPDATE.
CodeReadUnlocked(r, method) ==
  /\ request[r] = Idle /\ account.status = "ACTIVE"
  /\ request' = [request EXCEPT ![r] = [Idle EXCEPT !.op = "login", !.row = NewSession(method)]]
  /\ UNCHANGED <<account, link, links, session, lock>>

\* verify_email and staff_mfa, past the code.
CodeRead(r, method) ==
  /\ request[r] = Idle /\ lock = None /\ account.status = "ACTIVE"
  /\ request' = [request EXCEPT ![r] = [Idle EXCEPT !.op = "login", !.row = NewSession(method)]]
  /\ lock' = r
  /\ UNCHANGED <<account, link, links, session>>

LineRead(r) ==
  /\ request[r] = Idle /\ link # 0 /\ account.status = "ACTIVE"
  /\ request' = [request EXCEPT ![r] = [Idle EXCEPT !.op = "login", !.row = NewSession("line")]]
  /\ UNCHANGED <<account, link, links, session, lock>>

\* The new row refers to the account, so it waits for whoever holds the account's row.
LoginCommit(r, s) ==
  /\ request[r].op = "login" /\ ~Exists(s) /\ lock \in {None, r}
  /\ session' = [session EXCEPT ![s] = request[r].row]
  /\ Ends(r) /\ Unlock(r)
  /\ UNCHANGED <<account, link, links>>

---------------------------------------------------------------------------
(* change_status and change_roles.                                         *)

\* The administrator has read the account as it is; sessions are read under its lock.
AdminRead(r) ==
  /\ request[r] = Idle /\ lock = None /\ account.role <= MaxChanges
  /\ request' = [request EXCEPT ![r] = [Idle EXCEPT !.op = "admin",
                   !.seen = [s \in Live |-> session[s].version]]]
  /\ lock' = r
  /\ UNCHANGED <<account, link, links, session>>

\* A session written meanwhile fails the whole change.
Untouched(r) == \A s \in DOMAIN request[r].seen : session[s].version = request[r].seen[s]

AdminCommit(r, status) ==
  /\ request[r].op = "admin"
  /\ IF Untouched(r)
     THEN /\ account' = [account EXCEPT !.status = status, !.role = @ + 1, !.version = @ + 1]
          /\ session' = [s \in Sessions |->
               LET gone == s \in DOMAIN request[r].seen IN
               [session[s] EXCEPT !.revoked = @ \/ gone, !.version = IF gone THEN @ + 1 ELSE @,
                                  !.overtaken = Exists(s)]]
          /\ request' = [q \in Requests |->
               IF q = r THEN Idle ELSE [request[q] EXCEPT !.row.overtaken = request[q].op = "login"]]
     ELSE Ends(r) /\ UNCHANGED <<account, session>>
  /\ Unlock(r)
  /\ UNCHANGED <<link, links>>

---------------------------------------------------------------------------
(* The account's own requests, with a session that may be used when they begin. *)

RevokeAll ==
  /\ \E s \in Sessions : Usable(s)
  /\ session' = Revoked(session)
  /\ UNCHANGED <<account, link, links, request, lock>>

\* revoke_session and logout
RevokeOne(s) ==
  /\ Usable(s)
  /\ session' = [session EXCEPT ![s].revoked = TRUE, ![s].version = @ + 1]
  /\ UNCHANGED <<account, link, links, request, lock>>

Bind ==
  /\ lock = None /\ link = 0 /\ links < MaxChanges /\ \E s \in Sessions : Usable(s)
  /\ links' = links + 1 /\ link' = links + 1
  /\ UNCHANGED <<account, session, request, lock>>

Unlink ==
  /\ link # 0 /\ \E s \in Sessions : Usable(s)
  /\ link' = 0
  /\ session' = Revoked(session)
  /\ UNCHANGED <<account, links, request, lock>>

\* A new code for the session that is in use, and the new address's code.
OwnRead(r, s, op) ==
  /\ request[r] = Idle /\ Usable(s)
  /\ IF op = "change" THEN account.email <= MaxChanges ELSE session[s].version <= MaxChanges
  /\ request' = [request EXCEPT ![r] = [Idle EXCEPT !.op = op, !.session = s,
                   !.version = IF op = "change" THEN account.version ELSE session[s].version,
                   !.row = session[s]]]
  /\ UNCHANGED <<account, link, links, session, lock>>

\* Slip: the session is written back as it was read.
ReauthWhole(r) ==
  /\ request[r].op = "reauth"
  /\ session' = [session EXCEPT ![request[r].session] =
                   IF @.version = request[r].version
                   THEN [@ EXCEPT !.version = @ + 1, !.revoked = request[r].row.revoked] ELSE @]
  /\ Ends(r)
  /\ UNCHANGED <<account, link, links, lock>>

\* Only reauth_at is written, if the session is still the version that was read.
ReauthCommit(r) ==
  /\ request[r].op = "reauth"
  /\ session' = [session EXCEPT ![request[r].session].version =
                   IF @ = request[r].version THEN @ + 1 ELSE @]
  /\ Ends(r)
  /\ UNCHANGED <<account, link, links, lock>>

\* The address is flushed under the account's row lock and version, then sessions go
\* and the one of this request is made.
ChangeCommit(r, s) ==
  /\ request[r].op = "change" /\ lock = None /\ ~Exists(s)
  /\ IF account.version = request[r].version
     THEN /\ account' = [account EXCEPT !.email = @ + 1, !.version = @ + 1]
          /\ session' = [Revoked(session) EXCEPT ![s] =
               [NewSession(request[r].row.method) EXCEPT !.email = account.email + 1, !.link = request[r].row.link]]
     ELSE UNCHANGED <<account, session>>
  /\ Ends(r)
  /\ UNCHANGED <<link, links, lock>>

Next ==
  \/ \E r \in Requests :
       \/ \E method \in {"email", "staff"} : CodeRead(r, method)
       \/ LineRead(r)
       \/ AdminRead(r)
       \/ \E status \in {"ACTIVE", "DISABLED"} : AdminCommit(r, status)
       \/ \E s \in Sessions : LoginCommit(r, s) \/ OwnRead(r, s, "reauth") \/ OwnRead(r, s, "change") \/ ChangeCommit(r, s)
       \/ ReauthCommit(r)
  \/ RevokeAll \/ Bind \/ Unlink
  \/ \E s \in Sessions : RevokeOne(s)

Spec == Init /\ [][Next]_vars

---------------------------------------------------------------------------
(* Properties.                                                             *)

\* Rows are within their types; the account's row is locked exactly while a login by
\* code or an administrator is between reading the account and committing.
SessionsTypeOK ==
  /\ account.status \in {"ACTIVE", "DISABLED"} /\ account.role \in 1..MaxChanges + 1 /\ account.email \in 1..MaxChanges + 1
  /\ link \in 0..links
  /\ \A s \in Sessions : session[s].method \in {None, "email", "staff", "line"} /\ session[s].role <= account.role
  /\ \A r \in Requests : lock = r <=> request[r].op = "admin" \/ (request[r].op = "login" /\ request[r].row.method # "line")

\* After a status or the roles were changed no session serves that was begun before,
\* not even one whose login was under way and ends later, and not when the account is
\* made active again ("old sessions can at once make no new authorised request",
\* auth_notes.md:11).
ChangeEndsSessions == \A s \in Sessions : Usable(s) => ~session[s].overtaken

\* After the address was changed no session serves that a code to the old address
\* began, nor one whose login was under way.
AddressEndsSessions == \A s \in Sessions : Usable(s) /\ session[s].method = "email" => session[s].email = account.email

\* Together: a session serves only while all that it was begun with holds.
SessionsEnd == ChangeEndsSessions /\ AddressEndsSessions

\* A session that was revoked stays so, whatever of its own requests comes to an end after.
RevokedStays == [][\A s \in Sessions : Exists(s) /\ session[s].revoked => session'[s].revoked]_vars
=============================================================================

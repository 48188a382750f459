----------------------------- MODULE CaseClaims -----------------------------
(***************************************************************************)
(* Claims of existing cases (admin.py): an applicant asks for a case that  *)
(* is already there, a supervisor resolves the claim, naming the case.     *)
(*                                                                         *)
(* Asking counts the open claims of the account and inserts later, without *)
(* a lock.  Resolving locks the case, then the claim, then looks whether   *)
(* the account owns the case already.                                      *)
(***************************************************************************)
EXTENDS Naturals, FiniteSets

CONSTANTS
  Accounts, Cases, None,
  Creator,     \* Creator[k]: the account the case was created by
  NClaims,     \* bound: claims ever made
  MaxPending,  \* five
  Handlers,    \* requests of applicants
  Reviews      \* requests of supervisors

ClaimsAssumption ==
  Creator \in [Cases -> Accounts] /\ NClaims \in Nat /\ MaxPending \in Nat
  /\ None \notin Accounts \cup Cases \cup Reviews \cup {"PENDING", "APPROVED", "REJECTED"}

Claims == 1..NClaims

VARIABLES
  claim,   \* claim[c]: ClaimRequest: version 0 for one not made
  owner,   \* owner[r]: CaseAccess rows, keyed by the case or the claim they come from
  asking,  \* asking[h]: the account that has been counted, or None
  review,  \* review[s]: a request to resolve
  lock     \* lock[x]: the review that holds the row of a case or a claim

vars == <<claim, owner, asking, review, lock>>

Rows == {<<"case", k>> : k \in Cases} \cup {<<"claim", c>> : c \in Claims}
NoAccess == [case |-> None, account |-> None]
Idle == [pc |-> "idle", claim |-> 0, case |-> None, seen |-> 0, approve |-> FALSE, found |-> FALSE]

Init ==
  /\ claim = [c \in Claims |-> [by |-> None, status |-> None, case |-> None, version |-> 0]]
  /\ owner = [r \in Rows |-> IF r[1] = "case" THEN [case |-> r[2], account |-> Creator[r[2]]] ELSE NoAccess]
  /\ asking = [h \in Handlers |-> None]
  /\ review = [s \in Reviews |-> Idle]
  /\ lock = [r \in Rows |-> None]

Made == {c \in Claims : claim[c].version > 0}
PendingOf(a) == {c \in Made : claim[c].by = a /\ claim[c].status = "PENDING"}
Owns(a, k) == \E r \in Rows : owner[r] = [case |-> k, account |-> a]

---------------------------------------------------------------------------
(* request_claim                                                           *)

Count(h, a) ==
  /\ asking[h] = None /\ Cardinality(PendingOf(a)) < MaxPending
  /\ asking' = [asking EXCEPT ![h] = a]
  /\ UNCHANGED <<claim, owner, review, lock>>

Insert(h) ==
  /\ asking[h] # None /\ Cardinality(Made) < NClaims
  /\ claim' = [claim EXCEPT ![Cardinality(Made) + 1] =
                 [by |-> asking[h], status |-> "PENDING", case |-> None, version |-> 1]]
  /\ asking' = [asking EXCEPT ![h] = None]
  /\ UNCHANGED <<owner, review, lock>>

---------------------------------------------------------------------------
(* resolve_claim                                                           *)

\* A supervisor sends the case they found, and the version of the claim they saw.
Send(s, c, k, approve) ==
  /\ review[s].pc = "idle" /\ c \in Made
  /\ review' = [review EXCEPT ![s] =
       [pc |-> "case", claim |-> c, case |-> k, seen |-> claim[c].version, approve |-> approve, found |-> FALSE]]
  /\ UNCHANGED <<claim, owner, asking, lock>>

\* Slip: the case is read without taking its row's lock.
CaseForRead(s) ==
  /\ review[s].pc = "case"
  /\ review' = [review EXCEPT ![s].pc = "claim"]
  /\ UNCHANGED <<claim, owner, asking, lock>>

\* case_for(write=True)
CaseFor(s) ==
  LET k == <<"case", review[s].case>> IN
  /\ review[s].pc = "case" /\ lock[k] = None
  /\ lock' = [lock EXCEPT ![k] = s]
  /\ review' = [review EXCEPT ![s].pc = "claim"]
  /\ UNCHANGED <<claim, owner, asking>>

Released(s) == [r \in Rows |-> IF lock[r] = s THEN None ELSE lock[r]]
Ends(s) == review' = [review EXCEPT ![s] = Idle] /\ lock' = Released(s)

\* Slip: neither the version nor the status is looked at.
AdmissibleUnseen(s) == TRUE

\* check_version, and the claim is still open.
Admissible(s) == LET c == claim[review[s].claim] IN c.version = review[s].seen /\ c.status = "PENDING"

LockClaim(s) ==
  LET c == <<"claim", review[s].claim>> IN
  /\ review[s].pc = "claim" /\ lock[c] = None
  /\ Admissible(s)
  /\ lock' = [lock EXCEPT ![c] = s]
  /\ review' = [review EXCEPT ![s].pc = "look"]
  /\ UNCHANGED <<claim, owner, asking>>

\* 412 or 409: rolled back.
Refuse(s) ==
  /\ review[s].pc = "claim" /\ lock[<<"claim", review[s].claim>>] = None
  /\ ~Admissible(s)
  /\ Ends(s)
  /\ UNCHANGED <<claim, owner, asking>>

\* Slip: any access to the case will do, whoever's it is.
LookAnyone(s) ==
  /\ review[s].pc = "look"
  /\ review' = [review EXCEPT ![s] =
       [@ EXCEPT !.found = \E a \in Accounts : Owns(a, review[s].case), !.pc = "write"]]
  /\ UNCHANGED <<claim, owner, asking, lock>>

Look(s) ==
  /\ review[s].pc = "look"
  /\ review' = [review EXCEPT ![s] =
       [@ EXCEPT !.found = Owns(claim[review[s].claim].by, review[s].case), !.pc = "write"]]
  /\ UNCHANGED <<claim, owner, asking, lock>>

Commit(s) ==
  LET c == review[s].claim IN
  /\ review[s].pc = "write"
  /\ claim' = [claim EXCEPT ![c] =
                 [@ EXCEPT !.status = IF review[s].approve THEN "APPROVED" ELSE "REJECTED",
                           !.case = review[s].case, !.version = claim[c].version + 1]]
  /\ owner' = IF review[s].approve /\ ~review[s].found
              THEN [owner EXCEPT ![<<"claim", c>>] = [case |-> review[s].case, account |-> claim[c].by]]
              ELSE owner
  /\ Ends(s)
  /\ UNCHANGED asking

\* The process dies, or the client is gone: rolled back.
Die(s) == review[s].pc # "idle" /\ Ends(s) /\ UNCHANGED <<claim, owner, asking>>

Step(s) == CaseFor(s) \/ LockClaim(s) \/ Refuse(s) \/ Look(s) \/ Commit(s)

Next ==
  \/ \E h \in Handlers : (\E a \in Accounts : Count(h, a)) \/ Insert(h)
  \/ \E s \in Reviews : \/ \E c \in Claims, k \in Cases, approve \in BOOLEAN : Send(s, c, k, approve)
                        \/ Step(s) \/ Die(s)

Spec == Init /\ [][Next]_vars

---------------------------------------------------------------------------
(* Properties.                                                             *)

\* Rows are within their types, and those a request works on are locked for it.
ClaimsTypeOK ==
  /\ \A c \in Claims : claim[c].status \in {None, "PENDING", "APPROVED", "REJECTED"}
  /\ \A s \in Reviews :
       /\ review[s].pc \in {"look", "write"} => claim[review[s].claim].status = "PENDING"
       /\ \A c \in Claims : lock[<<"claim", c>>] = s <=> review[s].pc \in {"look", "write"} /\ review[s].claim = c

\* However many claims of a case are resolved at once, an account comes to own it once:
\* what is looked up under the lock of the case holds until the commit.
OwnedOnce ==
  \A q, r \in Rows : owner[q] # NoAccess /\ owner[q] = owner[r] => q = r

\* A claim that was approved opens the case it was approved for to who made it, and
\* nothing else does: to know a case's number is not enough (test_admin.py:199).
OwnedByApproval ==
  /\ \A c \in Made : claim[c].status = "APPROVED" => Owns(claim[c].by, claim[c].case)
  /\ \A a \in Accounts, k \in Cases : Owns(a, k) =>
       a = Creator[k] \/ \E c \in Made : claim[c] = [by |-> a, status |-> "APPROVED", case |-> k, version |-> 2]

\* Two supervisors who saw the same open claim cannot both resolve it: the first answer stands.
ResolvedStandsStep == \A c \in Claims : claim[c].status \in {"APPROVED", "REJECTED"} => claim'[c] = claim[c]
ResolvedStands == [][ResolvedStandsStep]_vars
=============================================================================

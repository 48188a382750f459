----------------------------- MODULE RoleGrants -----------------------------
(***************************************************************************)
(* The role grants of one account and their replacement by administrators  *)
(* (admin.py, access.py).  A change replaces all grants in force at once,  *)
(* under the lock of the account's row, so it is one step here.            *)
(*                                                                         *)
(* High privileges may be passed on in a change only as part of one grant  *)
(* in force: the same role, a scope inside its scope, an end no later.     *)
(***************************************************************************)
EXTENDS Naturals, FiniteSets

CONSTANTS
  Cases, Schemes, SchemeOf,  \* SchemeOf[c]
  Roles,                     \* the roles a change may name
  MaxGrants,                 \* bound of the grants in one change (twenty in the code)
  MaxTime                    \* bound of the clock

Protected == {"supervisor", "admin", "auditor"}
Forever == MaxTime + 1  \* no expires_at

RolesAssumption ==
  /\ SchemeOf \in [Cases -> Schemes] /\ Roles \subseteq Protected \cup {"applicant", "reviewer"}
  /\ MaxGrants \in Nat /\ MaxTime \in Nat

Scopes == {<<"GLOBAL">>} \cup {<<"SCHEME", s>> : s \in Schemes} \cup {<<"CASE", c>> : c \in Cases}
Grants == [role : Roles, scope : Scopes, until : 1..Forever]

VARIABLES
  now,
  enrolled,  \* the account has a password and an authenticator
  grants,    \* grants of the account that are not revoked
  first      \* what it was given from outside: by the command line

vars == <<now, enrolled, grants, first>>

Global(role) == role \in {"applicant", "admin"}

\* A list of grants the handler takes: no two for one role and scope, GLOBAL where it must be.
WellFormed(new) ==
  /\ IsFiniteSet(new) /\ Cardinality(new) <= MaxGrants
  /\ \A g, h \in new : g # h => g.role # h.role \/ g.scope # h.scope
  /\ \A g \in new : Global(g.role) => g.scope = <<"GLOBAL">>

Init ==
  /\ now = 0
  /\ enrolled \in BOOLEAN
  /\ grants \in {new \in SUBSET Grants : WellFormed(new) /\ (enrolled \/ \A g \in new : g.role = "applicant")}
  /\ first = grants

\* _grants
InForce(gs) == {g \in gs : g.until > now}

\* Slip: the end of the old grant is not looked at.
WithinForever(g, old) ==
  /\ g.role = old.role
  /\ \/ old.scope = <<"GLOBAL">>
     \/ old.scope = g.scope
     \/ old.scope[1] = "SCHEME" /\ g.scope[1] = "CASE" /\ SchemeOf[g.scope[2]] = old.scope[2]

\* _grant_within
Within(g, old) ==
  /\ g.role = old.role
  /\ g.until <= old.until
  /\ \/ old.scope = <<"GLOBAL">>
     \/ old.scope = g.scope
     \/ old.scope[1] = "SCHEME" /\ g.scope[1] = "CASE" /\ SchemeOf[g.scope[2]] = old.scope[2]

IsProtected(g) == g.role \in Protected \/ (g.role # "applicant" /\ g.scope = <<"GLOBAL">>)

\* What the handler asks of each grant of a change.
Allowed(g) ==
  /\ g.until > now
  /\ g.role # "applicant" => enrolled
  /\ IsProtected(g) => \E old \in InForce(grants) : Within(g, old)

ChangeRoles(new) ==
  /\ WellFormed(new) /\ \A g \in new : Allowed(g)
  /\ grants' = (grants \ InForce(grants)) \cup new
  /\ UNCHANGED <<now, enrolled, first>>

Tick == now < MaxTime /\ now' = now + 1 /\ UNCHANGED <<enrolled, grants, first>>

Next == Tick \/ \E new \in SUBSET {g \in Grants : Allowed(g)} : ChangeRoles(new)

Spec == Init /\ [][Next]_vars

---------------------------------------------------------------------------
(* Properties.                                                             *)

\* Some grant of gs gives the role over the case at the time (scope_filter).
Gives(gs, role, c, t) ==
  \E g \in gs :
    /\ g.role = role /\ g.until > t
    /\ g.scope = <<"GLOBAL">> \/ g.scope = <<"SCHEME", SchemeOf[c]>> \/ g.scope = <<"CASE", c>>

\* Everything an account may hold follows the rules of one list, whatever the changes left behind.
RolesTypeOK ==
  /\ grants \subseteq Grants /\ now \in 0..MaxTime
  /\ \A g \in grants : (Global(g.role) => g.scope = <<"GLOBAL">>) /\ (g.role # "applicant" => enrolled)
  /\ WellFormed(InForce(grants))

\* No sequence of changes, with whatever time between them, lets an account look after,
\* oversee or audit a case at a time the grants it was given from outside did not
\* ("existing high privilege may be reduced but not expanded", test_admin.py:248).
AuthorityOnlyNarrows ==
  /\ \A role \in Roles \cap Protected, c \in Cases, t \in now..MaxTime : Gives(grants, role, c, t) => Gives(first, role, c, t)
  /\ \A g \in InForce(grants) : IsProtected(g) /\ g.scope = <<"GLOBAL">> => \E old \in first : Within(g, old)
=============================================================================

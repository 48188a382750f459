------------------------------ MODULE MCLogins ------------------------------
(***************************************************************************)
(* Small instances of Logins: two logins, requests or passes at a time.    *)
(***************************************************************************)
EXTENDS Logins, TLC

CONSTANTS sam, e1, e2, e3, e4

\* The workers are the requests, and the identities the accounts: fewer permutations.
MCSymmetry == UNION {Permutations(s) : s \in {Challenges, Requests, Accounts, Subjects}}

\* One mail per identity and window; two of an address and of all.
MCCounters == Identities \cup {"address", "global"}
MCWindow == [k \in MCCounters |-> IF k = "global" THEN 3 ELSE 2]
MCAllowed == [k \in MCCounters |-> IF k \in Identities THEN 1 ELSE 2]

\* A follow, then an unfollow and a follow of one instant, and a message.
MCKind == [e \in Events |-> CASE e = e2 -> "unfollow" [] e = e4 -> "other" [] OTHER -> "follow"]
MCAt == [e \in Events |-> IF e = e1 THEN 1 ELSE 2]
MCSubject == [e \in Events |-> sam]
=============================================================================

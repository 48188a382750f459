--------------------------- MODULE CaseLifecycle ---------------------------
(***************************************************************************)
(* What an application promises to the people who follow it through        *)
(* get_case: the phase it is in, where each requirement stands, the ruling *)
(* in force and the number of receipts issued.  Versions, files, review    *)
(* items, reminders and time are not seen here.                            *)
(***************************************************************************)
EXTENDS Naturals

CONSTANT Tasks            \* requirements staff may raise

VARIABLES phase, standing, ruling, receipts

lifecycleVars == <<phase, standing, ruling, receipts>>

Init ==
  /\ phase = "DRAFT"
  /\ standing = [t \in Tasks |-> "unraised"]
  /\ ruling = "NONE"
  /\ receipts = 0

\* A draft is received, against the first receipt.
Receive ==
  /\ phase = "DRAFT" /\ receipts = 0
  /\ phase' = "RECEIVED" /\ receipts' = 1
  /\ UNCHANGED <<standing, ruling>>

Review ==
  /\ phase = "RECEIVED" /\ phase' = "UNDER_REVIEW"
  /\ UNCHANGED <<standing, ruling, receipts>>

\* A requirement moves during the review only; to answer it earns a receipt.
Move(t, from, to) ==
  /\ phase = "UNDER_REVIEW"
  /\ standing[t] \in from
  /\ standing' = [standing EXCEPT ![t] = to]
  /\ UNCHANGED <<phase, ruling>>

Raise(t) == Move(t, {"unraised", "answered"}, "raised") /\ UNCHANGED receipts
Answer(t) == Move(t, {"raised"}, "answered") /\ receipts' = receipts + 1
Settle(t) == Move(t, {"raised", "answered"}, "settled") /\ UNCHANGED receipts

\* An application not decided yet may be withdrawn, with every requirement in it.
Withdraw ==
  /\ phase \in {"DRAFT", "RECEIVED", "UNDER_REVIEW"}
  /\ phase' = "WITHDRAWN"
  /\ standing' = [t \in Tasks |-> IF standing[t] = "unraised" THEN "unraised" ELSE "settled"]
  /\ UNCHANGED <<ruling, receipts>>

\* A ruling is given once nothing is asked any more, and corrected later.
Rule ==
  /\ phase \in {"UNDER_REVIEW", "DECIDED", "CLOSED"}
  /\ \A t \in Tasks : standing[t] \in {"unraised", "settled"}
  /\ phase' = "DECIDED"
  /\ ruling' \in {"APPROVED", "REJECTED"}
  /\ UNCHANGED <<standing, receipts>>

Close ==
  /\ phase = "DECIDED" /\ phase' = "CLOSED"
  /\ UNCHANGED <<standing, ruling, receipts>>

Next ==
  \/ Receive \/ Review \/ Withdraw \/ Rule \/ Close
  \/ \E t \in Tasks : Raise(t) \/ Answer(t) \/ Settle(t)

Spec == Init /\ [][Next]_lifecycleVars
=============================================================================

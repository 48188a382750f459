---------------------------- MODULE ReviewPanels ----------------------------
(***************************************************************************)
(* The panels of frontend/src/admin/AdminApp.tsx on which a supervisor     *)
(* reviews a case and decides it: CaseWorkspace with its tabs, one         *)
(* ReviewEditor for each criterion, EvidenceEditor and DecisionPanel.      *)
(*                                                                         *)
(* A panel copies what the page was given into a state of its own and keeps*)
(* it until it is unmounted, while colleagues work on the same case; a     *)
(* request may be lost, or its answer.  The case is read at once here and  *)
(* the content of a note is its presence: StaffPage and CaseWorkflow have  *)
(* the rest.                                                               *)
(***************************************************************************)
EXTENDS Naturals

CONSTANTS
  Criteria,    \* required_criteria of the scheme
  Sources,     \* revisions and files that passed the scan: what evidence may name
  None,
  MaxVersion   \* bound: versions of the case

Results == {"PENDING", "PASS", "FAIL"}
Outcomes == {"APPROVED", "REJECTED"}

\* The rows of the review, and the case as the page reads it.
ItemRows == [Criteria -> [result : Results, reason : BOOLEAN, evidence : SUBSET Sources, version : Nat]]
Bundles == [version : Nat, item : ItemRows, decided : BOOLEAN]

PanelsAssumption == MaxVersion \in Nat /\ None \notin Bundles

VARIABLES
  version,   \* of the case: every change of an item or the decision is one
  item,      \* item[c]: ReviewItem
  decision,  \* the first Decision, or None
  shown,     \* the bundle of the page, None while it is loaded
  tab,
  draft,     \* draft[c]: the state of the ReviewEditor of c
  form,      \* the state of the DecisionPanel
  kept,      \* useStableKey: the body sent last, and its key; history: its keys so far
  sent       \* the operation that is awaited, or None

vars == <<version, item, decision, shown, tab, draft, form, kept, sent>>
server == <<version, item, decision>>
panels == <<tab, draft, form, kept>>

ContentOf(i) == [result |-> i.result, reason |-> i.reason, evidence |-> i.evidence]
Row(content, v) ==
  [result |-> content.result, reason |-> content.reason, evidence |-> content.evidence,
   version |-> v]
Pending == [result |-> "PENDING", reason |-> FALSE, evidence |-> {}]

\* A panel that has just been mounted.
EmptyForm == [outcome |-> "APPROVED", evidence |-> {}, confirmed |-> None]
NothingKept == [body |-> None, key |-> 0, series |-> {}]

Init ==
  /\ version = 1
  /\ item = [c \in Criteria |-> Row(Pending, 1)]
  /\ decision = None
  /\ shown = None
  /\ tab = "documents"
  /\ draft = [c \in Criteria |-> Pending]
  /\ form = EmptyForm
  /\ kept = NothingKept
  /\ sent = None

---------------------------------------------------------------------------
(* The server.                                                             *)

\* Slip: any version will do.
AnyVersion(etag, current) == TRUE

\* check_version
CheckVersion(etag, current) == etag = current

\* update_review accepts this content.
ReviewAllowed(content) ==
  /\ decision = None
  /\ content.result \in {"PASS", "FAIL"} => content.evidence # {}
  /\ content.result = "FAIL" => content.reason

UpdateReview(c, content) ==
  /\ item' = [item EXCEPT ![c] = Row(content, @.version + 1)]
  /\ version' = version + 1
  /\ UNCHANGED decision

\* _ready_for_decision, without the tasks and replacements that CaseWorkflow has.
Ready(outcome, of) ==
  /\ \A c \in Criteria : of[c].result \in {"PASS", "FAIL"}
  /\ IF outcome = "APPROVED" THEN \A c \in Criteria : of[c].result = "PASS"
                             ELSE \E c \in Criteria : of[c].result = "FAIL"

DecideCase(body, key, confirmed) ==
  /\ decision' = [body |-> body, key |-> key, confirmed |-> confirmed]
  /\ version' = version + 1
  /\ UNCHANGED item

\* A colleague's page does the same, at any time.
Colleague ==
  /\ version < MaxVersion
  /\ \/ \E c \in Criteria, r \in Results, s \in Sources :
          LET content == [result |-> r, reason |-> TRUE, evidence |-> {s}] IN
          ReviewAllowed(content) /\ UpdateReview(c, content)
     \/ \E o \in Outcomes, s \in Sources :
          /\ decision = None /\ Ready(o, item)
          /\ DecideCase([outcome |-> o, evidence |-> {s}], 0, None)
  /\ UNCHANGED <<shown, panels, sent>>

---------------------------------------------------------------------------
(* The page.                                                               *)

\* Slip: the panels outlive the bundle.
StillMounted == UNCHANGED <<draft, form, kept>>

\* Panels are unmounted: what was not saved is gone.
Unmounted ==
  /\ draft' = [c \in Criteria |-> Pending]
  /\ form' = EmptyForm
  /\ kept' = NothingKept

\* The effect of tab: the panels of the tab are mounted on the bundle.
Mounted(bundle) ==
  /\ draft' = [c \in Criteria |-> ContentOf(bundle.item[c])]
  /\ form' = EmptyForm
  /\ kept' = NothingKept

Reload ==
  /\ sent = None /\ shown # None
  /\ shown' = None
  /\ Unmounted
  /\ UNCHANGED <<server, tab, sent>>

CaseArrives ==
  /\ sent = None /\ shown = None
  /\ shown' = [version |-> version, item |-> item, decided |-> decision # None]
  /\ Mounted(shown')
  /\ UNCHANGED <<server, tab, sent>>

Working == sent = None /\ shown # None

ShowTab(t) ==
  /\ Working /\ t # tab
  /\ tab' = t
  /\ Mounted(shown)
  /\ UNCHANGED <<server, shown, sent>>

\* allowed_actions of the case that is shown.
CanEdit == Working /\ tab = "reviews" /\ ~shown.decided
CanDecide == Working /\ tab = "decision" /\ ~shown.decided

\* The select, the notes and the EvidenceEditor of a criterion.
EditItem(c) ==
  /\ CanEdit
  /\ \/ \E r \in Results \ {draft[c].result} : draft' = [draft EXCEPT ![c].result = r]
     \/ draft' = [draft EXCEPT ![c].reason = ~@]
     \/ \E s \in Sources : draft' = [draft EXCEPT ![c].evidence = @ \cup {s}]
     \/ \E s \in Sources : draft' = [draft EXCEPT ![c].evidence = @ \ {s}]
  /\ UNCHANGED <<server, shown, tab, form, kept, sent>>

\* The button: needEvidence and missingReason disable it.
SaveItem(c) ==
  /\ CanEdit
  /\ draft[c].result \in {"PASS", "FAIL"} => draft[c].evidence # {}
  /\ draft[c].result = "FAIL" => draft[c].reason
  /\ sent' = [kind |-> "save", criterion |-> c, etag |-> shown.item[c].version,
              content |-> draft[c]]
  /\ UNCHANGED <<server, shown, panels>>

\* Slip: what was confirmed stays confirmed.
ChangeKeepingConfirmation(next) == form' = [next EXCEPT !.confirmed = form.confirmed]

\* Every change of the form takes the confirmation back.
Change(next) == form' = [next EXCEPT !.confirmed = None]

ReviewEvidence == UNION {shown.item[c].evidence : c \in Criteria}

EditForm ==
  /\ CanDecide
  /\ \/ \E o \in Outcomes \ {form.outcome} : Change([form EXCEPT !.outcome = o])
     \/ Change([form EXCEPT !.evidence = ReviewEvidence])
     \/ \E s \in Sources : Change([form EXCEPT !.evidence = @ \cup {s}])
     \/ \E s \in Sources : Change([form EXCEPT !.evidence = @ \ {s}])
  /\ UNCHANGED <<server, shown, tab, draft, kept, sent>>

Body == [outcome |-> form.outcome, evidence |-> form.evidence]

\* The check box, with what was on the page when it was ticked.
Confirm ==
  /\ CanDecide /\ form.confirmed = None
  /\ form' = [form EXCEPT !.confirmed = [body |-> Body, item |-> shown.item]]
  /\ UNCHANGED <<server, shown, tab, draft, kept, sent>>

\* randomUUID: a key that nobody remembers.
NewKey ==
  CHOOSE k \in 1..MaxVersion : k \notin kept.series /\ (decision # None => k # decision.key)

\* Slip: every click draws a key.
FreshKey(body) == NewKey

\* keyFor: another body draws another key.
KeyFor(body) == IF kept.body = body THEN kept.key ELSE NewKey

Series == (IF kept.body = Body THEN kept.series ELSE {}) \cup {KeyFor(Body)}

Decide ==
  /\ CanDecide
  /\ form.confirmed # None /\ form.evidence # {} /\ Ready(form.outcome, shown.item)
  /\ sent' = [kind |-> "decide", etag |-> shown.version, body |-> Body, key |-> KeyFor(Body),
              confirmed |-> form.confirmed, series |-> Series]
  /\ kept' = [body |-> Body, key |-> KeyFor(Body), series |-> Series]
  /\ UNCHANGED <<server, shown, tab, draft, form>>

---------------------------------------------------------------------------
(* The operation is served and answered.                                   *)

Replayed(r) == decision # None /\ decision.confirmed # None /\ decision.key = r.key

Accepted(r) ==
  IF r.kind = "save"
  THEN CheckVersion(r.etag, item[r.criterion].version) /\ ReviewAllowed(r.content)
  ELSE Replayed(r) \/ /\ CheckVersion(r.etag, version)
                      /\ decision = None
                      /\ Ready(r.body.outcome, item)

Apply(r) ==
  IF r.kind = "save" THEN UpdateReview(r.criterion, r.content)
  ELSE IF Replayed(r) THEN UNCHANGED server
  ELSE DecideCase(r.body, r.key, r.confirmed)

\* run: done, and the case is read again.
OperationDone ==
  /\ sent # None /\ Accepted(sent) /\ version < MaxVersion
  /\ Apply(sent)
  /\ shown' = None
  /\ Unmounted
  /\ sent' = None
  /\ UNCHANGED <<tab>>

\* Refused: the error is shown and the panels stay.
OperationRefused ==
  /\ sent # None /\ ~Accepted(sent)
  /\ sent' = None
  /\ UNCHANGED <<server, shown, panels>>

\* No answer: the request was lost, or its answer was.
OperationLost ==
  /\ sent # None
  /\ \/ UNCHANGED server
     \/ Accepted(sent) /\ version < MaxVersion /\ Apply(sent)
  /\ sent' = None
  /\ UNCHANGED <<shown, panels>>

---------------------------------------------------------------------------
Next ==
  \/ Colleague
  \/ Reload \/ CaseArrives
  \/ \E t \in {"documents", "reviews", "decision"} : ShowTab(t)
  \/ \E c \in Criteria : EditItem(c) \/ SaveItem(c)
  \/ EditForm \/ Confirm \/ Decide
  \/ OperationDone \/ OperationRefused \/ OperationLost

Spec == Init /\ [][Next]_vars

---------------------------------------------------------------------------
(* Properties.                                                             *)

Contents == [result : Results, reason : BOOLEAN, evidence : SUBSET Sources]
Bodies == [outcome : Outcomes, evidence : SUBSET Sources]

\* A panel holds nothing but what was read for it and typed into it while it shows.
PanelsTypeOK ==
  /\ \A c \in Criteria : ContentOf(item[c]) \in Contents /\ item[c].version <= version
  /\ draft \in [Criteria -> Contents] /\ Body \in Bodies
  /\ \A c \in Criteria :
       draft[c] # (IF shown = None THEN Pending ELSE ContentOf(shown.item[c])) =>
         shown # None /\ tab = "reviews"
  /\ form # EmptyForm \/ kept # NothingKept => shown # None /\ tab = "decision"
  /\ kept.key \in kept.series \cup {0}

\* A review item is replaced by a page only if that page was showing it as it was.
NothingOverwrittenStep ==
  \A c \in Criteria :
    sent # None /\ sent' = None /\ item'[c] # item[c] =>
      shown.item[c] = item[c]
NothingOverwritten == [][NothingOverwrittenStep]_vars

\* A decision of the page says what its supervisor confirmed, and rests on the
\* review items that were on the page at that moment, whatever was typed, read again
\* or changed by colleagues since.
DecidedAsConfirmed ==
  decision # None /\ decision.confirmed # None =>
    /\ decision.confirmed.body = decision.body
    /\ decision.confirmed.item = item

\* A decision that is sent again because its answer was lost is not refused when it
\* had been recorded.
RetryIsRecognised ==
  /\ sent # None /\ sent.kind = "decide"
  /\ decision # None /\ decision.confirmed # None /\ decision.key \in sent.series
  => Accepted(sent)
=============================================================================

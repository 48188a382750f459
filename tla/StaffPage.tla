----------------------------- MODULE StaffPage -----------------------------
(***************************************************************************)
(* The supervisor's page of frontend/src/admin/AdminApp.tsx beside the     *)
(* case of CaseWorkflow.  loadCase asks for the case first and for the     *)
(* review items after it; the server answers the first request with one    *)
(* query for the case row, which gives the ETag, and another for the tasks *)
(* (cases.py, staff_case_detail).  PostgreSQL's READ COMMITTED lets other  *)
(* transactions commit between any two of these reads, so a page may show  *)
(* a mixture of states.  What it may not do is carry a current ETag over   *)
(* content that is not current: the decision is sent with that ETag.       *)
(***************************************************************************)
EXTENDS CaseWorkflow

CONSTANT Supervisors      \* signed-in supervisors, one page each

VARIABLE page             \* page[s]: what loadCase has fetched so far

pageVars == <<vars, page>>

NoPage == [step |-> "none"]

PageInit == Init /\ page = [s \in Supervisors |-> NoPage]

---------------------------------------------------------------------------
(* Loading.                                                                *)

\* loadCase, first read: the Case row, with its status and ETag.
ReadCase(s) ==
  /\ page' = [page EXCEPT ![s] = [step |-> "case", etag |-> version, status |-> status]]
  /\ UNCHANGED vars

\* The second query of the same request: the tasks of the case.
ReadTasks(s) ==
  /\ page[s].step = "case"
  /\ page' = [page EXCEPT ![s] = [step |-> "tasks", etag |-> @.etag, status |-> @.status,
                                  tasks |-> tasks]]
  /\ UNCHANGED vars

\* Slip: the ETag is taken from the last answer instead of the first.
ReadItemsLastEtag(s) ==
  /\ page[s].step = "tasks"
  /\ page' = [page EXCEPT ![s] = [step |-> "shown", etag |-> version, status |-> @.status,
                                  tasks |-> @.tasks, items |-> items]]
  /\ UNCHANGED vars

\* The review items, asked for once the case has arrived; then the page is shown.
ReadItems(s) ==
  /\ page[s].step = "tasks"
  /\ page' = [page EXCEPT ![s] = [step |-> "shown", etag |-> @.etag, status |-> @.status,
                                  tasks |-> @.tasks, items |-> items]]
  /\ UNCHANGED vars

---------------------------------------------------------------------------
(* Deciding and closing from a page.  After the request the page reloads.  *)

\* The form of the decision is offered on what the page shows.
DecisionOffered(p, outcome) ==
  /\ p.step = "shown"
  /\ p.status = "UNDER_REVIEW"
  /\ \A t \in Tasks : p.tasks[t].status \in Settled \cup {"NONE"}
  /\ \A c \in Criteria : p.items[c].result \in {"PASS", "FAIL"}
  /\ IF outcome = "APPROVED" THEN \A c \in Criteria : p.items[c].result = "PASS"
                             ELSE \E c \in Criteria : p.items[c].result = "FAIL"

\* decide in the page: POST decisions with detail.etag.
Decide(s, outcome, replaced) ==
  /\ DecisionOffered(page[s], outcome)
  /\ DecideCase(page[s].etag, outcome, replaced)
  /\ page' = [page EXCEPT ![s] = NoPage]

\* The close button: POST close with detail.etag.
Close(s) ==
  /\ page[s].step = "shown"
  /\ page[s].status = "DECIDED"
  /\ CloseCase(page[s].etag)
  /\ page' = [page EXCEPT ![s] = NoPage]

---------------------------------------------------------------------------
Loading == \E s \in Supervisors : ReadCase(s) \/ ReadTasks(s) \/ ReadItems(s)

FromPage ==
  \E s \in Supervisors :
    \/ \E outcome \in Outcomes, replaced \in SUBSET Replacements : Decide(s, outcome, replaced)
    \/ Close(s)

Others == (Applicant \/ Reviewer \/ Background) /\ UNCHANGED page

PageNext == Loading \/ FromPage \/ Others

PageSpec == PageInit /\ [][PageNext]_pageVars

---------------------------------------------------------------------------
(* Properties.                                                             *)

CasePage == [step : {"case"}, etag : Nat, status : CaseStates]
TasksPage == [step : {"tasks"}, etag : Nat, status : CaseStates, tasks : [Tasks -> TaskRow]]
ShownPage == [step : {"shown"}, etag : Nat, status : CaseStates, tasks : [Tasks -> TaskRow],
              items : [Criteria -> ItemRow]]

\* A page holds rows of the tables it read.
PageTypeOK == page \in [Supervisors -> {NoPage} \cup CasePage \cup TasksPage \cup ShownPage]

\* An ETag names content: a page whose case ETag is current shows the current
\* state, tasks and review items although they were read later and separately;
\* and a task or an item whose own ETag is current is shown as it is.
EtagNamesContent ==
  \A s \in Supervisors : LET p == page[s] IN
    /\ p.step # "none" /\ p.etag = version => p.status = status
    /\ p.step \in {"tasks", "shown"} =>
         /\ p.etag = version => p.tasks = tasks
         /\ \A t \in Tasks : p.tasks[t].version = tasks[t].version => p.tasks[t] = tasks[t]
    /\ p.step = "shown" =>
         /\ p.etag = version => p.items = items
         /\ \A c \in Criteria : p.items[c].version = items[c].version => p.items[c] = items[c]

\* Nobody decides blind: when the first decision is taken, the tasks and review
\* items are those on the page of the supervisor who takes it.
DecidedOnWhatWasSeen ==
  [][Len(decisions') > Len(decisions) =>
       \E s \in Supervisors : /\ page[s].step = "shown" /\ page'[s] = NoPage
                              /\ page[s].tasks = tasks
                              /\ page[s].items = items]_pageVars
=============================================================================

----------------------------- MODULE TaskPanels -----------------------------
(***************************************************************************)
(* The panels of frontend/src/admin/AdminApp.tsx on which staff ask an     *)
(* applicant for supplements: TaskCreate and one TaskCard for each task.   *)
(* The tasks change meanwhile: the applicant answers, the scanner passes   *)
(* files, colleagues act; requests may be lost, or their answers.          *)
(***************************************************************************)
EXTENDS Naturals, Sequences, FiniteSets, FiniteSetsExt

CONSTANTS
  Tasks,       \* the tasks that may be created
  Bodies,      \* what may be asked for
  Actions,     \* the operations of TaskCard that are tried
  None,
  MaxChanges,  \* bound: versions of all tasks together
  MaxKey       \* bound: keys remembered at once

\* Task with its submissions.
Statuses == {"OPEN", "SUBMITTED", "ACCEPTED", "REOPENED", "CANCELLED"}
Answers == [revision : Nat, clean : BOOLEAN]
TaskRows ==
  [body : Bodies, key : 1..MaxKey, status : Statuses, revision : Nat, version : Nat,
   submissions : Seq(Answers)]

TaskPanelsAssumption ==
  /\ Actions \subseteq {"accept", "reopen", "revise", "cancel"}
  /\ IsFiniteSet(Tasks) /\ None \notin Bodies \cup TaskRows
  /\ MaxChanges \in Nat /\ MaxKey \in Nat

VARIABLES
  task,      \* task[t]: Task with its submissions, or None
  shown,     \* the tasks of the bundle, None while it is loaded
  body,      \* the form of TaskCreate
  kept,      \* its useStableKey: the body sent last, its key; history: its keys so far
  card,      \* card[t]: the operation that the form of TaskCard t is open for, or None
  sent,      \* the operation that is awaited, or None
  told       \* history: keys whose creation was reported

vars == <<task, shown, body, kept, card, sent, told>>
panels == <<body, kept, card>>

NewTask(asked, key) ==
  [body |-> asked, key |-> key, status |-> "OPEN", revision |-> 1, version |-> 1,
   submissions |-> <<>>]

Created == {t \in Tasks : task[t] # None}
Changes == MapThenSumSet(LAMBDA t : task[t].version, Created)
NothingKept == [body |-> None, key |-> 0, series |-> {}]
ClosedCards == [t \in Tasks |-> None]

Init ==
  /\ task = [t \in Tasks |-> None]
  /\ shown = None
  /\ body = None
  /\ kept = NothingKept
  /\ card = ClosedCards
  /\ sent = None
  /\ told = {}

---------------------------------------------------------------------------
(* The server.                                                             *)

\* The submission that answers the current revision; a task has at most one.
HasCurrent(row) ==
  /\ row.submissions # <<>>
  /\ row.submissions[Len(row.submissions)].revision = row.revision
CurrentIsClean(row) == HasCurrent(row) /\ row.submissions[Len(row.submissions)].clean

\* What _task_view allows, and accept_task, reopen_task, revise_task, cancel_task accept.
Allowed(row, action) ==
  CASE action = "accept" -> row.status = "SUBMITTED" /\ CurrentIsClean(row)
    [] action = "reopen" -> row.status = "SUBMITTED" /\ HasCurrent(row)
    [] action = "revise" -> row.status \in {"OPEN", "REOPENED"}
    [] action = "cancel" -> row.status \in {"OPEN", "REOPENED", "SUBMITTED"}

Acted(row, action) ==
  [row EXCEPT !.version = @ + 1,
              !.status = CASE action = "accept" -> "ACCEPTED" [] action = "cancel" -> "CANCELLED"
                           [] action = "reopen" -> "REOPENED" [] OTHER -> @,
              !.revision = IF action \in {"reopen", "revise"} THEN @ + 1 ELSE @]

\* Slip: any version will do.
AnyVersion(etag, current) == TRUE

CheckVersion(etag, current) == etag = current

\* The rest of the system: the applicant submits, the scanner passes the files, a
\* colleague acts on a task.
Others ==
  /\ \E t \in Created :
          \/ /\ task[t].status \in {"OPEN", "REOPENED"} /\ Changes < MaxChanges
             /\ task' = [task EXCEPT ![t].status = "SUBMITTED", ![t].version = @ + 1,
                  ![t].submissions = Append(@, [revision |-> task[t].revision, clean |-> FALSE])]
          \/ /\ task[t].submissions # <<>>
             /\ task' = [task EXCEPT ![t].submissions[Len(task[t].submissions)].clean = TRUE]
          \/ \E a \in Actions : /\ Allowed(task[t], a) /\ Changes < MaxChanges
                                /\ task' = [task EXCEPT ![t] = Acted(@, a)]
  /\ UNCHANGED <<shown, panels, sent, told>>

---------------------------------------------------------------------------
(* The page.                                                               *)

\* Slip: the panels outlive the bundle, and with them the key.
StillMounted == card' = ClosedCards /\ UNCHANGED <<body, kept>>

\* Panels are unmounted.
Unmounted ==
  /\ body' = None
  /\ kept' = NothingKept
  /\ card' = ClosedCards

\* Another tab, or the case is read again.
Reload ==
  /\ sent = None /\ shown # None
  /\ shown' = None
  /\ Unmounted
  /\ UNCHANGED <<task, sent, told>>

CaseArrives ==
  /\ sent = None /\ shown = None
  /\ shown' = task
  /\ UNCHANGED <<task, panels, sent, told>>

Working == sent = None /\ shown # None

FillForm(b) ==
  /\ Working /\ b # body
  /\ body' = b
  /\ UNCHANGED <<task, shown, kept, card, sent, told>>

\* randomUUID: a key that nobody remembers.
Unused == (1..MaxKey) \ (kept.series \cup told \cup {task[t].key : t \in Created})
NewKey == CHOOSE k \in Unused : TRUE

\* Slip: every click draws a key.
FreshKey == NewKey

\* keyFor: another body draws another key.
Key == IF kept.body = body THEN kept.key ELSE NewKey

Series == (IF kept.body = body THEN kept.series ELSE {}) \cup {Key}

\* TaskCreate, submit.
CreateTask ==
  /\ Working /\ body # None /\ Unused # {}
  /\ kept' = [body |-> body, key |-> Key, series |-> Series]
  /\ sent' = [kind |-> "create", body |-> body, key |-> Key]
  /\ UNCHANGED <<task, shown, body, card, told>>

\* The buttons of a TaskCard, on what the page shows.
ChooseAction(t, a) ==
  /\ Working /\ shown[t] # None
  /\ card[t] # a /\ Allowed(shown[t], a)
  /\ card' = [card EXCEPT ![t] = a]
  /\ UNCHANGED <<task, shown, body, kept, sent, told>>

CancelAction(t) ==
  /\ Working /\ card[t] # None
  /\ card' = [card EXCEPT ![t] = None]
  /\ UNCHANGED <<task, shown, body, kept, sent, told>>

\* TaskCard, submit.
Act(t) ==
  /\ Working /\ card[t] # None
  /\ sent' = [kind |-> "act", task |-> t, action |-> card[t], etag |-> shown[t].version]
  /\ UNCHANGED <<task, shown, panels, told>>

---------------------------------------------------------------------------
(* The operation is served and answered.                                   *)

Replayed(r) == \E t \in Created : task[t].key = r.key

Accepted(r) ==
  IF r.kind = "create" THEN Replayed(r) \/ Created # Tasks
  ELSE /\ CheckVersion(r.etag, task[r.task].version)
       /\ Allowed(task[r.task], r.action)

Apply(r) ==
  IF r.kind = "act" THEN task' = [task EXCEPT ![r.task] = Acted(@, r.action)]
  ELSE IF Replayed(r) THEN UNCHANGED task
  ELSE LET t == CHOOSE t \in Tasks : task[t] = None IN
       task' = [task EXCEPT ![t] = NewTask(r.body, r.key)]

InBounds(r) == r.kind = "act" => Changes < MaxChanges

\* run: done, and the case is read again.
OperationDone ==
  /\ sent # None /\ Accepted(sent) /\ InBounds(sent)
  /\ Apply(sent)
  /\ told' = IF sent.kind = "create" THEN told \cup {sent.key} ELSE told
  /\ shown' = None
  /\ Unmounted
  /\ sent' = None

OperationRefused ==
  /\ sent # None /\ ~Accepted(sent)
  /\ sent' = None
  /\ UNCHANGED <<task, shown, panels, told>>

\* No answer: the request was lost, or its answer was.
OperationLost ==
  /\ sent # None
  /\ \/ UNCHANGED task
     \/ Accepted(sent) /\ InBounds(sent) /\ Apply(sent)
  /\ sent' = None
  /\ UNCHANGED <<shown, panels, told>>

---------------------------------------------------------------------------
Next ==
  \/ Others
  \/ Reload \/ CaseArrives
  \/ \E b \in Bodies : FillForm(b)
  \/ CreateTask
  \/ \E t \in Tasks : \/ CancelAction(t) \/ Act(t)
                      \/ \E a \in Actions : ChooseAction(t, a)
  \/ OperationDone \/ OperationRefused \/ OperationLost

Spec == Init /\ [][Next]_vars

---------------------------------------------------------------------------
(* Properties.                                                             *)

\* A form of a card is open only for an operation that the card on the page offers,
\* and nothing is open while the page has no tasks.
TaskPanelsTypeOK ==
  /\ task \in [Tasks -> TaskRows \cup {None}]
  /\ \A t \in Tasks : card[t] # None => /\ shown # None /\ shown[t] # None
                                        /\ Allowed(shown[t], card[t])
  /\ body # None => body \in Bodies /\ shown # None
  /\ kept.key \in kept.series \cup {0}

\* However often a request is sent again after a lost answer, one form asks the
\* applicant once.
OneTaskPerForm == Cardinality({t \in Created : task[t].key \in kept.series}) <= 1

\* A creation that is reported has made a task of its own: it is not the answer to an
\* earlier one, though the staff may ask for the same again.
EveryReportIsATaskStep ==
  sent # None /\ sent.kind = "create" /\ shown' = None =>
    /\ sent.key \notin told
    /\ \E t \in Tasks : task'[t] # None /\ task'[t].key = sent.key
                        /\ task'[t].body = sent.body
EveryReportIsATask == [][EveryReportIsATaskStep]_vars

\* A page acts on a task only as it shows it: an answer that came in meanwhile is not
\* cancelled or sent back unread.
NothingActedOnUnseenStep ==
  sent # None /\ sent' = None /\ sent.kind = "act" /\ task'[sent.task] # task[sent.task]
    => /\ shown[sent.task].status = task[sent.task].status
       /\ shown[sent.task].revision = task[sent.task].revision
       /\ Len(shown[sent.task].submissions) = Len(task[sent.task].submissions)
NothingActedOnUnseen == [][NothingActedOnUnseenStep]_vars
=============================================================================

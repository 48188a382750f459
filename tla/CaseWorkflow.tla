--------------------------- MODULE CaseWorkflow ---------------------------
(***************************************************************************)
(* One application case of app/cases.py: the draft, its formal submission, *)
(* the correction tasks staff ask for, the review items, the decision and  *)
(* its corrections.                                                        *)
(*                                                                         *)
(* Every handler takes the case row FOR UPDATE before it looks at anything *)
(* else (access.py, case_for) and commits once, so a handler is one action *)
(* here.  Handlers of two cases share no row but in a batch assignment,    *)
(* so one case is enough.  What does run beside the handlers, without the  *)
(* lock, is here as actions of its own: the upload and the scan of the     *)
(* files, the delivery of the reminders, and the clock.                    *)
(*                                                                         *)
(* Left out, because no property below can tell: who the actors are        *)
(* (grants, and the assignee with its batch assignment, which bumps the    *)
(* version like any event), audit rows, public texts, and the idempotency  *)
(* record of submit, create-task, decide and correct.  A request with a    *)
(* key already used changes nothing, one with a fresh key adds its record  *)
(* in the transaction of its effect.                                       *)
(***************************************************************************)
EXTENDS Integers, Sequences

CONSTANTS
  Tasks,            \* ids of the correction tasks staff may create
  Files,            \* ids of the file versions uploaded for the case
  Criteria,         \* scheme.config["required_criteria"]
  Forms,            \* values of case.form_data
  Complete,         \* the forms that validate against the schema, required fields included
  DocTypes,         \* document types
  Required,         \* Required[form]: document types the scheme asks for, given the form
  FileTask,         \* FileTask[f]: File.task_id, NoTask for a file of the application itself
  FileType,         \* FileType[f]: File.document_type
  NoTask,           \* File.task_id / Submission.task_id is NULL
  NoFile,           \* an evidence reference to the form, not to a file
  AllowLate,        \* scheme.config["allow_late_submission"]
  AllowWithdrawal,  \* scheme.config["allow_withdrawal"]
  MaxTime,          \* bound: last instant of the clock
  MaxVersion        \* bound: last value of case.version

ASSUME CaseAssumption ==
  /\ NoTask \notin Tasks
  /\ NoFile \notin Files
  /\ Complete \subseteq Forms
  /\ Required \in [Forms -> SUBSET DocTypes]
  /\ FileTask \in [Files -> Tasks \cup {NoTask}]
  /\ FileType \in [Files -> DocTypes]
  /\ AllowLate \in BOOLEAN
  /\ AllowWithdrawal \in BOOLEAN
  /\ MaxTime \in Nat
  /\ MaxVersion \in Nat

VARIABLES
  status,           \* case.status
  version,          \* case.version, the number in its ETag
  form,             \* case.form_data
  tasks,            \* tasks[t]: the Task row, status "NONE" before it is created
  taskRevisions,    \* taskRevisions[t]: due dates of its TaskRevision rows, in order
  submissions,      \* the Submission rows (each with its Receipt), in order
  items,            \* items[c]: the ReviewItem row of a criterion
  decisions,        \* the Decision rows, in order
  scan,             \* scan[f]: FileVersion.scan_status
  reminders,        \* <<task, revision>> of the actionable intents no worker has claimed yet
  clock             \* the time, to the application and to the database

vars == <<status, version, form, tasks, taskRevisions, submissions, items, decisions,
          scan, reminders, clock>>

CaseStates == {"DRAFT", "RECEIVED", "UNDER_REVIEW", "DECIDED", "CLOSED", "WITHDRAWN"}
TaskStates == {"NONE", "OPEN", "SUBMITTED", "ACCEPTED", "REOPENED", "CANCELLED"}
Results == {"PASS", "FAIL", "QUESTION", "PENDING"}
Outcomes == {"APPROVED", "REJECTED"}
Open == {"OPEN", "REOPENED"}
Settled == {"ACCEPTED", "CANCELLED"}

\* PENDING_SCAN, SCANNING and SCAN_FAILED differ for the scanner only: here they
\* are "UNCHECKED".  A version not uploaded yet, or whose upload expired, is "ABSENT".
ScanStates == {"ABSENT", "UNCHECKED", "CLEAN", "REJECTED"}

NoRow == [status |-> "NONE", revision |-> 0, due |-> 0, accepted |-> 0, version |-> 0]

Init ==
  /\ status = "DRAFT"
  /\ version = 1
  /\ form \in Forms \ Complete
  /\ tasks = [t \in Tasks |-> NoRow]
  /\ taskRevisions = [t \in Tasks |-> <<>>]
  /\ submissions = <<>>
  /\ items = [c \in Criteria |-> [result |-> "NONE", evidence |-> NoFile, version |-> 0]]
  /\ decisions = <<>>
  /\ scan = [f \in Files |-> "ABSENT"]
  /\ reminders = {}
  /\ clock = 0

---------------------------------------------------------------------------
(* Helpers of the handlers.                                                *)

\* Slip: a handler that forgets its check_version.
AnyVersion(row, etag) == TRUE

\* check_version: the If-Match header must name the row's current version.
CheckVersion(row, etag) == etag = row

\* The flush of case.last_business_update_at in _event, which bumps case.version.
\* A handler that flushes the row twice bumps it twice in one transaction: nobody
\* sees the number between, so one step stands for both.
Event == version < MaxVersion /\ version' = version + 1

\* _files: every id is a stored file of this case and of this task, not rejected,
\* and with clean = TRUE one that the scanner passed.
FilesAllowed(fs, t, clean) ==
  \A f \in fs : /\ FileTask[f] = t
                /\ scan[f] \in (IF clean THEN {"CLEAN"} ELSE {"UNCHECKED", "CLEAN"})

SubmittedFiles == UNION {submissions[i].files : i \in DOMAIN submissions}

\* _receipt: the Submission row and the Receipt that copies it.
Submission(t, fs) ==
  [task |-> t, files |-> fs, at |-> clock,
   revision |-> IF t = NoTask THEN 0 ELSE tasks[t].revision,
   deadline |-> IF t = NoTask THEN 0 ELSE tasks[t].due]

\* Slip: a task handler that forgets to cancel the reminders of its task.
KeepReminders(t) == reminders

\* _cancel_task_reminders for one task.
Cancelled(t) == {r \in reminders : r[1] # t}

\* Slip: any answer to the task is taken for the current one.
AnySubmission(t, sub) == submissions[sub].task = t

\* _current_submission: the submission answers the task's current revision.
CurrentSubmission(t, sub) ==
  /\ submissions[sub].task = t
  /\ submissions[sub].revision = tasks[t].revision

\* Slip: an answer one instant after the deadline still counts as in time.
InTimeOffByOne(t) == clock <= tasks[t].due + 1 \/ AllowLate

\* The deadline of submit_task: the task's due date, unless the scheme allows late answers.
InTime(t) == clock <= tasks[t].due \/ AllowLate

\* A Task row as SQLAlchemy writes it back: its version is bumped.
Written(row, state, revision, due, accepted) ==
  [status |-> state, revision |-> revision, due |-> due, accepted |-> accepted,
   version |-> row.version + 1]

WriteTask(t, state, revision, due, accepted) ==
  tasks' = [tasks EXCEPT ![t] = Written(@, state, revision, due, accepted)]

---------------------------------------------------------------------------
(* The applicant.                                                          *)

\* Slip: a case nobody reviews yet can still be rewritten.
PatchUnreviewed(etag, data) ==
  /\ CheckVersion(version, etag)
  /\ status \in {"DRAFT", "RECEIVED"}
  /\ form' = data
  /\ Event
  /\ UNCHANGED <<status, tasks, taskRevisions, submissions, items, decisions, scan,
                 reminders, clock>>

\* patch_case: only a draft can be rewritten.
PatchCase(etag, data) ==
  /\ CheckVersion(version, etag)
  /\ status = "DRAFT"
  /\ form' = data
  /\ Event
  /\ UNCHANGED <<status, tasks, taskRevisions, submissions, items, decisions, scan,
                 reminders, clock>>

\* submit_case: a complete form with every required document becomes RECEIVED.
SubmitCase(etag, fs) ==
  /\ CheckVersion(version, etag)
  /\ status = "DRAFT"
  /\ form \in Complete
  /\ FilesAllowed(fs, NoTask, FALSE)
  /\ Required[form] \subseteq {FileType[f] : f \in fs}
  /\ submissions' = Append(submissions, Submission(NoTask, fs))
  /\ status' = "RECEIVED"
  /\ Event
  /\ UNCHANGED <<form, tasks, taskRevisions, items, decisions, scan, reminders, clock>>

\* Slip: answered tasks survive the withdrawal.
WithdrawOpenOnly(etag) ==
  /\ CheckVersion(version, etag)
  /\ status \in {"DRAFT", "RECEIVED", "UNDER_REVIEW"}
  /\ AllowWithdrawal
  /\ tasks' = [t \in Tasks |->
                 IF tasks[t].status \in Open
                   THEN Written(tasks[t], "CANCELLED", tasks[t].revision, tasks[t].due,
                                tasks[t].accepted)
                   ELSE tasks[t]]
  /\ reminders' = {}
  /\ status' = "WITHDRAWN"
  /\ Event
  /\ UNCHANGED <<form, taskRevisions, submissions, items, decisions, scan, clock>>

\* withdraw_case: unfinished tasks and every waiting reminder are cancelled with it.
WithdrawCase(etag) ==
  /\ CheckVersion(version, etag)
  /\ status \in {"DRAFT", "RECEIVED", "UNDER_REVIEW"}
  /\ AllowWithdrawal
  /\ tasks' = [t \in Tasks |->
                 IF tasks[t].status \in Open \cup {"SUBMITTED"}
                   THEN Written(tasks[t], "CANCELLED", tasks[t].revision, tasks[t].due,
                                tasks[t].accepted)
                   ELSE tasks[t]]
  /\ reminders' = {}
  /\ status' = "WITHDRAWN"
  /\ Event
  /\ UNCHANGED <<form, taskRevisions, submissions, items, decisions, scan, clock>>

\* submit_task: an open task takes files of that task, or a statement alone, for
\* the revision the applicant read and within its deadline.
SubmitTask(etag, t, revision, fs) ==
  /\ CheckVersion(tasks[t].version, etag)
  /\ tasks[t].status \in Open
  /\ status = "UNDER_REVIEW"
  /\ revision = tasks[t].revision
  /\ InTime(t)
  /\ FilesAllowed(fs, t, FALSE)
  /\ submissions' = Append(submissions, Submission(t, fs))
  /\ WriteTask(t, "SUBMITTED", tasks[t].revision, tasks[t].due, tasks[t].accepted)
  /\ reminders' = Cancelled(t)
  /\ Event
  /\ UNCHANGED <<status, form, taskRevisions, items, decisions, scan, clock>>

---------------------------------------------------------------------------
(* Staff: review and tasks.                                                *)

\* start_review: the criteria of the scheme become PENDING review items.
StartReview(etag) ==
  /\ CheckVersion(version, etag)
  /\ status = "RECEIVED"
  /\ Criteria # {}
  /\ items' = [c \in Criteria |-> [result |-> "PENDING", evidence |-> NoFile, version |-> 1]]
  /\ status' = "UNDER_REVIEW"
  /\ Event
  /\ UNCHANGED <<form, tasks, taskRevisions, submissions, decisions, scan, reminders, clock>>

\* create_task: takes no If-Match, only the state of the case counts.
CreateTask(t, due) ==
  /\ status = "UNDER_REVIEW"
  /\ tasks[t].status = "NONE"
  /\ due > clock
  /\ tasks' = [tasks EXCEPT ![t] = [status |-> "OPEN", revision |-> 1, due |-> due,
                                    accepted |-> 0, version |-> 1]]
  /\ taskRevisions' = [taskRevisions EXCEPT ![t] = <<due>>]
  /\ reminders' = reminders \cup {<<t, 1>>}
  /\ Event
  /\ UNCHANGED <<status, form, submissions, items, decisions, scan, clock>>

\* The new TaskRevision row and its reminder, after the old reminders are cancelled.
NewRevision(t, due) ==
  /\ taskRevisions' = [taskRevisions EXCEPT ![t] = Append(@, due)]
  /\ reminders' = Cancelled(t) \cup {<<t, tasks[t].revision + 1>>}

\* revise_task: another requirement, with the same deadline or a new one.
ReviseTask(etag, t, due) ==
  /\ CheckVersion(tasks[t].version, etag)
  /\ tasks[t].status \in Open
  /\ status = "UNDER_REVIEW"
  /\ due = tasks[t].due \/ due > clock
  /\ WriteTask(t, tasks[t].status, tasks[t].revision + 1, due, tasks[t].accepted)
  /\ NewRevision(t, due)
  /\ Event
  /\ UNCHANGED <<status, form, submissions, items, decisions, scan, clock>>

\* accept_task: the answer to the current revision, once all its files are clean.
AcceptTask(etag, t, sub) ==
  /\ CheckVersion(tasks[t].version, etag)
  /\ tasks[t].status = "SUBMITTED"
  /\ status = "UNDER_REVIEW"
  /\ CurrentSubmission(t, sub)
  /\ FilesAllowed(submissions[sub].files, t, TRUE)
  /\ WriteTask(t, "ACCEPTED", tasks[t].revision, tasks[t].due, sub)
  /\ reminders' = Cancelled(t)
  /\ Event
  /\ UNCHANGED <<status, form, taskRevisions, submissions, items, decisions, scan, clock>>

\* reopen_task: the answer is not enough; a new revision with a new deadline.
ReopenTask(etag, t, sub, due) ==
  /\ CheckVersion(tasks[t].version, etag)
  /\ tasks[t].status = "SUBMITTED"
  /\ status = "UNDER_REVIEW"
  /\ CurrentSubmission(t, sub)
  /\ due > clock
  /\ WriteTask(t, "REOPENED", tasks[t].revision + 1, due, 0)
  /\ NewRevision(t, due)
  /\ Event
  /\ UNCHANGED <<status, form, submissions, items, decisions, scan, clock>>

\* cancel_task: any unsettled task.
CancelTask(etag, t) ==
  /\ CheckVersion(tasks[t].version, etag)
  /\ tasks[t].status \in Open \cup {"SUBMITTED"}
  /\ status = "UNDER_REVIEW"
  /\ WriteTask(t, "CANCELLED", tasks[t].revision, tasks[t].due, tasks[t].accepted)
  /\ reminders' = Cancelled(t)
  /\ Event
  /\ UNCHANGED <<status, form, taskRevisions, submissions, items, decisions, scan, clock>>

\* Slip: evidence is taken as soon as it is submitted, scanned or not.
EvidenceUnscanned(ref) == ref = NoFile \/ ref \in SubmittedFiles

\* _evidence for one reference: the submitted form, or a submitted file the
\* scanner passed.
Evidence(ref) == ref = NoFile \/ (ref \in SubmittedFiles /\ scan[ref] = "CLEAN")

\* Slip: items of a decided case can still be edited.
UpdateReviewLate(etag, c, result, ref) ==
  /\ CheckVersion(items[c].version, etag)
  /\ status \in {"UNDER_REVIEW", "DECIDED"}
  /\ Evidence(ref)
  /\ items' = [items EXCEPT ![c] = [result |-> result, evidence |-> ref,
                                    version |-> @.version + 1]]
  /\ Event
  /\ UNCHANGED <<status, form, tasks, taskRevisions, submissions, decisions, scan,
                 reminders, clock>>

\* update_review: a conclusion (PASS, FAIL) needs evidence; another result may carry some.
UpdateReview(etag, c, result, ref) ==
  /\ CheckVersion(items[c].version, etag)
  /\ status = "UNDER_REVIEW"
  /\ Evidence(ref)
  /\ items' = [items EXCEPT ![c] = [result |-> result, evidence |-> ref,
                                    version |-> @.version + 1]]
  /\ Event
  /\ UNCHANGED <<status, form, tasks, taskRevisions, submissions, decisions, scan,
                 reminders, clock>>

---------------------------------------------------------------------------
(* Supervisors: decision, correction, closing.                             *)

\* The submissions a decision relies on: the application and the accepted answers.
Relied == {i \in DOMAIN submissions :
             \/ submissions[i].task = NoTask
             \/ \E t \in Tasks : tasks[t].status = "ACCEPTED" /\ tasks[t].accepted = i}

\* Slip: a replacement need only be clean, whatever became of the task it answers.
ReplacementsUnaccepted ==
  {r \in [old : SubmittedFiles, new : SubmittedFiles] :
     r.old # r.new /\ FileType[r.old] = FileType[r.new] /\ scan[r.new] = "CLEAN"}

\* _evidence for a reference that replaces a submitted file: a clean file of the
\* same type from the accepted answer to a task.
Replacements ==
  {r \in [old : SubmittedFiles, new : SubmittedFiles] :
     /\ r.old # r.new
     /\ FileType[r.old] = FileType[r.new]
     /\ scan[r.new] = "CLEAN"
     /\ \E t \in Tasks : /\ FileTask[r.new] = t
                         /\ tasks[t].status = "ACCEPTED"
                         /\ r.new \in submissions[tasks[t].accepted].files}

\* _ready_for_decision.  A correction may state another outcome than the items.
ReadyForDecision(outcome, replaced, correction) ==
  /\ \A t \in Tasks : tasks[t].status \in Settled \cup {"NONE"}
  /\ Criteria # {}
  /\ \A c \in Criteria : items[c].result \in {"PASS", "FAIL"}
  /\ ~correction /\ outcome = "APPROVED" => \A c \in Criteria : items[c].result = "PASS"
  /\ ~correction /\ outcome = "REJECTED" => \E c \in Criteria : items[c].result = "FAIL"
  /\ {r.old : r \in replaced} \cap {r.new : r \in replaced} = {}
  /\ \A i \in Relied : FilesAllowed(submissions[i].files \ {r.old : r \in replaced},
                                    submissions[i].task, TRUE)

\* decide_case.
DecideCase(etag, outcome, replaced) ==
  /\ CheckVersion(version, etag)
  /\ status = "UNDER_REVIEW"
  /\ ReadyForDecision(outcome, replaced, FALSE)
  /\ decisions' = Append(decisions, [outcome |-> outcome, replaced |-> replaced,
                                     supersedes |-> 0])
  /\ status' = "DECIDED"
  /\ Event
  /\ UNCHANGED <<form, tasks, taskRevisions, submissions, items, scan, reminders, clock>>

\* Slip: nobody looks whether the decision was corrected before.
NeverSuperseded(d) == FALSE

\* The lookup of correct_decision: some decision supersedes this one.
Superseded(d) == \E i \in DOMAIN decisions : decisions[i].supersedes = d

\* correct_decision: a decision not superseded yet gets a successor; a closed case
\* is DECIDED again.
CorrectDecision(etag, original, outcome, replaced) ==
  /\ CheckVersion(version, etag)
  /\ status \in {"DECIDED", "CLOSED"}
  /\ ~Superseded(original)
  /\ ReadyForDecision(outcome, replaced, TRUE)
  /\ decisions' = Append(decisions, [outcome |-> outcome, replaced |-> replaced,
                                     supersedes |-> original])
  /\ status' = "DECIDED"
  /\ Event
  /\ UNCHANGED <<form, tasks, taskRevisions, submissions, items, scan, reminders, clock>>

\* close_case.
CloseCase(etag) ==
  /\ CheckVersion(version, etag)
  /\ status = "DECIDED"
  /\ \A t \in Tasks : tasks[t].status \in Settled \cup {"NONE"}
  /\ status' = "CLOSED"
  /\ Event
  /\ UNCHANGED <<form, tasks, taskRevisions, submissions, items, decisions, scan,
                 reminders, clock>>

---------------------------------------------------------------------------
(* Outside the case lock.                                                  *)

\* upload_intent .. complete_upload.  The case is read twice, the second time
\* FOR UPDATE, but its state is the one of the first read: a request that began
\* in DRAFT may complete later, so the case's status is no guard here.
CompleteUpload(f) ==
  /\ scan[f] = "ABSENT"
  /\ FileTask[f] # NoTask => tasks[FileTask[f]].status \in Open
  /\ scan' = [scan EXCEPT ![f] = "UNCHECKED"]
  /\ UNCHANGED <<status, version, form, tasks, taskRevisions, submissions, items,
                 decisions, reminders, clock>>

\* Slip: the state a version never uploaded ends in, given to a stored one.
ScanExpired(f, verdict) ==
  /\ scan[f] = "UNCHECKED"
  /\ scan' = [scan EXCEPT ![f] = "EXPIRED"]
  /\ UNCHANGED <<status, version, form, tasks, taskRevisions, submissions, items,
                 decisions, reminders, clock>>

\* process_scans: the verdict on a stored file is final.
ScanFile(f, verdict) ==
  /\ scan[f] = "UNCHECKED"
  /\ scan' = [scan EXCEPT ![f] = verdict]
  /\ UNCHANGED <<status, version, form, tasks, taskRevisions, submissions, items,
                 decisions, reminders, clock>>

\* process_notifications claims a waiting reminder for its first attempt.  What
\* becomes of it then (sent, skipped, put back for a retry) is not this module's.
ClaimReminder(r) ==
  /\ reminders' = reminders \ {r}
  /\ UNCHANGED <<status, version, form, tasks, taskRevisions, submissions, items,
                 decisions, scan, clock>>

Tick ==
  /\ clock < MaxTime
  /\ clock' = clock + 1
  /\ UNCHANGED <<status, version, form, tasks, taskRevisions, submissions, items,
                 decisions, scan, reminders>>

---------------------------------------------------------------------------
Etags == 1..version      \* every ETag the case was ever served with

Applicant ==
  \/ \E etag \in Etags, data \in Forms : PatchCase(etag, data)
  \/ \E etag \in Etags, fs \in SUBSET Files : SubmitCase(etag, fs)
  \/ \E etag \in Etags : WithdrawCase(etag)
  \/ \E t \in Tasks : \E etag \in 1..tasks[t].version, revision \in 1..tasks[t].revision,
                         fs \in SUBSET Files : SubmitTask(etag, t, revision, fs)

Reviewer ==
  \/ \E etag \in Etags : StartReview(etag)
  \/ \E t \in Tasks, due \in 1..MaxTime : CreateTask(t, due)
  \/ \E t \in Tasks : \E etag \in 1..tasks[t].version :
       \/ \E due \in 1..MaxTime : ReviseTask(etag, t, due)
       \/ \E sub \in DOMAIN submissions : AcceptTask(etag, t, sub)
       \/ \E sub \in DOMAIN submissions, due \in 1..MaxTime : ReopenTask(etag, t, sub, due)
       \/ CancelTask(etag, t)
  \/ \E c \in Criteria : \E etag \in 1..items[c].version, result \in Results,
                            ref \in Files \cup {NoFile} : UpdateReview(etag, c, result, ref)

Supervisor ==
  \/ \E etag \in Etags, outcome \in Outcomes, replaced \in SUBSET Replacements :
       DecideCase(etag, outcome, replaced)
  \/ \E etag \in Etags, original \in DOMAIN decisions, outcome \in Outcomes,
        replaced \in SUBSET Replacements : CorrectDecision(etag, original, outcome, replaced)
  \/ \E etag \in Etags : CloseCase(etag)

Background ==
  \/ \E f \in Files : CompleteUpload(f)
  \/ \E f \in Files, verdict \in {"CLEAN", "REJECTED"} : ScanFile(f, verdict)
  \/ \E r \in reminders : ClaimReminder(r)
  \/ Tick

Next == Applicant \/ Reviewer \/ Supervisor \/ Background

Spec == Init /\ [][Next]_vars

---------------------------------------------------------------------------
(* Properties.                                                             *)

TaskRow == [status : TaskStates, revision : Nat, due : Nat, accepted : Nat, version : Nat]
SubmissionRow == [task : Tasks \cup {NoTask}, files : SUBSET Files, at : Nat,
                  revision : Nat, deadline : Nat]
ItemRow == [result : Results \cup {"NONE"}, evidence : Files \cup {NoFile}, version : Nat]
DecisionRow == [outcome : Outcomes, replaced : SUBSET [old : Files, new : Files],
                supersedes : Nat]

\* The rows stay within the values their columns are declared with.
TypeOK ==
  /\ status \in CaseStates
  /\ version \in Nat
  /\ form \in Forms
  /\ tasks \in [Tasks -> TaskRow]
  /\ taskRevisions \in [Tasks -> Seq(Nat)]
  /\ submissions \in Seq(SubmissionRow)
  /\ items \in [Criteria -> ItemRow]
  /\ decisions \in Seq(DecisionRow)
  /\ scan \in [Files -> ScanStates]
  /\ reminders \subseteq Tasks \X Nat
  /\ clock \in Nat

\* An accepted task points at a submission of that task, made for the revision
\* that is still the task's current one, and all its files are clean: neither a
\* later revision nor a late verdict of the scanner undoes an acceptance.
AcceptedIsCurrent ==
  \A t \in Tasks : tasks[t].status = "ACCEPTED" =>
    /\ tasks[t].accepted \in DOMAIN submissions
    /\ submissions[tasks[t].accepted].task = t
    /\ submissions[tasks[t].accepted].revision = tasks[t].revision
    /\ \A f \in submissions[tasks[t].accepted].files : scan[f] = "CLEAN"

\* Every decision of the case, superseded ones included, is founded for ever: no
\* task is unsettled, and each file of the application and of every accepted
\* answer is clean, or is replaced in that decision by a clean file of the same
\* type that an accepted answer brought.
DecisionsAreFounded ==
  decisions # <<>> =>
    /\ \A t \in Tasks : tasks[t].status \in Settled \cup {"NONE"}
    /\ \A d \in DOMAIN decisions, i \in Relied : \A f \in submissions[i].files :
         \/ scan[f] = "CLEAN"
         \/ \E r \in decisions[d].replaced :
              /\ r.old = f
              /\ FileType[r.new] = FileType[f]
              /\ scan[r.new] = "CLEAN"
              /\ \E j \in Relied : submissions[j].task # NoTask /\ r.new \in submissions[j].files

\* The decisions form one chain: a first one, then each correction of the one
\* before, so the decision shown to the applicant (get_case picks the one nothing
\* supersedes) is unique; and the case has decisions exactly when it was decided.
DecisionChain ==
  /\ \A d \in DOMAIN decisions : decisions[d].supersedes = d - 1
  /\ decisions # <<>> <=> status \in {"DECIDED", "CLOSED"}

\* What the items say when the case is decided stays what they say: the first
\* decision is approved only on items that all PASS, and rejected on some FAIL.
OutcomeMatchesReview ==
  decisions # <<>> =>
    /\ decisions[1].outcome = "APPROVED" => \A c \in Criteria : items[c].result = "PASS"
    /\ decisions[1].outcome = "REJECTED" => \E c \in Criteria : items[c].result = "FAIL"

\* The evidence of a review item is a file some receipt lists and the scanner
\* passed, whatever became of the task that brought it.
EvidenceIsSubmittedAndClean ==
  \A c \in Criteria : items[c].evidence # NoFile =>
    items[c].evidence \in SubmittedFiles /\ scan[items[c].evidence] = "CLEAN"

\* The application is received exactly once, and the form on file is the one it
\* was received with: its receipt lists every document that form requires.
ReceivedOnceAndComplete ==
  LET initial == {i \in DOMAIN submissions : submissions[i].task = NoTask}
  IN /\ initial \subseteq {1}
     /\ status \in {"RECEIVED", "UNDER_REVIEW", "DECIDED", "CLOSED"} => initial = {1}
     /\ \A i \in initial : /\ form \in Complete
                           /\ Required[form] \subseteq {FileType[f] : f \in submissions[i].files}

\* A receipt of a correction names the deadline its own revision had, whatever
\* later revisions say, was issued in time for it unless the scheme allows late
\* answers, and no revision is answered twice.
ReceiptsMeetTheirRevision ==
  \A i \in DOMAIN submissions : LET s == submissions[i] IN s.task # NoTask =>
    /\ s.revision \in DOMAIN taskRevisions[s.task]
    /\ s.deadline = taskRevisions[s.task][s.revision]
    /\ s.at <= s.deadline \/ AllowLate
    /\ \A j \in DOMAIN submissions :
         submissions[j].task = s.task /\ submissions[j].revision = s.revision => j = i

\* A reminder that no worker has touched asks for what the task asks for now: its
\* task is open to an answer, at that revision, and the case is under review.
\* Every handler that settles a task or ends the review cancelled what it had to.
RemindersAreCurrent ==
  \A r \in reminders : /\ status = "UNDER_REVIEW"
                       /\ tasks[r[1]].status \in Open
                       /\ tasks[r[1]].revision = r[2]

---------------------------------------------------------------------------
(* What get_case shows of the rows moves as CaseLifecycle promises,        *)
(* whatever the handlers do to them.                                       *)

\* _task_view: what the status of a task lets its applicant and staff do next.
StandingOf(row) ==
  CASE row.status = "NONE"      -> "unraised"
    [] row.status \in Open      -> "raised"
    [] row.status = "SUBMITTED" -> "answered"
    [] row.status \in Settled   -> "settled"

Standing == [t \in Tasks |-> StandingOf(tasks[t])]

\* get_case: the decision that no other supersedes.
InForce == IF decisions = <<>> THEN "NONE"
           ELSE decisions[CHOOSE d \in DOMAIN decisions : ~Superseded(d)].outcome

Lifecycle == INSTANCE CaseLifecycle WITH
  phase <- status,
  standing <- Standing,
  ruling <- InForce,
  receipts <- Len(submissions)

\* The application behaves as CaseLifecycle promises: it advances through its
\* phases in order, a settled requirement stays settled, nothing is decided while
\* something is asked, a withdrawn application asks for nothing, a ruling once
\* given is never lost, and a receipt is issued for the application and for each
\* answer, never otherwise.
KeepsItsPromises == Lifecycle!Spec
=============================================================================

------------------------- MODULE CaseWorkflowProofs -------------------------
(***************************************************************************)
(* Proofs about CaseWorkflow, for any number of tasks, files, criteria and *)
(* forms, any clock and any bound on the version: its types, its safety    *)
(* invariants, its records, and that it implements CaseLifecycle.          *)
(***************************************************************************)
EXTENDS CaseWorkflow, TLAPS

---------------------------------------------------------------------------
(* Types.                                                                  *)

\* _receipt writes a row of the Submission table, whatever the task and files.
LEMMA SubmissionType ==
  ASSUME TypeOK, NEW t \in Tasks \cup {NoTask}, NEW fs \in SUBSET Files
  PROVE  Submission(t, fs) \in SubmissionRow
BY DEF TypeOK, Submission, SubmissionRow, TaskRow

\* A row written back by WriteTask is a row of the Task table again.
LEMMA WriteTaskType ==
  ASSUME tasks \in [Tasks -> TaskRow], NEW t \in Tasks, NEW state \in TaskStates,
         NEW revision \in Nat, NEW due \in Nat, NEW accepted \in Nat,
         WriteTask(t, state, revision, due, accepted)
  PROVE  tasks' \in [Tasks -> TaskRow]
BY DEF WriteTask, Written, TaskRow

\* The row withdraw_case leaves behind for a task it cancels.
LEMMA CancelledRowType ==
  ASSUME NEW row \in TaskRow
  PROVE  Written(row, "CANCELLED", row.revision, row.due, row.accepted) \in TaskRow
BY DEF Written, TaskRow, TaskStates

\* The columns of a Task row.
LEMMA TaskColumns ==
  ASSUME tasks \in [Tasks -> TaskRow], NEW t \in Tasks
  PROVE  /\ tasks[t].status \in TaskStates
         /\ tasks[t].revision \in Nat /\ tasks[t].due \in Nat
         /\ tasks[t].accepted \in Nat /\ tasks[t].version \in Nat
BY DEF TaskRow

\* The replacements a decision may record are pairs of the case's files.
LEMMA ReplacementType ==
  ASSUME submissions \in Seq(SubmissionRow)
  PROVE  Replacements \subseteq [old : Files, new : Files]
<1>1. \A i \in DOMAIN submissions : submissions[i] \in SubmissionRow
  OBVIOUS
<1>2. SubmittedFiles \subseteq Files
  BY <1>1 DEF SubmittedFiles, SubmissionRow
<1> QED BY <1>2 DEF Replacements

\* Every handler, the scanner, the notification worker and the clock keep the
\* rows within their columns' types.
THEOREM TypeCorrect == Spec => []TypeOK
<1>1. Init => TypeOK
  BY CaseAssumption DEF Init, TypeOK, NoRow, TaskRow, TaskStates, ItemRow, ScanStates, CaseStates
<1>2. TypeOK /\ [Next]_vars => TypeOK'
  <2> SUFFICES ASSUME TypeOK, [Next]_vars PROVE TypeOK'
    OBVIOUS
  <2> USE CaseAssumption
  <2>1. ASSUME NEW etag \in Etags, NEW data \in Forms, PatchCase(etag, data) PROVE TypeOK'
    BY <2>1 DEF PatchCase, TypeOK, Event
  <2>2. ASSUME NEW etag \in Etags, NEW fs \in SUBSET Files, SubmitCase(etag, fs) PROVE TypeOK'
    <3>1. submissions' \in Seq(SubmissionRow)
      BY <2>2, SubmissionType DEF SubmitCase, TypeOK
    <3> QED BY <2>2, <3>1 DEF SubmitCase, TypeOK, Event, CaseStates
  <2>3. ASSUME NEW etag \in Etags, WithdrawCase(etag) PROVE TypeOK'
    <3>1. tasks' \in [Tasks -> TaskRow]
      <4>1. tasks \in [Tasks -> TaskRow]
        BY DEF TypeOK
      <4>2. \A u \in Tasks :
              Written(tasks[u], "CANCELLED", tasks[u].revision, tasks[u].due, tasks[u].accepted)
                \in TaskRow
        BY <4>1, CancelledRowType
      <4> QED BY <2>3, <4>1, <4>2 DEF WithdrawCase
    <3> QED BY <2>3, <3>1 DEF WithdrawCase, TypeOK, Event, CaseStates
  <2>4. ASSUME NEW t \in Tasks, NEW etag, NEW revision, NEW fs \in SUBSET Files,
               SubmitTask(etag, t, revision, fs)
        PROVE TypeOK'
    <3>1. submissions' \in Seq(SubmissionRow)
      BY <2>4, SubmissionType DEF SubmitTask, TypeOK
    <3>2. tasks' \in [Tasks -> TaskRow]
      BY <2>4, TaskColumns, WriteTaskType DEF SubmitTask, TypeOK, TaskStates
    <3> QED BY <2>4, <3>1, <3>2 DEF SubmitTask, TypeOK, Event, Cancelled
  <2>5. ASSUME NEW etag \in Etags, StartReview(etag) PROVE TypeOK'
    BY <2>5 DEF StartReview, TypeOK, Event, CaseStates, ItemRow, Results
  <2>6. ASSUME NEW t \in Tasks, NEW due \in 1..MaxTime, CreateTask(t, due) PROVE TypeOK'
    <3>1. tasks' \in [Tasks -> TaskRow] /\ taskRevisions' \in [Tasks -> Seq(Nat)]
      BY <2>6 DEF CreateTask, TypeOK, TaskRow, TaskStates
    <3> QED BY <2>6, <3>1 DEF CreateTask, TypeOK, Event
  <2>7. ASSUME NEW t \in Tasks, NEW etag, NEW due \in 1..MaxTime, ReviseTask(etag, t, due)
        PROVE TypeOK'
    <3>1. tasks[t].revision + 1 \in Nat /\ tasks[t].accepted \in Nat /\ due \in Nat
      BY TaskColumns DEF TypeOK
    <3>2. tasks' \in [Tasks -> TaskRow]
      BY <2>7, <3>1, TaskColumns, WriteTaskType DEF ReviseTask, TypeOK, TaskStates
    <3>3. taskRevisions' \in [Tasks -> Seq(Nat)]
      BY <2>7, <3>1 DEF ReviseTask, NewRevision, TypeOK
    <3>4. reminders' \subseteq Tasks \X Nat
      BY <2>7, <3>1 DEF ReviseTask, NewRevision, Cancelled, TypeOK
    <3> QED BY <2>7, <3>2, <3>3, <3>4 DEF ReviseTask, TypeOK, Event
  <2>8. ASSUME NEW t \in Tasks, NEW etag, NEW sub \in DOMAIN submissions,
               AcceptTask(etag, t, sub)
        PROVE TypeOK'
    <3>1. tasks' \in [Tasks -> TaskRow]
      BY <2>8, TaskColumns, WriteTaskType DEF AcceptTask, TypeOK, TaskStates
    <3> QED BY <2>8, <3>1 DEF AcceptTask, Cancelled, TypeOK, Event
  <2>9. ASSUME NEW t \in Tasks, NEW etag, NEW sub \in DOMAIN submissions,
               NEW due \in 1..MaxTime, ReopenTask(etag, t, sub, due)
        PROVE TypeOK'
    <3>1. tasks[t].revision + 1 \in Nat /\ tasks[t].accepted \in Nat /\ due \in Nat
      BY TaskColumns DEF TypeOK
    <3>2. tasks' \in [Tasks -> TaskRow]
      BY <2>9, <3>1, TaskColumns, WriteTaskType DEF ReopenTask, TypeOK, TaskStates
    <3>3. taskRevisions' \in [Tasks -> Seq(Nat)]
      BY <2>9, <3>1 DEF ReopenTask, NewRevision, TypeOK
    <3>4. reminders' \subseteq Tasks \X Nat
      BY <2>9, <3>1 DEF ReopenTask, NewRevision, Cancelled, TypeOK
    <3> QED BY <2>9, <3>2, <3>3, <3>4 DEF ReopenTask, TypeOK, Event
  <2>10. ASSUME NEW t \in Tasks, NEW etag, CancelTask(etag, t) PROVE TypeOK'
    <3>1. tasks' \in [Tasks -> TaskRow]
      BY <2>10, TaskColumns, WriteTaskType DEF CancelTask, TypeOK, TaskStates
    <3> QED BY <2>10, <3>1 DEF CancelTask, Cancelled, TypeOK, Event
  <2>11. ASSUME NEW c \in Criteria, NEW etag, NEW result \in Results,
                NEW ref \in Files \cup {NoFile}, UpdateReview(etag, c, result, ref)
         PROVE TypeOK'
    BY <2>11 DEF UpdateReview, TypeOK, Event, ItemRow
  <2>12. ASSUME NEW etag \in Etags, NEW outcome \in Outcomes, NEW replaced \in SUBSET Replacements,
                DecideCase(etag, outcome, replaced)
         PROVE TypeOK'
    <3>1. replaced \in SUBSET [old : Files, new : Files]
      BY ReplacementType DEF TypeOK
    <3>2. [outcome |-> outcome, replaced |-> replaced, supersedes |-> 0] \in DecisionRow
      BY <3>1 DEF DecisionRow, TypeOK
    <3>3. decisions' \in Seq(DecisionRow)
      BY <2>12, <3>2 DEF DecideCase, TypeOK
    <3> QED BY <2>12, <3>3 DEF DecideCase, TypeOK, Event, CaseStates
  <2>13. ASSUME NEW etag \in Etags, NEW original \in DOMAIN decisions, NEW outcome \in Outcomes,
                NEW replaced \in SUBSET Replacements,
                CorrectDecision(etag, original, outcome, replaced)
         PROVE TypeOK'
    <3>1. replaced \in SUBSET [old : Files, new : Files]
      BY ReplacementType DEF TypeOK
    <3>2. [outcome |-> outcome, replaced |-> replaced, supersedes |-> original] \in DecisionRow
      BY <3>1 DEF DecisionRow, TypeOK
    <3>3. decisions' \in Seq(DecisionRow)
      BY <2>13, <3>2 DEF CorrectDecision, TypeOK
    <3> QED BY <2>13, <3>3 DEF CorrectDecision, TypeOK, Event, CaseStates
  <2>14. ASSUME NEW etag \in Etags, CloseCase(etag) PROVE TypeOK'
    BY <2>14 DEF CloseCase, TypeOK, Event, CaseStates
  <2>15. ASSUME NEW f \in Files, CompleteUpload(f) PROVE TypeOK'
    BY <2>15 DEF CompleteUpload, TypeOK, ScanStates
  <2>16. ASSUME NEW f \in Files, NEW verdict \in {"CLEAN", "REJECTED"}, ScanFile(f, verdict)
         PROVE TypeOK'
    BY <2>16 DEF ScanFile, TypeOK, ScanStates
  <2>17. ASSUME NEW r \in reminders, ClaimReminder(r) PROVE TypeOK'
    BY <2>17 DEF ClaimReminder, TypeOK
  <2>18. CASE Tick
    BY <2>18 DEF Tick, TypeOK
  <2>19. CASE UNCHANGED vars
    BY <2>19 DEF vars, TypeOK
  <2> QED
    BY <2>1, <2>2, <2>3, <2>4, <2>5, <2>6, <2>7, <2>8, <2>9, <2>10, <2>11, <2>12, <2>13,
       <2>14, <2>15, <2>16, <2>17, <2>18, <2>19
       DEF Next, Applicant, Reviewer, Supervisor, Background
<1> QED
  BY <1>1, <1>2, PTL DEF Spec

---------------------------------------------------------------------------
(* The safety invariants.  Each rests on a few facts about what any step   *)
(* may do to the rows of a case: receipts and decisions are only appended, *)
(* a verdict of the scanner is final, an acceptance is final, and a decided*)
(* case is frozen.                                                         *)

\* A step adds at most one receipt, and leaves those there are alone.
LEMMA ReceiptsAppended ==
  ASSUME [Next]_vars
  PROVE  \/ UNCHANGED submissions
         \/ \E t \in Tasks \cup {NoTask}, fs \in SUBSET Files :
              submissions' = Append(submissions, Submission(t, fs))
BY DEF vars, Next, Applicant, Reviewer, Supervisor, Background, PatchCase, SubmitCase,
       WithdrawCase, SubmitTask, StartReview, CreateTask, ReviseTask, AcceptTask, ReopenTask,
       CancelTask, UpdateReview, DecideCase, CorrectDecision, CloseCase, CompleteUpload,
       ScanFile, ClaimReminder, Tick

\* What the scanner said of a file stays.
LEMMA VerdictsFinal ==
  ASSUME TypeOK, [Next]_vars, NEW f \in Files, scan[f] \in {"CLEAN", "REJECTED"}
  PROVE  scan'[f] = scan[f]
BY DEF TypeOK, vars, Next, Applicant, Reviewer, Supervisor, Background, PatchCase, SubmitCase,
       WithdrawCase, SubmitTask, StartReview, CreateTask, ReviseTask, AcceptTask, ReopenTask,
       CancelTask, UpdateReview, DecideCase, CorrectDecision, CloseCase, CompleteUpload,
       ScanFile, ClaimReminder, Tick

\* A submission lists files of the case.
LEMMA SubmissionFiles ==
  ASSUME TypeOK
  PROVE  \A i \in DOMAIN submissions : submissions[i].files \subseteq Files
<1>1. \A i \in DOMAIN submissions : submissions[i] \in SubmissionRow
  BY DEF TypeOK
<1> QED BY <1>1 DEF SubmissionRow

\* A submission once made keeps its number and its content.
LEMMA ReceiptsKept ==
  ASSUME TypeOK, [Next]_vars
  PROVE  \A i \in DOMAIN submissions : i \in DOMAIN submissions' /\ submissions'[i] = submissions[i]
<1>1. submissions \in Seq(SubmissionRow)
  BY DEF TypeOK
<1>2. CASE UNCHANGED submissions
  BY <1>2
<1>3. ASSUME NEW t \in Tasks \cup {NoTask}, NEW fs \in SUBSET Files,
             submissions' = Append(submissions, Submission(t, fs))
      PROVE  \A i \in DOMAIN submissions : i \in DOMAIN submissions' /\ submissions'[i] = submissions[i]
  <2>1. Submission(t, fs) \in SubmissionRow
    BY SubmissionType
  <2> QED BY <1>1, <1>3, <2>1
<1> QED BY <1>2, <1>3, ReceiptsAppended

\* What WriteTask does to any task's row.
LEMMA WriteTaskRows ==
  ASSUME tasks \in [Tasks -> TaskRow], NEW u \in Tasks, NEW state, NEW revision, NEW due,
         NEW accepted, WriteTask(u, state, revision, due, accepted), NEW t \in Tasks
  PROVE  /\ t # u => tasks'[t] = tasks[t]
         /\ tasks'[u].status = state /\ tasks'[u].revision = revision
         /\ tasks'[u].due = due /\ tasks'[u].accepted = accepted
         /\ tasks'[u].version = tasks[u].version + 1
BY DEF WriteTask, Written

\* A task is accepted by accept_task only, and its row is not touched afterwards.
LEMMA AcceptanceFinal ==
  ASSUME TypeOK, [Next]_vars, NEW t \in Tasks, tasks'[t].status = "ACCEPTED"
  PROVE  \/ tasks'[t] = tasks[t]
         \/ \E etag \in 1..tasks[t].version, sub \in DOMAIN submissions : AcceptTask(etag, t, sub)
<1>1. tasks \in [Tasks -> TaskRow]
  BY DEF TypeOK
<1>2. CASE Applicant
  <2>1. ASSUME NEW u \in Tasks, NEW etag, NEW revision, NEW fs, SubmitTask(etag, u, revision, fs)
        PROVE  tasks'[t] = tasks[t]
    BY <1>1, <2>1, WriteTaskRows DEF SubmitTask
  <2>2. ASSUME NEW etag, WithdrawCase(etag) PROVE tasks'[t] = tasks[t]
    BY <2>2 DEF WithdrawCase, Written
  <2> QED BY <1>2, <2>1, <2>2 DEF Applicant, PatchCase, SubmitCase
<1>3. CASE Reviewer
  <2>1. ASSUME NEW u \in Tasks, NEW due, CreateTask(u, due) PROVE tasks'[t] = tasks[t]
    BY <1>1, <2>1 DEF CreateTask
  <2>2. ASSUME NEW u \in Tasks, NEW etag, NEW due, ReviseTask(etag, u, due)
        PROVE  tasks'[t] = tasks[t]
    BY <1>1, <2>2, WriteTaskRows DEF ReviseTask, Open
  <2>3. ASSUME NEW u \in Tasks, NEW etag, NEW sub, NEW due, ReopenTask(etag, u, sub, due)
        PROVE  tasks'[t] = tasks[t]
    BY <1>1, <2>3, WriteTaskRows DEF ReopenTask
  <2>4. ASSUME NEW u \in Tasks, NEW etag, CancelTask(etag, u) PROVE tasks'[t] = tasks[t]
    BY <1>1, <2>4, WriteTaskRows DEF CancelTask
  <2>5. ASSUME NEW u \in Tasks, NEW etag, NEW sub, AcceptTask(etag, u, sub), u # t
        PROVE  tasks'[t] = tasks[t]
    BY <1>1, <2>5, WriteTaskRows DEF AcceptTask
  <2> QED BY <1>3, <2>1, <2>2, <2>3, <2>4, <2>5 DEF Reviewer, StartReview, UpdateReview
<1>4. CASE Supervisor \/ Background \/ UNCHANGED vars
  BY <1>4 DEF Supervisor, Background, DecideCase, CorrectDecision, CloseCase, CompleteUpload,
              ScanFile, ClaimReminder, Tick, vars
<1> QED BY <1>2, <1>3, <1>4 DEF Next

\* A decided case is frozen: its form, tasks, receipts and review items stay, and
\* it goes between DECIDED and CLOSED only.
LEMMA DecidedFrozen ==
  ASSUME [Next]_vars, status \in {"DECIDED", "CLOSED"}
  PROVE  /\ UNCHANGED <<form, tasks, taskRevisions, submissions, items>>
         /\ status' \in {"DECIDED", "CLOSED"}
BY DEF vars, Next, Applicant, Reviewer, Supervisor, Background, PatchCase, SubmitCase,
       WithdrawCase, SubmitTask, StartReview, CreateTask, ReviseTask, ReopenTask, AcceptTask,
       CancelTask, UpdateReview, DecideCase, CorrectDecision, CloseCase, CompleteUpload,
       ScanFile, ClaimReminder, Tick

\* Only decide_case and correct_decision add a decision or decide a case.
LEMMA DecisionsAppended ==
  ASSUME [Next]_vars
  PROVE  \/ UNCHANGED decisions /\ (status' \in {"DECIDED", "CLOSED"} <=> status \in {"DECIDED", "CLOSED"})
         \/ \E etag \in Etags, outcome \in Outcomes, replaced \in SUBSET Replacements :
              DecideCase(etag, outcome, replaced)
         \/ \E etag \in Etags, original \in DOMAIN decisions, outcome \in Outcomes,
               replaced \in SUBSET Replacements : CorrectDecision(etag, original, outcome, replaced)
<1>1. CASE Applicant
  <2>1. ASSUME NEW etag, NEW data, PatchCase(etag, data)
        PROVE  UNCHANGED decisions /\ UNCHANGED status
    BY <2>1 DEF PatchCase
  <2>2. ASSUME NEW etag, NEW fs, SubmitCase(etag, fs)
        PROVE  UNCHANGED decisions /\ status = "DRAFT" /\ status' = "RECEIVED"
    BY <2>2 DEF SubmitCase
  <2>3. ASSUME NEW etag, WithdrawCase(etag)
        PROVE  /\ UNCHANGED decisions
               /\ status \in {"DRAFT", "RECEIVED", "UNDER_REVIEW"} /\ status' = "WITHDRAWN"
    BY <2>3 DEF WithdrawCase
  <2>4. ASSUME NEW t, NEW etag, NEW revision, NEW fs, SubmitTask(etag, t, revision, fs)
        PROVE  UNCHANGED decisions /\ UNCHANGED status
    BY <2>4 DEF SubmitTask
  <2> QED BY <1>1, <2>1, <2>2, <2>3, <2>4 DEF Applicant
<1>2. CASE Reviewer
  <2>1. UNCHANGED decisions /\ (UNCHANGED status \/ (status = "RECEIVED" /\ status' = "UNDER_REVIEW"))
    BY <1>2 DEF Reviewer, StartReview, CreateTask, ReviseTask, AcceptTask, ReopenTask, CancelTask,
                UpdateReview
  <2> QED BY <2>1
<1>3. CASE Supervisor
  BY <1>3 DEF Supervisor, CloseCase
<1>4. CASE Background \/ UNCHANGED vars
  <2>1. UNCHANGED decisions /\ UNCHANGED status
    BY <1>4 DEF Background, CompleteUpload, ScanFile, ClaimReminder, Tick, vars
  <2> QED BY <2>1
<1> QED BY <1>1, <1>2, <1>3, <1>4 DEF Next

---------------------------------------------------------------------------
(* Acceptances.                                                            *)

\* A step keeps what an accepted task points at: its submission, for the current
\* revision, with clean files.
LEMMA AcceptedStep ==
  ASSUME TypeOK, AcceptedIsCurrent, [Next]_vars
  PROVE  AcceptedIsCurrent'
<1> SUFFICES ASSUME NEW t \in Tasks, tasks'[t].status = "ACCEPTED"
             PROVE  /\ tasks'[t].accepted \in DOMAIN submissions'
                    /\ submissions'[tasks'[t].accepted].task = t
                    /\ submissions'[tasks'[t].accepted].revision = tasks'[t].revision
                    /\ \A f \in submissions'[tasks'[t].accepted].files : scan'[f] = "CLEAN"
  BY DEF AcceptedIsCurrent
<1>1. \A i \in DOMAIN submissions : submissions[i].files \subseteq Files
  BY SubmissionFiles
<1>2. CASE tasks'[t] = tasks[t]
  <2> DEFINE sub == tasks[t].accepted
  <2>1. /\ sub \in DOMAIN submissions /\ submissions[sub].task = t
        /\ submissions[sub].revision = tasks[t].revision
        /\ \A f \in submissions[sub].files : scan[f] = "CLEAN"
    BY <1>2 DEF AcceptedIsCurrent
  <2>2. sub \in DOMAIN submissions' /\ submissions'[sub] = submissions[sub]
    BY <2>1, ReceiptsKept
  <2>3. \A f \in submissions[sub].files : scan'[f] = "CLEAN"
    BY <1>1, <2>1, VerdictsFinal
  <2> QED BY <1>2, <2>1, <2>2, <2>3
<1>3. ASSUME NEW etag \in 1..tasks[t].version, NEW sub \in DOMAIN submissions,
             AcceptTask(etag, t, sub)
      PROVE  /\ tasks'[t].accepted \in DOMAIN submissions'
             /\ submissions'[tasks'[t].accepted].task = t
             /\ submissions'[tasks'[t].accepted].revision = tasks'[t].revision
             /\ \A f \in submissions'[tasks'[t].accepted].files : scan'[f] = "CLEAN"
  <2>1. tasks'[t].accepted = sub /\ tasks'[t].revision = tasks[t].revision
    BY <1>3, WriteTaskRows DEF AcceptTask, TypeOK
  <2>2. submissions' = submissions /\ scan' = scan
    BY <1>3 DEF AcceptTask
  <2>3. submissions[sub].task = t /\ submissions[sub].revision = tasks[t].revision
    BY <1>3 DEF AcceptTask, CurrentSubmission
  <2>4. \A f \in submissions[sub].files : scan[f] = "CLEAN"
    BY <1>3 DEF AcceptTask, FilesAllowed
  <2> QED BY <2>1, <2>2, <2>3, <2>4
<1> QED BY <1>2, <1>3, AcceptanceFinal

\* In every reachable state an accepted task points at the answer to its current
\* revision, and all files of that answer are clean.
THEOREM AcceptancesAreCurrent == Spec => []AcceptedIsCurrent
<1>1. Init => AcceptedIsCurrent
  BY DEF Init, AcceptedIsCurrent, NoRow
<1>2. TypeOK /\ AcceptedIsCurrent /\ [Next]_vars => AcceptedIsCurrent'
  BY AcceptedStep
<1> QED BY <1>1, <1>2, TypeCorrect, PTL DEF Spec

---------------------------------------------------------------------------
(* Decisions.                                                              *)

\* The chain of decisions grows at its end only.
LEMMA ChainStep ==
  ASSUME TypeOK, DecisionChain, [Next]_vars
  PROVE  DecisionChain'
<1>1. decisions \in Seq(DecisionRow)
  BY DEF TypeOK
<1>2. CASE UNCHANGED decisions /\ (status' \in {"DECIDED", "CLOSED"} <=> status \in {"DECIDED", "CLOSED"})
  BY <1>2 DEF DecisionChain
<1>3. ASSUME NEW etag \in Etags, NEW outcome \in Outcomes, NEW replaced \in SUBSET Replacements,
             DecideCase(etag, outcome, replaced)
      PROVE  DecisionChain'
  <2>1. decisions = <<>>
    BY <1>3 DEF DecisionChain, DecideCase
  <2>2. decisions' = <<[outcome |-> outcome, replaced |-> replaced, supersedes |-> 0]>>
    BY <1>3, <2>1 DEF DecideCase
  <2>3. status' = "DECIDED"
    BY <1>3 DEF DecideCase
  <2> QED BY <2>2, <2>3 DEF DecisionChain
<1>4. ASSUME NEW etag \in Etags, NEW original \in DOMAIN decisions, NEW outcome \in Outcomes,
             NEW replaced \in SUBSET Replacements,
             CorrectDecision(etag, original, outcome, replaced)
      PROVE  DecisionChain'
  <2> DEFINE new == [outcome |-> outcome, replaced |-> replaced, supersedes |-> original]
  <2>1. decisions' = Append(decisions, new) /\ status' = "DECIDED"
    BY <1>4 DEF CorrectDecision
  <2>2. original = Len(decisions)
    <3>1. original \in 1..Len(decisions)
      BY <1>1
    <3>2. ASSUME original < Len(decisions) PROVE FALSE
      <4>1. original + 1 \in DOMAIN decisions
        BY <1>1, <3>1, <3>2
      <4>2. decisions[original + 1].supersedes = original
        BY <3>1, <4>1 DEF DecisionChain
      <4> QED BY <1>4, <4>1, <4>2 DEF CorrectDecision, Superseded
    <3> QED BY <1>1, <3>1, <3>2
  <2>3. \A d \in DOMAIN decisions : decisions[d].supersedes = d - 1
    BY DEF DecisionChain
  <2>4. DOMAIN decisions' = 1..(Len(decisions) + 1) /\ decisions'[Len(decisions) + 1] = new
    BY <1>1, <2>1
  <2>5. \A d \in DOMAIN decisions : decisions'[d] = decisions[d]
    BY <1>1, <2>1
  <2>6. \A d \in DOMAIN decisions' : decisions'[d].supersedes = d - 1
    BY <1>1, <2>2, <2>3, <2>4, <2>5
  <2> QED BY <1>1, <2>1, <2>4, <2>6 DEF DecisionChain
<1> QED BY <1>2, <1>3, <1>4, DecisionsAppended

\* However often a decision is corrected, the decisions form one chain, and a case
\* has decisions exactly when it is DECIDED or CLOSED.
THEOREM DecisionsFormAChain == Spec => []DecisionChain
<1>1. Init => DecisionChain
  BY DEF Init, DecisionChain
<1>2. TypeOK /\ DecisionChain /\ [Next]_vars => DecisionChain'
  BY ChainStep
<1> QED BY <1>1, <1>2, TypeCorrect, PTL DEF Spec

\* What a file needs to be no obstacle to the decision that recorded `replaced'.
Settles(replaced, f) ==
  \/ scan[f] = "CLEAN"
  \/ \E r \in replaced : /\ r.old = f
                         /\ FileType[r.new] = FileType[f]
                         /\ scan[r.new] = "CLEAN"
                         /\ \E j \in Relied : submissions[j].task # NoTask /\ r.new \in submissions[j].files

\* _ready_for_decision leaves no file of a relied-on submission unsettled.
LEMMA ReadyIsFounded ==
  ASSUME TypeOK, AcceptedIsCurrent, NEW outcome, NEW replaced \in SUBSET Replacements,
         NEW correction, ReadyForDecision(outcome, replaced, correction)
  PROVE  \A i \in Relied : \A f \in submissions[i].files : Settles(replaced, f)
<1> SUFFICES ASSUME NEW i \in Relied, NEW f \in submissions[i].files PROVE Settles(replaced, f)
  OBVIOUS
<1>1. CASE f \notin {r.old : r \in replaced}
  BY <1>1 DEF ReadyForDecision, FilesAllowed, Settles
<1>2. ASSUME NEW r \in replaced, r.old = f PROVE Settles(replaced, f)
  <2>1. r \in Replacements
    OBVIOUS
  <2>2. FileType[r.new] = FileType[f] /\ scan[r.new] = "CLEAN"
    BY <1>2, <2>1 DEF Replacements
  <2>3. PICK t \in Tasks : tasks[t].status = "ACCEPTED" /\ r.new \in submissions[tasks[t].accepted].files
    BY <2>1 DEF Replacements
  <2>4. /\ tasks[t].accepted \in DOMAIN submissions
        /\ submissions[tasks[t].accepted].task # NoTask
    BY <2>3, CaseAssumption DEF AcceptedIsCurrent
  <2>5. tasks[t].accepted \in Relied
    BY <2>3, <2>4 DEF Relied
  <2> QED BY <1>2, <2>2, <2>3, <2>4, <2>5 DEF Settles
<1> QED BY <1>1, <1>2

\* A file that stood in no decision's way stands in none later: a decided case is
\* frozen and the scanner takes nothing back.
LEMMA SettledForGood ==
  ASSUME TypeOK, [Next]_vars, UNCHANGED <<tasks, submissions>>,
         NEW replaced \in SUBSET [old : Files, new : Files], NEW f \in Files, Settles(replaced, f)
  PROVE  Settles(replaced, f)'
<1>1. Relied' = Relied
  BY DEF Relied
<1>2. CASE scan[f] = "CLEAN"
  BY <1>2, VerdictsFinal DEF Settles
<1>3. ASSUME NEW r \in replaced, r.old = f, FileType[r.new] = FileType[f], scan[r.new] = "CLEAN",
             NEW j \in Relied, submissions[j].task # NoTask, r.new \in submissions[j].files
      PROVE  Settles(replaced, f)'
  <2>1. scan'[r.new] = "CLEAN"
    BY <1>3, VerdictsFinal
  <2> QED BY <1>1, <1>3, <2>1 DEF Settles
<1> QED BY <1>2, <1>3 DEF Settles

\* The four facts of a case that a decision and its corrections rest on.
FoundedInv == TypeOK /\ AcceptedIsCurrent /\ DecisionChain /\ DecisionsAreFounded

\* A step keeps every decision founded, the one it takes included.
LEMMA FoundedStep ==
  ASSUME FoundedInv, [Next]_vars
  PROVE  DecisionsAreFounded'
<1> USE DEF FoundedInv
<1>0. /\ decisions \in Seq(DecisionRow)
      /\ \A i \in Relied : i \in DOMAIN submissions /\ submissions[i].files \subseteq Files
  BY SubmissionFiles DEF TypeOK, Relied
<1>1. ASSUME NEW outcome, NEW replaced \in SUBSET Replacements, NEW correction, NEW supersedes,
             ReadyForDecision(outcome, replaced, correction),
             UNCHANGED <<tasks, submissions, scan>>,
             decisions' = Append(decisions, [outcome |-> outcome, replaced |-> replaced,
                                             supersedes |-> supersedes])
      PROVE  DecisionsAreFounded'
  <2>1. \A t \in Tasks : tasks'[t].status \in Settled \cup {"NONE"}
    BY <1>1 DEF ReadyForDecision
  <2>2. /\ DOMAIN decisions' = 1..(Len(decisions) + 1)
        /\ \A d \in DOMAIN decisions : decisions'[d].replaced = decisions[d].replaced
        /\ decisions'[Len(decisions) + 1].replaced = replaced
        /\ DOMAIN decisions = 1..Len(decisions)
    BY <1>0, <1>1
  <2>3. \A d \in DOMAIN decisions, i \in Relied :
          \A f \in submissions[i].files : Settles(decisions[d].replaced, f)
    BY DEF DecisionsAreFounded, Settles
  <2>4. \A i \in Relied : \A f \in submissions[i].files : Settles(replaced, f)
    BY <1>1, ReadyIsFounded
  <2>5. \A d \in DOMAIN decisions', i \in Relied :
          \A f \in submissions[i].files : Settles(decisions'[d].replaced, f)
    BY <1>0, <2>2, <2>3, <2>4
  <2>6. Relied' = Relied /\ submissions' = submissions /\ scan' = scan
    BY <1>1 DEF Relied
  <2> QED BY <2>1, <2>5, <2>6 DEF DecisionsAreFounded, Settles
<1>2. CASE UNCHANGED decisions
  <2>1. CASE decisions = <<>>
    BY <1>2, <2>1 DEF DecisionsAreFounded
  <2>2. CASE decisions # <<>>
    <3>1. UNCHANGED <<tasks, submissions>>
      BY <2>2, DecidedFrozen DEF DecisionChain
    <3>2. Relied' = Relied
      BY <3>1 DEF Relied
    <3>3. ASSUME NEW d \in DOMAIN decisions, NEW i \in Relied, NEW f \in submissions[i].files
          PROVE  Settles(decisions[d].replaced, f)'
      <4>1. Settles(decisions[d].replaced, f)
        BY <2>2 DEF DecisionsAreFounded, Settles
      <4>2. decisions[d].replaced \in SUBSET [old : Files, new : Files] /\ f \in Files
        <5>1. decisions[d] \in DecisionRow
          BY <1>0
        <5> QED BY <1>0, <5>1 DEF DecisionRow
      <4>3. decisions'[d].replaced = decisions[d].replaced
        BY <1>2
      <4>4. \A R \in SUBSET [old : Files, new : Files] : Settles(R, f) => Settles(R, f)'
        BY <3>1, <4>2, SettledForGood
      <4> QED BY <4>1, <4>2, <4>3, <4>4 DEF Settles
    <3>4. \A t \in Tasks : tasks'[t].status \in Settled \cup {"NONE"}
      BY <2>2, <3>1 DEF DecisionsAreFounded
    <3> QED BY <1>2, <3>1, <3>2, <3>3, <3>4 DEF DecisionsAreFounded, Settles
  <2> QED BY <2>1, <2>2
<1>3. ASSUME NEW etag \in Etags, NEW outcome \in Outcomes, NEW replaced \in SUBSET Replacements,
             DecideCase(etag, outcome, replaced)
      PROVE  DecisionsAreFounded'
  BY <1>1, <1>3 DEF DecideCase
<1>4. ASSUME NEW etag \in Etags, NEW original \in DOMAIN decisions, NEW outcome \in Outcomes,
             NEW replaced \in SUBSET Replacements,
             CorrectDecision(etag, original, outcome, replaced)
      PROVE  DecisionsAreFounded'
  BY <1>1, <1>4 DEF CorrectDecision
<1> QED BY <1>2, <1>3, <1>4, DecisionsAppended

\* No decision ever stands on an unsettled task or on a file that was not found
\* clean, unless that decision records a clean, accepted replacement for it.
THEOREM DecisionsStayFounded == Spec => []DecisionsAreFounded
<1>1. Init => DecisionsAreFounded
  BY DEF Init, DecisionsAreFounded
<1>2. FoundedInv /\ [Next]_vars => DecisionsAreFounded'
  BY FoundedStep
<1> QED
  BY <1>1, <1>2, TypeCorrect, AcceptancesAreCurrent, DecisionsFormAChain, PTL DEF Spec, FoundedInv

\* The first decision goes on agreeing with the review items.
LEMMA OutcomeStep ==
  ASSUME TypeOK, DecisionChain, OutcomeMatchesReview, [Next]_vars
  PROVE  OutcomeMatchesReview'
<1>0. decisions \in Seq(DecisionRow)
  BY DEF TypeOK
<1>1. CASE UNCHANGED decisions
  <2>1. CASE decisions = <<>>
    BY <1>1, <2>1 DEF OutcomeMatchesReview
  <2>2. CASE decisions # <<>>
    <3>1. UNCHANGED items
      BY <2>2, DecidedFrozen DEF DecisionChain
    <3> QED BY <1>1, <2>2, <3>1 DEF OutcomeMatchesReview
  <2> QED BY <2>1, <2>2
<1>2. ASSUME NEW etag \in Etags, NEW outcome \in Outcomes, NEW replaced \in SUBSET Replacements,
             DecideCase(etag, outcome, replaced)
      PROVE  OutcomeMatchesReview'
  <2>1. decisions = <<>>
    BY <1>2 DEF DecisionChain, DecideCase
  <2>2. decisions' = <<[outcome |-> outcome, replaced |-> replaced, supersedes |-> 0]>>
    BY <1>2, <2>1 DEF DecideCase
  <2>3. /\ outcome = "APPROVED" => \A c \in Criteria : items[c].result = "PASS"
        /\ outcome = "REJECTED" => \E c \in Criteria : items[c].result = "FAIL"
        /\ items' = items
    BY <1>2 DEF DecideCase, ReadyForDecision
  <2> QED BY <2>2, <2>3 DEF OutcomeMatchesReview
<1>3. ASSUME NEW etag \in Etags, NEW original \in DOMAIN decisions, NEW outcome \in Outcomes,
             NEW replaced \in SUBSET Replacements,
             CorrectDecision(etag, original, outcome, replaced)
      PROVE  OutcomeMatchesReview'
  <2>1. decisions # <<>> /\ decisions'[1] = decisions[1] /\ items' = items
    BY <1>0, <1>3 DEF CorrectDecision
  <2> QED BY <2>1 DEF OutcomeMatchesReview
<1> QED BY <1>1, <1>2, <1>3, DecisionsAppended

\* The items a case was first decided on still say what that decision says.
THEOREM OutcomesMatchTheReview == Spec => []OutcomeMatchesReview
<1>1. Init => OutcomeMatchesReview
  BY DEF Init, OutcomeMatchesReview
<1>2. TypeOK /\ DecisionChain /\ OutcomeMatchesReview /\ [Next]_vars => OutcomeMatchesReview'
  BY OutcomeStep
<1> QED BY <1>1, <1>2, TypeCorrect, DecisionsFormAChain, PTL DEF Spec

---------------------------------------------------------------------------
(* Evidence.                                                               *)

\* An item's evidence changes when the review starts and when it is edited only.
LEMMA EvidenceChanges ==
  ASSUME TypeOK, [Next]_vars, NEW c \in Criteria
  PROVE  \/ items'[c].evidence = items[c].evidence
         \/ items'[c].evidence = NoFile
         \/ Evidence(items'[c].evidence) /\ UNCHANGED <<submissions, scan>>
<1>0. items \in [Criteria -> ItemRow]
  BY DEF TypeOK
<1>1. ASSUME NEW d \in Criteria, NEW etag, NEW result, NEW ref, UpdateReview(etag, d, result, ref)
      PROVE  \/ items'[c].evidence = items[c].evidence
             \/ Evidence(items'[c].evidence) /\ UNCHANGED <<submissions, scan>>
  BY <1>0, <1>1 DEF UpdateReview
<1>2. ASSUME NEW etag, StartReview(etag) PROVE items'[c].evidence = NoFile
  BY <1>2 DEF StartReview
<1> QED
  BY <1>1, <1>2 DEF vars, Next, Applicant, Reviewer, Supervisor, Background, PatchCase,
       SubmitCase, WithdrawCase, SubmitTask, CreateTask, ReviseTask, ReopenTask, AcceptTask,
       CancelTask, DecideCase, CorrectDecision, CloseCase, CompleteUpload, ScanFile,
       ClaimReminder, Tick

\* Evidence stays submitted and clean.
LEMMA EvidenceStep ==
  ASSUME TypeOK, EvidenceIsSubmittedAndClean, [Next]_vars
  PROVE  EvidenceIsSubmittedAndClean'
<1> SUFFICES ASSUME NEW c \in Criteria, items'[c].evidence # NoFile
             PROVE  /\ items'[c].evidence \in SubmittedFiles'
                    /\ scan'[items'[c].evidence] = "CLEAN"
  BY DEF EvidenceIsSubmittedAndClean
<1>1. CASE items'[c].evidence = items[c].evidence
  <2> DEFINE f == items[c].evidence
  <2>1. f \in SubmittedFiles /\ scan[f] = "CLEAN"
    BY <1>1 DEF EvidenceIsSubmittedAndClean
  <2>2. PICK i \in DOMAIN submissions : f \in submissions[i].files
    BY <2>1 DEF SubmittedFiles
  <2>3. f \in SubmittedFiles'
    BY <2>2, ReceiptsKept DEF SubmittedFiles
  <2>4. scan'[f] = "CLEAN"
    BY <2>1, <2>2, SubmissionFiles, VerdictsFinal
  <2> QED BY <1>1, <2>3, <2>4
<1>2. CASE Evidence(items'[c].evidence) /\ UNCHANGED <<submissions, scan>>
  BY <1>2 DEF Evidence, SubmittedFiles
<1> QED BY <1>1, <1>2, EvidenceChanges

\* Whatever becomes of the tasks, the evidence of a review item is a submitted
\* file that the scanner passed.
THEOREM EvidenceStaysClean == Spec => []EvidenceIsSubmittedAndClean
<1>1. Init => EvidenceIsSubmittedAndClean
  BY DEF Init, EvidenceIsSubmittedAndClean
<1>2. TypeOK /\ EvidenceIsSubmittedAndClean /\ [Next]_vars => EvidenceIsSubmittedAndClean'
  BY EvidenceStep
<1> QED BY <1>1, <1>2, TypeCorrect, PTL DEF Spec

---------------------------------------------------------------------------
(* The receipt of the application.                                         *)

Received == {"RECEIVED", "UNDER_REVIEW", "DECIDED", "CLOSED"}

\* Nothing is received in DRAFT: the strengthening that makes
\* ReceivedOnceAndComplete inductive.
DraftIsUnsubmitted == status = "DRAFT" => submissions = <<>>

\* The steps that touch the form, the receipts, or make a case received.
LEMMA FormAndReceipts ==
  ASSUME [Next]_vars
  PROVE  \/ \E etag \in Etags, data \in Forms : PatchCase(etag, data)
         \/ \E etag \in Etags, fs \in SUBSET Files : SubmitCase(etag, fs)
         \/ \E t \in Tasks : \E etag \in 1..tasks[t].version, revision \in 1..tasks[t].revision,
                                fs \in SUBSET Files : SubmitTask(etag, t, revision, fs)
         \/ /\ UNCHANGED <<form, submissions>>
            /\ UNCHANGED status \/ status' = "WITHDRAWN" \/ (status \in Received /\ status' \in Received)
<1>1. CASE Applicant
  <2>1. ASSUME NEW etag \in Etags, WithdrawCase(etag)
        PROVE  UNCHANGED <<form, submissions>> /\ status' = "WITHDRAWN"
    BY <2>1 DEF WithdrawCase
  <2> QED BY <1>1, <2>1 DEF Applicant
<1>2. CASE Reviewer
  <2>1. /\ UNCHANGED <<form, submissions>>
        /\ UNCHANGED status \/ (status = "RECEIVED" /\ status' = "UNDER_REVIEW")
    BY <1>2 DEF Reviewer, StartReview, CreateTask, ReviseTask, AcceptTask, ReopenTask, CancelTask,
                UpdateReview
  <2> QED BY <2>1 DEF Received
<1>3. CASE Supervisor
  <2>1. /\ UNCHANGED <<form, submissions>>
        /\ status \in {"UNDER_REVIEW", "DECIDED", "CLOSED"} /\ status' \in {"DECIDED", "CLOSED"}
    BY <1>3 DEF Supervisor, DecideCase, CorrectDecision, CloseCase
  <2> QED BY <2>1 DEF Received
<1>4. CASE Background \/ UNCHANGED vars
  <2>1. UNCHANGED <<form, submissions, status>>
    BY <1>4 DEF Background, CompleteUpload, ScanFile, ClaimReminder, Tick, vars
  <2> QED BY <2>1
<1> QED BY <1>1, <1>2, <1>3, <1>4 DEF Next

\* The receipt of the application stays the first one, and the form the one it was
\* issued for.
LEMMA ReceivedStep ==
  ASSUME TypeOK, DraftIsUnsubmitted, ReceivedOnceAndComplete, [Next]_vars
  PROVE  DraftIsUnsubmitted' /\ ReceivedOnceAndComplete'
<1>0. submissions \in Seq(SubmissionRow)
  BY DEF TypeOK
<1>1. ASSUME NEW etag \in Etags, NEW data \in Forms, PatchCase(etag, data)
      PROVE  DraftIsUnsubmitted' /\ ReceivedOnceAndComplete'
  <2>1. submissions = <<>> /\ submissions' = <<>> /\ status' = "DRAFT"
    BY <1>1 DEF PatchCase, DraftIsUnsubmitted
  <2> QED BY <2>1 DEF DraftIsUnsubmitted, ReceivedOnceAndComplete
<1>2. ASSUME NEW etag \in Etags, NEW fs \in SUBSET Files, SubmitCase(etag, fs)
      PROVE  DraftIsUnsubmitted' /\ ReceivedOnceAndComplete'
  <2>1. submissions = <<>> /\ status' = "RECEIVED"
    BY <1>2 DEF SubmitCase, DraftIsUnsubmitted
  <2>2. submissions' = <<Submission(NoTask, fs)>>
    BY <1>2, <2>1 DEF SubmitCase
  <2>3. Submission(NoTask, fs).task = NoTask /\ Submission(NoTask, fs).files = fs
    BY DEF Submission
  <2>4. form' = form /\ form \in Complete /\ Required[form] \subseteq {FileType[f] : f \in fs}
    BY <1>2 DEF SubmitCase
  <2>5. {i \in DOMAIN submissions' : submissions'[i].task = NoTask} = {1}
    BY <2>2, <2>3
  <2>6. submissions'[1].files = fs
    BY <2>2, <2>3
  <2> QED BY <2>1, <2>4, <2>5, <2>6 DEF DraftIsUnsubmitted, ReceivedOnceAndComplete
<1>3. ASSUME NEW t \in Tasks, NEW etag, NEW revision, NEW fs \in SUBSET Files,
             SubmitTask(etag, t, revision, fs)
      PROVE  DraftIsUnsubmitted' /\ ReceivedOnceAndComplete'
  <2> DEFINE new == Submission(t, fs)
  <2>1. submissions' = Append(submissions, new) /\ UNCHANGED <<form, status>> /\ status = "UNDER_REVIEW"
    BY <1>3 DEF SubmitTask
  <2>2. new.task # NoTask
    BY CaseAssumption DEF Submission
  <2>3. {i \in DOMAIN submissions : submissions[i].task = NoTask} = {1}
    BY <2>1 DEF ReceivedOnceAndComplete
  <2>4. /\ DOMAIN submissions' = DOMAIN submissions \cup {Len(submissions) + 1}
        /\ submissions'[Len(submissions) + 1] = new
        /\ \A i \in DOMAIN submissions : submissions'[i] = submissions[i]
    <3>1. new \in SubmissionRow
      BY SubmissionType
    <3> QED BY <1>0, <2>1, <3>1
  <2>5. {i \in DOMAIN submissions' : submissions'[i].task = NoTask} = {1}
    BY <2>2, <2>3, <2>4
  <2> QED BY <2>1, <2>3, <2>4, <2>5 DEF DraftIsUnsubmitted, ReceivedOnceAndComplete
<1>4. CASE /\ UNCHANGED <<form, submissions>>
           /\ UNCHANGED status \/ status' = "WITHDRAWN" \/ (status \in Received /\ status' \in Received)
  BY <1>4 DEF DraftIsUnsubmitted, ReceivedOnceAndComplete, Received
<1> QED BY <1>1, <1>2, <1>3, <1>4, FormAndReceipts

\* The application is received once, complete, and its form never changes again.
THEOREM ApplicationReceivedOnce == Spec => []ReceivedOnceAndComplete
<1>1. Init => DraftIsUnsubmitted /\ ReceivedOnceAndComplete
  BY DEF Init, DraftIsUnsubmitted, ReceivedOnceAndComplete
<1>2. TypeOK /\ DraftIsUnsubmitted /\ ReceivedOnceAndComplete /\ [Next]_vars
        => DraftIsUnsubmitted' /\ ReceivedOnceAndComplete'
  BY ReceivedStep
<1> QED BY <1>1, <1>2, TypeCorrect, PTL DEF Spec

---------------------------------------------------------------------------
(* Reminders.                                                              *)

\* A task handler that writes one task and cancels its reminders, replacing them at
\* most by one for the new revision, leaves only current reminders waiting.
LEMMA OneTaskReminded ==
  ASSUME TypeOK, RemindersAreCurrent, NEW t \in Tasks, NEW state, NEW revision, NEW due,
         NEW accepted, WriteTask(t, state, revision, due, accepted),
         UNCHANGED status, status = "UNDER_REVIEW",
         \/ reminders' = Cancelled(t)
         \/ reminders' = Cancelled(t) \cup {<<t, revision>>} /\ state \in Open
  PROVE  RemindersAreCurrent'
<1>0. tasks \in [Tasks -> TaskRow] /\ reminders \subseteq Tasks \X Nat
  BY DEF TypeOK
<1>1. ASSUME NEW r \in Cancelled(t)
      PROVE  tasks'[r[1]].status \in Open /\ tasks'[r[1]].revision = r[2]
  <2>1. r \in reminders /\ r[1] # t /\ r[1] \in Tasks
    BY <1>0, <1>1 DEF Cancelled
  <2>2. tasks'[r[1]] = tasks[r[1]]
    BY <1>0, <2>1, WriteTaskRows
  <2> QED BY <2>1, <2>2 DEF RemindersAreCurrent
<1>2. tasks'[t].status = state /\ tasks'[t].revision = revision
  BY <1>0, WriteTaskRows
<1> QED BY <1>1, <1>2 DEF RemindersAreCurrent

\* A step leaves only current reminders waiting.
LEMMA RemindersStep ==
  ASSUME TypeOK, RemindersAreCurrent, [Next]_vars
  PROVE  RemindersAreCurrent'
<1>0. tasks \in [Tasks -> TaskRow] /\ reminders \subseteq Tasks \X Nat
  BY DEF TypeOK
<1>1. CASE Applicant
  <2>1. ASSUME NEW t \in Tasks, NEW etag, NEW revision, NEW fs, SubmitTask(etag, t, revision, fs)
        PROVE  RemindersAreCurrent'
    BY <2>1, OneTaskReminded DEF SubmitTask
  <2>2. ASSUME NEW etag, WithdrawCase(etag) PROVE RemindersAreCurrent'
    BY <2>2 DEF WithdrawCase, RemindersAreCurrent
  <2>3. ASSUME NEW etag, NEW data, PatchCase(etag, data) PROVE RemindersAreCurrent'
    BY <2>3 DEF PatchCase, RemindersAreCurrent
  <2>4. ASSUME NEW etag, NEW fs, SubmitCase(etag, fs) PROVE RemindersAreCurrent'
    BY <2>4 DEF SubmitCase, RemindersAreCurrent
  <2> QED BY <1>1, <2>1, <2>2, <2>3, <2>4 DEF Applicant
<1>2. CASE Reviewer
  <2>1. ASSUME NEW etag, StartReview(etag) PROVE RemindersAreCurrent'
    BY <2>1 DEF StartReview, RemindersAreCurrent
  <2>2. ASSUME NEW t \in Tasks, NEW due, CreateTask(t, due) PROVE RemindersAreCurrent'
    <3>1. \A r \in reminders : r[1] # t /\ r[1] \in Tasks
      BY <1>0, <2>2 DEF CreateTask, RemindersAreCurrent, Open
    <3>2. /\ \A u \in Tasks : u # t => tasks'[u] = tasks[u]
          /\ tasks'[t].status = "OPEN" /\ tasks'[t].revision = 1
      BY <1>0, <2>2 DEF CreateTask
    <3> QED BY <2>2, <3>1, <3>2 DEF CreateTask, RemindersAreCurrent, Open
  <2>3. ASSUME NEW t \in Tasks, NEW etag, NEW due, ReviseTask(etag, t, due)
        PROVE  RemindersAreCurrent'
    BY <2>3, OneTaskReminded DEF ReviseTask, NewRevision
  <2>4. ASSUME NEW t \in Tasks, NEW etag, NEW sub, AcceptTask(etag, t, sub)
        PROVE  RemindersAreCurrent'
    BY <2>4, OneTaskReminded DEF AcceptTask
  <2>5. ASSUME NEW t \in Tasks, NEW etag, NEW sub, NEW due, ReopenTask(etag, t, sub, due)
        PROVE  RemindersAreCurrent'
    BY <2>5, OneTaskReminded DEF ReopenTask, NewRevision, Open
  <2>6. ASSUME NEW t \in Tasks, NEW etag, CancelTask(etag, t) PROVE RemindersAreCurrent'
    BY <2>6, OneTaskReminded DEF CancelTask
  <2>7. ASSUME NEW c, NEW etag, NEW result, NEW ref, UpdateReview(etag, c, result, ref)
        PROVE  RemindersAreCurrent'
    BY <2>7 DEF UpdateReview, RemindersAreCurrent
  <2> QED BY <1>2, <2>1, <2>2, <2>3, <2>4, <2>5, <2>6, <2>7 DEF Reviewer
<1>3. CASE Supervisor
  <2>1. ASSUME NEW etag, NEW outcome, NEW replaced, DecideCase(etag, outcome, replaced)
        PROVE  RemindersAreCurrent'
    <3>1. \A t \in Tasks : tasks[t].status \notin Open
      BY <2>1 DEF DecideCase, ReadyForDecision, Settled, Open
    <3>2. reminders = {}
      BY <1>0, <3>1 DEF RemindersAreCurrent
    <3> QED BY <2>1, <3>2 DEF DecideCase, RemindersAreCurrent
  <2>2. ASSUME status \in {"DECIDED", "CLOSED"}, UNCHANGED reminders PROVE RemindersAreCurrent'
    BY <2>2 DEF RemindersAreCurrent
  <2> QED BY <1>3, <2>1, <2>2 DEF Supervisor, CorrectDecision, CloseCase
<1>4. CASE Background \/ UNCHANGED vars
  BY <1>4 DEF Background, CompleteUpload, ScanFile, ClaimReminder, Tick, vars, RemindersAreCurrent
<1> QED BY <1>1, <1>2, <1>3, <1>4 DEF Next

\* No reminder that still waits untouched asks for something the task does not ask now.
THEOREM RemindersStayCurrent == Spec => []RemindersAreCurrent
<1>1. Init => RemindersAreCurrent
  BY DEF Init, RemindersAreCurrent
<1>2. TypeOK /\ RemindersAreCurrent /\ [Next]_vars => RemindersAreCurrent'
  BY RemindersStep
<1> QED BY <1>1, <1>2, TypeCorrect, PTL DEF Spec

---------------------------------------------------------------------------
(* The receipts of the corrections.                                        *)

\* The three things a step may do to a task and its revisions: leave them (its
\* status may change, but does not open again), create the first, or add the next.
Kept(t) ==
  /\ taskRevisions'[t] = taskRevisions[t]
  /\ tasks'[t].revision = tasks[t].revision /\ tasks'[t].due = tasks[t].due
  /\ tasks'[t].status \in Open => tasks[t].status \in Open
  /\ tasks'[t].status = "NONE" => tasks[t].status = "NONE"
  /\ tasks'[t].status # "NONE" => tasks[t].status # "NONE"

Created(t) ==
  /\ tasks[t].status = "NONE"
  /\ tasks'[t].status = "OPEN" /\ tasks'[t].revision = 1 /\ tasks'[t].due \in Nat
  /\ taskRevisions'[t] = <<tasks'[t].due>>

Revised(t) ==
  /\ tasks[t].status # "NONE" /\ tasks'[t].status # "NONE"
  /\ tasks'[t].revision = tasks[t].revision + 1 /\ tasks'[t].due \in Nat
  /\ taskRevisions'[t] = Append(taskRevisions[t], tasks'[t].due)

\* Whatever the step, it does one of these to a task and its revisions.
LEMMA RevisionSteps ==
  ASSUME TypeOK, [Next]_vars, NEW t \in Tasks
  PROVE  Kept(t) \/ Created(t) \/ Revised(t)
<1>0. /\ tasks \in [Tasks -> TaskRow]
      /\ taskRevisions \in [Tasks -> Seq(Nat)]
      /\ 1..MaxTime \subseteq Nat
  BY CaseAssumption DEF TypeOK
<1>1. CASE UNCHANGED <<tasks, taskRevisions>>
  BY <1>1 DEF Kept
<1>2. ASSUME NEW u \in Tasks, NEW state \in TaskStates \ (Open \cup {"NONE"}), NEW accepted,
             tasks[u].status # "NONE",
             WriteTask(u, state, tasks[u].revision, tasks[u].due, accepted),
             UNCHANGED taskRevisions
      PROVE  Kept(t)
  BY <1>0, <1>2, WriteTaskRows DEF Kept
<1>3. ASSUME NEW etag, WithdrawCase(etag) PROVE Kept(t)
  BY <1>0, <1>3 DEF WithdrawCase, Written, Kept, Open
<1>4. ASSUME NEW u \in Tasks, NEW due \in 1..MaxTime, CreateTask(u, due)
      PROVE  Kept(t) \/ Created(t)
  BY <1>0, <1>4 DEF CreateTask, Kept, Created
<1>5. ASSUME NEW u \in Tasks, NEW state, NEW accepted, NEW due \in Nat, tasks[u].status # "NONE",
             state # "NONE",
             WriteTask(u, state, tasks[u].revision + 1, due, accepted), NewRevision(u, due)
      PROVE  Kept(t) \/ Revised(t)
  <2>1. CASE t = u
    BY <1>0, <1>5, <2>1, WriteTaskRows DEF NewRevision, Revised
  <2>2. CASE t # u
    BY <1>0, <1>5, <2>2, WriteTaskRows DEF NewRevision, Kept
  <2> QED BY <2>1, <2>2
<1>6. CASE Applicant
  <2>1. ASSUME NEW u \in Tasks, NEW etag, NEW revision, NEW fs, SubmitTask(etag, u, revision, fs)
        PROVE  Kept(t)
    BY <1>2, <2>1 DEF SubmitTask, Open, TaskStates
  <2> QED BY <1>1, <1>3, <1>6, <2>1 DEF Applicant, PatchCase, SubmitCase
<1>7. CASE Reviewer
  <2>1. ASSUME NEW u \in Tasks, NEW etag, NEW due \in 1..MaxTime, ReviseTask(etag, u, due)
        PROVE  Kept(t) \/ Revised(t)
    BY <1>0, <1>5, <2>1 DEF ReviseTask, Open
  <2>2. ASSUME NEW u \in Tasks, NEW etag, NEW sub, NEW due \in 1..MaxTime,
               ReopenTask(etag, u, sub, due)
        PROVE  Kept(t) \/ Revised(t)
    BY <1>0, <1>5, <2>2 DEF ReopenTask
  <2>3. ASSUME NEW u \in Tasks, NEW etag, NEW sub, AcceptTask(etag, u, sub) PROVE Kept(t)
    BY <1>2, <2>3 DEF AcceptTask, Open, TaskStates
  <2>4. ASSUME NEW u \in Tasks, NEW etag, CancelTask(etag, u) PROVE Kept(t)
    BY <1>2, <2>4 DEF CancelTask, Open, TaskStates
  <2> QED BY <1>1, <1>4, <1>7, <2>1, <2>2, <2>3, <2>4 DEF Reviewer, StartReview, UpdateReview
<1>8. CASE Supervisor \/ Background \/ UNCHANGED vars
  <2>1. UNCHANGED <<tasks, taskRevisions>>
    BY <1>8 DEF Supervisor, DecideCase, CorrectDecision, CloseCase, Background, CompleteUpload,
                ScanFile, ClaimReminder, Tick, vars
  <2> QED BY <1>1, <2>1
<1> QED BY <1>6, <1>7, <1>8 DEF Next

\* A task's row repeats its last revision.
TaskHistory ==
  \A t \in Tasks :
    /\ Len(taskRevisions[t]) = tasks[t].revision
    /\ tasks[t].status = "NONE" => tasks[t].revision = 0
    /\ tasks[t].status # "NONE" =>
         tasks[t].revision > 0 /\ taskRevisions[t][tasks[t].revision] = tasks[t].due

\* The current revision of an open task has no answer yet.
OpenIsUnanswered ==
  \A i \in DOMAIN submissions, t \in Tasks :
    submissions[i].task = t /\ tasks[t].status \in Open => submissions[i].revision < tasks[t].revision

\* Revisions are appended together with the task's row that repeats them.
LEMMA HistoryStep ==
  ASSUME TypeOK, TaskHistory, [Next]_vars
  PROVE  TaskHistory'
<1> SUFFICES ASSUME NEW t \in Tasks
             PROVE  /\ Len(taskRevisions'[t]) = tasks'[t].revision
                    /\ tasks'[t].status = "NONE" => tasks'[t].revision = 0
                    /\ tasks'[t].status # "NONE" =>
                         tasks'[t].revision > 0 /\ taskRevisions'[t][tasks'[t].revision] = tasks'[t].due
  BY DEF TaskHistory
<1>0. /\ taskRevisions[t] \in Seq(Nat) /\ tasks[t].revision \in Nat
      /\ Len(taskRevisions[t]) = tasks[t].revision
  BY TaskColumns DEF TypeOK, TaskHistory
<1>1. CASE Created(t)
  BY <1>1 DEF Created
<1>2. CASE Revised(t)
  <2>1. /\ Len(taskRevisions'[t]) = Len(taskRevisions[t]) + 1
        /\ taskRevisions'[t][Len(taskRevisions[t]) + 1] = tasks'[t].due
    BY <1>0, <1>2 DEF Revised
  <2> QED BY <1>0, <1>2, <2>1 DEF Revised
<1>3. CASE Kept(t)
  BY <1>0, <1>3 DEF Kept, TaskHistory
<1> QED BY <1>1, <1>2, <1>3, RevisionSteps

\* A new answer is the first to the current revision of its task.
LEMMA AnswerStep ==
  ASSUME TypeOK, TaskHistory, OpenIsUnanswered, ReceiptsMeetTheirRevision, NEW t \in Tasks,
         NEW etag, NEW revision, NEW fs \in SUBSET Files, SubmitTask(etag, t, revision, fs)
  PROVE  OpenIsUnanswered' /\ ReceiptsMeetTheirRevision'
<1> DEFINE new == Submission(t, fs)
           n == Len(submissions) + 1
<1>0. /\ submissions \in Seq(SubmissionRow) /\ tasks \in [Tasks -> TaskRow] /\ clock \in Nat
      /\ \A i \in DOMAIN submissions : submissions[i] \in SubmissionRow
  BY DEF TypeOK
<1>1. /\ new.task = t /\ new.revision = tasks[t].revision /\ new.deadline = tasks[t].due
      /\ new.at = clock
  BY CaseAssumption DEF Submission
<1>2. /\ DOMAIN submissions' = DOMAIN submissions \cup {n} /\ n \notin DOMAIN submissions
      /\ submissions'[n] = new
      /\ \A i \in DOMAIN submissions : submissions'[i] = submissions[i]
  <2>1. submissions' = Append(submissions, new)
    BY <1>0 DEF SubmitTask
  <2>2. new \in SubmissionRow
    BY SubmissionType
  <2> QED BY <1>0, <2>1, <2>2
<1>3. /\ UNCHANGED taskRevisions /\ tasks[t].status \in Open
      /\ clock <= tasks[t].due \/ AllowLate
  BY DEF SubmitTask, InTime
<1>4. /\ \A u \in Tasks : u # t => tasks'[u] = tasks[u]
      /\ tasks'[t].status = "SUBMITTED"
  BY <1>0, WriteTaskRows DEF SubmitTask
<1>5. OpenIsUnanswered'
  BY <1>1, <1>2, <1>4 DEF OpenIsUnanswered, Open
<1>6. /\ new.revision \in DOMAIN taskRevisions[t]
      /\ new.deadline = taskRevisions[t][new.revision]
  <2>1. taskRevisions[t] \in Seq(Nat) /\ tasks[t].revision \in Nat
    BY TaskColumns DEF TypeOK
  <2>2. Len(taskRevisions[t]) = tasks[t].revision /\ tasks[t].revision > 0
    BY <1>3 DEF TaskHistory, Open
  <2>3. taskRevisions[t][tasks[t].revision] = tasks[t].due
    BY <1>3 DEF TaskHistory, Open
  <2> QED BY <1>1, <2>1, <2>2, <2>3
<1>7. \A i \in DOMAIN submissions :
        ~(submissions[i].task = t /\ submissions[i].revision = new.revision)
  <2>1. \A i \in DOMAIN submissions : submissions[i].revision \in Nat
    BY <1>0 DEF SubmissionRow
  <2>2. tasks[t].revision \in Nat
    BY TaskColumns DEF TypeOK
  <2> QED BY <1>1, <1>3, <2>1, <2>2 DEF OpenIsUnanswered
<1>8. ReceiptsMeetTheirRevision'
  BY <1>1, <1>2, <1>3, <1>6, <1>7 DEF ReceiptsMeetTheirRevision
<1> QED BY <1>5, <1>8

RecordsInv == TaskHistory /\ OpenIsUnanswered /\ ReceiptsMeetTheirRevision

\* Receipts go on naming their own revision, whatever happens to the tasks.
LEMMA RevisionsGrow ==
  ASSUME TypeOK, RecordsInv, [Next]_vars, UNCHANGED submissions
  PROVE  OpenIsUnanswered' /\ ReceiptsMeetTheirRevision'
<1> USE DEF RecordsInv
<1>0. \A i \in DOMAIN submissions : submissions[i] \in SubmissionRow
  BY DEF TypeOK
<1>1. ASSUME NEW i \in DOMAIN submissions, submissions[i].task # NoTask
      PROVE  LET s == submissions[i] IN
             /\ s.task \in Tasks
             /\ s.revision \in DOMAIN taskRevisions'[s.task]
             /\ taskRevisions'[s.task][s.revision] = taskRevisions[s.task][s.revision]
             /\ tasks'[s.task].status \in Open => s.revision < tasks'[s.task].revision
  <2> DEFINE t == submissions[i].task
             k == submissions[i].revision
  <2>1. t \in Tasks /\ k \in Nat
    BY <1>0, <1>1 DEF SubmissionRow
  <2>2. taskRevisions[t] \in Seq(Nat) /\ tasks[t].revision \in Nat
    BY <2>1, TaskColumns DEF TypeOK
  <2>3. k \in 1..tasks[t].revision /\ Len(taskRevisions[t]) = tasks[t].revision
    BY <1>1, <2>1, <2>2 DEF ReceiptsMeetTheirRevision, TaskHistory
  <2>4. CASE Kept(t)
    BY <1>1, <2>1, <2>2, <2>3, <2>4 DEF Kept, OpenIsUnanswered
  <2>5. CASE Created(t)
    BY <2>1, <2>3, <2>5 DEF Created, TaskHistory
  <2>6. CASE Revised(t)
    <3>1. /\ tasks'[t].revision = tasks[t].revision + 1 /\ tasks'[t].due \in Nat
          /\ taskRevisions'[t] = Append(taskRevisions[t], tasks'[t].due)
          /\ tasks'[t].status # "NONE"
      BY <2>6 DEF Revised
    <3>2. k \in DOMAIN taskRevisions'[t] /\ taskRevisions'[t][k] = taskRevisions[t][k]
      BY <2>2, <2>3, <3>1
    <3>3. k < tasks'[t].revision
      BY <2>2, <2>3, <3>1
    <3> QED
      BY <2>1, <3>2, <3>3
  <2> QED BY <2>1, <2>4, <2>5, <2>6, RevisionSteps
<1>2. OpenIsUnanswered'
  BY <1>1, CaseAssumption DEF OpenIsUnanswered
<1>3. ReceiptsMeetTheirRevision'
  BY <1>1 DEF ReceiptsMeetTheirRevision
<1> QED BY <1>2, <1>3

\* A step preserves the history of the tasks and what the receipts say of it.
LEMMA RecordsStep ==
  ASSUME TypeOK, RecordsInv, [Next]_vars
  PROVE  RecordsInv'
<1> USE DEF RecordsInv
<1>1. TaskHistory'
  BY HistoryStep
<1>2. ASSUME NEW etag \in Etags, NEW data \in Forms, PatchCase(etag, data)
      PROVE  OpenIsUnanswered' /\ ReceiptsMeetTheirRevision'
  BY <1>2, RevisionsGrow DEF PatchCase
<1>3. ASSUME NEW etag \in Etags, NEW fs \in SUBSET Files, SubmitCase(etag, fs)
      PROVE  OpenIsUnanswered' /\ ReceiptsMeetTheirRevision'
  <2> DEFINE new == Submission(NoTask, fs)
             n == Len(submissions) + 1
  <2>1. /\ DOMAIN submissions' = DOMAIN submissions \cup {n}
        /\ submissions'[n] = new
        /\ \A i \in DOMAIN submissions : submissions'[i] = submissions[i]
    <3>1. submissions \in Seq(SubmissionRow) /\ new \in SubmissionRow
      BY SubmissionType DEF TypeOK
    <3>2. submissions' = Append(submissions, new)
      BY <1>3 DEF SubmitCase
    <3> QED BY <3>1, <3>2
  <2>2. UNCHANGED <<tasks, taskRevisions>> /\ new.task = NoTask
    BY <1>3 DEF SubmitCase, Submission
  <2>3. OpenIsUnanswered'
    BY <2>1, <2>2, CaseAssumption DEF OpenIsUnanswered
  <2>4. ReceiptsMeetTheirRevision'
    BY <2>1, <2>2 DEF ReceiptsMeetTheirRevision
  <2> QED BY <2>3, <2>4
<1>4. ASSUME NEW t \in Tasks, NEW etag, NEW revision, NEW fs \in SUBSET Files,
             SubmitTask(etag, t, revision, fs)
      PROVE  OpenIsUnanswered' /\ ReceiptsMeetTheirRevision'
  BY <1>4, AnswerStep
<1>5. ASSUME UNCHANGED submissions
      PROVE  OpenIsUnanswered' /\ ReceiptsMeetTheirRevision'
  BY <1>5, RevisionsGrow
<1>6. OpenIsUnanswered' /\ ReceiptsMeetTheirRevision'
  <2>1. CASE /\ UNCHANGED <<form, submissions>>
             /\ UNCHANGED status \/ status' = "WITHDRAWN" \/ (status \in Received /\ status' \in Received)
    BY <1>5, <2>1
  <2>2. ASSUME NEW t \in Tasks, NEW etag \in 1..tasks[t].version,
               NEW revision \in 1..tasks[t].revision, NEW fs \in SUBSET Files,
               SubmitTask(etag, t, revision, fs)
        PROVE  OpenIsUnanswered' /\ ReceiptsMeetTheirRevision'
    BY <1>4, <2>2
  <2> QED BY <1>2, <1>3, <2>1, <2>2, FormAndReceipts
<1> QED BY <1>1, <1>6

\* Every receipt of a correction answers one revision, once, in time and under the
\* deadline that revision had.
THEOREM ReceiptsAnswerTheirRevision == Spec => []ReceiptsMeetTheirRevision
<1>1. Init => RecordsInv
  BY DEF Init, RecordsInv, TaskHistory, OpenIsUnanswered, ReceiptsMeetTheirRevision, NoRow
<1>2. TypeOK /\ RecordsInv /\ [Next]_vars => RecordsInv'
  BY RecordsStep
<1>3. RecordsInv => ReceiptsMeetTheirRevision
  BY DEF RecordsInv
<1> QED BY <1>1, <1>2, <1>3, TypeCorrect, PTL DEF Spec

---------------------------------------------------------------------------
(* CaseWorkflow implements CaseLifecycle: the initial states correspond,   *)
(* and every handler is one step of the lifecycle or none.                 *)

\* Who leaves the tasks alone leaves the standings; likewise decisions and ruling.
LEMMA SeenKept ==
  /\ UNCHANGED tasks => UNCHANGED Standing
  /\ UNCHANGED decisions => UNCHANGED InForce
<1>1. UNCHANGED tasks => UNCHANGED Standing
  BY DEF Standing, StandingOf
<1>2. UNCHANGED decisions => UNCHANGED InForce
  BY DEF InForce, Superseded
<1> QED BY <1>1, <1>2

\* The standing of a task follows from the status of its row.
LEMMA StandingOfStatus ==
  ASSUME NEW row
  PROVE  /\ row.status = "NONE" => StandingOf(row) = "unraised"
         /\ row.status \in Open => StandingOf(row) = "raised"
         /\ row.status = "SUBMITTED" => StandingOf(row) = "answered"
         /\ row.status \in Settled => StandingOf(row) = "settled"
BY DEF StandingOf, Open, Settled

\* A handler that writes one task moves that task's standing only.
LEMMA OneStanding ==
  ASSUME NEW t \in Tasks, NEW row, NEW to, tasks' = [tasks EXCEPT ![t] = row],
         tasks \in [Tasks -> TaskRow], StandingOf(row) = to
  PROVE  Standing' = [Standing EXCEPT ![t] = to]
<1>1. \A u \in Tasks : tasks'[u] = IF u = t THEN row ELSE tasks[u]
  OBVIOUS
<1>2. \A u \in Tasks : StandingOf(tasks[u])' = IF u = t THEN to ELSE StandingOf(tasks[u])
  <2> SUFFICES ASSUME NEW u \in Tasks
               PROVE  StandingOf(tasks'[u]) = IF u = t THEN to ELSE StandingOf(tasks[u])
    BY DEF StandingOf
  <2> QED BY <1>1
<1> QED BY <1>2 DEF Standing

\* The ruling in force is the outcome of some decision, once there is one.
LEMMA RulingIsAnOutcome ==
  ASSUME TypeOK, DecisionChain, decisions # <<>>
  PROVE  InForce \in Outcomes
<1>1. decisions \in Seq(DecisionRow) /\ Len(decisions) \in DOMAIN decisions
  BY DEF TypeOK
<1>2. ~Superseded(Len(decisions))
  <2> SUFFICES ASSUME NEW i \in DOMAIN decisions, decisions[i].supersedes = Len(decisions)
               PROVE  FALSE
    BY DEF Superseded
  <2>1. i \in 1..Len(decisions) /\ decisions[i].supersedes = i - 1
    BY <1>1 DEF DecisionChain
  <2> QED BY <1>1, <2>1
<1> DEFINE d == CHOOSE d \in DOMAIN decisions : ~Superseded(d)
<1>3. d \in DOMAIN decisions
  BY <1>1, <1>2
<1>4. decisions[d] \in DecisionRow
  BY <1>1, <1>3
<1> QED BY <1>4 DEF InForce, DecisionRow

---------------------------------------------------------------------------
(* One lemma per kind of step.                                             *)

\* An answer to a task is an Answer; what staff do to a task raises it, settles
\* it, or leaves it raised.
LEMMA TaskSteps ==
  ASSUME TypeOK, NEW t \in Tasks, NEW etag
  PROVE  /\ \A revision, fs : SubmitTask(etag, t, revision, fs) => Lifecycle!Answer(t)
         /\ \A due : CreateTask(t, due) => Lifecycle!Raise(t)
         /\ \A due : ReviseTask(etag, t, due) => UNCHANGED <<status, Standing, InForce, Len(submissions)>>
         /\ \A sub : AcceptTask(etag, t, sub) => Lifecycle!Settle(t)
         /\ \A sub, due : ReopenTask(etag, t, sub, due) => Lifecycle!Raise(t)
         /\ CancelTask(etag, t) => Lifecycle!Settle(t)
<1>0. /\ tasks \in [Tasks -> TaskRow] /\ submissions \in Seq(SubmissionRow)
      /\ Standing \in [Tasks -> {StandingOf(tasks[u]) : u \in Tasks}]
      /\ Standing[t] = StandingOf(tasks[t])
  BY DEF TypeOK, Standing
<1>1. ASSUME NEW state, NEW revision, NEW due, NEW accepted,
             WriteTask(t, state, revision, due, accepted)
      PROVE  /\ state \in Open => Standing' = [Standing EXCEPT ![t] = "raised"]
             /\ state = "SUBMITTED" => Standing' = [Standing EXCEPT ![t] = "answered"]
             /\ state \in Settled => Standing' = [Standing EXCEPT ![t] = "settled"]
  <2> DEFINE row == Written(tasks[t], state, revision, due, accepted)
  <2>1. tasks' = [tasks EXCEPT ![t] = row]
    BY <1>0, <1>1 DEF WriteTask
  <2>2. row.status = state
    BY DEF Written
  <2> HIDE DEF row
  <2>3. \A to : StandingOf(row) = to => Standing' = [Standing EXCEPT ![t] = to]
    BY <1>0, <2>1, OneStanding
  <2> QED BY <2>2, <2>3, StandingOfStatus
<1>2. ASSUME NEW revision, NEW fs, SubmitTask(etag, t, revision, fs) PROVE Lifecycle!Answer(t)
  <2>1. Standing' = [Standing EXCEPT ![t] = "answered"]
    BY <1>1, <1>2 DEF SubmitTask
  <2>2. Standing[t] = "raised"
    BY <1>0, <1>2, StandingOfStatus DEF SubmitTask
  <2>3. Len(submissions') = Len(submissions) + 1
    BY <1>0, <1>2 DEF SubmitTask
  <2>4. UNCHANGED InForce
    BY <1>2, SeenKept DEF SubmitTask
  <2> QED BY <1>2, <2>1, <2>2, <2>3, <2>4 DEF SubmitTask, Lifecycle!Answer, Lifecycle!Move
<1>3. ASSUME NEW due, CreateTask(t, due) PROVE Lifecycle!Raise(t)
  <2> DEFINE row == [status |-> "OPEN", revision |-> 1, due |-> due, accepted |-> 0,
                     version |-> 1]
  <2>1. Standing' = [Standing EXCEPT ![t] = "raised"]
    <3>1. tasks' = [tasks EXCEPT ![t] = row]
      BY <1>3 DEF CreateTask
    <3>2. row.status \in Open
      BY DEF Open
    <3> HIDE DEF row
    <3> QED BY <1>0, <3>1, <3>2, OneStanding, StandingOfStatus
  <2>2. Standing[t] = "unraised"
    BY <1>0, <1>3, StandingOfStatus DEF CreateTask
  <2>3. UNCHANGED InForce
    BY <1>3, SeenKept DEF CreateTask
  <2> QED BY <1>3, <2>1, <2>2, <2>3 DEF CreateTask, Lifecycle!Raise, Lifecycle!Move
<1>4. ASSUME NEW due, ReviseTask(etag, t, due)
      PROVE  UNCHANGED <<status, Standing, InForce, Len(submissions)>>
  <2>1. Standing' = [Standing EXCEPT ![t] = "raised"]
    BY <1>1, <1>4 DEF ReviseTask
  <2>2. Standing[t] = "raised"
    BY <1>0, <1>4, StandingOfStatus DEF ReviseTask
  <2>3. UNCHANGED Standing
    BY <1>0, <2>1, <2>2
  <2>4. UNCHANGED InForce
    BY <1>4, SeenKept DEF ReviseTask
  <2> QED BY <1>4, <2>3, <2>4 DEF ReviseTask
<1>5. ASSUME NEW sub, AcceptTask(etag, t, sub) PROVE Lifecycle!Settle(t)
  <2>1. Standing' = [Standing EXCEPT ![t] = "settled"]
    BY <1>1, <1>5 DEF AcceptTask, Settled
  <2>2. Standing[t] = "answered"
    BY <1>0, <1>5, StandingOfStatus DEF AcceptTask
  <2>3. UNCHANGED InForce
    BY <1>5, SeenKept DEF AcceptTask
  <2> QED BY <1>5, <2>1, <2>2, <2>3 DEF AcceptTask, Lifecycle!Settle, Lifecycle!Move
<1>6. ASSUME NEW sub, NEW due, ReopenTask(etag, t, sub, due) PROVE Lifecycle!Raise(t)
  <2>1. Standing' = [Standing EXCEPT ![t] = "raised"]
    BY <1>1, <1>6 DEF ReopenTask, Open
  <2>2. Standing[t] = "answered"
    BY <1>0, <1>6, StandingOfStatus DEF ReopenTask
  <2>3. UNCHANGED InForce
    BY <1>6, SeenKept DEF ReopenTask
  <2> QED BY <1>6, <2>1, <2>2, <2>3 DEF ReopenTask, Lifecycle!Raise, Lifecycle!Move
<1>7. ASSUME CancelTask(etag, t) PROVE Lifecycle!Settle(t)
  <2>1. Standing' = [Standing EXCEPT ![t] = "settled"]
    BY <1>1, <1>7 DEF CancelTask, Settled
  <2>2. Standing[t] \in {"raised", "answered"}
    BY <1>0, <1>7, StandingOfStatus DEF CancelTask
  <2>3. UNCHANGED InForce
    BY <1>7, SeenKept DEF CancelTask
  <2> QED BY <1>7, <2>1, <2>2, <2>3 DEF CancelTask, Lifecycle!Settle, Lifecycle!Move
<1> QED BY <1>2, <1>3, <1>4, <1>5, <1>6, <1>7

\* Withdrawal settles every requirement that was raised.
LEMMA WithdrawStep ==
  ASSUME TypeOK, NEW etag, WithdrawCase(etag)
  PROVE  Lifecycle!Withdraw
<1>0. tasks \in [Tasks -> TaskRow]
  BY DEF TypeOK
<1>1. ASSUME NEW t \in Tasks
      PROVE  StandingOf(tasks'[t]) = IF Standing[t] = "unraised" THEN "unraised" ELSE "settled"
  <2>1. tasks[t].status \in TaskStates /\ Standing[t] = StandingOf(tasks[t])
    BY <1>0 DEF TaskRow, Standing
  <2>2. CASE tasks[t].status \in Open \cup {"SUBMITTED"}
    <3>1. tasks'[t].status = "CANCELLED"
      BY <2>2 DEF WithdrawCase, Written
    <3>2. Standing[t] # "unraised"
      BY <2>1, <2>2, StandingOfStatus
    <3> QED BY <3>1, <3>2, StandingOfStatus DEF Settled
  <2>3. CASE tasks[t].status \in Settled \cup {"NONE"}
    <3>1. tasks'[t] = tasks[t]
      BY <2>3 DEF WithdrawCase, Settled, Open
    <3> QED BY <2>1, <2>3, <3>1, StandingOfStatus
  <2> QED BY <2>1, <2>2, <2>3 DEF TaskStates, Open, Settled
<1>2. Standing' = [t \in Tasks |-> IF Standing[t] = "unraised" THEN "unraised" ELSE "settled"]
  <2>1. Standing' = [t \in Tasks |-> StandingOf(tasks'[t])]
    BY DEF Standing, StandingOf
  <2> QED BY <1>1, <2>1
<1>3. UNCHANGED InForce
  BY SeenKept DEF WithdrawCase
<1> QED BY <1>2, <1>3 DEF WithdrawCase, Lifecycle!Withdraw

\* A decision and its correction are rulings: _ready_for_decision lets no task be
\* raised or answered.
LEMMA RuleStep ==
  ASSUME TypeOK', DecisionChain', decisions' # <<>>, status' = "DECIDED",
         status \in {"UNDER_REVIEW", "DECIDED", "CLOSED"}, UNCHANGED <<tasks, submissions>>,
         \A t \in Tasks : tasks[t].status \in Settled \cup {"NONE"}
  PROVE  Lifecycle!Rule
<1>1. \A t \in Tasks : Standing[t] \in {"unraised", "settled"}
  BY StandingOfStatus DEF Standing
<1>2. InForce' \in Outcomes
  <2>1. (TypeOK /\ DecisionChain /\ decisions # <<>> => InForce \in Outcomes)'
    BY RulingIsAnOutcome, PTL
  <2> QED BY <2>1
<1>3. UNCHANGED Standing
  BY SeenKept
<1> QED BY <1>1, <1>2, <1>3 DEF Lifecycle!Rule, Outcomes

\* Every step is one of the lifecycle, or none of its business.
LEMMA LifecycleStep ==
  ASSUME TypeOK, TypeOK', DecisionChain', DraftIsUnsubmitted, [Next]_vars
  PROVE  [Lifecycle!Next]_(Lifecycle!lifecycleVars)
<1>0. submissions \in Seq(SubmissionRow) /\ decisions \in Seq(DecisionRow)
  BY DEF TypeOK
<1> DEFINE Unseen == UNCHANGED <<status, Standing, InForce, Len(submissions)>>
<1>1. ASSUME UNCHANGED <<status, tasks, decisions, submissions>> PROVE Unseen
  BY <1>1, SeenKept
<1>2. CASE Applicant
  <2>1. ASSUME NEW etag, NEW fs, SubmitCase(etag, fs) PROVE Lifecycle!Receive
    <3>1. submissions = <<>> /\ Len(submissions') = 1
      BY <1>0, <2>1 DEF SubmitCase, DraftIsUnsubmitted
    <3>2. UNCHANGED <<Standing, InForce>>
      BY <2>1, SeenKept DEF SubmitCase
    <3> QED BY <2>1, <3>1, <3>2 DEF SubmitCase, Lifecycle!Receive
  <2>2. ASSUME NEW etag, NEW data, PatchCase(etag, data) PROVE Unseen
    BY <1>1, <2>2 DEF PatchCase
  <2> QED BY <1>2, <2>1, <2>2, TaskSteps, WithdrawStep
          DEF Applicant, Lifecycle!Next, Lifecycle!lifecycleVars
<1>3. CASE Reviewer
  <2>1. ASSUME NEW etag, StartReview(etag) PROVE Lifecycle!Review
    BY <2>1, SeenKept DEF StartReview, Lifecycle!Review
  <2>2. ASSUME NEW c, NEW etag, NEW result, NEW ref, UpdateReview(etag, c, result, ref)
        PROVE  Unseen
    BY <1>1, <2>2 DEF UpdateReview
  <2>3. ASSUME NEW t \in Tasks, NEW due, CreateTask(t, due) PROVE Lifecycle!Raise(t)
    BY <2>3, TaskSteps
  <2> QED BY <1>3, <2>1, <2>2, <2>3, TaskSteps
          DEF Reviewer, Lifecycle!Next, Lifecycle!lifecycleVars
<1>4. CASE Supervisor
  <2>1. ASSUME NEW etag, NEW outcome, NEW replaced, DecideCase(etag, outcome, replaced)
        PROVE  Lifecycle!Rule
    <3>1. decisions' # <<>>
      BY <1>0, <2>1 DEF DecideCase
    <3> QED BY <2>1, <3>1, RuleStep DEF DecideCase, ReadyForDecision
  <2>2. ASSUME NEW etag, NEW original, NEW outcome, NEW replaced,
               CorrectDecision(etag, original, outcome, replaced)
        PROVE  Lifecycle!Rule
    <3>1. decisions' # <<>>
      BY <1>0, <2>2 DEF CorrectDecision
    <3> QED BY <2>2, <3>1, RuleStep DEF CorrectDecision, ReadyForDecision
  <2>3. ASSUME NEW etag, CloseCase(etag) PROVE Lifecycle!Close
    BY <2>3, SeenKept DEF CloseCase, Lifecycle!Close
  <2> QED BY <1>4, <2>1, <2>2, <2>3 DEF Supervisor, Lifecycle!Next
<1>5. CASE Background \/ UNCHANGED vars
  <2>1. UNCHANGED <<status, tasks, decisions, submissions>>
    BY <1>5 DEF Background, CompleteUpload, ScanFile, ClaimReminder, Tick, vars
  <2> QED BY <1>1, <2>1 DEF Lifecycle!lifecycleVars
<1> QED BY <1>2, <1>3, <1>4, <1>5 DEF Next

\* An application keeps the promises of CaseLifecycle, for any number of tasks.
THEOREM ImplementsLifecycle == Spec => KeepsItsPromises
<1>1. Init => Lifecycle!Init
  <2> SUFFICES ASSUME Init PROVE Lifecycle!Init
    OBVIOUS
  <2>1. \A t \in Tasks : tasks[t].status = "NONE"
    BY DEF Init, NoRow
  <2>2. Standing = [t \in Tasks |-> "unraised"]
    BY <2>1, StandingOfStatus DEF Standing
  <2> QED BY <2>2 DEF Init, Lifecycle!Init, InForce
<1>2. Init => DraftIsUnsubmitted /\ ReceivedOnceAndComplete
  BY DEF Init, DraftIsUnsubmitted, ReceivedOnceAndComplete
<1>3. TypeOK /\ DraftIsUnsubmitted /\ ReceivedOnceAndComplete /\ [Next]_vars
        => DraftIsUnsubmitted' /\ ReceivedOnceAndComplete'
  BY ReceivedStep
<1>4. TypeOK /\ TypeOK' /\ DecisionChain' /\ DraftIsUnsubmitted /\ [Next]_vars
        => [Lifecycle!Next]_(Lifecycle!lifecycleVars)
  BY LifecycleStep
<1> QED BY <1>1, <1>2, <1>3, <1>4, TypeCorrect, DecisionsFormAChain, PTL
        DEF Spec, KeepsItsPromises, Lifecycle!Spec
=============================================================================

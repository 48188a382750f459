-------------------------- MODULE StaffPageProofs --------------------------
(***************************************************************************)
(* Proofs of the properties of StaffPage.  Every change of the rows a page *)
(* shows moves the version that page was served with, and moves it up; so  *)
(* a version that still stands vouches for all that was read since.  Beside*)
(* it, the rules of the grant and of the card (PageRules): what each says  *)
(* of an input follows from its definition and the types of the input.     *)
(***************************************************************************)
EXTENDS PageRules, CaseWorkflowProofs, FiniteSetTheorems, SequenceTheorems

---------------------------------------------------------------------------
(* The case beside the pages.                                              *)

\* An action of a page on the case is the handler's, with the ETag of the page.
LEMMA PageSteps ==
  ASSUME [PageNext]_pageVars
  PROVE  \/ UNCHANGED vars
         \/ (Applicant \/ Reviewer \/ Background) /\ UNCHANGED page
         \/ \E s \in Supervisors, outcome \in Outcomes, replaced \in SUBSET Replacements :
              Decide(s, outcome, replaced)
         \/ \E s \in Supervisors : Close(s)
BY DEF PageNext, Loading, ReadCase, ReadTasks, ReadItems, FromPage, Others, pageVars

\* A case has been served with an ETag from the start.
Served == version \in Nat /\ version > 0

\* A handler counts the version up; nothing else touches it.
LEMMA VersionStep ==
  ASSUME [PageNext]_pageVars
  PROVE  Event \/ UNCHANGED version
<1>1. CASE Applicant
  BY <1>1 DEF Applicant, PatchCase, SubmitCase, WithdrawCase, SubmitTask
<1>2. CASE Reviewer
  BY <1>2 DEF Reviewer, StartReview, CreateTask, ReviseTask, AcceptTask, ReopenTask, CancelTask,
              UpdateReview
<1>3. CASE Background
  BY <1>3 DEF Background, CompleteUpload, ScanFile, ClaimReminder, Tick
<1>4. ASSUME NEW s, NEW outcome, NEW replaced, Decide(s, outcome, replaced) PROVE Event
  BY <1>4 DEF Decide, DecideCase
<1>5. ASSUME NEW s, Close(s) PROVE Event
  BY <1>5 DEF Close, CloseCase
<1> QED BY <1>1, <1>2, <1>3, <1>4, <1>5, PageSteps DEF vars

\* What is beside the pages is CaseWorkflow: its theorems hold here too.
THEOREM PagesAreBeside == PageSpec => Spec
<1>1. PageInit => Init /\ Served
  BY DEF PageInit, Init, Served
<1>2. Served /\ [PageNext]_pageVars => Served'
  BY VersionStep DEF Served, Event
<1>3. Served /\ [PageNext]_pageVars => [Next]_vars
  <2> SUFFICES ASSUME Served, [PageNext]_pageVars
               PROVE  [Next]_vars
    OBVIOUS
  <2>0. version \in Etags
    BY DEF Etags, Served
  <2>1. ASSUME NEW s, NEW outcome \in Outcomes, NEW replaced \in SUBSET Replacements,
               Decide(s, outcome, replaced)
        PROVE  Supervisor
    BY <2>0, <2>1 DEF Decide, DecideCase, CheckVersion, Supervisor
  <2>2. ASSUME NEW s, Close(s) PROVE Supervisor
    BY <2>0, <2>2 DEF Close, CloseCase, CheckVersion, Supervisor
  <2> QED BY <2>1, <2>2, PageSteps DEF Next
<1> QED BY <1>1, <1>2, <1>3, PTL DEF PageSpec, Spec

---------------------------------------------------------------------------
(* Versions.                                                               *)

\* A row not written yet has version 0, below every version it will have.
Untouched ==
  /\ \A t \in Tasks : tasks[t].status = "NONE" => tasks[t].version = 0
  /\ status \in {"DRAFT", "RECEIVED"} => \A c \in Criteria : items[c].version = 0

\* A step writes a task with the next version, or leaves it.
LEMMA TaskVersion ==
  ASSUME TypeOK, Untouched, [Next]_vars, NEW t \in Tasks
  PROVE  \/ tasks'[t] = tasks[t]
         \/ tasks'[t].version = tasks[t].version + 1 /\ tasks'[t].status # "NONE"
<1> DEFINE Moved == \/ tasks'[t] = tasks[t]
                    \/ tasks'[t].version = tasks[t].version + 1 /\ tasks'[t].status # "NONE"
<1>0. tasks \in [Tasks -> TaskRow]
  BY DEF TypeOK
<1>1. ASSUME NEW u \in Tasks, NEW state, NEW revision, NEW due, NEW accepted, state # "NONE",
             WriteTask(u, state, revision, due, accepted)
      PROVE  Moved
  BY <1>0, <1>1, WriteTaskRows
<1>2. ASSUME NEW etag, WithdrawCase(etag) PROVE Moved
  BY <1>0, <1>2 DEF WithdrawCase, Written
<1>3. ASSUME NEW u \in Tasks, NEW due, CreateTask(u, due) PROVE Moved
  <2>1. CASE t = u
    <3>1. tasks'[t].version = 1 /\ tasks'[t].status = "OPEN" /\ tasks[t].version = 0
      BY <1>0, <1>3, <2>1 DEF CreateTask, Untouched
    <3> QED BY <3>1
  <2>2. CASE t # u
    BY <1>0, <1>3, <2>2 DEF CreateTask
  <2> QED BY <2>1, <2>2
<1>4. ASSUME NEW u \in Tasks, NEW etag, NEW revision, NEW fs, SubmitTask(etag, u, revision, fs)
      PROVE  Moved
  BY <1>1, <1>4 DEF SubmitTask
<1>5. CASE Reviewer
  <2>1. ASSUME NEW u \in Tasks, NEW etag, NEW due, ReviseTask(etag, u, due) PROVE Moved
    BY <1>1, <2>1 DEF ReviseTask, Open
  <2>2. ASSUME NEW u \in Tasks, NEW etag, NEW sub, AcceptTask(etag, u, sub) PROVE Moved
    BY <1>1, <2>2 DEF AcceptTask
  <2>3. ASSUME NEW u \in Tasks, NEW etag, NEW sub, NEW due, ReopenTask(etag, u, sub, due)
        PROVE  Moved
    BY <1>1, <2>3 DEF ReopenTask
  <2>4. ASSUME NEW u \in Tasks, NEW etag, CancelTask(etag, u) PROVE Moved
    BY <1>1, <2>4 DEF CancelTask
  <2> QED BY <1>3, <1>5, <2>1, <2>2, <2>3, <2>4 DEF Reviewer, StartReview, UpdateReview
<1>6. CASE Applicant
  BY <1>2, <1>4, <1>6 DEF Applicant, PatchCase, SubmitCase
<1>7. CASE Supervisor \/ Background \/ UNCHANGED vars
  BY <1>7 DEF Supervisor, Background, DecideCase, CorrectDecision, CloseCase, CompleteUpload,
              ScanFile, ClaimReminder, Tick, vars
<1> QED BY <1>5, <1>6, <1>7 DEF Next

\* A step writes a review item with the next version, or leaves it.
LEMMA ItemVersion ==
  ASSUME TypeOK, Untouched, [Next]_vars, NEW c \in Criteria
  PROVE  \/ items'[c] = items[c]
         \/ items'[c].version = items[c].version + 1 /\ status' \notin {"DRAFT", "RECEIVED"}
<1>0. items \in [Criteria -> ItemRow]
  BY DEF TypeOK
<1> DEFINE Moved == \/ items'[c] = items[c]
                    \/ items'[c].version = items[c].version + 1 /\ status' \notin {"DRAFT", "RECEIVED"}
<1>1. ASSUME NEW etag, StartReview(etag) PROVE Moved
  <2>1. items'[c].version = 1 /\ items[c].version = 0 /\ status' = "UNDER_REVIEW"
    BY <1>1 DEF StartReview, Untouched
  <2> QED BY <2>1
<1>2. ASSUME NEW b \in Criteria, NEW etag, NEW result, NEW ref, UpdateReview(etag, b, result, ref)
      PROVE  Moved
  <2>1. status' = "UNDER_REVIEW"
    BY <1>2 DEF UpdateReview
  <2>2. c = b => items'[c].version = items[c].version + 1
    BY <1>0, <1>2 DEF UpdateReview
  <2>3. c # b => items'[c] = items[c]
    BY <1>0, <1>2 DEF UpdateReview
  <2> QED BY <2>1, <2>2, <2>3
<1>3. CASE Applicant
  BY <1>3 DEF Applicant, PatchCase, SubmitCase, WithdrawCase, SubmitTask
<1>4. CASE Reviewer
  BY <1>1, <1>2, <1>4 DEF Reviewer, CreateTask, ReviseTask, AcceptTask, ReopenTask, CancelTask
<1>5. CASE Supervisor \/ Background \/ UNCHANGED vars
  BY <1>5 DEF Supervisor, Background, DecideCase, CorrectDecision, CloseCase, CompleteUpload,
              ScanFile, ClaimReminder, Tick, vars
<1> QED BY <1>3, <1>4, <1>5 DEF Next

\* What is not written stays blank.
LEMMA BlankStep ==
  ASSUME TypeOK, Untouched, [Next]_vars
  PROVE  Untouched'
<1>1. \A t \in Tasks : tasks'[t].status = "NONE" => tasks'[t].version = 0
  BY TaskVersion DEF Untouched
<1>2. status' \in {"DRAFT", "RECEIVED"} => status \in {"DRAFT", "RECEIVED"}
  <2>1. CASE Applicant
    <3>1. CASE \E etag \in Etags, fs \in SUBSET Files : SubmitCase(etag, fs)
      BY <3>1 DEF SubmitCase
    <3>2. CASE \E etag \in Etags : WithdrawCase(etag)
      BY <3>2 DEF WithdrawCase
    <3>3. CASE \E etag \in Etags, data \in Forms : PatchCase(etag, data)
      BY <3>3 DEF PatchCase
    <3>4. CASE \E t \in Tasks : \E etag \in 1..tasks[t].version, revision \in 1..tasks[t].revision,
                                  fs \in SUBSET Files : SubmitTask(etag, t, revision, fs)
      BY <3>4 DEF SubmitTask
    <3> QED
      BY <2>1, <3>1, <3>2, <3>3, <3>4 DEF Applicant
  <2>2. CASE Reviewer
    <3>1. ASSUME NEW etag, StartReview(etag)
          PROVE  status' = "UNDER_REVIEW"
      BY <3>1 DEF StartReview
    <3>2. ASSUME NEW etag, NEW t, NEW due, NEW sub,
                 \/ CreateTask(t, due) \/ ReviseTask(etag, t, due) \/ AcceptTask(etag, t, sub)
                 \/ ReopenTask(etag, t, sub, due) \/ CancelTask(etag, t)
          PROVE  status' = status
      BY <3>2 DEF CreateTask, ReviseTask, AcceptTask, ReopenTask, CancelTask
    <3>3. ASSUME NEW etag, NEW c, NEW result, NEW evidence, UpdateReview(etag, c, result, evidence)
          PROVE  status' = status
      BY <3>3 DEF UpdateReview
    <3> QED
      BY <2>2, <3>1, <3>2, <3>3 DEF Reviewer
  <2>3. CASE Supervisor
    BY <2>3 DEF Supervisor, DecideCase, CorrectDecision, CloseCase
  <2>4. CASE Background \/ UNCHANGED vars
    BY <2>4 DEF Background, CompleteUpload, ScanFile, ClaimReminder, Tick, vars
  <2> QED BY <2>1, <2>2, <2>3, <2>4 DEF Next
<1>3. status' \in {"DRAFT", "RECEIVED"} => \A c \in Criteria : items'[c].version = 0
  BY <1>2, ItemVersion DEF Untouched
<1> QED BY <1>1, <1>3 DEF Untouched

\* The case's version moves whenever its status, a task or a review item does.
LEMMA CaseVersion ==
  ASSUME [Next]_vars
  PROVE  Event \/ UNCHANGED <<version, status, tasks, items>>
<1>1. CASE Applicant
  BY <1>1 DEF Applicant, PatchCase, SubmitCase, WithdrawCase, SubmitTask
<1>2. CASE Reviewer
  BY <1>2 DEF Reviewer, StartReview, CreateTask, ReviseTask, AcceptTask, ReopenTask, CancelTask,
              UpdateReview
<1>3. CASE Supervisor
  BY <1>3 DEF Supervisor, DecideCase, CorrectDecision, CloseCase
<1>4. CASE Background \/ UNCHANGED vars
  BY <1>4 DEF Background, CompleteUpload, ScanFile, ClaimReminder, Tick, vars
<1> QED BY <1>1, <1>2, <1>3, <1>4 DEF Next

---------------------------------------------------------------------------
(* Pages.                                                                  *)

\* What a page knows of its case, its tasks and its items, once it has read them.
KnowsCase(p) == p.etag <= version /\ (p.etag = version => p.status = status)

KnowsTasks(p) ==
  /\ p.etag = version => p.tasks = tasks
  /\ \A t \in Tasks : /\ p.tasks[t].version <= tasks[t].version
                      /\ p.tasks[t].version = tasks[t].version => p.tasks[t] = tasks[t]

KnowsItems(p) ==
  /\ p.etag = version => p.items = items
  /\ \A c \in Criteria : /\ p.items[c].version <= items[c].version
                         /\ p.items[c].version = items[c].version => p.items[c] = items[c]

Knows(p) ==
  /\ p.step # "none" => KnowsCase(p)
  /\ p.step \in {"tasks", "shown"} => KnowsTasks(p)
  /\ p.step = "shown" => KnowsItems(p)

PageInv == \A s \in Supervisors : Knows(page[s])

\* A page's columns, by how far it is loaded.
LEMMA PageColumns ==
  ASSUME NEW p \in {NoPage} \cup CasePage \cup TasksPage \cup ShownPage
  PROVE  /\ p.step \in {"none", "case", "tasks", "shown"}
         /\ p.step # "none" => p.etag \in Nat /\ p.status \in CaseStates
         /\ p.step \in {"tasks", "shown"} => p.tasks \in [Tasks -> TaskRow]
         /\ p.step = "shown" => p.items \in [Criteria -> ItemRow]
BY DEF NoPage, CasePage, TasksPage, ShownPage

\* What a page knows stays true, or the version it goes by is overtaken.
LEMMA StillKnows ==
  ASSUME TypeOK, Untouched, [Next]_vars, NEW p \in {NoPage} \cup CasePage \cup TasksPage \cup ShownPage,
         Knows(p)
  PROVE  Knows(p)'
<1>1. version \in Nat /\ tasks \in [Tasks -> TaskRow] /\ items \in [Criteria -> ItemRow]
  BY DEF TypeOK
<1>2. \/ version' = version + 1
      \/ UNCHANGED <<version, status, tasks, items>>
  BY CaseVersion DEF Event
<1>3. ASSUME p.step # "none"
      PROVE  p.etag <= version' /\ (p.etag = version' => p.status = status')
  BY <1>1, <1>2, <1>3, PageColumns DEF Knows, KnowsCase
<1>4. ASSUME p.step \in {"tasks", "shown"}, p.etag = version' PROVE p.tasks = tasks'
  BY <1>1, <1>2, <1>4, PageColumns DEF Knows, KnowsCase, KnowsTasks
<1>5. ASSUME p.step \in {"tasks", "shown"}, NEW t \in Tasks
      PROVE  /\ p.tasks[t].version <= tasks'[t].version
             /\ p.tasks[t].version = tasks'[t].version => p.tasks[t] = tasks'[t]
  <2>1. p.tasks[t].version \in Nat /\ tasks[t].version \in Nat
    BY <1>1, <1>5, PageColumns DEF TaskRow
  <2>2. /\ p.tasks[t].version <= tasks[t].version
        /\ p.tasks[t].version = tasks[t].version => p.tasks[t] = tasks[t]
    BY <1>5 DEF Knows, KnowsTasks
  <2>3. tasks'[t] = tasks[t] \/ tasks'[t].version = tasks[t].version + 1
    BY TaskVersion
  <2> QED BY <2>1, <2>2, <2>3
<1>6. ASSUME p.step = "shown", p.etag = version' PROVE p.items = items'
  BY <1>1, <1>2, <1>6, PageColumns DEF Knows, KnowsCase, KnowsItems
<1>7. ASSUME p.step = "shown", NEW c \in Criteria
      PROVE  /\ p.items[c].version <= items'[c].version
             /\ p.items[c].version = items'[c].version => p.items[c] = items'[c]
  <2>1. p.items[c].version \in Nat /\ items[c].version \in Nat
    BY <1>1, <1>7, PageColumns DEF ItemRow
  <2>2. /\ p.items[c].version <= items[c].version
        /\ p.items[c].version = items[c].version => p.items[c] = items[c]
    BY <1>7 DEF Knows, KnowsItems
  <2>3. items'[c] = items[c] \/ items'[c].version = items[c].version + 1
    BY ItemVersion
  <2> QED BY <2>1, <2>2, <2>3
<1> QED BY <1>3, <1>4, <1>5, <1>6, <1>7 DEF Knows, KnowsCase, KnowsTasks, KnowsItems

\* Each read finds the rows as they are: the page knows what it has just read, and
\* still knows what it read before.
LEMMA ReadingKnows ==
  ASSUME TypeOK, PageTypeOK, NEW s \in Supervisors, Knows(page[s]),
         ReadCase(s) \/ ReadTasks(s) \/ ReadItems(s)
  PROVE  /\ page'[s] \in CasePage \cup TasksPage \cup ShownPage
         /\ Knows(page[s])'
         /\ \A r \in Supervisors : r # s => page'[r] = page[r]
<1>0. /\ version \in Nat /\ status \in CaseStates
      /\ tasks \in [Tasks -> TaskRow] /\ items \in [Criteria -> ItemRow]
      /\ page[s] \in {NoPage} \cup CasePage \cup TasksPage \cup ShownPage
      /\ page \in [Supervisors -> {NoPage} \cup CasePage \cup TasksPage \cup ShownPage]
  BY DEF TypeOK, PageTypeOK
<1>1. UNCHANGED <<version, status, tasks, items>> /\ \A r \in Supervisors : r # s => page'[r] = page[r]
  BY <1>0 DEF ReadCase, ReadTasks, ReadItems, vars
<1>2. CASE ReadCase(s)
  <2> DEFINE p == [step |-> "case", etag |-> version, status |-> status]
  <2>1. page'[s] = p
    BY <1>0, <1>2 DEF ReadCase
  <2>2. p \in CasePage
    BY <1>0 DEF CasePage
  <2>3. p.step = "case" /\ p.etag = version /\ p.status = status
    OBVIOUS
  <2> HIDE DEF p
  <2> QED BY <1>0, <1>1, <2>1, <2>2, <2>3 DEF Knows, KnowsCase
<1>3. CASE ReadTasks(s)
  <2> DEFINE p == [step |-> "tasks", etag |-> page[s].etag, status |-> page[s].status,
                   tasks |-> tasks]
  <2>1. page'[s] = p /\ page[s].step = "case"
    BY <1>0, <1>3 DEF ReadTasks
  <2>2. page[s].etag \in Nat /\ page[s].status \in CaseStates
    BY <1>0, <2>1, PageColumns
  <2>3. p \in TasksPage
    BY <1>0, <2>2 DEF TasksPage
  <2>4. p.step = "tasks" /\ p.etag = page[s].etag /\ p.status = page[s].status /\ p.tasks = tasks
    OBVIOUS
  <2> HIDE DEF p
  <2>5. KnowsCase(p) /\ KnowsTasks(p)
    BY <1>0, <2>1, <2>4 DEF Knows, KnowsCase, KnowsTasks, TaskRow
  <2> QED BY <1>1, <2>1, <2>3, <2>4, <2>5 DEF Knows, KnowsCase, KnowsTasks
<1>4. CASE ReadItems(s)
  <2> DEFINE p == [step |-> "shown", etag |-> page[s].etag, status |-> page[s].status,
                   tasks |-> page[s].tasks, items |-> items]
  <2>1. page'[s] = p /\ page[s].step = "tasks"
    BY <1>0, <1>4 DEF ReadItems
  <2>2. page[s].etag \in Nat /\ page[s].status \in CaseStates /\ page[s].tasks \in [Tasks -> TaskRow]
    BY <1>0, <2>1, PageColumns
  <2>3. p \in ShownPage
    BY <1>0, <2>2 DEF ShownPage
  <2>4. /\ p.step = "shown" /\ p.etag = page[s].etag /\ p.status = page[s].status
        /\ p.tasks = page[s].tasks /\ p.items = items
    OBVIOUS
  <2> HIDE DEF p
  <2>5. KnowsCase(p) /\ KnowsTasks(p)
    BY <2>1, <2>4 DEF Knows, KnowsCase, KnowsTasks
  <2>6. KnowsItems(p)
    BY <1>0, <2>4 DEF KnowsItems, ItemRow
  <2> QED BY <1>1, <2>1, <2>3, <2>4, <2>5, <2>6 DEF Knows, KnowsCase, KnowsTasks, KnowsItems
<1> QED BY <1>1, <1>2, <1>3, <1>4

\* The inductive invariant of the pages.
KnowledgeInv == PageTypeOK /\ Untouched /\ PageInv

\* A page that is reset knows nothing wrong.
LEMMA ResetKnows ==
  ASSUME NEW s \in Supervisors, PageTypeOK, page' = [page EXCEPT ![s] = NoPage]
  PROVE  /\ page'[s] = NoPage /\ Knows(page[s])'
         /\ \A r \in Supervisors : r # s => page'[r] = page[r]
<1>1. /\ page'[s] = NoPage
      /\ \A r \in Supervisors : r # s => page'[r] = page[r]
  BY DEF PageTypeOK
<1>2. NoPage.step = "none"
  BY DEF NoPage
<1> QED BY <1>1, <1>2 DEF Knows

\* Reading, resetting, and the work of others keep every page truthful.
LEMMA KnowledgeStep ==
  ASSUME TypeOK, Served, KnowledgeInv, [PageNext]_pageVars, [Next]_vars
  PROVE  KnowledgeInv'
<1> DEFINE Pages == {NoPage} \cup CasePage \cup TasksPage \cup ShownPage
<1>1. Untouched'
  BY BlankStep DEF KnowledgeInv
<1>2. ASSUME NEW r \in Supervisors, page'[r] = page[r] PROVE Knows(page[r])'
  <2>1. PICK p \in Pages : p = page[r]
    BY DEF KnowledgeInv, PageTypeOK
  <2>2. Knows(p)
    BY <2>1 DEF KnowledgeInv, PageInv
  <2>3. Knows(p)'
    BY <2>1, <2>2, StillKnows DEF KnowledgeInv
  <2> QED BY <1>2, <2>1, <2>3 DEF Knows, KnowsCase, KnowsTasks, KnowsItems
<1>3. page \in [Supervisors -> Pages]
  BY DEF KnowledgeInv, PageTypeOK
<1>4. ASSUME NEW s \in Supervisors, ReadCase(s) \/ ReadTasks(s) \/ ReadItems(s)
      PROVE  PageTypeOK' /\ PageInv'
  <2>1. /\ page'[s] \in Pages /\ Knows(page[s])'
        /\ \A r \in Supervisors : r # s => page'[r] = page[r]
    BY <1>4, ReadingKnows DEF KnowledgeInv, PageInv
  <2>2. page' \in [Supervisors -> Pages]
    <3>1. \A r \in Supervisors : page'[r] \in Pages
      BY <1>3, <2>1
    <3>2. page' = [r \in Supervisors |-> page'[r]]
      BY <1>3, <1>4 DEF ReadCase, ReadTasks, ReadItems
    <3> HIDE DEF Pages
    <3> QED BY <3>1, <3>2
  <2> QED BY <1>2, <2>1, <2>2 DEF PageTypeOK, PageInv
<1>5. ASSUME NEW s \in Supervisors, page' = [page EXCEPT ![s] = NoPage]
      PROVE  PageTypeOK' /\ PageInv'
  <2>1. page' \in [Supervisors -> Pages]
    BY <1>3, <1>5
  <2>2. Knows(page[s])' /\ \A r \in Supervisors : r # s => page'[r] = page[r]
    BY <1>5, ResetKnows DEF KnowledgeInv
  <2> QED BY <1>2, <2>1, <2>2 DEF PageTypeOK, PageInv
<1>6. ASSUME UNCHANGED page PROVE PageTypeOK' /\ PageInv'
  BY <1>2, <1>3, <1>6 DEF PageTypeOK, PageInv
<1>7. ASSUME FromPage PROVE PageTypeOK' /\ PageInv'
  BY <1>5, <1>7 DEF FromPage, Decide, Close
<1>8. PageTypeOK' /\ PageInv'
  BY <1>4, <1>6, <1>5, <1>7 DEF PageNext, Loading, Others, pageVars
<1> QED BY <1>1, <1>8 DEF KnowledgeInv

\* The pages start empty and stay truthful.
THEOREM PagesStayTruthful == PageSpec => []KnowledgeInv
<1>1. PageInit => KnowledgeInv /\ Served
  <2> SUFFICES ASSUME PageInit PROVE KnowledgeInv /\ Served
    OBVIOUS
  <2>1. PageTypeOK /\ PageInv
    BY DEF PageInit, PageTypeOK, PageInv, Knows, NoPage
  <2>2. Untouched
    BY DEF PageInit, Init, Untouched, NoRow
  <2>3. Served
    BY DEF PageInit, Init, Served
  <2> QED BY <2>1, <2>2, <2>3 DEF KnowledgeInv
<1>2. Served /\ [PageNext]_pageVars => Served'
  BY VersionStep DEF Served, Event
<1>3. TypeOK /\ Served /\ KnowledgeInv /\ [PageNext]_pageVars /\ [Next]_vars => KnowledgeInv'
  BY KnowledgeStep
<1> QED BY <1>1, <1>2, <1>3, TypeCorrect, PagesAreBeside, PTL DEF PageSpec, Spec

\* A page holds rows of the tables it read, however its requests are interleaved.
THEOREM PageTypeCorrect == PageSpec => []PageTypeOK
BY PagesStayTruthful, PTL DEF KnowledgeInv

\* A page whose ETag is current shows current content, although it read the case,
\* the tasks and the review items one after the other.
THEOREM EtagsNameContent == PageSpec => []EtagNamesContent
<1>1. KnowledgeInv => EtagNamesContent
  BY DEF KnowledgeInv, PageInv, Knows, KnowsCase, KnowsTasks, KnowsItems, EtagNamesContent
<1> QED BY <1>1, PagesStayTruthful, PTL

\* The first decision is taken on the tasks and review items its supervisor saw.
THEOREM NobodyDecidesBlind == PageSpec => DecidedOnWhatWasSeen
<1> DEFINE Seen == Len(decisions') > Len(decisions) =>
                     \E s \in Supervisors : /\ page[s].step = "shown" /\ page'[s] = NoPage
                                            /\ page[s].tasks = tasks
                                            /\ page[s].items = items
<1>1. TypeOK /\ KnowledgeInv /\ [PageNext]_pageVars => [Seen]_pageVars
  <2> SUFFICES ASSUME TypeOK, KnowledgeInv, [PageNext]_pageVars, Len(decisions') > Len(decisions)
               PROVE  \E s \in Supervisors : /\ page[s].step = "shown" /\ page'[s] = NoPage
                                             /\ page[s].tasks = tasks
                                             /\ page[s].items = items
    OBVIOUS
  <2>1. decisions' # decisions
    BY DEF TypeOK
  <2>2. ASSUME NEW s \in Supervisors, NEW outcome, NEW replaced, Decide(s, outcome, replaced)
        PROVE  /\ page[s].step = "shown" /\ page'[s] = NoPage
               /\ page[s].tasks = tasks /\ page[s].items = items
    <3>1. page[s].step = "shown" /\ page[s].etag = version /\ page' = [page EXCEPT ![s] = NoPage]
      BY <2>2 DEF Decide, DecisionOffered, DecideCase, CheckVersion
    <3>2. page[s].tasks = tasks /\ page[s].items = items
      BY <3>1 DEF KnowledgeInv, PageInv, Knows, KnowsTasks, KnowsItems
    <3> QED BY <3>1, <3>2, ResetKnows DEF KnowledgeInv
  <2>3. ASSUME (Applicant \/ Reviewer \/ Background) \/ UNCHANGED vars PROVE FALSE
    <3>1. UNCHANGED decisions
      BY <2>3 DEF Applicant, Reviewer, Background, PatchCase, SubmitCase, WithdrawCase, SubmitTask,
                  StartReview, CreateTask, ReviseTask, AcceptTask, ReopenTask, CancelTask,
                  UpdateReview, CompleteUpload, ScanFile, ClaimReminder, Tick, vars
    <3> QED BY <2>1, <3>1
  <2>4. ASSUME NEW s, Close(s) PROVE FALSE
    BY <2>1, <2>4 DEF Close, CloseCase
  <2> QED BY <2>2, <2>3, <2>4, PageSteps
<1> QED BY <1>1, PagesStayTruthful, PagesAreBeside, TypeCorrect, PTL
        DEF PageSpec, DecidedOnWhatWasSeen

---------------------------------------------------------------------------
(* The documents of the grant.                                             *)

\* What the page asks for has the types that the server asks for, whatever the answers.
LEMMA DocumentsAgree ==
  ASSUME NEW f, f.special \in BOOLEAN
  PROVE  OnDocuments!SentTypes(f) = OnDocuments!ServerRequires(f)
<1>1. OnDocuments!ServerRequires(f) =
        OnDocuments!GrantDocuments \cup (IF f.special THEN {"SPECIAL_STATUS"} ELSE {})
                                  \cup (IF f.payer = "relative" THEN {"RELATIONSHIP"} ELSE {})
  <2> DEFINE Special == [field |-> "special", equals |-> TRUE, types |-> {"SPECIAL_STATUS"}]
             Payer == [field |-> "payer", equals |-> "relative", types |-> {"RELATIONSHIP"}]
             Hold == {d \in OnDocuments!Conditions : OnDocuments!Holds(f, d)}
  <2>1. OnDocuments!Conditions = {Special, Payer} BY DEF OnDocuments!Conditions
  <2>2. OnDocuments!Holds(f, Special) <=> f.special
    <3>1. (f.special = TRUE) <=> f.special OBVIOUS
    <3> QED BY <3>1 DEF OnDocuments!Holds
  <2>3. OnDocuments!Holds(f, Payer) <=> f.payer = "relative" BY DEF OnDocuments!Holds
  <2>4. Special.types = {"SPECIAL_STATUS"} /\ Payer.types = {"RELATIONSHIP"} OBVIOUS
  <2> HIDE DEF Special, Payer
  <2>5. Hold = (IF f.special THEN {Special} ELSE {})
                 \cup (IF f.payer = "relative" THEN {Payer} ELSE {})
    BY <2>1, <2>2, <2>3
  <2>6. UNION {c.types : c \in Hold} =
          (IF f.special THEN {"SPECIAL_STATUS"} ELSE {})
            \cup (IF f.payer = "relative" THEN {"RELATIONSHIP"} ELSE {})
    BY <2>4, <2>5
  <2> QED BY <2>6 DEF OnDocuments!ServerRequires
<1>2. {OnDocuments!TypeById[d] : d \in OnDocuments!BaseDocs} = OnDocuments!GrantDocuments
  BY DEF OnDocuments!TypeById, OnDocuments!BaseDocs, OnDocuments!GrantDocuments
<1>3. /\ OnDocuments!TypeById["special"] = "SPECIAL_STATUS"
      /\ OnDocuments!TypeById["relationship"] = "RELATIONSHIP"
  BY DEF OnDocuments!TypeById
<1> QED BY <1>1, <1>2, <1>3 DEF OnDocuments!RequiredDocs, OnDocuments!SentTypes

---------------------------------------------------------------------------
(* The amount of the grant.                                                *)

\* A change of the form keeps its fields what they may be.
LEMMA AmountFields ==
  ASSUME PageRulesAssumption, fields \in OnAmounts!Values, OnAmounts!Next
  PROVE  fields' \in OnAmounts!Values
<1>0. ByAmount.amounts \subseteq Nat /\ ByAmount.tools \subseteq {"banned", "listed", "other"}
      /\ ByAmount.channels \subseteq {"official", "reseller", "unknown"}
      /\ ByAmount.plans \subseteq {"monthly", "annual", "credits"}
      /\ ByAmount.dates \subseteq {"before", "between", "after"}
  BY DEF PageRulesAssumption, OnAmounts!RulesAssumption
<1>1. ASSUME NEW f \in OnAmounts!Values, OnAmounts!Update(f) PROVE fields' \in OnAmounts!Values
  BY <1>1 DEF OnAmounts!Update, OnAmounts!Values
<1>2. CASE OnAmounts!EditTexts
  <2> PICK t \in ByAmount.texts :
        \/ OnAmounts!Update([fields EXCEPT !.name = t]) \/ OnAmounts!Update([fields EXCEPT !.receiptName = t])
        \/ OnAmounts!Update([fields EXCEPT !.bankName = t])
        \/ OnAmounts!Update([fields EXCEPT !.receiptEmail = t])
    BY <1>2 DEF OnAmounts!EditTexts
  <2> QED BY <1>1 DEF OnAmounts!Values
<1>3. CASE OnAmounts!EditAmounts
  <2> PICK a \in ByAmount.amounts :
        \/ OnAmounts!Update([fields EXCEPT !.amount = a]) \/ OnAmounts!Update([fields EXCEPT !.requested = a])
        \/ OnAmounts!Update([fields EXCEPT !.receiptAmount = a])
    BY <1>3 DEF OnAmounts!EditAmounts
  <2> QED BY <1>0, <1>1 DEF OnAmounts!Values
<1>4. CASE OnAmounts!EditChoices
  <2>1. CASE OnAmounts!Update([fields EXCEPT !.special = ~@])
    <3>1. [fields EXCEPT !.special = ~@] \in OnAmounts!Values BY DEF OnAmounts!Values
    <3> QED BY <1>1, <2>1, <3>1
  <2>2. ASSUME NEW p \in {"self", "relative"}, OnAmounts!Update([fields EXCEPT !.payer = p])
        PROVE  fields' \in OnAmounts!Values
    BY <1>1, <2>2 DEF OnAmounts!Values
  <2>3. ASSUME NEW t \in ByAmount.tools, OnAmounts!Update([fields EXCEPT !.tool = t])
        PROVE  fields' \in OnAmounts!Values
    BY <1>0, <1>1, <2>3 DEF OnAmounts!Values
  <2>4. ASSUME NEW c \in ByAmount.channels, OnAmounts!Update([fields EXCEPT !.channel = c])
        PROVE  fields' \in OnAmounts!Values
    BY <1>0, <1>1, <2>4 DEF OnAmounts!Values
  <2>5. ASSUME NEW p \in ByAmount.plans, OnAmounts!Update([fields EXCEPT !.plan = p])
        PROVE  fields' \in OnAmounts!Values
    BY <1>0, <1>1, <2>5 DEF OnAmounts!Values
  <2>6. ASSUME NEW d \in ByAmount.dates,
               \/ OnAmounts!Update([fields EXCEPT !.purchase = d])
               \/ OnAmounts!Update([fields EXCEPT !.birth = d])
        PROVE  fields' \in OnAmounts!Values
    BY <1>0, <1>1, <2>6 DEF OnAmounts!Values, OnAmounts!Days
  <2> QED BY <1>4, <2>1, <2>2, <2>3, <2>4, <2>5, <2>6 DEF OnAmounts!EditChoices
<1>5. CASE OnAmounts!AdoptIdentity
  <2> PICK t \in ByAmount.texts, c \in {"city", "county"}, b \in ByAmount.dates :
        fields' = [fields EXCEPT !.name = t, !.city = c, !.birth = b, !.hint = TRUE]
    BY <1>5 DEF OnAmounts!AdoptIdentity
  <2> QED BY <1>0 DEF OnAmounts!Values, OnAmounts!Days
<1>6. CASE OnAmounts!FillEstimate
  <2>1. fields.amount \in Nat BY <1>0 DEF OnAmounts!Values
  <2>2. OnAmounts!Estimate(fields) \in Nat
    <3>1. CASE fields.special BY <2>1, <3>1 DEF OnAmounts!Estimate, OnAmounts!Percent, OnAmounts!Cap
    <3>2. CASE ~fields.special BY <2>1, <3>2 DEF OnAmounts!Estimate, OnAmounts!Percent, OnAmounts!Cap
    <3> QED BY <3>1, <3>2
  <2>3. [fields EXCEPT !.requested = OnAmounts!Estimate(fields)] \in OnAmounts!Values
    BY <2>2 DEF OnAmounts!Values
  <2> QED BY <1>1, <1>6, <2>3 DEF OnAmounts!FillEstimate
<1>7. CASE \E k \in OnAmounts!Types : OnAmounts!Upload(k)
  BY <1>7 DEF OnAmounts!Upload
<1>8. CASE OnAmounts!Submit
  BY <1>8 DEF OnAmounts!Submit
<1> QED BY <1>2, <1>3, <1>4, <1>5, <1>6, <1>7, <1>8 DEF OnAmounts!Next

\* The estimate in whole cents, and what the share of the amount has to do with it.
LEMMA EstimateBounds ==
  ASSUME PageRulesAssumption, fields \in OnAmounts!Values
  PROVE  /\ OnAmounts!Estimate(fields) \in Nat
         /\ 100 * OnAmounts!Estimate(fields) <= OnAmounts!Percent(fields) * fields.amount
         /\ OnAmounts!Estimate(fields) <= OnAmounts!Cap(fields)
<1>1. fields.amount \in Nat
  BY DEF OnAmounts!Values, PageRulesAssumption, OnAmounts!RulesAssumption
<1>2. CASE fields.special
  BY <1>1, <1>2 DEF OnAmounts!Estimate, OnAmounts!Percent, OnAmounts!Cap
<1>3. CASE ~fields.special
  BY <1>1, <1>3 DEF OnAmounts!Estimate, OnAmounts!Percent, OnAmounts!Cap
<1> QED BY <1>1, <1>2, <1>3

LEMMA AmountsCovered ==
  ASSUME PageRulesAssumption, fields \in OnAmounts!Values
  PROVE  OnAmounts!AmountIsCovered
<1>1. fields.amount \in Nat /\ fields.requested \in Nat /\ fields.receiptAmount \in Nat
  BY DEF OnAmounts!Values, PageRulesAssumption, OnAmounts!RulesAssumption
<1>e. OnAmounts!Percent(fields) = IF fields.special THEN 90 ELSE 50
  BY DEF OnAmounts!Percent
<1>2. ASSUME OnAmounts!Amount(fields) = "pass"
      PROVE  /\ 100 * (fields.requested - 1) <= OnAmounts!Percent(fields) * (fields.receiptAmount + 1)
             /\ fields.requested - 1 <= OnAmounts!Cap(fields)
  <2>1. OnAmounts!AmountMatch(fields) BY <1>2 DEF OnAmounts!Amount
  <2>2. /\ fields.requested - 1 <= OnAmounts!Estimate(fields)
        /\ fields.amount <= fields.receiptAmount + 1
    BY <1>1, <2>1, EstimateBounds DEF OnAmounts!AmountMatch, OnAmounts!Near
  <2>3. OnAmounts!Cap(fields) \in Nat BY DEF OnAmounts!Cap
  <2> QED BY <1>1, <1>e, <2>2, <2>3, EstimateBounds
<1>3. ASSUME OnAmounts!AmountValid(fields),
             100 * (fields.requested - 1) > OnAmounts!Percent(fields) * fields.amount
      PROVE  OnAmounts!Amount(fields) = "error"
  <2>1. fields.requested - 1 > OnAmounts!Estimate(fields)
    BY <1>1, <1>e, <1>3, EstimateBounds
  <2>2. ~OnAmounts!AmountMatch(fields)
    BY <1>1, <2>1, EstimateBounds DEF OnAmounts!AmountMatch, OnAmounts!Near
  <2>3. fields.requested > OnAmounts!Estimate(fields) BY <1>1, <2>1, EstimateBounds
  <2> QED BY <2>2, <2>3 DEF OnAmounts!Amount
<1> QED BY <1>2, <1>3 DEF OnAmounts!AmountIsCovered

\* The same of the other instance: it differs in what may be entered only.
LEMMA AmountDocuments ==
  ASSUME fields \in OnAmounts!Values
  PROVE  OnAmounts!ServerRequires(fields) = {OnAmounts!TypeById[d] : d \in OnAmounts!RequiredDocs(fields)}
<1>1. fields.special \in BOOLEAN BY DEF OnAmounts!Values
<1>2. OnAmounts!ServerRequires(fields) = OnDocuments!ServerRequires(fields)
  BY DEF OnAmounts!ServerRequires, OnDocuments!ServerRequires, OnAmounts!GrantDocuments,
         OnDocuments!GrantDocuments, OnAmounts!Conditions, OnDocuments!Conditions, OnAmounts!Holds,
         OnDocuments!Holds
<1>3. {OnAmounts!TypeById[d] : d \in OnAmounts!RequiredDocs(fields)} = OnDocuments!SentTypes(fields)
  BY DEF OnAmounts!TypeById, OnDocuments!TypeById, OnAmounts!RequiredDocs, OnDocuments!RequiredDocs,
         OnAmounts!BaseDocs, OnDocuments!BaseDocs, OnDocuments!SentTypes
<1> QED BY <1>1, <1>2, <1>3, DocumentsAgree

LEMMA ErrorFreeSound ==
  ASSUME PageRulesAssumption, fields \in OnAmounts!Values
  PROVE  OnAmounts!ErrorFreeIsSound
<1> DEFINE Found == OnAmounts!Findings(fields)
<1> SUFFICES ASSUME \A d \in DOMAIN Found : Found[d] # "error"
             PROVE  /\ fields.tool # "banned" /\ fields.plan # "credits" /\ fields.channel # "reseller"
                    /\ fields.city = "city" /\ fields.birth = "between" /\ fields.purchase = "between"
                    /\ 100 * (fields.requested - 1) <= OnAmounts!Percent(fields) * fields.amount
                    /\ fields.bankName = fields.name
                    /\ OnAmounts!ServerRequires(fields) \subseteq uploaded
  BY DEF OnAmounts!ErrorFreeIsSound
<1>1. /\ OnAmounts!Docs(fields) # "error" /\ OnAmounts!Tool(fields) # "error"
      /\ OnAmounts!Channel(fields) # "error" /\ OnAmounts!Amount(fields) # "error"
      /\ OnAmounts!Bank(fields) # "error" /\ OnAmounts!Eligibility(fields) # "error"
      /\ OnAmounts!Date(fields) # "error"
  BY DEF OnAmounts!Findings
<1>2. fields.tool # "banned" BY <1>1 DEF OnAmounts!Tool
<1>3. fields.plan # "credits" /\ fields.channel # "reseller" BY <1>1 DEF OnAmounts!Channel
<1>4. fields.city = "city" /\ fields.birth = "between" BY <1>1 DEF OnAmounts!Eligibility
<1>5. fields.purchase = "between" BY <1>1 DEF OnAmounts!Date
<1>6. fields.bankName = fields.name BY <1>1 DEF OnAmounts!Bank
<1>7. OnAmounts!ServerRequires(fields) \subseteq uploaded
  <2>1. OnAmounts!Missing(fields) = {} BY <1>1 DEF OnAmounts!Docs
  <2> QED BY <2>1, AmountDocuments DEF OnAmounts!Missing
<1>8. 100 * (fields.requested - 1) <= OnAmounts!Percent(fields) * fields.amount
  <2>1. fields.amount \in Nat /\ fields.requested \in Nat /\ OnAmounts!Percent(fields) \in Nat
    BY DEF OnAmounts!Values, PageRulesAssumption, OnAmounts!RulesAssumption, OnAmounts!Percent
  <2>2. OnAmounts!AmountValid(fields) BY <1>1 DEF OnAmounts!Amount, OnAmounts!AmountMatch
  <2> QED BY <1>1, <2>1, <2>2, AmountsCovered DEF OnAmounts!AmountIsCovered
<1> QED BY <1>2, <1>3, <1>4, <1>5, <1>6, <1>7, <1>8

---------------------------------------------------------------------------
(* What is handed in, and the note of the card.                            *)

\* A change of the form that is no adoption of a card leaves the note to `update`.
DocumentEdit == \E f \in OnDocuments!Values : f.hint = fields.hint /\ OnDocuments!Update(f)

LEMMA DocumentSteps ==
  ASSUME PageRulesAssumption, fields \in OnDocuments!Values, OnDocuments!Next
  PROVE  \/ DocumentEdit
         \/ OnDocuments!AdoptIdentity
         \/ OnDocuments!Submit
         \/ UNCHANGED <<fields, adopted, lastSent>>
<1>0. ByDocument.amounts \subseteq Nat /\ ByDocument.tools \subseteq {"banned", "listed", "other"}
      /\ ByDocument.channels \subseteq {"official", "reseller", "unknown"}
      /\ ByDocument.plans \subseteq {"monthly", "annual", "credits"}
      /\ ByDocument.dates \subseteq {"before", "between", "after"}
  BY DEF PageRulesAssumption, OnDocuments!RulesAssumption
<1>1. ASSUME NEW f \in OnDocuments!Values, f.hint = fields.hint, OnDocuments!Update(f)
      PROVE  DocumentEdit
  BY <1>1 DEF DocumentEdit
<1>2. CASE OnDocuments!EditTexts
  <2> PICK t \in ByDocument.texts :
        \/ OnDocuments!Update([fields EXCEPT !.name = t]) \/ OnDocuments!Update([fields EXCEPT !.receiptName = t])
        \/ OnDocuments!Update([fields EXCEPT !.bankName = t])
        \/ OnDocuments!Update([fields EXCEPT !.receiptEmail = t])
    BY <1>2 DEF OnDocuments!EditTexts
  <2>1. CASE OnDocuments!Update([fields EXCEPT !.name = t])
    BY <1>1, <2>1 DEF OnDocuments!Values
  <2>2. CASE OnDocuments!Update([fields EXCEPT !.receiptName = t])
    BY <1>1, <2>2 DEF OnDocuments!Values
  <2>3. CASE OnDocuments!Update([fields EXCEPT !.bankName = t])
    BY <1>1, <2>3 DEF OnDocuments!Values
  <2>4. CASE OnDocuments!Update([fields EXCEPT !.receiptEmail = t])
    BY <1>1, <2>4 DEF OnDocuments!Values
  <2> QED BY <2>1, <2>2, <2>3, <2>4
<1>3. CASE OnDocuments!EditAmounts
  <2> PICK a \in ByDocument.amounts :
        \/ OnDocuments!Update([fields EXCEPT !.amount = a]) \/ OnDocuments!Update([fields EXCEPT !.requested = a])
        \/ OnDocuments!Update([fields EXCEPT !.receiptAmount = a])
    BY <1>3 DEF OnDocuments!EditAmounts
  <2>1. CASE OnDocuments!Update([fields EXCEPT !.amount = a])
    BY <1>0, <1>1, <2>1 DEF OnDocuments!Values
  <2>2. CASE OnDocuments!Update([fields EXCEPT !.requested = a])
    BY <1>0, <1>1, <2>2 DEF OnDocuments!Values
  <2>3. CASE OnDocuments!Update([fields EXCEPT !.receiptAmount = a])
    BY <1>0, <1>1, <2>3 DEF OnDocuments!Values
  <2> QED BY <2>1, <2>2, <2>3
<1>4. CASE OnDocuments!EditChoices
  <2>1. CASE OnDocuments!Update([fields EXCEPT !.special = ~@])
    <3> DEFINE f == [fields EXCEPT !.special = ~@]
    <3>1. f \in OnDocuments!Values BY DEF OnDocuments!Values
    <3>2. f.hint = fields.hint BY DEF OnDocuments!Values
    <3> QED BY <1>1, <2>1, <3>1, <3>2
  <2>2. ASSUME NEW p \in {"self", "relative"}, OnDocuments!Update([fields EXCEPT !.payer = p])
        PROVE  DocumentEdit
    BY <1>1, <2>2 DEF OnDocuments!Values
  <2>3. ASSUME NEW t \in ByDocument.tools, OnDocuments!Update([fields EXCEPT !.tool = t])
        PROVE  DocumentEdit
    BY <1>0, <1>1, <2>3 DEF OnDocuments!Values
  <2>4. ASSUME NEW c \in ByDocument.channels, OnDocuments!Update([fields EXCEPT !.channel = c])
        PROVE  DocumentEdit
    BY <1>0, <1>1, <2>4 DEF OnDocuments!Values
  <2>5. ASSUME NEW p \in ByDocument.plans, OnDocuments!Update([fields EXCEPT !.plan = p])
        PROVE  DocumentEdit
    BY <1>0, <1>1, <2>5 DEF OnDocuments!Values
  <2>6. ASSUME NEW d \in ByDocument.dates, OnDocuments!Update([fields EXCEPT !.purchase = d])
        PROVE  DocumentEdit
    BY <1>0, <1>1, <2>6 DEF OnDocuments!Values, OnDocuments!Days
  <2>7. ASSUME NEW d \in ByDocument.dates, OnDocuments!Update([fields EXCEPT !.birth = d])
        PROVE  DocumentEdit
    BY <1>0, <1>1, <2>7 DEF OnDocuments!Values, OnDocuments!Days
  <2> QED BY <1>4, <2>1, <2>2, <2>3, <2>4, <2>5, <2>6, <2>7 DEF OnDocuments!EditChoices
<1>5. CASE OnDocuments!FillEstimate
  <2>1. fields.amount \in Nat BY <1>0 DEF OnDocuments!Values
  <2>2. OnDocuments!Estimate(fields) \in Nat
    <3>1. CASE fields.special
      BY <2>1, <3>1 DEF OnDocuments!Estimate, OnDocuments!Percent, OnDocuments!Cap
    <3>2. CASE ~fields.special
      BY <2>1, <3>2 DEF OnDocuments!Estimate, OnDocuments!Percent, OnDocuments!Cap
    <3> QED BY <3>1, <3>2
  <2> DEFINE f == [fields EXCEPT !.requested = OnDocuments!Estimate(fields)]
  <2>3. f \in OnDocuments!Values /\ f.hint = fields.hint
    BY <2>2 DEF OnDocuments!Values
  <2> QED BY <1>1, <1>5, <2>3 DEF OnDocuments!FillEstimate
<1>6. CASE \E k \in OnDocuments!Types : OnDocuments!Upload(k)
  BY <1>6 DEF OnDocuments!Upload
<1> QED BY <1>2, <1>3, <1>4, <1>5, <1>6 DEF OnDocuments!Next

DocumentInv ==
  /\ fields \in OnDocuments!Values
  /\ OnDocuments!SentIsRequired
  /\ OnDocuments!HintIsTrue

\* Only the adoption of a card sets the note, and whatever is typed over it takes it away.
LEMMA DocumentStep ==
  ASSUME PageRulesAssumption, DocumentInv, OnDocuments!Next
  PROVE  DocumentInv'
<1>1. CASE DocumentEdit
  <2> PICK f \in OnDocuments!Values : f.hint = fields.hint /\ OnDocuments!Update(f)
    BY <1>1 DEF DocumentEdit
  <2>1. fields' = [f EXCEPT !.hint = @ /\ f.name = fields.name /\ f.birth = fields.birth]
        /\ UNCHANGED <<adopted, lastSent>>
    BY DEF OnDocuments!Update
  <2>2. fields' \in OnDocuments!Values BY <2>1 DEF OnDocuments!Values
  <2>3. /\ fields'.name = f.name /\ fields'.birth = f.birth
        /\ fields'.hint => f.hint /\ f.name = fields.name /\ f.birth = fields.birth
    BY <2>1 DEF OnDocuments!Values
  <2> QED BY <2>1, <2>2, <2>3 DEF DocumentInv, OnDocuments!SentIsRequired, OnDocuments!HintIsTrue
<1>2. CASE OnDocuments!AdoptIdentity
  <2> PICK t \in ByDocument.texts, c \in {"city", "county"}, b \in ByDocument.dates :
        /\ fields' = [fields EXCEPT !.name = t, !.city = c, !.birth = b, !.hint = TRUE]
        /\ adopted' = [name |-> t, birth |-> b]
        /\ UNCHANGED lastSent
    BY <1>2 DEF OnDocuments!AdoptIdentity
  <2>1. b \in {"before", "between", "after"} BY DEF PageRulesAssumption, OnDocuments!RulesAssumption
  <2>2. fields' \in OnDocuments!Values
    BY <2>1 DEF DocumentInv, OnDocuments!Values, OnDocuments!Days
  <2>3. fields'.name = t /\ fields'.birth = b BY DEF DocumentInv, OnDocuments!Values
  <2> QED BY <2>2, <2>3 DEF DocumentInv, OnDocuments!SentIsRequired, OnDocuments!HintIsTrue
<1>3. CASE OnDocuments!Submit
  <2>1. fields.special \in BOOLEAN BY DEF DocumentInv, OnDocuments!Values
  <2>2. UNCHANGED <<fields, adopted>> BY <1>3 DEF OnDocuments!Submit
  <2>3. lastSent' = [types |-> OnDocuments!SentTypes(fields), wanted |-> OnDocuments!ServerRequires(fields)]
    BY <1>3 DEF OnDocuments!Submit
  <2> QED BY <2>1, <2>2, <2>3, DocumentsAgree
          DEF DocumentInv, OnDocuments!SentIsRequired, OnDocuments!HintIsTrue
<1>4. CASE UNCHANGED <<fields, adopted, lastSent>>
  BY <1>4 DEF DocumentInv, OnDocuments!SentIsRequired, OnDocuments!HintIsTrue
<1> QED BY <1>1, <1>2, <1>3, <1>4, DocumentSteps DEF DocumentInv

---------------------------------------------------------------------------
(* The front of the card.                                                  *)

LEMMA FrontCardinality == \A S : Front!Cardinality(S) = Cardinality(S)
BY DEF Front!Cardinality, Cardinality

LEMMA ImageFinite ==
  ASSUME NEW f, IsFiniteSet(DOMAIN f)
  PROVE  IsFiniteSet({f[x] : x \in DOMAIN f})
<1> DEFINE S == DOMAIN f
           T == {f[x] : x \in S}
           g == [x \in S |-> f[x]]
<1>1. g \in Surjection(S, T) BY DEF Surjection
<1> QED BY <1>1, FS_Surjection

\* A finite set with no two members at most has all that its members are.
LEMMA OneAtMost ==
  ASSUME NEW S, IsFiniteSet(S), ~(Cardinality(S) > 1), NEW x \in S
  PROVE  S = {x}
<1>1. Cardinality(S) \in Nat BY FS_CardinalityType
<1>2. Cardinality(S) # 0 BY FS_EmptySet
<1>3. Cardinality(S) = 1 BY <1>1, <1>2
<1> QED BY <1>3, FS_Singleton

\* What is picked is the only member of what it was picked from.
LEMMA PickOnly ==
  ASSUME NEW S, IsFiniteSet(S), Front!Pick(S) # Blank
  PROVE  S = {Front!Pick(S)}
<1>1. Cardinality(S) = 1 BY FrontCardinality DEF Front!Pick
<1>2. PICK x : S = {x} BY <1>1, FS_Singleton
<1>3. Front!Pick(S) = CHOOSE c \in S : TRUE BY <1>1, FrontCardinality DEF Front!Pick
<1> QED BY <1>2, <1>3

\* The labels of a field are finitely many.
LEMMA LabelsFinite ==
  ASSUME NEW text \in Seq(Front!FrontLines), NEW label
  PROVE  IsFiniteSet(Front!Labelled(text, label))
<1>1. DOMAIN text = 1 .. Len(text) /\ Len(text) \in Nat OBVIOUS
<1>2. IsFiniteSet(1 .. Len(text)) BY <1>1, FS_Interval
<1> QED BY <1>1, <1>2, FS_Subset DEF Front!Labelled

\* So is what is read of them, on the first place or on any of some lines.
LEMMA ReadingsFinite ==
  ASSUME NEW text, NEW L, IsFiniteSet(L), NEW k
  PROVE  IsFiniteSet({Front!Reading(text, i, k) : i \in L})
<1> DEFINE f == [i \in L |-> Front!Reading(text, i, k)]
<1>1. DOMAIN f = L /\ {f[i] : i \in L} = {Front!Reading(text, i, k) : i \in L} OBVIOUS
<1> HIDE DEF f
<1> QED BY <1>1, ImageFinite

\* A line of a field carries one reading or two.
OneOrTwo(p) == \/ Len(p) = 1 /\ DOMAIN p = {1}
               \/ Len(p) = 2 /\ DOMAIN p = {1, 2}

LEMMA PartsAreFew ==
  ASSUME NEW p, (\E a : p = <<a>>) \/ (\E a, b : p = <<a, b>>)
  PROVE  OneOrTwo(p)
<1>1. ASSUME NEW a, p = <<a>> PROVE OneOrTwo(p) BY <1>1 DEF OneOrTwo
<1>2. ASSUME NEW a, NEW b, p = <<a, b>> PROVE OneOrTwo(p) BY <1>2 DEF OneOrTwo
<1> QED BY <1>1, <1>2

LEMMA LineParts ==
  ASSUME NEW text \in Seq(Front!FrontLines), NEW i \in DOMAIN text,
         text[i].label \in {"name", "id", "birth"}
  PROVE  OneOrTwo(text[i].parts)
<1>1. text[i] \in Front!FrontLines OBVIOUS
<1> DEFINE Behind(values) == values \cup {Junk, Blank}
           Parts(S, T) == {<<r>> : r \in S} \cup S \X T
<1>2. \/ text[i].parts \in Parts(Behind(Names), {Junk})
      \/ text[i].parts \in Parts(Behind(Ids), {Junk})
      \/ text[i].parts \in Parts(Behind(Dates), Behind(Dates))
  BY <1>1 DEF Front!FrontLines
<1>3. ASSUME NEW S, NEW T, NEW p \in Parts(S, T) PROVE OneOrTwo(p)
  <2>1. CASE p \in {<<r>> : r \in S} BY <2>1, PartsAreFew
  <2>2. CASE p \in S \X T
    <3>1. PICK a \in S, b \in T : p = <<a, b>> BY <2>2
    <3> QED BY <3>1, PartsAreFew
  <2> QED BY <2>1, <2>2
<1> HIDE DEF Behind, Parts
<1> QED BY <1>2, <1>3

\* No number is read where another label shows another one, or none that can be read.
LEMMA IdFromAll ==
  ASSUME NEW text \in Seq(Front!FrontLines), Front!ParsedId(text) # Blank,
         NEW i \in Front!Labelled(text, "id")
  PROVE  Len(text[i].parts) <= 1 /\ Front!Reading(text, i, 1) = Front!ParsedId(text)
<1> DEFINE Seen == Front!IdObservations(text)
<1>1. ~Front!Ambiguous(text, "id") /\ ~(Cardinality(Seen) > 1)
      /\ Front!ParsedId(text) = Front!Pick(Front!IdCandidates(text))
  BY FrontCardinality DEF Front!ParsedId
<1>2. i \in DOMAIN text /\ text[i].label = "id" BY DEF Front!Labelled
<1>3. Len(text[i].parts) <= 1 BY <1>1, <1>2, LineParts DEF OneOrTwo, Front!Ambiguous
<1>4. IsFiniteSet(Seen) BY LabelsFinite, ReadingsFinite DEF Front!IdObservations
<1>5. Seen = {Front!Reading(text, i, 1)}
  <2>1. Front!Reading(text, i, 1) \in Seen BY DEF Front!IdObservations
  <2> QED BY <1>1, <1>4, <2>1, OneAtMost
<1>6. Front!IdCandidates(text) = Seen \cap Ids BY DEF Front!IdCandidates
<1>7. IsFiniteSet(Seen \cap Ids) BY <1>4, FS_Subset
<1> QED BY <1>1, <1>3, <1>5, <1>6, <1>7, PickOnly

\* Nor a name, except that a label with nothing behind it does not count.
LEMMA NameFromAll ==
  ASSUME NEW text \in Seq(Front!FrontLines), Front!ParsedName(text) # Blank,
         NEW i \in Front!Labelled(text, "name")
  PROVE  Len(text[i].parts) = 1 /\ Front!NameReading(text, i) \in {Front!ParsedName(text), Blank}
<1> DEFINE Lines == {j \in Front!Labelled(text, "name") : Len(text[j].parts) = 1}
           All == {Front!NameReading(text, j) : j \in Lines}
<1>1. ~Front!Ambiguous(text, "name") /\ Front!ParsedName(text) = Front!Pick(All \ {Blank})
  BY DEF Front!ParsedName, Front!NameCandidates
<1>2. i \in DOMAIN text /\ text[i].label = "name" BY DEF Front!Labelled
<1>3. Len(text[i].parts) = 1
  <2>1. ASSUME Len(text[i].parts) = 2 PROVE FALSE
    <3>1. ~(2 > 1) BY <1>1, <2>1 DEF Front!Ambiguous
    <3> QED BY <3>1
  <2>2. Len(text[i].parts) = 1 \/ Len(text[i].parts) = 2 BY <1>2, LineParts DEF OneOrTwo
  <2> QED BY <2>1, <2>2
<1>4. IsFiniteSet(Lines) BY LabelsFinite, FS_Subset
<1>5. IsFiniteSet(All)
  <2> DEFINE f == [j \in Lines |-> Front!NameReading(text, j)]
  <2>1. DOMAIN f = Lines /\ {f[j] : j \in Lines} = All OBVIOUS
  <2> HIDE DEF f, Lines, All
  <2> QED BY <1>4, <2>1, ImageFinite
<1>6. IsFiniteSet(All \ {Blank}) BY <1>5, FS_Subset
<1>7. All \ {Blank} = {Front!ParsedName(text)} BY <1>1, <1>6, PickOnly
<1>8. Front!NameReading(text, i) \in All BY <1>3
<1> QED BY <1>3, <1>7, <1>8

\* Nor a day: every reading of every label counts, and what is no day counts as another.
LEMMA BirthFromAll ==
  ASSUME NEW text \in Seq(Front!FrontLines), Front!ParsedBirth(text) # Blank,
         NEW i \in Front!Labelled(text, "birth"), NEW k \in DOMAIN text[i].parts
  PROVE  Front!Reading(text, i, k) = Front!ParsedBirth(text)
<1> DEFINE read(r) == IF r \in Dates THEN r ELSE Junk
           L == Front!Labelled(text, "birth")
           Second == {j \in L : 2 \in DOMAIN text[j].parts}
           Seen == Front!BirthObservations(text)
           First == {read(Front!Reading(text, j, 1)) : j \in L}
           Behind == {read(Front!Reading(text, j, 2)) : j \in Second}
<1>1. ~(Cardinality(Seen) > 1) /\ Front!ParsedBirth(text) = Front!Pick(Seen \ {Junk})
  BY FrontCardinality DEF Front!ParsedBirth
<1>2. Seen = UNION {{read(Front!Reading(text, j, n)) : n \in DOMAIN text[j].parts} : j \in L}
  BY DEF Front!BirthObservations
<1>3. \A j \in L : DOMAIN text[j].parts = {1} \/ DOMAIN text[j].parts = {1, 2}
  BY LineParts DEF OneOrTwo, Front!Labelled
<1>4. Seen \subseteq First \cup Behind BY <1>2, <1>3
<1>5. IsFiniteSet(First)
  <2> DEFINE f == [j \in L |-> read(Front!Reading(text, j, 1))]
  <2>1. DOMAIN f = L /\ {f[j] : j \in L} = First OBVIOUS
  <2>2. IsFiniteSet(L) BY LabelsFinite
  <2> HIDE DEF f, L, First
  <2> QED BY <2>1, <2>2, ImageFinite
<1>6. IsFiniteSet(Behind)
  <2> DEFINE f == [j \in Second |-> read(Front!Reading(text, j, 2))]
  <2>1. DOMAIN f = Second /\ {f[j] : j \in Second} = Behind OBVIOUS
  <2>2. IsFiniteSet(Second) BY LabelsFinite, FS_Subset
  <2> HIDE DEF f, Second, Behind
  <2> QED BY <2>1, <2>2, ImageFinite
<1>7. IsFiniteSet(Seen)
  <2>1. IsFiniteSet(First \cup Behind) BY <1>5, <1>6, FS_Union
  <2> QED BY <1>4, <2>1, FS_Subset
<1>8. Seen = {read(Front!Reading(text, i, k))}
  <2>1. read(Front!Reading(text, i, k)) \in Seen BY <1>2
  <2> QED BY <1>1, <1>7, <2>1, OneAtMost
<1>9. Seen \ {Junk} = {Front!ParsedBirth(text)}
  <2>1. IsFiniteSet(Seen \ {Junk}) BY <1>7, FS_Subset
  <2> QED BY <1>1, <2>1, PickOnly
<1>10. read(Front!Reading(text, i, k)) # Junk BY <1>8, <1>9
<1> QED BY <1>8, <1>9, <1>10

\* A line more is a line of the front.
FrontInv == front \in Seq(Front!FrontLines)

LEMMA FrontGuesses == FrontInv => Front!FrontNeverGuesses
<1> SUFFICES ASSUME FrontInv PROVE Front!FrontNeverGuesses OBVIOUS
<1> USE DEF FrontInv
<1>1. \A n \in {1, 2} : \A i \in Front!Labelled(front, "id") :
        Front!ParsedId(front) # Blank /\ n \in DOMAIN front[i].parts
          => n = 1 /\ Front!Reading(front, i, n) = Front!ParsedId(front)
  <2> SUFFICES ASSUME NEW n \in {1, 2}, NEW i \in Front!Labelled(front, "id"),
                      Front!ParsedId(front) # Blank, n \in DOMAIN front[i].parts
               PROVE  n = 1 /\ Front!Reading(front, i, n) = Front!ParsedId(front)
    OBVIOUS
  <2>1. i \in DOMAIN front /\ front[i].label = "id" BY DEF Front!Labelled
  <2>2. n = 1 BY <2>1, IdFromAll, LineParts DEF OneOrTwo
  <2> QED BY <2>2, IdFromAll
<1> QED BY <1>1, BirthFromAll, NameFromAll DEF Front!FrontNeverGuesses

---------------------------------------------------------------------------
(* The back of the card.                                                   *)

LEMMA BackCardinality == \A S : Back!Cardinality(S) = Cardinality(S)
BY DEF Back!Cardinality, Cardinality

BackInv == back \in Seq(Back!BackLines)

\* The only address of a text, with the line of its label.
LEMMA OneAddress ==
  ASSUME BackInv, Back!ParsedAddress(back) # {}
  PROVE  /\ \A i \in DOMAIN back : back[i] # "double"
         /\ Back!Addresses(back) = {Back!ParsedAddress(back)}
         /\ \E i \in DOMAIN back : /\ back[i] \in {"label", "value"}
                                  /\ Back!ParsedAddress(back) = Back!AddressLines(back, i)
<1> DEFINE all == Back!Addresses(back)
           a == Back!ParsedAddress(back)
<1>1. /\ \A i \in DOMAIN back : back[i] # "double"
      /\ Cardinality(all) = 1
      /\ a = CHOOSE b \in all : TRUE
  BY BackCardinality DEF Back!ParsedAddress
<1>2. IsFiniteSet(all)
  <2> DEFINE f == [i \in DOMAIN back |-> Back!AddressLines(back, i)]
  <2>1. DOMAIN back = 1 .. Len(back) /\ Len(back) \in Nat BY DEF BackInv
  <2>2. IsFiniteSet(1 .. Len(back)) BY <2>1, FS_Interval
  <2>3. IsFiniteSet({f[i] : i \in DOMAIN f})
    <3>1. DOMAIN f = DOMAIN back OBVIOUS
    <3> HIDE DEF f
    <3> QED BY <2>1, <2>2, <3>1, ImageFinite
  <2>4. all \subseteq {f[i] : i \in DOMAIN f} BY DEF Back!Addresses
  <2> QED BY <2>3, <2>4, FS_Subset
<1>3. PICK b : all = {b} BY <1>1, <1>2, FS_Singleton
<1>4. all = {a} BY <1>1, <1>3
<1>5. a \in all BY <1>4
<1> QED BY <1>1, <1>4, <1>5 DEF Back!Addresses

\* The lines of an address are the label's, when a value stands on it, and those that continue it.
LEMMA LinesOfAddress ==
  ASSUME BackInv, NEW l \in DOMAIN back, back[l] \in {"label", "value"}
  PROVE  /\ \A i \in Back!AddressLines(back, l) :
              /\ i \in DOMAIN back /\ i \in l .. l + 3
              /\ i = l => back[l] = "value"
              /\ \A k \in l + 1 .. i : ~Back!Stops(back[k])
         /\ \A i \in Back!AddressLines(back, l), j \in Back!AddressLines(back, l) :
              \A k \in i .. j : k \in Back!AddressLines(back, l)
         /\ back[l] = "value" => l \in Back!AddressLines(back, l)
<1> DEFINE lines == Back!AddressLines(back, l)
           more == {j \in l + 1 .. l + 3 : j <= Len(back) /\ Back!Takes(back, l, j)}
<1>0. DOMAIN back = 1 .. Len(back) /\ Len(back) \in Nat /\ l \in Int BY DEF BackInv
<1>1. lines = IF back[l] = "value" THEN {l} \cup more ELSE more BY DEF Back!AddressLines
<1>2. ASSUME NEW j \in more, NEW k \in l + 1 .. j PROVE k \in more
  <2>1. \A n \in l + 1 .. j : ~Back!Stops(back[n]) /\ (back[n] = "part" \/ (back[l] = "label" /\ n = l + 1))
    BY DEF Back!Takes
  <2>2. Back!Takes(back, l, k) BY <1>0, <2>1 DEF Back!Takes
  <2> QED BY <1>0, <2>2
<1>3. ASSUME NEW i \in lines
      PROVE  /\ i \in DOMAIN back /\ i \in l .. l + 3
             /\ i = l => back[l] = "value"
             /\ \A k \in l + 1 .. i : ~Back!Stops(back[k])
  <2>1. CASE i \in more BY <1>0, <2>1 DEF Back!Takes
  <2>2. CASE i = l /\ back[l] = "value" BY <1>0, <2>2
  <2> QED BY <1>1, <2>1, <2>2
<1>4. ASSUME NEW i \in lines, NEW j \in lines, NEW k \in i .. j PROVE k \in lines
  <2>1. CASE k = l
    <3>1. i = l BY <1>0, <1>3, <2>1
    <3> QED BY <2>1, <3>1
  <2>2. CASE k # l
    <3>1. k \in l + 1 .. j BY <1>0, <1>3, <2>2
    <3>2. j # l BY <1>0, <3>1
    <3>3. j \in more BY <1>1, <3>2
    <3> QED BY <1>1, <1>2, <3>1, <3>3
  <2> QED BY <2>1, <2>2
<1>5. back[l] = "value" => l \in lines BY <1>1
<1> HIDE DEF lines
<1> QED BY <1>3, <1>4, <1>5 DEF lines

\* Every value on a label's line belongs to the only address, which therefore begins there.
LEMMA BackGuesses == BackInv => Back!AddressIsOneRun
<1> SUFFICES ASSUME BackInv PROVE Back!AddressIsOneRun OBVIOUS
<1> DEFINE a == Back!ParsedAddress(back)
           values == {i \in DOMAIN back : back[i] = "value"}
<1> SUFFICES ASSUME a # {}
             PROVE  /\ \A i, j \in a : \A k \in i .. j : k \in a
                    /\ \A i \in a : back[i] \notin {"stop", "label", "double"}
                    /\ Cardinality(values) <= 1
                    /\ \A i \in DOMAIN back : back[i] = "value" => i \in a
                    /\ Cardinality(a) <= 4
  BY BackCardinality DEF Back!AddressIsOneRun
<1>0. DOMAIN back = 1 .. Len(back) /\ Len(back) \in Nat BY DEF BackInv
<1>1. PICK l \in DOMAIN back : back[l] \in {"label", "value"} /\ a = Back!AddressLines(back, l)
  BY OneAddress
<1>2. \A i \in a : /\ i \in DOMAIN back /\ i \in l .. l + 3
                   /\ i = l => back[l] = "value"
                   /\ \A k \in l + 1 .. i : ~Back!Stops(back[k])
  BY <1>1, LinesOfAddress
<1>3. \A i, j \in a : \A k \in i .. j : k \in a BY <1>1, LinesOfAddress
<1>4. \A i \in a : back[i] \notin {"stop", "label", "double"}
  BY <1>0, <1>2 DEF Back!Stops
<1>5. ASSUME NEW i \in DOMAIN back, back[i] = "value" PROVE i \in a /\ i = l
  <2> DEFINE b == Back!AddressLines(back, i)
  <2>1. i \in b BY <1>5, LinesOfAddress
  <2>2. b \in Back!Addresses(back) BY <1>5, <2>1 DEF Back!Addresses
  <2>3. b = a BY <2>2, OneAddress
  <2>4. i \in a BY <2>1, <2>3
  <2>5. i = l
    <3> SUFFICES ASSUME i # l PROVE FALSE OBVIOUS
    <3>1. i \in l + 1 .. i BY <1>0, <1>2, <2>4
    <3> QED BY <1>2, <1>5, <2>4, <3>1 DEF Back!Stops
  <2> QED BY <2>4, <2>5
<1>6. Cardinality(values) <= 1
  <2>1. values \subseteq {l} BY <1>5
  <2>2. IsFiniteSet({l}) /\ Cardinality({l}) = 1 BY FS_Singleton
  <2> QED BY <2>1, <2>2, FS_Subset
<1>7. Cardinality(a) <= 4
  <2> DEFINE near == l .. l + 3
  <2>1. l \in Int BY <1>0
  <2>2. IsFiniteSet(near) /\ Cardinality(near) = 4 BY <2>1, FS_Interval
  <2>3. a \in SUBSET near BY <1>2
  <2> HIDE DEF near, a
  <2>4. Cardinality(a) <= Cardinality(near) BY <2>2, <2>3, FS_Subset
  <2> QED BY <2>2, <2>4
<1> QED BY <1>3, <1>4, <1>5, <1>6, <1>7

---------------------------------------------------------------------------
(* A date of birth.                                                        *)

\* The normal form says the same day without an era, and reads as it is.
LEMMA IsoIsRead ==
  ASSUME NEW d, Birth!BirthValid(d)
  PROVE  /\ Birth!YearOf(Birth!Iso(d)) = Birth!YearOf(d)
         /\ Birth!BirthValid(Birth!Iso(d)) /\ Birth!Iso(Birth!Iso(d)) = Birth!Iso(d)
<1> DEFINE e == Birth!Iso(d)
<1>1. e = [era |-> "none", digits |-> 4, year |-> Birth!YearOf(d), month |-> d.month, day |-> d.day]
  BY DEF Birth!Iso
<1>2. /\ e.era = "none" /\ e.digits = 4 /\ e.year = Birth!YearOf(d)
      /\ e.month = d.month /\ e.day = d.day
  BY <1>1
<1> HIDE DEF e
<1>3. Birth!YearOf(e) = Birth!YearOf(d) BY <1>2 DEF Birth!YearOf, Birth!AssumedROC
<1>4. Birth!BirthValid(e) BY <1>2, <1>3 DEF Birth!BirthValid, Birth!AssumedROC
<1>5. Birth!Iso(e) = e BY <1>1, <1>2, <1>3 DEF Birth!Iso
<1> QED BY <1>3, <1>4, <1>5 DEF e

\* A day that Date.UTC does not move is one that the month has.
LEMMA BirthStays == Birth!ConfirmedBirthStays
<1> SUFFICES ASSUME Birth!BirthValid(birth) PROVE Birth!ConfirmedBirthStays
  BY DEF Birth!ConfirmedBirthStays
<1> DEFINE y == Birth!YearOf(birth)
           m == birth.month
           d == birth.day
<1>1. /\ y \in 1000 .. 9999 /\ m \in 1 .. 12 /\ d \in 1 .. 31
      /\ Birth!UTC(y, m, d) = [year |-> y, month |-> m, day |-> d]
  BY DEF Birth!BirthValid
<1>2. d <= Birth!DaysIn(y, m)
  <2> SUFFICES ASSUME ~(d <= Birth!DaysIn(y, m)) PROVE FALSE OBVIOUS
  <2>1. Birth!UTC(y, m, d).month = m BY <1>1
  <2>2. Birth!UTC(y, m, d).month = IF m < 12 THEN m + 1 ELSE 1 BY DEF Birth!UTC
  <2> QED BY <1>1, <2>1, <2>2
<1>3. ~Birth!BirthDiffers(Birth!Iso(birth), birth) BY IsoIsRead DEF Birth!BirthDiffers
<1> QED BY <1>2, <1>3, IsoIsRead DEF Birth!ConfirmedBirthStays

---------------------------------------------------------------------------
(* The rules beside the page.                                              *)

\* A step is one of the part that the behaviour is about.
LEMMA RulesSteps ==
  ASSUME [RulesNext]_rulesVars
  PROVE  /\ which' = which
         /\ [PageNext]_pageVars
         /\ which = "amounts" => OnAmounts!Next \/ UNCHANGED grantVars
         /\ which = "documents" => OnDocuments!Next \/ UNCHANGED grantVars
         /\ which = "card front" => Front!Next \/ UNCHANGED cardVars
         /\ which = "card back" => Back!Next \/ UNCHANGED cardVars
<1> USE DEF OnPage, OnForm, OnCard
<1>1. CASE UNCHANGED rulesVars BY <1>1 DEF rulesVars
<1>2. CASE RulesNext BY <1>2 DEF RulesNext
<1> QED BY <1>1, <1>2

RulesInv ==
  /\ which = "amounts" => fields \in OnAmounts!Values
  /\ which = "documents" => DocumentInv
  /\ which = "card front" => FrontInv
  /\ which = "card back" => BackInv

LEMMA RulesInitially == ASSUME PageRulesAssumption, RulesInit PROVE RulesInv
<1>1. ASSUME which = "amounts" PROVE fields \in OnAmounts!Values
  <2>1. PICK email \in ByAmount.texts : fields = OnAmounts!EmptyForm(email)
    BY <1>1 DEF RulesInit, OnAmounts!Init
  <2>2. Blank \in ByAmount.texts /\ 0 \in ByAmount.amounts
    BY DEF PageRulesAssumption, OnAmounts!RulesAssumption
  <2> QED BY <2>1, <2>2 DEF OnAmounts!EmptyForm, OnAmounts!Values, OnAmounts!Days
<1>2. ASSUME which = "documents" PROVE DocumentInv
  <2>1. PICK email \in ByDocument.texts : fields = OnDocuments!EmptyForm(email)
    BY <1>2 DEF RulesInit, OnDocuments!Init
  <2>2. Blank \in ByDocument.texts /\ 0 \in ByDocument.amounts
    BY DEF PageRulesAssumption, OnDocuments!RulesAssumption
  <2>3. fields \in OnDocuments!Values
    BY <2>1, <2>2 DEF OnDocuments!EmptyForm, OnDocuments!Values, OnDocuments!Days
  <2>4. ~fields.hint BY <2>1 DEF OnDocuments!EmptyForm
  <2>5. lastSent = [types |-> {}, wanted |-> {}] BY <1>2 DEF RulesInit, OnDocuments!Init
  <2> QED BY <2>3, <2>4, <2>5 DEF DocumentInv, OnDocuments!SentIsRequired, OnDocuments!HintIsTrue
<1>3. ASSUME which = "card front" PROVE FrontInv
  <2>1. front = <<>> BY <1>3 DEF RulesInit, Front!Init
  <2> QED BY <2>1 DEF FrontInv
<1>4. ASSUME which = "card back" PROVE BackInv
  <2>1. back = <<>> BY <1>4 DEF RulesInit, Back!Init
  <2> QED BY <2>1 DEF BackInv
<1> QED BY <1>1, <1>2, <1>3, <1>4 DEF RulesInv

LEMMA RulesStep == ASSUME PageRulesAssumption, RulesInv, [RulesNext]_rulesVars PROVE RulesInv'
<1>1. which' = which BY RulesSteps
<1>2. ASSUME which = "amounts" PROVE fields' \in OnAmounts!Values
  BY <1>2, RulesSteps, AmountFields DEF RulesInv, grantVars
<1>3. ASSUME which = "documents" PROVE DocumentInv'
  <2>1. CASE OnDocuments!Next BY <1>3, <2>1, DocumentStep DEF RulesInv
  <2>2. CASE UNCHANGED grantVars
    BY <1>3, <2>2 DEF RulesInv, grantVars, DocumentInv, OnDocuments!SentIsRequired, OnDocuments!HintIsTrue
  <2> QED BY <1>3, <2>1, <2>2, RulesSteps
<1>4. ASSUME which = "card front" PROVE FrontInv'
  <2>1. Front!Next \/ UNCHANGED cardVars BY <1>4, RulesSteps
  <2>2. front \in Seq(Front!FrontLines) BY <1>4 DEF RulesInv, FrontInv
  <2>3. CASE \E line \in Front!FrontLines : front' = Append(front, line)
    <3> PICK line \in Front!FrontLines : front' = Append(front, line) BY <2>3
    <3>1. front' \in Seq(Front!FrontLines) BY <2>2
    <3> QED BY <3>1 DEF FrontInv, Front!FrontLines, Front!Readings
  <2>4. CASE front' = front BY <2>2, <2>4 DEF FrontInv, Front!FrontLines, Front!Readings
  <2> QED BY <2>1, <2>3, <2>4
          DEF cardVars, Front!Next, Front!ReadFront, Front!ReadBack, Front!Confirm
<1>5. ASSUME which = "card back" PROVE BackInv'
  <2>1. Back!Next \/ UNCHANGED cardVars BY <1>5, RulesSteps
  <2>2. back \in Seq(Back!BackLines) BY <1>5 DEF RulesInv, BackInv
  <2>3. CASE \E line \in Back!BackLines : back' = Append(back, line)
    <3> PICK line \in Back!BackLines : back' = Append(back, line) BY <2>3
    <3> QED BY <2>2 DEF BackInv, Back!BackLines
  <2>4. CASE back' = back BY <2>2, <2>4 DEF BackInv, Back!BackLines
  <2> QED BY <2>1, <2>3, <2>4
          DEF cardVars, Back!Next, Back!ReadFront, Back!ReadBack, Back!Confirm
<1> QED BY <1>1, <1>2, <1>3, <1>4, <1>5 DEF RulesInv

\* The page beside the rules is the page: what it promises holds here too.
THEOREM RulesAreBeside == RulesSpec => PageSpec
<1>1. RulesInit => PageInit BY DEF RulesInit
<1>2. [RulesNext]_rulesVars => [PageNext]_pageVars BY RulesSteps
<1> QED BY <1>1, <1>2, PTL DEF RulesSpec, PageSpec

\* Whatever may be entered: an amount passes only within its share and its cap, an application
\* without an error has nothing that the rules exclude, what is sent is what the server wants, a
\* field of the card is filled only with what all its labels show, an address is one run of lines,
\* and a confirmed day stays the day it was.
THEOREM RulesHold == RulesSpec => []RulesNeverGuess
<1>1. RulesInit => RulesInv BY RulesInitially, PageRulesAssumption
<1>2. RulesInv /\ [RulesNext]_rulesVars => RulesInv' BY RulesStep, PageRulesAssumption
<1>3. RulesInv => RulesNeverGuess
  BY AmountsCovered, ErrorFreeSound, FrontGuesses, BackGuesses, BirthStays, PageRulesAssumption
     DEF RulesInv, RulesNeverGuess, DocumentInv
<1> QED BY <1>1, <1>2, <1>3, PTL DEF RulesSpec
=============================================================================

------------------------------- MODULE Pages -------------------------------
(***************************************************************************)
(* The pages: the applicant's form (ApplicationForm; once for visits that  *)
(* make cases, once for tabs that share drafts), the session that the tabs *)
(* of a browser share, the work area of the staff with its panels, the     *)
(* following of a case, the reader of identity cards and LINE's SDK.  A    *)
(* page keeps no state another one reads but through the server, so they   *)
(* stand side by side: the choice of `which` at the start says which of    *)
(* them a behaviour is about.                                              *)
(***************************************************************************)
EXTENDS ApplicationForm

CONSTANTS
  Tabs, Drafts, MaxSubmits, MaxSaves, MaxDelayed,             \* tabs with one draft, ...
  Accounts, Sessions, OwnerOf, MaxAnswers,                    \* and with one session
  Listed, Filters, InboxFilter, FilterShows, PageSize, MaxWaiting, \* the work area
  Criteria, Sources, MaxReviews,                              \* the review
  Tasks, TaskBodies, Actions, MaxChanges, MaxKey,             \* supplements
  Followed, MaxSelected,                                      \* the following of a case
  Images, Jobs,                                               \* the reader
  Callers, Scripts, MaxCalls                                  \* LINE's SDK

VARIABLES
  which,
  draftRow, draftRecords, draftTab, draftWire, draftSigned,
  isAdmin, issued, live, jar, page, answers,
  view, status, items, nextCursor, selectedId, bundle, busy, loading, error, reads,
  version, item, decision, shown, reviewTab, draft, deciding, kept, sent,
  taskRow, bundleTasks, body, bodyKept, taskCards, operation, toldKeys,
  task, files, record, card, tracking, trackingReads,
  side, field, job, locked, disabled, reviewed, handed,
  script, liff, attempt, waiting, told, pending, initialized, sdk, calls, asked

draftVars == <<draftRow, draftRecords, draftTab, draftWire, draftSigned>>
sessionVars == <<isAdmin, issued, live, jar, page, answers>>
workspaceVars == <<view, status, items, nextCursor, selectedId, bundle, busy, loading, error, reads>>
reviewVars == <<version, item, decision, shown, reviewTab, draft, deciding, kept, sent>>
taskVars == <<taskRow, bundleTasks, body, bodyKept, taskCards, operation, toldKeys>>
trackingVars == <<task, files, record, card, tracking, trackingReads>>
readerVars == <<side, field, job, locked, disabled, reviewed, handed>>
liffVars == <<script, liff, attempt, waiting, told, pending, initialized, sdk, calls, asked>>

Submitting == INSTANCE ApplicationForm WITH
  Mounts <- Tabs, Cases <- Drafts, Existing <- Drafts, MaxClicks <- MaxSubmits, MaxVersion <- MaxSaves,
  MaxLate <- MaxDelayed,
  row <- draftRow, records <- draftRecords, tab <- draftTab, wire <- draftWire, signed <- draftSigned
Browser == INSTANCE BrowserSession WITH MaxWaiting <- MaxAnswers, tab <- page, wire <- answers
Workspace == INSTANCE AdminWorkspace WITH
  Cases <- Listed, Received <- InboxFilter, Shows <- FilterShows, wire <- reads
Review == INSTANCE ReviewPanels WITH MaxVersion <- MaxReviews, tab <- reviewTab, form <- deciding
Panels == INSTANCE TaskPanels WITH
  Bodies <- TaskBodies,
  told <- toldKeys, task <- taskRow, shown <- bundleTasks, kept <- bodyKept, card <- taskCards,
  sent <- operation
Tracking == INSTANCE CaseTracking WITH
  Cases <- Followed, busy <- tracking, wire <- trackingReads
Reader == INSTANCE IdentityReader
Liff == INSTANCE LiffConnect

ASSUME PagesAssumption ==
  Submitting!FormAssumption /\ Browser!SessionAssumption /\ Workspace!WorkspaceAssumption /\
  Review!PanelsAssumption /\ Panels!TaskPanelsAssumption /\ Tracking!TrackingAssumption /\
  Reader!ReaderAssumption /\ Liff!LiffAssumption

Parts == {"create", "submit", "session", "workspace", "review", "tasks", "tracking", "reader", "liff"}

\* The rows of the parts that a behaviour is not about do not exist.
PartsInit ==
  /\ Init
  /\ IF which = "submit" THEN Submitting!Init
     ELSE draftRow = None /\ draftRecords = None /\ draftTab = None /\ draftWire = None /\ draftSigned = None
  /\ IF which = "session" THEN Browser!Init
     ELSE isAdmin = None /\ issued = None /\ live = None /\ jar = None /\ page = None /\ answers = None
  /\ IF which = "workspace" THEN Workspace!Init
     ELSE view = None /\ status = None /\ items = None /\ nextCursor = None /\ selectedId = None /\
          bundle = None /\ busy = None /\ loading = None /\ error = None /\ reads = None
  /\ IF which = "review" THEN Review!Init
     ELSE version = None /\ item = None /\ decision = None /\ shown = None /\ reviewTab = None /\
          draft = None /\ deciding = None /\ kept = None /\ sent = None
  /\ IF which = "tasks" THEN Panels!Init
     ELSE taskRow = None /\ bundleTasks = None /\ body = None /\ bodyKept = None /\ taskCards = None /\
          operation = None /\ toldKeys = None
  /\ IF which = "tracking" THEN Tracking!Init
     ELSE task = None /\ files = None /\ record = None /\ card = None /\ tracking = None /\ trackingReads = None
  /\ IF which = "reader" THEN Reader!Init
     ELSE side = None /\ field = None /\ job = None /\ locked = None /\ disabled = None /\ reviewed = None /\
          handed = None
  /\ IF which = "liff" THEN Liff!Init
     ELSE script = None /\ liff = None /\ attempt = None /\ waiting = None /\ told = None /\ pending = None /\
          initialized = None /\ sdk = None /\ calls = None /\ asked = None
PagesInit == which \in Parts /\ PartsInit

Rest(p) ==
  /\ UNCHANGED which
  /\ IF p = "create" THEN TRUE ELSE UNCHANGED vars
  /\ IF p = "submit" THEN TRUE ELSE UNCHANGED draftVars
  /\ IF p = "session" THEN TRUE ELSE UNCHANGED sessionVars
  /\ IF p = "workspace" THEN TRUE ELSE UNCHANGED workspaceVars
  /\ IF p = "review" THEN TRUE ELSE UNCHANGED reviewVars
  /\ IF p = "tasks" THEN TRUE ELSE UNCHANGED taskVars
  /\ IF p = "tracking" THEN TRUE ELSE UNCHANGED trackingVars
  /\ IF p = "reader" THEN TRUE ELSE UNCHANGED readerVars
  /\ IF p = "liff" THEN TRUE ELSE UNCHANGED liffVars

PagesNext ==
  \/ which = "create" /\ Next /\ Rest("create")
  \/ which = "submit" /\ Submitting!Next /\ Rest("submit")
  \/ which = "session" /\ Browser!Next /\ Rest("session")
  \/ which = "workspace" /\ Workspace!Next /\ Rest("workspace")
  \/ which = "review" /\ Review!Next /\ Rest("review")
  \/ which = "tasks" /\ Panels!Next /\ Rest("tasks")
  \/ which = "tracking" /\ Tracking!Next /\ Rest("tracking")
  \/ which = "reader" /\ Reader!Next /\ Rest("reader")
  \/ which = "liff" /\ Liff!Next /\ Rest("liff")

allVars == <<which, vars, draftVars, sessionVars, workspaceVars, reviewVars, taskVars, trackingVars, readerVars,
            liffVars>>
PagesSpec == PagesInit /\ [][PagesNext]_allVars

---------------------------------------------------------------------------
(* The properties of the parts, which state and explain them.              *)

\* What a page keeps fits together, as its part says.
PagesTypeOK ==
  /\ FormTypeOK
  /\ which = "submit" => Submitting!FormTypeOK
  /\ which = "session" => Browser!SessionTypeOK
  /\ which = "workspace" => Workspace!WorkspaceTypeOK
  /\ which = "review" => Review!PanelsTypeOK
  /\ which = "tasks" => Panels!TaskPanelsTypeOK
  /\ which = "tracking" => Tracking!TrackingTypeOK
  /\ which = "reader" => Reader!ReaderTypeOK
  /\ which = "liff" => Liff!LiffTypeOK

\* What a page sends is what was confirmed on it, though two tabs edit one draft or a case is read
\* again under a panel, and what is sent again is known for the same: decisions, tasks, corrections
\* and the fields read from a card, which no reader left behind fills in (ApplicationForm.tsx,
\* AdminApp.tsx, CaseTracking.tsx, IdentityOCR.tsx).
SentAsConfirmed ==
  /\ which = "submit" => Submitting!SubmittedAsConfirmed
  /\ which = "review" => Review!DecidedAsConfirmed /\ Review!RetryIsRecognised
  /\ which = "tasks" => Panels!OneTaskPerForm
  /\ which = "tracking" => Tracking!ReceivedAsShown /\ Tracking!RetryIsRecognised /\ Tracking!AnswersWhatWasSeen
  /\ which = "reader" => Reader!HandedAsReviewed /\ Reader!NoStrayWorker

\* What a page shows is what it is about, whichever answer comes late: one case for one visit, saved
\* where it looks saved, acted on as the account that is shown (by the staff: nothing of a login before
\* theirs), the selected case under the chosen filter, candidates of the picture that is there, and an
\* SDK that is ready
\* (ApplicationForm.tsx, CitizenApp.tsx, AdminApp.tsx, IdentityOCR.tsx, line.ts).
ShownIsCurrent ==
  /\ OneCasePerVisit
  /\ which = "submit" => Submitting!CleanMeansSaved
  /\ which = "session" => IF isAdmin THEN Browser!NothingOfAnEarlierLogin ELSE Browser!ActsAsShown
  /\ which = "workspace" => Workspace!BundleIsSelected /\ Workspace!ItemsMatchFilter
  /\ which = "reader" => Reader!CandidatesOfThePicture
  /\ which = "liff" => Liff!OneScript /\ Liff!OneInitialization /\ Liff!InitializedIsReady

\* A review item and a task are replaced only as they were shown, a creation that is reported has
\* made a task of its own, and init is called once on an SDK (AdminApp.tsx, line.ts).
ActedAsSeen == [][
  /\ which = "review" => Review!NothingOverwrittenStep
  /\ which = "tasks" => Panels!EveryReportIsATaskStep /\ Panels!NothingActedOnUnseenStep
  /\ which = "liff" => Liff!InitOnceStep
  ]_allVars
=============================================================================

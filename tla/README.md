# Verification of the youth-service case backend

TLA+ models of the service in `src/`: citizens apply for a scheme through LINE
or e-mail login, staff review the application, ask for corrections, decide and
correct decisions; workers scan the files, deliver reminders, make exports and
follow LINE's events. The models are checked on small instances with TLC, and
most safety properties are proved for every instance with TLAPS.

Contents: 1 the system, 2 the modules and how they correspond to the code,
3 the runs, 4 the proofs, 5 what is left out, 6 the plan.

## 1. The system

One FastAPI process (uvicorn, one worker) serves the API; one worker process
runs scans, notifications, the LINE inbox and exports in a loop
(`app/worker.py`); both share a PostgreSQL database and an object store.
A handler is a plain function in a thread of its own with one transaction, under
READ COMMITTED; rows carry a `version` that SQLAlchemy checks and bumps
(`app/db.py`), and that is served as the row's ETag. The one coroutine among the
handlers is `upload_content`. Two React pages, the applicant's and the staff's,
talk to the API with an ETag and an idempotency key.

| Component | State | Operations | Hard behaviour | What makes it correct | Module |
|---|---|---|---|---|---|
| Case workflow (`cases.py`) | `Case`, `Task`, `TaskRevision`, `Submission`, `Receipt`, `ReviewItem`, `Decision`, actionable `NotificationIntent` | 14 handlers, each under the case's row lock | files are scanned, reminders delivered and deadlines pass beside the lock; long legal sequences | receipts, acceptances, evidence, decisions and reminders stay true to the revision, form and files they were made for | CaseWorkflow, CaseLifecycle |
| Assignment (`cases.py`) | `Case.assigned_to`, `Assignment` | batch assign | two batches over the same cases | all or nothing, each case as seen, no circle of waits | CaseAssignment |
| Notification delivery (`notifications.py`, `notification_delivery.py`, `worker.py`) | `NotificationIntent`, `OutboxJob`, `NotificationAttempt` | enqueue, cancel, claim, publish, apply, retry, reclaim | leases, lost or late answers of LINE, a worker that dies, a handler that cancels what is in flight | one message per notification, an honest log, final states stay | NotificationDelivery |
| LINE inbox (`notifications.py`, `worker.py`) | `WebhookInbox`, `IdentityLink.observed_follow_status` | receive, process | duplicated, reordered, early events; two passes | the last event by its own time wins, each is counted once | LineInbox |
| File upload (`files.py`, `storage.py`) | `File`, `FileVersion`, the object | intent, content, complete, expire | a slow body under the case lock, a crash between store and commit | what was said to be kept is kept; the quota holds | FileUpload |
| File scan (`worker.py`) | scan columns and lease | claim, verdict, expire | leases, attempts, a worker that dies | a verdict is true, final, and comes | FileScan |
| Idempotency (`common.py`) | `IdempotencyRecord` | claim key, run, record | concurrent requests with one key | one effect per key, one answer | Idempotency |
| E-mail codes (`auth.py`) | `EmailChallenge` | request, try | concurrent guesses, replaced codes | a code works once, guesses are counted | EmailCodes |
| Staff login (`auth.py`) | account, last TOTP step, challenges | password, MFA | one step used twice at once | a step and a challenge log in once | StaffMfa |
| LINE login and binding (`auth.py`, `line.ts`) | `IdentityLink`, `LineChallenge` | bind, unlink, deliver | relinked under a request | one link, messages follow theirs | LineBinding, LiffConnect |
| Sessions (`auth.py`, `shared/api.ts`) | `AuthSession`, account | login, renew, revoke, change | taken away while a login is under way; tabs over one cookie | a session ends with what it rests on | AccountSessions, BrowserSession |
| Rate limits (`auth_limits.py`) | counters | count, refuse | several rows counted at once | the limit holds, no circle of waits | RateLimits |
| Claims (`admin.py`) | `ClaimRequest`, `CaseAccess` | ask, resolve | two claims for one case | one owner, by approval | CaseClaims |
| Exports (`admin.py`, `worker.py`) | `ExportJob`, file | ask, make, download | a worker that dies between file and row | a ready export is whole | Exports |
| Accounts and roles (`admin.py`, `access.py`) | `RoleGrant`, status | replace roles | long sequences of changes | authority only narrows | RoleGrants, AccountSessions |
| Staff page (`AdminApp.tsx`) | what it loaded, its panels | load, edit, decide, ask | late answers, the case changes under a panel | nothing is decided or replaced unseen | StaffPage, AdminWorkspace, ReviewPanels, TaskPanels |
| Applicant's pages (`ApplicationForm.tsx`, `CaseTracking.tsx`, `CitizenApp.tsx`, `model.ts`) | form, pending operation, cards | save, submit, answer | a lost answer, two tabs, a reload | what is submitted was confirmed; one case per visit | ApplicationForm, CaseTracking, GrantRules |
| OCR (`ocr.ts`, `identity.ts`, `IdentityOCR.tsx`) | pictures, candidates, a worker | read, turn, confirm | cancelled while it starts, late text | candidates are of the picture that is there; no field is guessed | IdentityReader, IdentityRules |
| Bootstrap, CLI, configuration, web delivery | none shared | | sequential | | |

Interactions: handlers write intents and outbox rows in the transaction of
their effect, the worker reads them; the worker writes scan verdicts, handlers
read them; a page carries the ETag of one request into another; an upload
belongs to a case or to one of its tasks; sessions record what was true of
account and link when the login read them.

The full list of hazards, each at its line and with the properties that guard
it, is in `PROJECT.json`.

## 2. The modules

### CaseWorkflow

One case. `case_for` (`access.py`) locks the case row before a handler looks at
anything else (`_task_for` finds the case through the task, and reads the task
again under the lock), and a handler commits once, so **each handler is one action**, with the
guards and the early returns of the handler in their order and all it writes.
Two cases share no row (but in a batch assignment), so one case is enough.
Beside the lock, as actions of their own: the completion of an upload, the
verdict of the scanner, the worker's claim of a reminder, and time.

| Variable | Code |
|---|---|
| `status`, `version`, `form` | `Case.status`, `.version` (its ETag), `.form_data` |
| `tasks`, `taskRevisions` | the `Task` rows and the due dates of their `TaskRevision` rows |
| `submissions` | the `Submission` rows with their `Receipt`, in order of creation |
| `items` | the `ReviewItem` rows |
| `decisions` | the `Decision` rows; `supersedes` is a position in the sequence, 0 for NULL |
| `scan` | `FileVersion.scan_status`, with the states only the scanner tells apart as `UNCHECKED` |
| `reminders` | the actionable intents that no worker has claimed yet |
| `clock` | the time |

Each action is named after its handler (`patch_case` is `PatchCase`, ...).
The ETags a request may carry are every version ever served, the stale ones
included. Requirements, titles, texts and identities are left out; a form is a
model value, and `Complete` says which validate against the schema.
An evidence list is one reference. It may be the form (`NoFile`) or a file.

Approximations, and why they are sound for the properties:

- The application's and the database's clock are one clock. The code takes
  the deadline from the database and the receipt's time from it as well, so the
  clock of the process only matters for the check that a new deadline lies ahead.
- `case.version` is bumped by one for a transaction. A handler that flushes the
  row twice (`submit_case`, `start_review`) bumps it twice before it commits;
  nobody reads the number between.
- The batch assignment bumps the version too and changes nothing else here: it
  can only make more ETags stale.
- `CompleteUpload` has no guard on the status of the case, because the code
  effectively has none (see the hazard at `files.py:192`). It has the
  guard on the task.
- Idempotency records are left out: a repeated key changes nothing.
- The scheme's configuration is fixed, and the scheme active.

### StaffPage

The supervisor's page beside that case. `loadCase` takes the case (with its
ETag), and then the review items in another request; the first request itself
runs one query for the case and another for the tasks. Between any two of
these reads anything may commit, so the three reads are three actions and a
page may hold a mixture. Deciding and closing are `DecideCase` and `CloseCase`
of CaseWorkflow with the ETag of the page, offered under the page's own conditions;
correcting a decision is left out of this composition.

### CaseLifecycle

CaseLifecycle is the abstract specification of a case: its phase, the standing
of each requirement (unraised, raised, answered, settled), the ruling in force
and the number of receipts, as somebody sees them who follows the case through
`get_case`. The end of CaseWorkflow maps the rows to it: a task's standing from its
status as `_task_view` reads it, the ruling from the decision that no other
supersedes, as `get_case` looks it up. The mapping of the ruling is a CHOOSE: that
it is well defined is what `DecisionChain` says.

### NotificationDelivery

One notification that asks an applicant to act on a task: its intent, its job
and its attempts. `process_notifications` takes no lock while it works; it lists
candidates, takes a lease, reads, checks, commits the attempt, calls LINE and
writes the result, in a transaction each. So **each transaction, and each read
that another transaction may separate from the next, is one action**.

| Variable | Code |
|---|---|
| `channel`, `status`, `started` | `NotificationIntent.channel`, `.status`; whether `.first_attempt_at` is set, and with it the frozen key and payload |
| `late` | `RETRY_WINDOW` has passed since `first_attempt_at` |
| `available`, `lease`, `owner`, `attemptCount` | the columns of `OutboxJob`: `available_at` and `lease_until` by how they compare with now |
| `attempts` | `NotificationAttempt.result` by `attempt_no` |
| `asked`, `entitled`, `linked` | what `_notifiable` and `_active_link` find |
| `handler` | a handler of `cases.py` between the SELECT of `_cancel_task_reminders` and its commit |
| `pass` | what a worker's pass holds in its local variables and its session; its owner id is the worker's name, which is sound because a pass that ends no longer owns the job |
| `stale` | whose rows have been written since: the version check, as a set |
| `underway`, `remembered`, `copies` | LINE, external: requests whose caller hung up or died, the retry key, the messages taken |
| `mishaps` | the bound on crashes and on leases that expire under a live worker |

| Action | Code in `process_notifications` unless named |
|---|---|
| `Select`, `Claim`, `ClaimLost`, `Read`, `GiveBack`, `Check` | the SELECT of the candidates, the UPDATE that takes the lease, the reads after it |
| `Skip`, `Publish`, `NotConfigured`, `GiveUp`, `Begin` | the branches that commit before the call |
| `Send` | `send_line`, by what its caller learns and by what LINE does |
| `Apply`, `ApplyLate` | the result, if the lease is still this pass's, or not |
| `Conflict`, `Crash`, `Restart` | `StaleDataError`, which nothing catches up to the loop in `cli.py`; a crash; somebody starts the worker again |
| `HandlerSelects`, `HandlerCommits`, `HandlerFails` | `_cancel_task_reminders` and the commit around it |
| `RetryNotification` | `retry_notification` |
| `EntitlementChanges`, `Unlink` | `change_status`, access that expires, `unlink_line` |
| `LeaseExpires`, `BecomesAvailable`, `WindowCloses` | time |
| `LineHandles`, `LineForgets` | LINE |

Approximations:

- `_event`, the only caller that enqueues, schedules nothing ahead: an intent
  starts READY, and PLANNED does not occur.
- Two intents share no row, so one is enough; that a pass lists up to twenty only
  makes the time between listing and claim longer.
- The handler and the retry both hold the lock of the case, so neither
  runs within the other. The retry reads the intent before it has that lock, but
  its write is checked against the version it read: it is atomic or it fails.
- LINE remembers an accepted retry key for 24 hours and answers a repeat with
  409. `RETRY_WINDOW` ends 30 seconds earlier; two timeouts of a call fit into them, so
  the model has LINE forget only once no request is out (`LineForgets`).
- Left out: a frozen payload that cannot be decrypted and a recipient that
  changed under the same binding version. Neither happens without another
  secret key or a binding version used twice.
- A pass that skips or gives up a reclaimed delivery leaves the attempt
  that was cut short IN_FLIGHT: so does the code, and no property claims otherwise.

### Requests of the service and its workers

Each of these has one component's rows as variables; `request`, `review`,
`batch`, `pass` or `worker` is what a request under way holds in its local
variables and its session, and `lock` who holds a row lock. A handler is split
wherever the database, the disk or the event loop lets another actor in: after a
read whose result is used later, at a lock, at a commit. `Die` and `Crash` end a
transaction anywhere; what was not committed is gone, what was written to the
disk stays.

| Module | Variables ↔ code | Actions ↔ code |
|---|---|---|
| `AccountSessions` | `account`, `link`, `session` ↔ `Account`, `IdentityLink`, `AuthSession`; `lock` the account's row | `CodeRead`/`LineRead` then `LoginCommit`: the logins, which begin a session by what they read; `AdminRead`, `AdminCommit`: `change_status`, `change_roles`; `OwnRead`, `ReauthCommit`, `ChangeCommit`: step-up and change of address; `RevokeAll`, `RevokeOne`, `Bind`, `Unlink` |
| `RoleGrants` | `grants`, `enrolled`, `now` ↔ `RoleGrant`, MFA, time; `first`: what was given from outside | `ChangeRoles` (`change_roles`, one locked transaction), `Tick` |
| `CaseClaims` | `claim`, `owner` ↔ `ClaimRequest`, `CaseAccess` | `Count`, `Insert`: `request_claim`; `Send`, `Step`: `resolve_claim`, which locks case, then claim |
| `CaseAssignment` | `case`, `able` ↔ version and assignee of the cases, who may be assigned | `Step`: the next row locked by id, checked, at last all written; `Handler`: a handler of one case |
| `Exports` | `job`, `file`, `allowed`, `got` | `Count`, `Insert`; `Step`: a pass that locks a batch, writes the files, commits; `Download`, `Expires`, `AccessChanges` |
| `Idempotency` | `record`, `holder`, `effects` ↔ the row, its uncommitted insert, what was done | `Send`, `Step`: `idem_start`, the work, `idem_finish`; `RulesChange`: what a refusal depended on |
| `FileUpload` | `case`, `task`, `row`, `object`, `part` ↔ rows and files; `loop` the event loop | `IntentStart`, `ContentStart`, `CompleteStart`, then `Handler` step by step; `Worker`: expiry; `CaseMoves`; `Crash` |
| `FileScan` | `row`, `over`, `due` ↔ scan columns, lease, retry time; `object` what is on the disk | `Step`: claim, scan, verdict; `LeaseEnds`, `RetryDue`, `Die` |
| `EmailCodes` | `code`, `open`, `history` ↔ `EmailChallenge` rows, the window of the limit, what came of each code | `Pass`, `Replace`, `Insert`, `MailSent`, `MailFails`; `Try`, then `Wrong`, `Right` or `RollBack` |
| `RateLimits` | `row`, `request`, `passed` ↔ `AuthRateLimit`, requests, who got through | `Arrive`, `Upsert`, `Commit`, `Die`, `Tick` |
| `StaffMfa` | account, challenges ↔ `MfaChallenge`, `Account.totp_last_step` | `Password`, `LockChallenge`, `LockAccount`, `Matched`, `Unmatched`, `Disable`, `Tick` |
| `LineBinding` | `links`, `challenge`, `message` | `BindStart`, `LockChallenge`, `LockAccount`, `BindInsert`; `Unlink`; `Enqueue`, `Check`, `Call`: what is delivered under a link |
| `LineInbox` | `inbox`, `link`, `pass` | `Webhook`; `Step`: a pass over a batch; `DeadlockVictim`, `Die`; `Bind`, `Unlink` |

Approximations worth knowing:

- Of a password, a token, a digest, a text or a picture only what the code
  compares is kept. A code that is tried is right or wrong.
- Two rows of one kind exist where two actors can meet on them. A bound
  (`MaxDeaths`, `NJobs`, `MaxStarted`, ...) is a constant, named in the guards.
- `EmailCodes` takes the limit of one mail per window for granted (`open`): that
  it holds is `ResendsAreSpaced` of `RateLimits`. Two requests of one address that
  pass the window at once would replace each other's codes.
- `RoleGrants` takes a change as one step, for the handler holds the account's
  row from its first read to its commit.
- `AccountSessions` is about one account; sessions of two accounts share no row.
- What is bound, checked or delivered in `LineBinding` is known by the number of the
  link it belongs to; the code compares `binding_version`, and the module keeps both
  to say that they agree.

### The pages

`ApplicationForm`, `CaseTracking`, `AdminWorkspace`, `ReviewPanels`,
`TaskPanels`, `BrowserSession`, `IdentityReader` and `LiffConnect` model React
components and the modules of the browser they use: the state hooks and refs are the
variables, an event handler up to its first `await` is an action, and so is what follows
each `await`, with the answer or the failure it waited for. `wire` holds the
requests that are awaited; answers arrive in any order. The server is in these modules as
far as a page depends on it: its versions, its idempotency records, its refusals.
`GrantRules` and `IdentityRules` are rules: their variables are inputs that grow field
by field or line by line, so that every input up to the bounds is considered, and their
operators are the functions of `model.ts`, `identity.ts` and of the scheme on the server.

### Compositions, instances, proofs


Parts that decide nothing by each other's rows stand side by side in one
specification. `Requests` puts AccountSessions, RoleGrants, CaseClaims,
CaseAssignment, Exports, Idempotency and FileUpload together; `Logins` puts
StaffMfa, EmailCodes, RateLimits, LineBinding and LineInbox together; `Pages` the pages:
ApplicationForm twice, for visits that make cases and for tabs that share drafts, with BrowserSession,
AdminWorkspace, ReviewPanels, TaskPanels, CaseTracking, IdentityReader and LiffConnect. The first
component is extended, the others are instances with their variables renamed. The
variable `which`, chosen by `Init` and never changed, says which part the
behaviour is about; the others rest in their initial state, or have no rows at all
(`None`). This loses nothing: the parts share no row by which one decides, so an
interleaving of two of them shows no more than each does alone; and it keeps the number of
states the sum of the parts', not their product. Where components
do meet, they meet inside one module: sessions with links and roles
(AccountSessions), uploads with the case and its tasks (FileUpload), links
with messages (LineBinding), a page with the case (StaffPage), reminders with tasks
(CaseWorkflow).

A property of a composition names a property of each part it is about (`which =
"keys" => Keyed!OneEffect /\ ...`); the module of the part states and explains it.

`MCRequests`, `MCLogins` and `MCPages` extend the compositions, and `MCCaseWorkflow` and `MCNotificationDelivery`
their components, and only give constants their values (`Window <- MCWindow`), so that what TLC checks is what the theorems are about.
`MCProgress` composes as it instantiates. `PageRules` extends StaffPage and puts the rules of the grant
and of the card, which share nothing with anybody, beside it, each with two or three sets
of inputs (`OnAmounts`, `OnDocuments`; `Front`, `Back`, `Birth`); again `which` says what a behaviour is
about, and `MCStaffPage` only gives values.

A definition marked *Slip* is no part of the model: it is how the definition after it
would read with a plausible mistake, and says what the property next to it is sensitive to
(`PROJECT.json`, `mutants`).

## 3. The runs

| Run | Properties | What it shows |
|---|---|---|
| `case_decisions` | `TypeOK`, `DecisionsAreFounded`, `DecisionChain`, `OutcomeMatchesReview`, `EvidenceIsSubmittedAndClean`, `ReceivedOnceAndComplete` | decisions and corrections with files scanned at any moment |
| `case_tasks` | `AcceptedIsCurrent`, `ReceiptsMeetTheirRevision`, `RemindersAreCurrent` | tasks, deadlines, answers and reminders |
| `case_lifecycle` | `KeepsItsPromises` | CaseWorkflow implements CaseLifecycle |
| `staff_page` | `EtagNamesContent`, `DecidedOnWhatWasSeen` | a page loaded in pieces |
| | `RulesNeverGuess` | the rules of the grant and of the identity card |
| `delivery_records` | `TypeOK`, `AttemptsAreLogged`, `RecordsAreHonest`, `DeliveredOnce`, `FinalIsFinal`, `FirstAttemptWasAsked` | one message, an honest log, final states |
| `delivery_results` | `ResultsStand` | late answers, when passes read in time |
| `delivery_late_read` | `ResultsStand`, violated | the same without that proviso: a finding |
| `delivery_progress` | `Settles` | nothing stays in the outbox |
| `logins` | `LetsInOnce`, `NoLoginWhenDisabled` | a TOTP step and a challenge log in once, and nobody once he is disabled |
| | `TriesAreCounted` | codes by mail and the counters, under concurrent tries |
| | `LinksAreTrue`, `CountedOnce` | binding LINE, messages, and the events of LINE in any order |
| `requests` | `SessionsEnd`, `RevokedStays` | sessions end with what they rest on |
| | `AuthorityIsGiven` | roles and ownership come from somebody who had them to give |
| | `DoneAsTold` | exports, idempotency records, uploads: what a client is told is so |
| | `DecidedStands` | claims, batches and files: what is settled stays |
| `pages` | `SubmittedAsConfirmed`, `SentAsConfirmed`, `ReceiptIsOwn` | what leaves a page was confirmed on it |
| | `ShownIsCurrent`, `ActedAsSeen` | late answers, two tabs, a case that changes under a panel |
| `progress` | `VerdictIsTrue`, `VerdictsStand` | scans with deaths, leases and retries |
| | `ServerGetsOn`, `PagesGetOn` | what must come, comes |

**Cases.** In `case_decisions` there is one file of the application and one of a task, of
the same type, so that the second can replace the first once it is rejected.
`MaxVersion = 12` bounds the number of transactions on the case at eleven; the
longest interesting story (save, submit, start, create a task, answer, accept,
conclude an item, decide, close, correct, correct again) takes exactly those. One deadline is
enough there.

In `case_tasks` there are two tasks, so that what is done to one is seen not to
disturb the other, and time reaches 2, so that an answer can be early, on the
instant and late, and a revision can keep or move its deadline. Only one task
has a file; the other is answered with a statement. Nine transactions reach a
task answered, reopened, answered again and accepted, beside a second one.

In `case_lifecycle` there are two tasks and no files, which the lifecycle does not see,
and late answers are allowed, so that one deadline will do. Thirteen
transactions reach two tasks answered and accepted, a decision, the closing and
a correction.

In `staff_page`, one supervisor and one task: supervisors share nothing but the
case, so a second page would be a second copy of the same reader. Files are left out, as
the page relies on the server for them. Late answers are allowed here.

**Delivery.** Two workers are enough for a lease to be taken over, and
taken back. `compose.yml` starts one, but leases are there for several, and
`worker --once` may run beside it. In `delivery_records` there are three attempts and two mishaps: the
log gets a first, a middle and a last attempt, and both workers may die, or one
lease be lost twice. The workers are symmetric there; the channel, the
configuration and the actions of staff and applicant are all left open. In
`delivery_results` two attempts and three mishaps: an answer can be late twice
over. In `delivery_progress` two attempts and one mishap; a conflict of
versions, which kills a worker too, costs no mishap. There is no symmetry there, because
TLC's check of liveness would not be sound with it.

`delivery_late_read` is a finding. The UPDATE that takes the lease is committed,
and the job is read in the next transaction without a look at `lease_owner`
(`worker.py:159`). Should 120 seconds pass between the two, another worker may have
claimed the job and be calling LINE. The first pass then reads the version the other
wrote, takes the other's live attempt for one cut short, and begins an attempt
under the other's ownership. Both call LINE; the retry key keeps it to one
message (`DeliveredOnce` holds in `delivery_records`, which has no such proviso).
But the owner's answer overwrites the UNKNOWN and releases the job, and the other
answer is dropped. `delivery_results` shows that nothing else can do it:
`PromptSpec` adds `ReadsInTime`, which says just that a lease does not run out
between that UPDATE and that SELECT, and the property holds.

**Logins and requests.** Two requests of a kind, which may each be at any point of a
handler: an order of two is what every property here takes to be violated, and
`SessionsEnd` has three sessions so that one can outlive another's revocation.
`logins` has two challenges with two tries each and steps up to 2, so that a
code can be of the past, the present or the coming step; three codes by mail, so that the one
replaced is neither the first nor the last; three links of two accounts to two
LINE accounts; four events of one LINE account, a follow, then an unfollow and a follow of
one instant, and one that is neither, in batches of two. The
counters have limits 1 and 2 over windows of 2 and 3 and time runs to 4: every window
ends before the bound and begins again. The workers and identities are the requests and accounts
of the other parts, so that one group of permutations serves all.

`requests` has one change of the account beside its logins; two schemes, two
roles and two grants at a time, with one instant at which grants end; two claims for
two cases by two accounts; two batches over two cases and a handler; two export jobs
and two passes that take both, with one death, before and after a file is written; two
bodies of requests under one key, with an effect that may fail; three files, one of a
task, in a quota of two, and a crash. A second death would show nothing new: one leaves
files as they were and gives up rows and locks, as a request that failed does.

**Pages.** Whatever may be exchanged comes as twins: two tabs on one draft, two
tabs of one browser, two pictures, two bodies of one task, two callers of the SDK. There are two
answers on their way at once, and one is lost or late, which is what it takes for them to
arrive out of order. Three sessions of two accounts, the first and the last of one, are enough for an
account that leaves, another that comes in another tab, and the first again with a session that is not the same; an answer
to GET /me and one to a reading may be on their way to one tab. The two tabs with one draft save once (`MaxSaves`)
and no answer of theirs is late: a save of the other tab between a save and the submission is left to the
theorems (`SubmissionsAreConfirmed`, `PagesSendWhatWasConfirmed`, `CleanPagesAreSaved`), which have no bound. Tasks of both sides change up to four times together (`MaxChanges`): one may be
answered, asked for again and answered while the other changes, which is what an old version and a
key used again take to be told from new ones; two keys (`MaxKey`) are one to repeat and one to confuse it
with. The tabs of one browser are all of the applicant's page or all of the staff's (`isAdmin`,
chosen at the start). The rules of the grant, in `staff_page`, are
tried with amounts of nothing, of one cent, which has no share in whole cents, at the lower cap and a cent above the
higher, with and without each document the rules
read; the rules of the card with up to three lines of the front and six of the back, in any order; dates at the borders of
both eras, of leap years and of today.

**Progress.** Here bounds must not do the work of the code. Exports and scans run with deaths
until the bound on deaths is spent, and still end. Uploads take one body at a time, for two at once
stop the event loop (section 5). In the inbox (`Quiet`) nobody unlinks, a
batch of three leaves room for a waiting row beside two others, and two passes may meet on two links.

Fairness, in `FairSpec` and `MCFairSpec` only: a live worker or request takes its next step
(`WF_vars(Work(w))`, `Works(w)`), because its loop has no other wait than the poll interval and
every call it makes has a timeout; the database ends a circle of waits (`Ended`); leases of the
dead run out, delays pass and the browser's timers fire; a fetch succeeds or fails, and a reading
that was begun ends, is cancelled or is interrupted by its own timer. A live
worker's lease need not run out, and no user need do anything. All of it is weak
fairness: each of these actions, once possible, stays so until it is taken. Where
one condition covers the steps of several parts, it is weak fairness of a
disjunction; as `which` is constant, only one disjunct is ever possible, and
fairness of the disjunction is fairness of that. In `delivery_progress`, restarts are not fair:
`compose.yml` sets no restart policy, and neither `main` nor `cli.py` catches the
`StaleDataError` of a conflict. Hence `Settles` promises nothing once all workers are dead.
It still means that whichever worker is left takes over what a dead one
had in hand. In `progress`, `Die` leaves a worker at rest, and a fair worker begins again: what
`ServerGetsOn` says of scans, exports and events supposes that somebody starts a
dead worker again, or another one is left.

`CHECK_DEADLOCK FALSE` in all runs: a withdrawn or closed case really stops, so
does a delivery that is settled, and so do the models at their bounds. That actors do not wait
for each other for ever is stated where they wait: `NoCircleOfBatches`,
`NoCircleOfLimits`, `ServerGetsOn`.

**What the code does otherwise than somewhere said.** While modelling we met
these; the models contain the behaviour, and the properties are stated so as not to
claim what it breaks. Only the first is a run of its own (`delivery_late_read`).

| Where | What happens | What is said |
|---|---|---|
| `worker.py:159` | a pass reads a job under another's lease, and a late answer overwrites a result | `:224` "A reclaimed lease means the previous call may have reached LINE", and the comparison of owners that only the end of the function makes (`:244`) |
| `ApplicationForm.tsx:649` | while a submission is pending, the safety step may still save the draft, and the frozen retry can only be refused | `:392` "確認前不修改本次提交內容" |
| `ApplicationForm.tsx:151` | reading the case again drops the pending submission and its key, though it may still arrive | `shared/api.ts:27` says to read first, then retry |
| `line.ts:192` | a script that comes after its timeout replaces an SDK that was initialized by one that never will be | `:147`, `:213` say to try again |
| `shared/api.ts:77` | the token of an answer is kept though the answer is dropped; the page acts as the account of another tab | `implementation-status.md:71` |
| `CitizenApp.tsx:266` | late notifications are shown after their account has left | `implementation-status.md:71` |
| `AdminApp.tsx:480`, `:505` | no token goes with a GET (`shared/api.ts:45`): once another tab has logged in as somebody else, the page reads as that account and shows what it read under the name it still bears, until GET /me is answered | `implementation-status.md:71` |
| `AdminApp.tsx:541` | closing a case clears the error of a list that was not loaded: it looks empty | `:710` "目前沒有此狀態的案件" |
| `AdminApp.tsx:527` | saving one review item discards what is typed into the others | the note on the panel that saving concerns this item only |
| `CaseTracking.tsx:106` | a reading that fails drops the answer that waits for its retry | `:508` advises reading |
| `model.ts:304` | two blank names match | `:317`, `:343` |
| `identity.ts:188` | `FIELD_BOUNDARY` lacks some labels: on the line below a name label with nothing behind it, such a label is taken for a name | `:206` "Unclear or conflicting candidates remain empty for review" |
| `files.py:165` | two bodies for one case stop the event loop | `README.md:137`, `tests/test_files.py:94` |
| `files.py:192` | a file without a task is completed after the submission | `files.py:76` refuses such files |
| `worker.py:268` | a hundred events of accounts that never link fill every batch | `README.md:54` |
| `auth.py:489` | a login through a link that is being removed begins a session that stays | `auth_notes.md:37`, `:39` |
| `admin.py:155`, `:83` | exports and claims are counted without a lock: concurrent requests pass the limit | `:158` `EXPORT_LIMIT`, `:90` `TOO_MANY_CLAIMS` |

## 4. The proofs

The theorems hold for every value of the constants, under the assumption named
in each module (`CaseAssumption`, `DeliveryAssumption`, `SessionsAssumption`, ...):
the types of the constants; that the set of files is finite (their sizes are added
up), and so are the sets of cases, tasks and grants that are listed or counted; that `None` is none of the values
it stands beside, and no row, bundle, card, image or reading; that the keys of
counters, and those of locks, differ, as tables and scopes do; and that limits, windows,
batches, sizes and numbers of attempts are positive, as `auth.py`, `config.py`, `worker.py` and
`files.py` give them.

| Module | Theorem | Property | Argument |
|---|---|---|---|
| CaseWorkflowProofs | `TypeCorrect` | `TypeOK` | inductive as it stands; row by row (`SubmissionType`, `WriteTaskType`, ...) |
| | `AcceptancesAreCurrent` | `AcceptedIsCurrent` | inductive with `TypeOK`: accepted rows are final (`AcceptanceFinal`), receipts only grow (`ReceiptsKept`), verdicts are final (`VerdictsFinal`) |
| | `DecisionsFormAChain` | `DecisionChain` | inductive with `TypeOK`: the only decision nothing supersedes is the last |
| | `DecisionsStayFounded` | `DecisionsAreFounded` | needs `FoundedInv`, below |
| | `OutcomesMatchTheReview` | `OutcomeMatchesReview` | needs `DecisionChain`: once decided, the items are frozen (`DecidedFrozen`) |
| | `EvidenceStaysClean` | `EvidenceIsSubmittedAndClean` | inductive with `TypeOK` |
| | `ApplicationReceivedOnce` | `ReceivedOnceAndComplete` | strengthened with `DraftIsUnsubmitted` |
| | `RemindersStayCurrent` | `RemindersAreCurrent` | inductive with `TypeOK`; one lemma serves every handler that cancels (`OneTaskReminded`) |
| | `ReceiptsAnswerTheirRevision` | `ReceiptsMeetTheirRevision` | needs `RecordsInv`, below |
| | `ImplementsLifecycle` | `KeepsItsPromises` | step simulation (`LifecycleStep`) under the mapping at the end of CaseWorkflow, with `TypeOK`, `DecisionChain` and `DraftIsUnsubmitted` as invariants |
| StaffPageProofs | `PagesAreBeside` | | `PageSpec` implements `Spec`: all theorems about CaseWorkflow hold beside the pages |
| | `PageTypeCorrect` | | from `KnowledgeInv`, below |
| | `EtagsNameContent` | `EtagNamesContent` | from `KnowledgeInv` |
| | `NobodyDecidesBlind` | `DecidedOnWhatWasSeen` | from `KnowledgeInv` and the version check |
| | `RulesHold` | `RulesNeverGuess` | from `RulesInv`, for every set of inputs and every number of lines |
| | `RulesAreBeside` | | `RulesSpec` implements `PageSpec`: the theorems about the page hold beside the rules |
| NotificationProofs | `DeliveryTypeCorrect` | `TypeOK` | inductive as it stands |
| | `LogIsComplete` | `AttemptsAreLogged` | strengthened with "nothing of the list is in flight" (`LogInv`) |
| | `FinalStays` | `FinalIsFinal` | from `ReadInv`, below |
| | `FirstAttemptIsAskedFor` | `FirstAttemptWasAsked` | from `ReadInv` and `AskedInv` |
| | `OneMessage` | `DeliveredOnce` | from `CopiesInv` |
| | `RecordsStayHonest` | `RecordsAreHonest` | from `DoubtInv`, with `LogInv` and `CopiesInv` |
| | `ResultsStay` | `ResultsStand` | from `OwnerInv`, under `PromptSpec` |
| LoginsProofs | `LoginsInvariant` | | the invariants of the parts |
| | `LoginsStayTyped` | | `LoginsTypeOK`, the types of the five parts |
| | `LoginsHappenOnce`, `DisabledStaysOut` | `LetsInOnce`, `NoLoginWhenDisabled` | from `MfaInv`, of StaffMfa alone; `SecondFactorHolds` says it of `LoginsSpec` |
| | `EveryTryIsCounted` | `TriesAreCounted` | from `MailInv` and `LimitsInv` |
| | `LinksStayTrue` | `LinksAreTrue` | from `LineInv` and `InboxInv` |
| | `EventsCountOnce` | `CountedOnce` | from `InboxInv` |
| RequestsProofs | `RequestsInvariant` | | the invariants of the parts |
| | `RequestsStayTyped` | | `RequestsTypeOK`, the types of the seven parts |
| | `SessionsEndInTime`, `RevocationStands` | `SessionsEnd`, `RevokedStays` | from `SessionsInv`, of AccountSessions alone; `SessionsHold` says it of `RequestsSpec` |
| | `AuthorityGiven` | `AuthorityIsGiven` | from `RolesInv` and `ClaimsInv` |
| | `DoneIsAsTold` | `DoneAsTold` | from `ExportsInv`, `KeysInv`, `UploadInv`, `AssignInv` |
| | `WhatIsDecidedStands` | `DecidedStands` | from the same, step by step |
| FileScanProofs | `VerdictsAreTrue`, `VerdictsAreFinal` | `VerdictIsTrue`, `VerdictsStand` | from `ScanInv` |
| | `ScanTypeCorrect` | | `ScanTypeOK` |
| ApplicationFormProofs | `SubmissionsAreConfirmed`, `ReceiptsAreOwn` | `SubmittedAsConfirmed`, `ReceiptIsOwn` | from `FormInv` |
| | `CleanPagesAreSaved`, `VisitsMakeOneCase` | | the same invariant; parts of `ShownIsCurrent` |
| | `FormTypeCorrect` | | `FormTypeOK` |
| PagesProofs | `PagesInvariant` | | the invariants of the pages |
| | `PagesStayTyped` | | `PagesTypeOK`, the types of the nine parts |
| | `PagesSendWhatWasConfirmed` | `SentAsConfirmed` | from `FormInv`, `ReviewInv`, `TaskInv`, `TrackInv`, `ReaderInv` |
| | `PagesShowTheCurrent` | `ShownIsCurrent` | from `FormInv`, `SessionInv` with `SessionKept` and `SessionLater`, `WorkspaceInv`, `ReaderInv`, `LiffInv` |
| | `PagesActOnWhatWasSeen` | `ActedAsSeen` | from `ReviewInv`, `TaskInv`, `LiffInv`, step by step |
| | `FormHolds` | `SubmittedAsConfirmed`, `ReceiptIsOwn` | `PagesSpec` implements ApplicationForm's `Spec` |

**Cases.** `DecisionsAreFounded` speaks of decisions taken long ago, while tasks and files
might move on. It is inductive only together with `DecisionChain` (a case with
decisions is DECIDED or CLOSED, so no task moves any more) and
`AcceptedIsCurrent` (the accepted answer a replacement comes from exists); that
conjunction is `FoundedInv`. `_ready_for_decision` establishes it for the
decision being taken (`ReadyIsFounded`) and the scanner cannot undo it
(`SettledForGood`).

`ReceiptsMeetTheirRevision` relates old receipts to the present history of the
task. It needs that a task's row repeats the last of its revisions
(`TaskHistory`) and that the current revision of an open task has no answer yet
(`OpenIsUnanswered`); `RevisionSteps` says that a step leaves a task's revisions
alone, writes the first, or appends one.

`EtagNamesContent` holds because versions only grow: a step that changes the
status, a task or an item counts the case's version up (`CaseVersion`), and a row that
changes gets the next version of its own (`TaskVersion`, `ItemVersion`, which
need that rows not written yet have version 0, `Blank`). `KnowledgeInv` adds to the
property that a page's versions are never ahead of the rows'.

**Delivery.** There is no lock to lean on; the invariants say what stands in for one.
`ReadInv`: a pass whose rows nobody wrote since still sees the status it read, a
handler that may still cancel faces a waiting intent, and an owner with a call
out is processing. So whoever writes, writes over a status that is not final.
`AskedInv` adds that a handler that finds nothing to cancel before any
attempt has found a settled intent, so that no pass can begin. `CopiesInv`: LINE forgets the
key only when nothing is out and the window is closed, and `Begin` is barred from then on.
`DoubtInv`: a message taken, or still to be taken, belongs to an
attempt that is not marked FAILED and about which nobody holds a FAILED in his hands;
it needs that an attempt has one caller, which `LogInv` gives. `OwnerInv`: while
passes read in time, one that has current rows owns the job, and an owner's attempt
is the one in flight; the finding is exactly where its second part fails.

**Logins.** What a request read before it waited is worth nothing until a lock or
a version says otherwise; the invariants say which.

- `SessionsInv`: what a login holds under the account's lock is what the row says (`Held`), what it read
  before is older, never newer (`Older`), so a session that is live is of the current
  role version and of an account that is active (`Current`).
- `MfaInv`: a try that compares holds the account, so the last step it read is the
  last step, and its challenge, which is neither spent nor out of attempts (`Holds`); every
  login so far used a step before the last one kept (`Once`).
- `MailInv`: one request at a time asks for a code of an address, since the window admits one
  (`OneAsks`; see section 2 on `open`), what it made is the newest (`InOrder`, `Replacing`), and
  who compares holds the lock and the version that he read (`Comparing`). Hence
  every code but the newest is consumed (`OnlyTheNewest`).
- `LimitsInv`: requests count in the order of the rules (`InStages`), a row that was counted is
  locked until the commit (`HoldsCounted`), and the number in a row is that of the attempts since its window
  began (`RowsCount`). No circle can arise, because who waits for a row of a rule
  holds rows of earlier rules only; it is a fact about order, and so holds for
  any number of requests.
- `LineInv`: links of one account have different versions (`Numbered`, `Greatest`, the last of which
  an insert exceeds, under the account's lock); a message keeps the version it was queued under, and so
  what is delivered went to the link it was queued for (`Queued`, `Called`, `NeverToAnother`).
- `InboxInv`: a link shows the latest of the events counted for its present binding (`Shown`). It is
  not inductive by itself, as a pass decides several events before anything is written:
  `Passing` says that what a pass will write of a link it holds is the latest of the events recorded and
  of those the pass has counted, and nobody else counts for a link that is held.

**Requests.** `KeysInv`: a record is either of a holder who has not committed, or has its effect
and the answer that every repetition gets. `RolesInv`: grants that overlap are of an authority that some
grant from outside covers. `ClaimsInv`: whoever resolves holds case and claim, and what he read of
them is what they are (`Reviewing`), and owners are the creator or approved (`Owning`).
`AssignInv`: the rows a batch holds are the first of its list, by id (`Locking`). So of those who wait,
one who waits for the greatest id waits for someone who waits for nothing: no circle, for any number of
batches. `ExportsInv`: passes hold disjoint batches, and what a pass marked ready it wrote whole before;
a death between leaves a file that no row names. `UploadInv`: the handler holds the case's
lock while it takes the bytes, so the sizes promised by the rows stay within the quota
(`SizeOf`, `Promised`) whatever the body brings, and a row says stored only of an object that is there (`Sound`).

**Scans and forms.** `ScanInv`: one worker at most works under a lease that is not over (`Leases`,
`Claims`), a claim that was overtaken no longer fits the row's attempt (`Fits`), so a verdict is
written by who read the object under it. `FormInv`: of one page, what waits for its answer, what is shown, and what was clicked belong together
(`Waits`, `Showing`, `Clicked`); the body that is pending is the form that was confirmed and keeps its key
(`Pending`, `Sending`); a key is recorded for one case, and every receipt with a key that was sent
(`OneCase`, `Received`, `Recorded`).

**Pages.** A page cannot lock what it shows. What stands in for a lock is a turn, a version or a key, and
the invariants say what each of them vouches for.

- `SessionInv`: the applicant's page keeps the token of the session that it shows and no other. Of the staff's
  (`SessionLater`), what is shown, and what is on its way and still counts, was answered by no session before the
  one its work area was mounted with: the cookie holds the newest session (`JarIsNewest`), so what is read later
  is no older; and a turn is taken away in the step that mounts the work area anew. More cannot be said, as a
  GET is answered for the cookie and not for the name on the page (section 3).
- `WorkspaceInv`: an answer that still counts is about the filter, or the case, that is chosen (`Wires`).
- `ReviewInv`: what the page read is what the case was (`Older`): no version of it is ahead of the row's, and
  where the versions agree so does the content. What was sent carries the versions that are shown
  (`ReviewSent`), and what is confirmed the body and the items (`ReviewForm`); any change drops the
  confirmation. So the server, which compares versions only, replaces nothing unseen.
- `TaskInv`: the same of tasks (`OlderTask`, in which a scan may turn an answer clean, as it counts no
  version up), and of creations: no two tasks have one key (`KeysAreOwn`), and under the one key that
  the form remembers nothing was reported, and at most its own task was made (`TaskForm`). Hence
  a creation that is repeated until it is reported makes one task.
- `TrackInv`: a card that may repeat an operation shows what the operation says (`CardOK`), since it is
  locked from the click to the answer and waits for one answer at most (`WaitsFor`); an answer to the
  operation of a card that is gone finds no card with that mount (`MountIsFree`).
- `ReaderInv`: one recognition at most has its turn, and holds the lock (`Turns`); while it has it, the picture it
  reads is the one that is there (`Reads`), for a change of the picture ends its turn.
- `LiffInv`: a script that loads is the one the attempt waits for (`Loading`), and an SDK that is initializing or
  ready is the one whose promise is kept (`Promised`), so that nobody calls init on it again, and at most
  one initialization is under way at a time (`OneInitialization`).

The invariants of the form are taken twice: of the visits as they stand, of the tabs that share drafts as an
instance of ApplicationFormProofs (`Draft`), after the steps of the two instances are seen to be the
same (`SameActions`).

**Compositions.** A step of `LoginsSpec` is a step of the part that `which` names and
leaves the others alone (`StepOfAPart`), and so in `RequestsSpec` and `PagesSpec`; the invariant of the
composition (`LoginsInv`, `RequestsInv`, `PagesInv`) is that part's. The parts are named instances, so their lemmas are stated of
`Mail!Next`, `Upload!Handler` and so on; there is no second copy of a definition.

**Rules.** `RulesInv` says that the fields of the grant stay within what may be entered
(`Values`) and that the lines of a card are a list of lines. The rest are facts about the functions.

- The amount: the share and the cap are taken in whole cents, so that the estimate never exceeds either
  (`EstimateBounds`); what an amount that shows no error may exceed them by is the cents that the comparison lets pass
  (`AmountsCovered`, `ErrorFreeSound`).
- The documents: the page's list and the server's name the same types (`DocumentsAgree`), so what was
  sent is what is required; any change of a field that the card gave drops the hint (`DocumentStep`).
- The front of the card: the readings of a list of lines are a finite set (`ReadingsFinite`); where that set has at
  most one member, every label that has a reading has that one (`OneAtMost`, `PickOnly`), so
  a field that is taken is what each of its labels shows (`IdFromAll`, `NameFromAll`, `BirthFromAll`).
- The back: an address is one run of lines (`OneAddress`, `LinesOfAddress`). A birth date: a day that `Date.UTC`
  does not move exists, and what is written in ISO form is read as what it was (`IsoIsRead`), so
  confirming it again changes nothing (`BirthStays`).

The rules were CASE expressions with arms that overlap, as the code's chains of `if` do. In TLA+ such a
CASE may take any arm that is true: TLC took the first, the prover could not. They are IF ... ELSE now, in the order of
the code.

**Types.** The type invariants of the compositions (`RequestsTypeOK`, `LoginsTypeOK`, `PagesTypeOK`) are
seldom inductive, and take a strengthening for most parts: `ClaimsHeld`, `UploadsKept`, `MfaKept`,
`MailKept`, `LimitsKept`, `LineKept`, `InboxKept`; `SessionKept`, `SpaceKept`, `ReviewKept`, `PanelsKept`,
`TrackKept`, `ReaderKept`, `LiffKept`. Several are more than types. A token that is known was issued, the cookie holds the newest, and a page
with an identity has a token (`SessionKept`); an area of the staff's page is disabled exactly while one request holds
it (`SpaceKept`, `HeldBy`); the next page of a list begins at a case that is listed (`CursorListed`: a set of naturals that is
not empty has a least element). They are in no `.cfg`: TLC was run with them on the same instances
before they were proved, and the theorems speak for every instance.

**Model-checked only.** Liveness under fairness (`Settles`, `ServerGetsOn`, `PagesGetOn`): it and ENABLED are
out of the prover's reach. Every other property of a passing run is a theorem.

## 5. What is left out

- Who may act (`case_filter`, grants, roles) in CaseWorkflow: its properties hold whoever acts.
- The exact contents of forms, requirements, texts, audit rows; hashing, tokens, mail, pictures.
- Several cases at once, except where rows meet: batches, claims, uploads of one quota.
- On the staff page, the panels for exports, accounts, notifications and
  assignment, with one form each; on the applicant's, the safety lessons, settings, and the
  list of notifications with its read marks.
- The account made at a first login; events of LINE without a user id.
- OcrLab and the recognition itself; bootstrap, CLI, configuration and web delivery:
  sequential, without state that others share.
- Claims and exports past their limits, and two administrators who disable each other: the code has no
  guard there of which a property could speak (see the hazards).

## 6. The plan

Done: the modules of section 2, the runs of section 3, the proofs of section 4.
What remains, in order:

1. The panels of the staff page that are left out.
2. The list of notifications on the applicant's page, with its read marks.

----------------------------- MODULE MCProgress -----------------------------
(***************************************************************************)
(* Small instances of what must get on: the scans of files (FileScan),     *)
(* requests that take files, exports and the inbox of LINE's events in the *)
(* workers, LINE's SDK, the work area of the staff and the reader of       *)
(* identity cards in the pages.  `which` says which of them this behaviour is about; the fairness of each*)
(* is that of its module, stated of the steps of all.                      *)
(***************************************************************************)
EXTENDS FileScan, TLC

CONSTANTS
  Requests,                                                   \* the requests are the workers
  Contents, TaskFiles, Quota, MaxStarted, MaxBodies,  \* uploads
  NJobs, MaxActive, Batch, MaxDeaths,                         \* exports
  Events, Subjects, Limit, MaxBinds,                          \* the inbox
  PageSize,                                                   \* the work area
  receipt, proof, received, all, photo, ann, ben, e1, e2, e3, e4, e5

VARIABLES
  which,
  upCase, task, upload, passed, stored, part, upLock, loop, req, told, started, upCrashes,
  job, file, allowed, exportRequest, pass, got, deaths,
  inbox, link, inboxPass, linkLock,
  script, liff, attempt, waiting, answered, pending, initialized, sdk, calls, asked,
  view, status, items, nextCursor, selectedId, bundle, busy, loading, error, reads,
  side, field, reading, locked, disabled, reviewed, handed

uploadVars == <<upCase, task, upload, passed, stored, part, upLock, loop, req, told, started, upCrashes>>
exportVars == <<job, file, allowed, exportRequest, pass, got, deaths>>
inboxVars == <<inbox, link, inboxPass, linkLock>>
liffVars == <<script, liff, attempt, waiting, answered, pending, initialized, sdk, calls, asked>>
workspaceVars == <<view, status, items, nextCursor, selectedId, bundle, busy, loading, error, reads>>
readerVars == <<side, field, reading, locked, disabled, reviewed, handed>>

MCFiles == {receipt, proof}
MCSize == [f \in MCFiles |-> IF f = proof THEN 2 ELSE 1]
MCShows == (received :> {1}) @@ (all :> {1, 2})

\* Follows and unfollows of two LINE accounts, in an order in which two passes can meet on
\* both links, and a message that is neither.
MCKind == [e \in Events |-> CASE e = e5 -> "other" [] e \in {e1, e4} -> "follow" [] OTHER -> "unfollow"]
MCAt == [e \in Events |-> CASE e \in {e1, e5} -> 1 [] e = e2 -> 2 [] e = e3 -> 3 [] OTHER -> 4]
MCSubject == [e \in Events |-> IF e \in {e2, e4} THEN ben ELSE ann]

Upload == INSTANCE FileUpload WITH
  Files <- MCFiles, Size <- MCSize, MaxCrashes <- 0, case <- upCase, lock <- upLock, row <- upload,
  object <- stored, crashes <- upCrashes
Exporting == INSTANCE Exports WITH request <- exportRequest
Inbox == INSTANCE LineInbox WITH
  Kind <- MCKind, At <- MCAt, Subject <- MCSubject, pass <- inboxPass, lock <- linkLock
Liff == INSTANCE LiffConnect WITH Callers <- Requests, Scripts <- {1, 2, 3}, MaxCalls <- 2, told <- answered
Workspace == INSTANCE AdminWorkspace WITH
  Cases <- 1..2, Filters <- {received, all}, Received <- received, Shows <- MCShows, MaxWaiting <- 2,
  wire <- reads
Reader == INSTANCE IdentityReader WITH Images <- {photo}, Jobs <- {1, 2}, job <- reading

ASSUME MCAssumption ==
  Upload!UploadAssumption /\ Exporting!ExportsAssumption /\ Inbox!InboxAssumption /\ Liff!LiffAssumption /\
  Workspace!WorkspaceAssumption /\ Reader!ReaderAssumption

\* The rows of the parts that this behaviour is not about do not exist.
MCInit ==
  /\ which \in {"scans", "uploads", "exports", "inbox", "liff", "workspace", "reader"}
  /\ Init
  /\ which # "scans" => object = [f \in Files |-> "sound"]
  /\ IF which = "uploads" THEN Upload!Init
     ELSE upCase = None /\ task = None /\ upload = None /\ passed = None /\ stored = None /\ part = None /\
          upLock = None /\ loop = None /\ req = None /\ told = None /\ started = None /\ upCrashes = None
  /\ IF which = "exports" THEN Exporting!Init
     ELSE job = None /\ file = None /\ allowed = None /\ exportRequest = None /\ pass = None /\ got = None /\
          deaths = None
  /\ IF which = "inbox" THEN Inbox!Init
     ELSE inbox = None /\ link = None /\ inboxPass = None /\ linkLock = None
  /\ IF which = "liff" THEN Liff!Init
     ELSE script = None /\ liff = None /\ attempt = None /\ waiting = None /\ answered = None /\
          pending = None /\ initialized = None /\ sdk = None /\ calls = None /\ asked = None
  /\ IF which = "workspace" THEN Workspace!Init
     ELSE view = None /\ status = None /\ items = None /\ nextCursor = None /\ selectedId = None /\
          bundle = None /\ busy = None /\ loading = None /\ error = None /\ reads = None
  /\ IF which = "reader" THEN Reader!Init
     ELSE side = None /\ field = None /\ reading = None /\ locked = None /\ disabled = None /\
          reviewed = None /\ handed = None

Rest(p) ==
  /\ UNCHANGED which
  /\ IF p = "scans" THEN TRUE ELSE UNCHANGED vars
  /\ IF p = "uploads" THEN TRUE ELSE UNCHANGED uploadVars
  /\ IF p = "exports" THEN TRUE ELSE UNCHANGED exportVars
  /\ IF p = "inbox" THEN TRUE ELSE UNCHANGED inboxVars
  /\ IF p = "liff" THEN TRUE ELSE UNCHANGED liffVars
  /\ IF p = "workspace" THEN TRUE ELSE UNCHANGED workspaceVars
  /\ IF p = "reader" THEN TRUE ELSE UNCHANGED readerVars

MCNext ==
  \/ which = "scans" /\ Next /\ Rest("scans")
  \/ which = "uploads" /\ Upload!Next /\ Rest("uploads")
  \/ which = "exports" /\ Exporting!Next /\ Rest("exports")
  \/ which = "inbox" /\ Inbox!Quiet /\ Rest("inbox")
  \/ which = "liff" /\ Liff!Next /\ Rest("liff")
  \/ which = "workspace" /\ Workspace!Next /\ Rest("workspace")
  \/ which = "reader" /\ Reader!Next /\ Rest("reader")

allVars == <<which, vars, uploadVars, exportVars, inboxVars, liffVars, workspaceVars, readerVars>>
MCSpec == MCInit /\ [][MCNext]_allVars

\* What a request of the service or a worker does next.
Works(w) ==
  \/ which = "uploads" /\ Upload!Handler(w) /\ Rest("uploads")
  \/ which = "scans" /\ Step(w) /\ Rest("scans")
  \/ which = "exports" /\ Exporting!Step(w) /\ Rest("exports")
  \/ which = "inbox" /\ Inbox!Step(w) /\ Rest("inbox")

\* The database ends a circle of waits.
Ended(w) == which = "inbox" /\ Inbox!DeadlockVictim(w) /\ Rest("inbox")

\* Time passes on the server, and the timers of the browser fire.
LeaseOver(f) == which = "scans" /\ LeaseEnds(f) /\ Rest("scans")
RetryComes(f) == which = "scans" /\ RetryDue(f) /\ Rest("scans")
ScriptTimeout(s) == which = "liff" /\ Liff!ScriptTimeout(s) /\ Rest("liff")
InitTimeout == which = "liff" /\ Liff!InitTimeout /\ Rest("liff")

\* A fetch succeeds or fails, a reading ends or is interrupted.
Settles ==
  \/ which = "workspace" /\ Workspace!OperationSettles /\ Rest("workspace")
  \/ which = "reader" /\ Reader!Settles /\ Rest("reader")
Reloads == which = "workspace" /\ Workspace!Reloads /\ Rest("workspace")

\* A behaviour is about one part: fairness of a disjunction is fairness of that part's disjunct.
MCFairSpec ==
  /\ MCSpec
  /\ \A w \in Workers : WF_allVars(Works(w)) /\ WF_allVars(Ended(w))
  /\ \A f \in Files : WF_allVars(LeaseOver(f)) /\ WF_allVars(RetryComes(f))
  /\ \A s \in {1, 2, 3} : WF_allVars(ScriptTimeout(s))
  /\ WF_allVars(InitTimeout \/ Settles) /\ WF_allVars(Reloads)

\* Somebody waits for the page: controls that are disabled, or a call without an answer.
PageWaits ==
  \/ which = "liff" /\ waiting # {}
  \/ which = "workspace" /\ busy
  \/ which = "reader" /\ locked

---------------------------------------------------------------------------
(* The properties of the parts, which state and explain them.              *)

\* Whoever dies, every file settles, every request that takes a file is answered, every export that
\* waits is made or cancelled, and every event of a LINE account that has been linked is applied: of
\* finitely many, none is left (worker.py, files.py, notifications.py).
ServerGetsOn == <>[](
  /\ which = "scans" => \A f \in Files : Settled(f)
  /\ which = "uploads" => \A r \in Requests : req[r].op = None
  /\ which = "exports" => \A j \in 1..NJobs : job[j].status # "PENDING"
  /\ which = "inbox" =>
       \A e \in Events : link[MCSubject[e]].active => inbox[e].status \in Inbox!Final \cup {None}
  )

\* Whatever hangs, who asks LINE's SDK is answered, the work area is enabled again after an
\* operation, and the reader is free again (line.ts, AdminApp.tsx, IdentityOCR.tsx).
PagesGetOn == PageWaits ~> ~PageWaits
=============================================================================

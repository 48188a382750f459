----------------------------- MODULE FileUpload -----------------------------
(***************************************************************************)
(* The three requests of an upload (files.py) with the private store       *)
(* (storage.py) and the worker's expiry of uploads nobody finished         *)
(* (worker.py), for one case.                                              *)
(*                                                                         *)
(* Handlers are split where the database, the disk or the event loop lets  *)
(* another actor in.  The case's row lock is `lock'.  upload_content is the*)
(* one coroutine: it waits for the row lock without leaving the event loop *)
(* (`loop'), and keeps the lock while it awaits the body.  The others run  *)
(* on threads, but it is the event loop that hands them their requests.    *)
(***************************************************************************)
EXTENDS Naturals, FiniteSets

CONSTANTS
  Files,       \* upload intents that may be granted, one version each
  TaskFiles,   \* those that belong to the case's supplement task
  Size,        \* Size[f]: the declared size
  Quota,       \* case_storage_quota_bytes
  Contents,    \* bytes a client may send that have the declared size and type
  Requests,    \* requests under way at once
  None,
  MaxStarted,  \* bound: requests in all
  MaxBodies,   \* bound: uploads of a body under way at once
  MaxCrashes   \* bound: crashes of the API process

UploadAssumption ==
  /\ TaskFiles \subseteq Files /\ IsFiniteSet(Files)
  /\ Size \in [Files -> Nat \ {0}] /\ Quota \in Nat
  /\ MaxStarted \in Nat /\ MaxBodies \in Nat /\ MaxCrashes \in Nat
  /\ None \notin Contents \cup Requests \cup {"intent", "content", "complete"}
  /\ None \notin {"PENDING_UPLOAD", "PENDING_SCAN", "EXPIRED"}

VARIABLES
  case,     \* Case.status
  task,     \* Task.status of its one task, or None
  row,      \* row[f]: FileVersion
  passed,   \* passed[f]: the clock is past upload_expires_at
  object,   \* object[f]: the published object, or None
  part,     \* part[f]: the .part file is there
  lock,     \* who holds the case's row lock, or None
  loop,     \* whose handler has the event loop, or None
  req,      \* req[r]: a request under way
  told,     \* told[f]: bytes a client was told are persisted, or None
  started, crashes

vars == <<case, task, row, passed, object, part, lock, loop, req, told, started, crashes>>
env == <<case, task>>
disk == <<object, part>>

NoRow == [status |-> None, sha |-> None, version |-> 0]
Idle == [op |-> None, file |-> None, pc |-> "idle", seenCase |-> None, seen |-> NoRow]

Init ==
  /\ case = "DRAFT" /\ task = None
  /\ row = [f \in Files |-> NoRow]
  /\ passed = [f \in Files |-> FALSE]
  /\ object = [f \in Files |-> None]
  /\ part = [f \in Files |-> FALSE]
  /\ lock = None /\ loop = None
  /\ req = [r \in Requests |-> Idle]
  /\ told = [f \in Files |-> None]
  /\ started = 0 /\ crashes = 0

Pending(v) == v.status = "PENDING_UPLOAD"
Uploaded(v) == v.status = "PENDING_SCAN"

\* Slip: the task is not looked at again once the case is found open.
EditableWithoutTask(f, status) ==
  IF f \in TaskFiles THEN status \in {"DRAFT", "RECEIVED", "UNDER_REVIEW"} ELSE status = "DRAFT"

\* _upload_case, past the row lock: the case as the session has it, the task as it is.
Editable(f, status) ==
  IF f \in TaskFiles
  THEN status \in {"DRAFT", "RECEIVED", "UNDER_REVIEW"} /\ task \in {"OPEN", "REOPENED"}
  ELSE status = "DRAFT"

\* The session ends: its row lock goes, and the event loop if it is a coroutine.
Release(r) ==
  /\ lock' = IF lock = r THEN None ELSE lock
  /\ loop' = IF loop = r THEN None ELSE loop
Answer(r) == req' = [req EXCEPT ![r] = Idle] /\ Release(r)

\* A request reaches its handler.
Begin(r, op, f, pc) ==
  /\ req[r] = Idle /\ loop = None /\ started < MaxStarted
  /\ started' = started + 1
  /\ req' = [req EXCEPT ![r] = [op |-> op, file |-> f, pc |-> pc, seenCase |-> case, seen |-> row[f]]]

---------------------------------------------------------------------------
(* POST /files/upload-intents.                                             *)

IntentStart(r, f) ==
  /\ row[f] = NoRow
  /\ \A q \in Requests : req[q].op = "intent" => req[q].file # f  \* every intent makes its own file
  /\ Begin(r, "intent", f, "lock")
  /\ UNCHANGED <<env, row, passed, disk, lock, loop, told, crashes>>

Reserved(f) ==
  row[f].status \notin {None, "EXPIRED"} /\ (Uploaded(row[f]) \/ ~passed[f])
SizeOf(S) == Cardinality(UNION {{f} \X (1..Size[f]) : f \in S})
Spent == SizeOf({f \in Files : Reserved(f)})

\* Slip: the case is read without FOR UPDATE.
IntentUnlocked(r) ==
  /\ req[r].op = "intent" /\ req[r].pc = "lock"
  /\ IF Editable(req[r].file, case) /\ Spent + Size[req[r].file] <= Quota
     THEN req' = [req EXCEPT ![r].pc = "insert"] /\ UNCHANGED <<lock, loop>>
     ELSE Answer(r)
  /\ UNCHANGED <<env, row, passed, disk, told, started, crashes>>

\* The first read of the case is the one that locks it.
IntentCheck(r) ==
  /\ req[r].op = "intent" /\ req[r].pc = "lock" /\ lock = None
  /\ IF Editable(req[r].file, case) /\ Spent + Size[req[r].file] <= Quota
     THEN lock' = r /\ req' = [req EXCEPT ![r].pc = "insert"] /\ UNCHANGED loop
     ELSE Answer(r)
  /\ UNCHANGED <<env, row, passed, disk, told, started, crashes>>

IntentInsert(r) ==
  /\ req[r].op = "intent" /\ req[r].pc = "insert"
  /\ row' = [row EXCEPT ![req[r].file] = [status |-> "PENDING_UPLOAD", sha |-> None, version |-> 1]]
  /\ Answer(r)
  /\ UNCHANGED <<env, passed, disk, told, started, crashes>>

---------------------------------------------------------------------------
(* PUT /files/{file_id}/content, a coroutine.                              *)

Bodies == {r \in Requests : req[r].op = "content"}

\* _file_for reads case and version without a lock.
ContentStart(r, f) ==
  /\ row[f] # NoRow                        \* the token is the intent's
  /\ Cardinality(Bodies) < MaxBodies
  /\ Begin(r, "content", f, "lock")
  /\ loop' = r
  /\ UNCHANGED <<env, row, passed, disk, lock, told, crashes>>

\* Slip: .part is opened without O_EXCL and appended to.
ContentLockAnyPart(r) ==
  /\ req[r].op = "content" /\ req[r].pc = "lock" /\ lock = None
  /\ LET f == req[r].file IN
     IF Editable(f, req[r].seenCase) /\ Pending(req[r].seen) /\ ~passed[f] /\ object[f] = None
     THEN /\ lock' = r /\ loop' = None
          /\ part' = [part EXCEPT ![f] = TRUE]
          /\ req' = [req EXCEPT ![r].pc = "body"]
     ELSE Answer(r) /\ UNCHANGED part
  /\ UNCHANGED <<env, row, passed, object, told, started, crashes>>

\* The lock, the checks, and store_once up to the first await.
ContentLock(r) ==
  /\ req[r].op = "content" /\ req[r].pc = "lock" /\ lock = None
  /\ LET f == req[r].file IN
     IF Editable(f, req[r].seenCase) /\ Pending(req[r].seen) /\ ~passed[f] /\ object[f] = None /\ ~part[f]
     THEN /\ lock' = r /\ loop' = None
          /\ part' = [part EXCEPT ![f] = TRUE]
          /\ req' = [req EXCEPT ![r].pc = "body"]
     ELSE Answer(r) /\ UNCHANGED part
  /\ UNCHANGED <<env, row, passed, object, told, started, crashes>>

\* Slip: the transaction is left open when the body fails.
BodyFailsOpen(r) ==
  /\ req[r].op = "content" /\ req[r].pc = "body" /\ loop = None
  /\ part' = [part EXCEPT ![req[r].file] = FALSE]
  /\ req' = [req EXCEPT ![r] = Idle]
  /\ UNCHANGED <<env, row, passed, object, lock, loop, told, started, crashes>>

\* The body breaks off, or is not what was declared.
BodyFails(r) ==
  /\ req[r].op = "content" /\ req[r].pc = "body" /\ loop = None
  /\ part' = [part EXCEPT ![req[r].file] = FALSE]
  /\ Answer(r)
  /\ UNCHANGED <<env, row, passed, object, told, started, crashes>>

\* The body ends; fsync and hard link.
BodyStored(r, c) ==
  /\ req[r].op = "content" /\ req[r].pc = "body" /\ loop = None
  /\ object' = [object EXCEPT ![req[r].file] = c]
  /\ loop' = r
  /\ req' = [req EXCEPT ![r].pc = "record"]
  /\ UNCHANGED <<env, row, passed, part, lock, told, started, crashes>>

\* Slip: no version column.
WritesAnyway(r) == TRUE

\* The row is written if it is still the version that was read.
Writes(r) == row[req[r].file].version = req[r].seen.version

\* Slip: the client is answered before the digest is committed.
ContentAnswer(r) ==
  /\ req[r].op = "content" /\ req[r].pc = "record"
  /\ LET f == req[r].file
         v == [req[r].seen EXCEPT !.sha = object[f], !.version = req[r].seen.version + 1]
     IN /\ part' = [part EXCEPT ![f] = FALSE]
        /\ told' = [told EXCEPT ![f] = object[f]]
        /\ row' = IF Writes(r) THEN [row EXCEPT ![f] = v] ELSE row
  /\ Answer(r)
  /\ UNCHANGED <<env, passed, object, started, crashes>>

\* .part goes, the digest is committed.
ContentRecord(r) ==
  /\ req[r].op = "content" /\ req[r].pc = "record"
  /\ LET f == req[r].file
         v == [req[r].seen EXCEPT !.sha = object[f], !.version = req[r].seen.version + 1]
     IN /\ part' = [part EXCEPT ![f] = FALSE]
        /\ IF Writes(r)
           THEN row' = [row EXCEPT ![f] = v] /\ told' = [told EXCEPT ![f] = object[f]]
           ELSE UNCHANGED <<row, told>>
  /\ Answer(r)
  /\ UNCHANGED <<env, passed, object, started, crashes>>

---------------------------------------------------------------------------
(* POST /files/{file_id}/complete.                                         *)

CompleteStart(r, f) ==
  /\ row[f] # NoRow
  /\ ~Uploaded(row[f])                     \* otherwise it is answered as it stands
  /\ Begin(r, "complete", f, "lock")
  /\ UNCHANGED <<env, row, passed, disk, lock, loop, told, crashes>>

\* The lock, the checks, and inspect_object.
CompleteCheck(r) ==
  /\ req[r].op = "complete" /\ req[r].pc = "lock" /\ lock = None
  /\ LET f == req[r].file IN
     IF /\ Editable(f, req[r].seenCase) /\ ~passed[f] /\ object[f] # None
        /\ req[r].seen.sha \in {None, object[f]}
     THEN lock' = r /\ req' = [req EXCEPT ![r].pc = "record"] /\ UNCHANGED loop
     ELSE Answer(r)
  /\ UNCHANGED <<env, row, passed, disk, told, started, crashes>>

CompleteRecord(r) ==
  /\ req[r].op = "complete" /\ req[r].pc = "record"
  /\ LET f == req[r].file
         v == [status |-> "PENDING_SCAN", sha |-> object[f], version |-> req[r].seen.version + 1]
     IN row' = IF Writes(r) THEN [row EXCEPT ![f] = v] ELSE row
  /\ Answer(r)
  /\ UNCHANGED <<env, passed, disk, told, started, crashes>>

---------------------------------------------------------------------------
(* The worker, the clock, the case, and the process.                       *)

Worker(f) ==
  /\ Pending(row[f]) /\ passed[f]
  /\ row' = [row EXCEPT ![f] = [row[f] EXCEPT !.status = "EXPIRED", !.version = row[f].version + 1]]
  /\ UNCHANGED <<env, passed, disk, lock, loop, req, told, started, crashes>>

Clock(f) ==
  /\ Pending(row[f]) /\ ~passed[f]
  /\ passed' = [passed EXCEPT ![f] = TRUE]
  /\ UNCHANGED <<env, row, disk, lock, loop, req, told, started, crashes>>

\* cases.py moves the case and its task under the same row lock.
CaseMoves ==
  /\ lock = None
  /\ \/ case = "DRAFT" /\ case' = "UNDER_REVIEW" /\ task' = "OPEN"
     \/ case = "UNDER_REVIEW" /\ task \in {"OPEN", "REOPENED"} /\ task' = "SUBMITTED" /\ UNCHANGED case
     \/ case = "UNDER_REVIEW" /\ task = "SUBMITTED" /\ task' = "REOPENED" /\ UNCHANGED case
  /\ UNCHANGED <<row, passed, disk, lock, loop, req, told, started, crashes>>

\* The API process dies and comes back: its sessions are rolled back, the disk stays.
Crash ==
  /\ crashes < MaxCrashes
  /\ crashes' = crashes + 1
  /\ req' = [r \in Requests |-> Idle]
  /\ lock' = None /\ loop' = None
  /\ UNCHANGED <<env, row, passed, disk, told, started>>

Handler(r) ==
  \/ IntentCheck(r) \/ IntentInsert(r)
  \/ ContentLock(r) \/ BodyFails(r) \/ (\E c \in Contents : BodyStored(r, c)) \/ ContentRecord(r)
  \/ CompleteCheck(r) \/ CompleteRecord(r)

Next ==
  \/ \E r \in Requests, f \in Files : IntentStart(r, f) \/ ContentStart(r, f) \/ CompleteStart(r, f)
  \/ \E r \in Requests : Handler(r)
  \/ \E f \in Files : Worker(f) \/ Clock(f)
  \/ CaseMoves
  \/ Crash

Spec == Init /\ [][Next]_vars

\* Handlers go on, and a body ends one way or the other.
FairSpec == Spec /\ \A r \in Requests : WF_vars(Handler(r))

---------------------------------------------------------------------------
(* Properties.                                                             *)

UploadTypeOK ==
  /\ case \in {"DRAFT", "UNDER_REVIEW"} /\ task \in {None, "OPEN", "SUBMITTED", "REOPENED"}
  /\ row \in [Files -> [status : {None, "PENDING_UPLOAD", "PENDING_SCAN", "EXPIRED"},
                         sha : Contents \cup {None}, version : 0..3]]
  /\ object \in [Files -> Contents \cup {None}] /\ told \in [Files -> Contents \cup {None}]
  /\ part \in [Files -> BOOLEAN] /\ passed \in [Files -> BOOLEAN]
  /\ lock # None => lock \in Requests /\ req[lock].pc \in {"insert", "body", "record"}
  /\ loop # None => loop \in Bodies /\ req[loop].pc \in {"lock", "record"}
  /\ \A r \in Requests : req[r].pc \in {"idle", "lock", "insert", "body", "record"}

\* What a case keeps and what it has promised room for never exceed its quota,
\* however intents, completions and expiry meet (files.py:119).
QuotaHolds == Spent <= Quota

\* A client that was told its bytes are persisted finds them, and their digest,
\* whatever crashes or expires after; a file that waits for the scan is the object
\* whose digest it carries.
StoredAsTold ==
  \A f \in Files :
    /\ told[f] # None => object[f] = told[f] /\ row[f].sha = told[f]
    /\ Uploaded(row[f]) => object[f] # None /\ row[f].sha = object[f]

\* An upload that expired is not completed by a request that read it before, and one
\* that was completed is neither expired nor written over.
FinalStandsStep == \A f \in Files : row[f].status \in {"EXPIRED", "PENDING_SCAN"} => row'[f] = row[f]
FinalStands == [][FinalStandsStep]_vars

\* A file of the supplement task is completed only while the task takes files, also
\* when the task was answered while the request waited for the row lock.
TaskFilesInTimeStep ==
  \A f \in TaskFiles : Uploaded(row'[f]) /\ ~Uploaded(row[f]) => task \in {"OPEN", "REOPENED"}
TaskFilesInTime == [][TaskFilesInTimeStep]_vars

\* A .part file a crash left behind is never taken for the beginning of an object.
NeverResumedStep ==
  \A f \in Files :
    part[f] /\ object[f] = None /\ (\A r \in Bodies : req[r].pc = "body" => req[r].file # f)
      => object'[f] = None /\ \A r \in Requests : ~(req'[r].pc = "body" /\ req'[r].file = f)
NeverResumed == [][NeverResumedStep]_vars

\* Every request that reaches its handler is answered.
RequestsEnd == \A r \in Requests : req[r].op # None ~> req[r].op = None
=============================================================================

------------------------------ MODULE Requests ------------------------------
(***************************************************************************)
(* What several requests of the service, and its workers, do to the same   *)
(* rows: the sessions of an account (AccountSessions), roles, claims,      *)
(* assignment, exports, idempotency records and uploads.  None of them     *)
(* decides by rows another one writes, so they stand side by side: the     *)
(* choice of `which` at the start says which of them a behaviour is about. *)
(***************************************************************************)
EXTENDS AccountSessions

CONSTANTS
  GrantCases, Schemes, SchemeOf, Roles, MaxGrants, MaxTime,   \* roles
  ClaimCases, Creator, NClaims, MaxPending, Handlers, Accounts,  \* claims
  NCases, Staff, MaxVersion,                                  \* assignment
  NJobs, Workers, MaxActive, Batch, MaxDeaths,                \* exports
  Contents, MaxEffects,                                       \* idempotency
  Files, TaskFiles, Size, Quota, MaxStarted, MaxBodies, MaxCrashes  \* uploads

VARIABLES
  which,
  now, enrolled, grants, first,
  claim, owner, asking, review, claimLock,
  case, able, batch, batchLock,
  job, file, allowed, exportRequest, pass, got, deaths,
  record, holder, effects, keyed, rules,
  upCase, task, row, passed, object, part, upLock, loop, req, told, started, crashes

roleVars == <<now, enrolled, grants, first>>
claimVars == <<claim, owner, asking, review, claimLock>>
batchVars == <<case, able, batch, batchLock>>
exportVars == <<job, file, allowed, exportRequest, pass, got, deaths>>
keyVars == <<record, holder, effects, keyed, rules>>
uploadVars == <<upCase, task, row, passed, object, part, upLock, loop, req, told, started, crashes>>

Granted == INSTANCE RoleGrants WITH Cases <- GrantCases
Claiming == INSTANCE CaseClaims WITH Cases <- ClaimCases, Reviews <- Requests, lock <- claimLock
Assigning == INSTANCE CaseAssignment WITH Batches <- Requests, lock <- batchLock
Exporting == INSTANCE Exports WITH request <- exportRequest
Keyed == INSTANCE Idempotency WITH Bodies <- Contents, request <- keyed, allowed <- rules
Upload == INSTANCE FileUpload WITH case <- upCase, lock <- upLock

ASSUME RequestsAssumption ==
  Granted!RolesAssumption /\ Claiming!ClaimsAssumption /\ Assigning!AssignmentAssumption /\
  Exporting!ExportsAssumption /\ Keyed!IdempotencyAssumption /\ Upload!UploadAssumption

\* The rows of the parts that this behaviour is not about do not exist.
RequestsInit ==
  /\ which \in {"sessions", "roles", "claims", "assignment", "exports", "keys", "uploads"}
  /\ Init
  /\ IF which = "roles" THEN Granted!Init
     ELSE now = None /\ enrolled = None /\ grants = None /\ first = None
  /\ IF which = "claims" THEN Claiming!Init
     ELSE claim = None /\ owner = None /\ asking = None /\ review = None /\ claimLock = None
  /\ IF which = "assignment" THEN Assigning!Init
     ELSE case = None /\ able = None /\ batch = None /\ batchLock = None
  /\ IF which = "exports" THEN Exporting!Init
     ELSE job = None /\ file = None /\ allowed = None /\ exportRequest = None /\ pass = None /\ got = None /\
          deaths = None
  /\ IF which = "keys" THEN Keyed!Init
     ELSE record = None /\ holder = None /\ effects = None /\ keyed = None /\ rules = None
  /\ IF which = "uploads" THEN Upload!Init
     ELSE upCase = None /\ task = None /\ row = None /\ passed = None /\ object = None /\ part = None /\
          upLock = None /\ loop = None /\ req = None /\ told = None /\ started = None /\ crashes = None

Rest(p) ==
  /\ UNCHANGED which
  /\ IF p = "sessions" THEN TRUE ELSE UNCHANGED vars
  /\ IF p = "roles" THEN TRUE ELSE UNCHANGED roleVars
  /\ IF p = "claims" THEN TRUE ELSE UNCHANGED claimVars
  /\ IF p = "assignment" THEN TRUE ELSE UNCHANGED batchVars
  /\ IF p = "exports" THEN TRUE ELSE UNCHANGED exportVars
  /\ IF p = "keys" THEN TRUE ELSE UNCHANGED keyVars
  /\ IF p = "uploads" THEN TRUE ELSE UNCHANGED uploadVars

RequestsNext ==
  \/ which = "sessions" /\ Next /\ Rest("sessions")
  \/ which = "roles" /\ Granted!Next /\ Rest("roles")
  \/ which = "claims" /\ Claiming!Next /\ Rest("claims")
  \/ which = "assignment" /\ Assigning!Next /\ Rest("assignment")
  \/ which = "exports" /\ Exporting!Next /\ Rest("exports")
  \/ which = "keys" /\ Keyed!Next /\ Rest("keys")
  \/ which = "uploads" /\ Upload!Next /\ Rest("uploads")

allVars == <<which, vars, roleVars, claimVars, batchVars, exportVars, keyVars, uploadVars>>
RequestsSpec == RequestsInit /\ [][RequestsNext]_allVars

---------------------------------------------------------------------------
(* The properties of the parts, which state and explain them.              *)

\* The rows of every part are as its code leaves them (each part says how).
RequestsTypeOK ==
  /\ SessionsTypeOK
  /\ which = "roles" => Granted!RolesTypeOK
  /\ which = "claims" => Claiming!ClaimsTypeOK
  /\ which = "assignment" => Assigning!AssignmentTypeOK
  /\ which = "exports" => Exporting!ExportsTypeOK
  /\ which = "keys" => Keyed!IdempotencyTypeOK
  /\ which = "uploads" => Upload!UploadTypeOK

\* Whatever anyone is granted is covered by what was given from outside, a case or a claim has one
\* owner, and whoever owns what he did not create was approved (admin.py).
AuthorityIsGiven ==
  /\ which = "roles" => Granted!AuthorityOnlyNarrows
  /\ which = "claims" => Claiming!OwnedOnce /\ Claiming!OwnedByApproval

\* A client is told what was done: an export that is ready is whole, a key has one effect that all
\* its answers agree on, and bytes that were said to be kept are, within the quota.  Batches never
\* wait for each other in a circle (common.py, files.py, storage.py, worker.py, cases.py).
DoneAsTold ==
  /\ which = "exports" => Exporting!ReadyIsWhole
  /\ which = "keys" => Keyed!OneEffect /\ Keyed!AnswersAgree
  /\ which = "uploads" => Upload!QuotaHolds /\ Upload!StoredAsTold
  /\ which = "assignment" => Assigning!NoCircleOfBatches

\* What was decided of a claim stands; cases change hands as a whole list, each as it was seen; an
\* expired or completed upload is not written over, a file of a task comes while the task takes
\* files, and half a file is never taken for its beginning (admin.py, cases.py, files.py).
DecidedStands == [][
  /\ which = "claims" => Claiming!ResolvedStandsStep
  /\ which = "assignment" => Assigning!AssignedAsSeenStep
  /\ which = "uploads" => Upload!FinalStandsStep /\ Upload!TaskFilesInTimeStep /\ Upload!NeverResumedStep
  ]_allVars
=============================================================================

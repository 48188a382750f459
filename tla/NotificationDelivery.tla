------------------------ MODULE NotificationDelivery ------------------------
(***************************************************************************)
(* One notification that asks an applicant to act on a task, from the      *)
(* outbox to LINE or to the list of notifications: its NotificationIntent, *)
(* its OutboxJob and its NotificationAttempt rows.  Two intents share no   *)
(* row, so one is enough.                                                  *)
(*                                                                         *)
(* process_notifications (app/worker.py) works without a lock: it lists    *)
(* candidates, takes the lease of a job, reads the rows, commits the       *)
(* attempt, calls LINE and writes the result, each in a transaction of its *)
(* own.  Other workers, the handlers of app/cases.py that settle the task, *)
(* and the retry by staff run between any two of these steps.  A worker    *)
(* may die in any of them.                                                 *)
(*                                                                         *)
(* Time is what its comparisons yield: available_at has passed or not, the *)
(* lease is held or expired, the first attempt is older than RETRY_WINDOW  *)
(* or not.  Left out: error codes, the message, and the two refusals of a  *)
(* frozen payload that only another secret_key, or a binding_version used  *)
(* twice, could cause.                                                     *)
(***************************************************************************)
EXTENDS Integers, Sequences

CONSTANTS
  Workers,          \* worker processes
  NoOne,            \* job.lease_owner is NULL
  Gone,             \* job.lease_owner names a pass whose process has died
  MAX_ATTEMPTS,     \* calls of LINE for one intent
  MaxMishaps        \* bound: crashes, and leases that expire under a live worker

ASSUME DeliveryAssumption ==
  /\ NoOne \notin Workers
  /\ Gone \notin Workers
  /\ MAX_ATTEMPTS \in Nat
  /\ MaxMishaps \in Nat

VARIABLES
  channel,          \* intent.channel, chosen when it is enqueued
  configured,       \* settings.line_channel_access_token is set
  status,           \* intent.status
  started,          \* intent.first_attempt_at is set, and key and payload are frozen with it
  late,             \* RETRY_WINDOW has passed since first_attempt_at
  available,        \* job.available_at <= now
  lease,            \* job.lease_until: "none", "held" or "expired"
  owner,            \* job.lease_owner
  attemptCount,     \* job.attempt_count
  attempts,         \* result of each NotificationAttempt, by attempt_no
  asked,            \* the task is still open in the revision the intent names
  entitled,         \* the account is active and has access to the case
  linked,           \* the LINE binding the intent names is in force
  handler,          \* the handler that settles the task: what it selected to cancel
  pass,             \* pass[w]: where worker w is with this job, and what it has read
  stale,            \* the workers whose rows another transaction wrote since they read them
  underway,         \* requests nobody waits for any more that LINE has not handled
  remembered,       \* LINE has accepted the retry key and remembers it
  copies,           \* messages LINE has accepted for the applicant
  mishaps           \* mishaps so far

settings == <<channel, configured>>
intent == <<status, started, late>>
job == <<available, lease, owner, attemptCount>>
facts == <<asked, entitled, linked>>
line == <<underway, remembered, copies>>
vars == <<settings, intent, job, attempts, facts, handler, pass, stale, line, mishaps>>

Waiting == {"READY", "RETRY_WAIT"}
Pending == Waiting \cup {"PROCESSING"}
Final == {"CANCELLED", "SKIPPED", "API_ACCEPTED", "UNKNOWN"}
Statuses == Pending \cup Final \cup {"DEAD_LETTER"}
Answers == {"API_ACCEPTED", "FAILED", "UNKNOWN"}
Results == Answers \cup {"IN_FLIGHT", "IN_APP_PUBLISHED"}

\* _event and enqueue_notification: the intent and its job are rows of the transaction
\* that asks for the task; nothing is scheduled ahead, so it is READY and not PLANNED.
Init ==
  /\ channel \in {"LINE", "IN_APP"} /\ configured \in BOOLEAN
  /\ status = "READY" /\ started = FALSE /\ late = FALSE
  /\ available = TRUE /\ lease = "none" /\ owner = NoOne /\ attemptCount = 0
  /\ attempts = <<>>
  /\ asked = TRUE /\ entitled = TRUE /\ linked = TRUE
  /\ handler = "none"
  /\ pass = [w \in Workers |-> [step |-> "idle"]] /\ stale = {}
  /\ underway = 0 /\ remembered = FALSE /\ copies = 0
  /\ mishaps = 0

---------------------------------------------------------------------------
(* The version column.  A flush fails with StaleDataError when a row it    *)
(* writes was written since it was read.  Whoever writes the intent also   *)
(* writes the job, but for the handlers that cancel, which only touch an   *)
(* intent that the pass, too, would have to write; so one flag for the two *)
(* rows is enough.                                                         *)

Move(w, p) == pass' = [pass EXCEPT ![w] = p]

Reading == {w \in Workers : pass[w].step \in {"read", "checked"}}

\* Somebody (w, or a request) commits a write of the job, or of both rows.
Written(w) == stale' = (stale \cup Reading) \ {w}

\* A write of the intent while a handler is about to cancel it.
Overtaken == handler' = IF handler = "saw" THEN "stale" ELSE handler

Release == lease' = "none" /\ owner' = NoOne

---------------------------------------------------------------------------
(* A pass of a worker, step by step.                                       *)

\* Slip: a delivery cut short is no candidate.
SelectWaiting(w) ==
  /\ pass[w].step = "idle"
  /\ status \in Waiting /\ available /\ lease # "held"
  /\ Move(w, [step |-> "chosen"])
  /\ UNCHANGED <<settings, intent, job, attempts, facts, handler, stale, line, mishaps>>

\* The candidates, listed once for the whole pass.
Select(w) ==
  /\ pass[w].step = "idle"
  /\ status \in Pending /\ available /\ lease # "held"
  /\ Move(w, [step |-> "chosen"])
  /\ UNCHANGED <<settings, intent, job, attempts, facts, handler, stale, line, mishaps>>

\* The conditional UPDATE that takes the lease.  It does not look at the intent.
Claim(w) ==
  /\ pass[w].step = "chosen"
  /\ available /\ lease # "held"
  /\ lease' = "held" /\ owner' = w
  /\ Move(w, [step |-> "claimed"]) /\ Written(w)
  /\ UNCHANGED <<settings, intent, available, attemptCount, attempts, facts, handler, line, mishaps>>

\* No row updated: somebody else was faster.
ClaimLost(w) ==
  /\ pass[w].step = "chosen"
  /\ ~(available /\ lease # "held")
  /\ Move(w, [step |-> "idle"])
  /\ UNCHANGED <<settings, intent, job, attempts, facts, handler, stale, line, mishaps>>

\* db.get of the job and of its intent.
Read(w) ==
  /\ pass[w].step = "claimed"
  /\ Move(w, [step |-> "read", seen |-> status])
  /\ UNCHANGED <<settings, intent, job, attempts, facts, handler, stale, line, mishaps>>

\* The intent was settled between the listing and the claim: the lease is given back.
GiveBack(w) ==
  /\ pass[w].step = "read" /\ pass[w].seen \notin Pending
  /\ w \notin stale
  /\ Release
  /\ Move(w, [step |-> "idle"]) /\ Written(w)
  /\ UNCHANGED <<settings, intent, available, attemptCount, attempts, facts, handler, line, mishaps>>

\* _notifiable and _active_link.
Notifiable == asked /\ entitled /\ (channel = "LINE" => linked)

\* Account, access, case, task and link, read without a lock.
Check(w) ==
  /\ pass[w].step = "read" /\ pass[w].seen \in Pending
  /\ Move(w, [step |-> "checked", seen |-> pass[w].seen, barred |-> ~Notifiable])
  /\ UNCHANGED <<settings, intent, job, attempts, facts, handler, stale, line, mishaps>>

\* Slip: the rows are written without the version check.
SettleUnchecked(w, s) ==
  /\ status' = s /\ Release
  /\ Move(w, [step |-> "idle"]) /\ Written(w) /\ Overtaken
  /\ UNCHANGED <<settings, started, late, available, facts, line, mishaps>>

\* The pass writes both rows and is done with the job.
Settle(w, s) ==
  /\ w \notin stale
  /\ status' = s /\ Release
  /\ Move(w, [step |-> "idle"]) /\ Written(w) /\ Overtaken
  /\ UNCHANGED <<settings, started, late, available, facts, line, mishaps>>

Skip(w) ==
  /\ pass[w].step = "checked" /\ pass[w].barred
  /\ Settle(w, "SKIPPED")
  /\ UNCHANGED <<attemptCount, attempts>>

Sendable(w) == pass[w].step = "checked" /\ ~pass[w].barred

\* IN_APP: it is in the applicant's list once the transaction commits.
Publish(w) ==
  /\ Sendable(w) /\ channel = "IN_APP"
  /\ Settle(w, "API_ACCEPTED")
  /\ attemptCount' = attemptCount + 1
  /\ attempts' = Append(attempts, "IN_APP_PUBLISHED")

NotConfigured(w) ==
  /\ Sendable(w) /\ channel = "LINE" /\ ~configured
  /\ Settle(w, "DEAD_LETTER")
  /\ UNCHANGED <<attemptCount, attempts>>

\* Slip: the age of the first attempt is not looked at.
ExhaustedByCount == attemptCount >= MAX_ATTEMPTS

\* RETRY_WINDOW_EXPIRED or RETRY_LIMIT_REACHED.
Exhausted == late \/ attemptCount >= MAX_ATTEMPTS

GiveUp(w) ==
  /\ Sendable(w) /\ channel = "LINE" /\ configured /\ Exhausted
  /\ Settle(w, "UNKNOWN")
  /\ UNCHANGED <<attemptCount, attempts>>

\* Slip: the attempt a dead worker left behind stays as it is.
LeaveInFlight(log) == log

\* An attempt cut short may have reached LINE: the uncertainty is preserved.
CutShort(log) == [i \in DOMAIN log |-> IF log[i] = "IN_FLIGHT" THEN "UNKNOWN" ELSE log[i]]

\* Slip: the attempt is written without the version check.
BeginUnchecked(w) ==
  /\ Sendable(w) /\ channel = "LINE" /\ configured /\ ~Exhausted
  /\ status' = "PROCESSING" /\ started' = TRUE
  /\ attemptCount' = attemptCount + 1
  /\ attempts' = Append(CutShort(attempts), "IN_FLIGHT")
  /\ Move(w, [step |-> "sending", attempt |-> attemptCount + 1])
  /\ Written(w) /\ Overtaken
  /\ UNCHANGED <<settings, late, available, lease, owner, facts, line, mishaps>>

\* Key, destination and payload are frozen and the attempt recorded before the call.
Begin(w) ==
  /\ Sendable(w) /\ channel = "LINE" /\ configured /\ ~Exhausted
  /\ w \notin stale
  /\ status' = "PROCESSING" /\ started' = TRUE
  /\ attemptCount' = attemptCount + 1
  /\ attempts' = Append(CutShort(attempts), "IN_FLIGHT")
  /\ Move(w, [step |-> "sending", attempt |-> attemptCount + 1])
  /\ Written(w) /\ Overtaken
  /\ UNCHANGED <<settings, late, available, lease, owner, facts, line, mishaps>>

\* LINE takes a message of this retry key, unless it remembers to have done so.
Accept ==
  /\ remembered' = TRUE
  /\ copies' = IF remembered THEN copies ELSE copies + 1

Replies == {"accepted", "refused", "none"}

\* Slip: a broken connection counts as a refusal.
ResultWithoutDoubt(reply) == IF reply = "accepted" THEN "API_ACCEPTED" ELSE "FAILED"

\* send_line: "accepted" is a 2xx, or a 409 for a key accepted before; "refused" a 4xx;
\* "none" a timeout, a broken connection or a 5xx.
Result(reply) ==
  CASE reply = "accepted" -> "API_ACCEPTED"
    [] reply = "refused" -> "FAILED"
    [] reply = "none" -> "UNKNOWN"

\* The call of LINE.  Without an answer, LINE may still take the message.
Send(w) ==
  /\ pass[w].step = "sending"
  /\ \E reply \in Replies :
       /\ Move(w, [step |-> "answered", attempt |-> pass[w].attempt, result |-> Result(reply)])
       /\ IF reply = "accepted" THEN Accept ELSE UNCHANGED <<remembered, copies>>
       /\ underway' = IF reply = "none" THEN underway + 1 ELSE underway
  /\ UNCHANGED <<settings, intent, job, attempts, facts, handler, stale, mishaps>>

\* Slip: the status of the intent is the result of its last attempt.
OutcomeIsResult(result) == result

\* What becomes of the intent, by the result of the attempt.
Outcome(result) ==
  IF result = "API_ACCEPTED" THEN "API_ACCEPTED"
  ELSE IF result = "FAILED" THEN "DEAD_LETTER"
  ELSE IF attemptCount < MAX_ATTEMPTS /\ ~late THEN "RETRY_WAIT"
  ELSE "UNKNOWN"

\* The result is written by whoever still owns the job, under its row lock.
\* RETRY_WAIT puts the next attempt off.
Record(w) ==
  /\ attempts' = [attempts EXCEPT ![pass[w].attempt] = pass[w].result]
  /\ status' = Outcome(pass[w].result)
  /\ available' = (available /\ status' # "RETRY_WAIT")
  /\ Release
  /\ Move(w, [step |-> "idle"]) /\ Written(w) /\ Overtaken
  /\ UNCHANGED <<settings, started, late, attemptCount, facts, line, mishaps>>

\* Slip: the owner is not compared.
ApplyAnyway(w) == pass[w].step = "answered" /\ Record(w)

Apply(w) == pass[w].step = "answered" /\ owner = w /\ Record(w)

\* The lease expired and the job is somebody else's by now: the result is dropped.
ApplyLate(w) ==
  /\ pass[w].step = "answered" /\ owner # w
  /\ Move(w, [step |-> "idle"])
  /\ UNCHANGED <<settings, intent, job, attempts, facts, handler, stale, line, mishaps>>

---------------------------------------------------------------------------
(* Death of a worker.                                                      *)

\* The process ends; its pass, and the name under which it owned jobs, end with it.
Die(w) ==
  /\ Move(w, [step |-> "dead"])
  /\ owner' = IF owner = w THEN Gone ELSE owner
  /\ stale' = stale \ {w}
  /\ underway' = IF pass[w].step = "sending" THEN underway + 1 ELSE underway
  /\ UNCHANGED <<settings, intent, available, lease, attemptCount, attempts, facts, handler,
                 remembered, copies>>

\* StaleDataError in a flush: nothing catches it between here and main.
Conflict(w) ==
  /\ w \in stale
  /\ \/ pass[w].step = "checked"
     \/ pass[w].step = "read" /\ pass[w].seen \notin Pending
  /\ Die(w)
  /\ UNCHANGED mishaps

Crash(w) ==
  /\ pass[w].step \notin {"idle", "dead"}
  /\ mishaps < MaxMishaps /\ mishaps' = mishaps + 1
  /\ Die(w)

\* The worker is started again.
Restart(w) ==
  /\ pass[w].step = "dead"
  /\ Move(w, [step |-> "idle"])
  /\ UNCHANGED <<settings, intent, job, attempts, facts, handler, stale, line, mishaps>>

---------------------------------------------------------------------------
(* Requests to the API.                                                    *)

\* _cancel_task_reminders in a handler that settles or revises the task (app/cases.py)
\* selects the waiting intents ...
HandlerSelects ==
  /\ handler = "none" /\ asked
  /\ handler' = IF status \in Waiting THEN "saw" ELSE "missed"
  /\ UNCHANGED <<settings, intent, job, attempts, facts, pass, stale, line, mishaps>>

\* ... and commits the new state of the task with their cancellation.
HandlerCommits ==
  /\ handler \in {"saw", "missed"}
  /\ handler' = "none" /\ asked' = FALSE
  /\ IF handler = "saw" THEN status' = "CANCELLED" /\ Written(NoOne)
                        ELSE UNCHANGED <<status, stale>>
  /\ UNCHANGED <<settings, started, late, job, attempts, entitled, linked, pass, line, mishaps>>

\* A worker wrote the intent in between: the version check fails, all is rolled back.
HandlerFails ==
  /\ handler = "stale"
  /\ handler' = "none"
  /\ UNCHANGED <<settings, intent, job, attempts, facts, pass, stale, line, mishaps>>

\* _retry_allowed.
RetryAllowed == channel = "LINE" /\ status \in {"RETRY_WAIT", "DEAD_LETTER"} /\ ~late

\* retry_notification: under the lock of the case, so not within a handler.
RetryNotification ==
  /\ handler = "none"
  /\ RetryAllowed
  /\ lease # "held" /\ attemptCount < MAX_ATTEMPTS
  /\ status' = "READY" /\ available' = TRUE /\ Release
  /\ Written(NoOne)
  /\ UNCHANGED <<settings, started, late, attemptCount, attempts, facts, handler, pass, line, mishaps>>

\* The account is disabled or enabled, its access to the case expires or is granted.
EntitlementChanges ==
  /\ entitled' = ~entitled
  /\ UNCHANGED <<settings, intent, job, attempts, asked, linked, handler, pass, stale, line, mishaps>>

\* unlink_line, or a new link: a binding_version is never used again.
Unlink ==
  /\ linked /\ linked' = FALSE
  /\ UNCHANGED <<settings, intent, job, attempts, asked, entitled, handler, pass, stale, line, mishaps>>

---------------------------------------------------------------------------
(* Time, and LINE.                                                         *)

LeaseExpires ==
  /\ lease = "held" /\ lease' = "expired"
  /\ \/ owner = Gone /\ UNCHANGED mishaps
     \/ owner # Gone /\ mishaps < MaxMishaps /\ mishaps' = mishaps + 1
  /\ UNCHANGED <<settings, intent, available, owner, attemptCount, attempts, facts, handler,
                 pass, stale, line>>

BecomesAvailable ==
  /\ ~available /\ available' = TRUE
  /\ UNCHANGED <<settings, intent, lease, owner, attemptCount, attempts, facts, handler,
                 pass, stale, line, mishaps>>

WindowCloses ==
  /\ started /\ ~late /\ late' = TRUE
  /\ UNCHANGED <<settings, status, started, job, attempts, facts, handler, pass, stale, line, mishaps>>

\* A request nobody waits for reaches LINE, or is refused or lost for good.
LineHandles ==
  /\ underway > 0 /\ underway' = underway - 1
  /\ Accept \/ UNCHANGED <<remembered, copies>>
  /\ UNCHANGED <<settings, intent, job, attempts, facts, handler, pass, stale, mishaps>>

\* LINE keeps a retry key for 24 hours; RETRY_WINDOW ends 30 seconds earlier, which is
\* taken to be enough for the requests already made: two of a call's timeouts.
LineForgets ==
  /\ remembered /\ late /\ underway = 0
  /\ \A w \in Workers : pass[w].step # "sending"
  /\ remembered' = FALSE
  /\ UNCHANGED <<settings, intent, job, attempts, facts, handler, pass, stale, underway, copies, mishaps>>

---------------------------------------------------------------------------
\* What a live worker does next.
Work(w) ==
  \/ Select(w) \/ Claim(w) \/ ClaimLost(w) \/ Read(w) \/ Check(w)
  \/ GiveBack(w) \/ Skip(w) \/ Publish(w) \/ NotConfigured(w) \/ GiveUp(w) \/ Begin(w)
  \/ Send(w) \/ Apply(w) \/ ApplyLate(w) \/ Conflict(w)

Requests ==
  \/ HandlerSelects \/ HandlerCommits \/ HandlerFails \/ RetryNotification
  \/ EntitlementChanges \/ Unlink

Time == LeaseExpires \/ BecomesAvailable \/ WindowCloses

Next ==
  \/ \E w \in Workers : Work(w) \/ Crash(w) \/ Restart(w)
  \/ Requests
  \/ Time
  \/ LineHandles \/ LineForgets

Spec == Init /\ [][Next]_vars

\* The lease of a job outlasts the moment between the UPDATE that takes it and the
\* SELECT of the job that follows, which does not compare the owner.
ReadsInTime == lease = "held" /\ lease' = "expired" =>
                 \A w \in Workers : pass[w].step = "claimed" => owner # w

PromptSpec == Init /\ [][Next /\ ReadsInTime]_vars

\* A live worker loops, and each of its calls has a timeout; leases run out and delays
\* pass.  Nobody is obliged to make a request, or to restart a dead worker.
Fairness ==
  /\ \A w \in Workers : WF_vars(Work(w))
  /\ WF_vars(LeaseExpires /\ owner = Gone)
  /\ WF_vars(BecomesAvailable)

FairSpec == Spec /\ Fairness

---------------------------------------------------------------------------
(* Properties.                                                             *)

Steps ==
  {[step |-> s] : s \in {"idle", "chosen", "claimed", "dead"}}
  \cup [step : {"read"}, seen : Statuses]
  \cup [step : {"checked"}, seen : Pending, barred : BOOLEAN]
  \cup [step : {"sending"}, attempt : Nat \ {0}]
  \cup [step : {"answered"}, attempt : Nat \ {0}, result : Answers]

\* Rows and passes hold values of their columns and variables.
TypeOK ==
  /\ channel \in {"LINE", "IN_APP"} /\ configured \in BOOLEAN
  /\ status \in Statuses /\ started \in BOOLEAN /\ late \in BOOLEAN
  /\ available \in BOOLEAN /\ lease \in {"none", "held", "expired"}
  /\ owner \in Workers \cup {NoOne, Gone} /\ attemptCount \in Nat
  /\ attempts \in Seq(Results)
  /\ asked \in BOOLEAN /\ entitled \in BOOLEAN /\ linked \in BOOLEAN
  /\ handler \in {"none", "saw", "missed", "stale"}
  /\ pass \in [Workers -> Steps] /\ stale \subseteq Workers
  /\ underway \in Nat /\ remembered \in BOOLEAN /\ copies \in Nat
  /\ mishaps \in Nat

\* The log of attempts keeps up with the job: one row per attempt counted, at most
\* MAX_ATTEMPTS calls of LINE, and none but the last in flight, however many workers
\* died in the middle of one; and an intent that waits has an attempt left.
AttemptsAreLogged ==
  /\ Len(attempts) = attemptCount
  /\ channel = "LINE" => attemptCount <= MAX_ATTEMPTS
  /\ \A i \in DOMAIN attempts : attempts[i] = "IN_FLIGHT" => i = Len(attempts)
  /\ status = "RETRY_WAIT" => attemptCount < MAX_ATTEMPTS

\* The records are honest.  An intent of LINE that reads API_ACCEPTED was accepted by
\* LINE; and when LINE has the message, some attempt says so or leaves it open: the
\* log never claims of every attempt that it failed.
RecordsAreHonest ==
  /\ channel = "LINE" /\ status = "API_ACCEPTED" => copies > 0
  /\ copies > 0 => \E i \in DOMAIN attempts : attempts[i] # "FAILED"

\* The applicant gets the message at most once, whatever is retried, by workers or by
\* staff, and whatever answers are lost or late: retries end before LINE forgets the key.
DeliveredOnce == copies <= 1

\* A result, once written, stands: a late answer never overwrites that an attempt
\* was given up, nor the result of another attempt.
ResultsStand ==
  [][\A i \in DOMAIN attempts :
       attempts[i] # "IN_FLIGHT" => i \in DOMAIN attempts' /\ attempts'[i] = attempts[i]]_vars

\* A final status stays: what a handler cancelled, a worker that had already read the
\* intent does not send or mark otherwise, and nothing that may have been delivered
\* is queued again.
FinalIsFinal == [][(status \in Final) => (status' = status)]_vars

\* The first attempt, or publication, is committed only while the task is still asked
\* for in the revision the intent names, though worker and handlers share no lock.
FirstAttemptWasAsked == [][attempts = <<>> /\ attempts' # <<>> => asked]_vars

\* Nothing is left in the outbox: an intent that waits or is being processed is settled
\* in the end, whoever died in the middle of it, unless no worker is left alive.
Settles == status \in Pending ~> \/ status \notin Pending
                                 \/ \A w \in Workers : pass[w].step = "dead"
=============================================================================

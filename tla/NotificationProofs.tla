------------------------- MODULE NotificationProofs -------------------------
(***************************************************************************)
(* Proofs about NotificationDelivery, for any number of workers, attempts  *)
(* and mishaps.                                                            *)
(***************************************************************************)
EXTENDS NotificationDelivery, SequenceTheorems, TLAPS

---------------------------------------------------------------------------
(* Types.                                                                  *)

\* The result of an attempt or of the intent is one of its column.
LEMMA ResultTypes ==
  ASSUME NEW r \in Replies
  PROVE  Result(r) \in Answers
BY DEF Replies, Result, Answers

\* Closing the attempts cut short keeps the length of the log and every other entry.
LEMMA CutShortLog ==
  ASSUME NEW log \in Seq(Results)
  PROVE  /\ CutShort(log) \in Seq(Results)
         /\ Len(CutShort(log)) = Len(log)
         /\ DOMAIN CutShort(log) = DOMAIN log
         /\ \A i \in DOMAIN log :
              /\ CutShort(log)[i] # "IN_FLIGHT"
              /\ log[i] # "IN_FLIGHT" => CutShort(log)[i] = log[i]
              /\ log[i] = "IN_FLIGHT" => CutShort(log)[i] = "UNKNOWN"
BY DEF CutShort, Results, Answers

\* A new entry at the end of the log.
LEMMA AppendLog ==
  ASSUME NEW log \in Seq(Results), NEW r \in Results
  PROVE  /\ Append(log, r) \in Seq(Results)
         /\ Len(Append(log, r)) = Len(log) + 1
         /\ DOMAIN Append(log, r) = DOMAIN log \cup {Len(log) + 1}
         /\ \A i \in DOMAIN log : Append(log, r)[i] = log[i]
         /\ Append(log, r)[Len(log) + 1] = r
OBVIOUS

\* The steps of a pass.
LEMMA StepTypes ==
  /\ \A s \in {"idle", "chosen", "claimed", "dead"} : [step |-> s] \in Steps
  /\ \A s \in Statuses : [step |-> "read", seen |-> s] \in Steps
  /\ \A s \in Pending, b \in BOOLEAN : [step |-> "checked", seen |-> s, barred |-> b] \in Steps
  /\ \A n \in Nat \ {0} : [step |-> "sending", attempt |-> n] \in Steps
  /\ \A n \in Nat \ {0}, r \in Answers : [step |-> "answered", attempt |-> n, result |-> r] \in Steps
BY DEF Steps

\* What a pass has at hand in each of its steps.
LEMMA StepFields ==
  ASSUME NEW p \in Steps
  PROVE  /\ p.step \in {"idle", "chosen", "claimed", "dead", "read", "checked", "sending", "answered"}
         /\ p.step = "read" => p.seen \in Statuses
         /\ p.step = "checked" => p.seen \in Pending /\ p.barred \in BOOLEAN
         /\ p.step \in {"sending", "answered"} => p.attempt \in Nat \ {0}
         /\ p.step = "answered" => p.result \in Answers
BY DEF Steps

\* A result written into the log.
LEMMA RecordLog ==
  ASSUME NEW log \in Seq(Results), NEW n, NEW r \in Results
  PROVE  /\ [log EXCEPT ![n] = r] \in Seq(Results)
         /\ Len([log EXCEPT ![n] = r]) = Len(log)
         /\ DOMAIN [log EXCEPT ![n] = r] = DOMAIN log
         /\ \A i \in DOMAIN log : [log EXCEPT ![n] = r][i] = IF i = n THEN r ELSE log[i]
<1>1. [log EXCEPT ![n] = r] \in [1..Len(log) -> Results]
  <2>1. log \in [1..Len(log) -> Results]
    BY LenProperties
  <2> QED
    BY <2>1
<1>2. [log EXCEPT ![n] = r] \in Seq(Results)
  BY <1>1, SeqDef
<1> QED
  BY <1>2

\* What LINE keeps.
LEMMA AcceptType ==
  ASSUME remembered \in BOOLEAN, copies \in Nat, Accept \/ UNCHANGED <<remembered, copies>>
  PROVE  remembered' \in BOOLEAN /\ copies' \in Nat
<1>1. CASE Accept
  BY <1>1 DEF Accept
<1>2. CASE UNCHANGED <<remembered, copies>>
  BY <1>2
<1> QED
  BY <1>1, <1>2

\* TypeOK is inductive.
LEMMA TypeStep == TypeOK /\ [Next]_vars => TypeOK'
<1> SUFFICES ASSUME TypeOK, [Next]_vars PROVE TypeOK'
  OBVIOUS
<1> USE DeliveryAssumption
<1>1. ASSUME NEW w \in Workers, NEW p \in Steps, Move(w, p)
      PROVE  pass' \in [Workers -> Steps]
  BY <1>1 DEF TypeOK, Move
<1>2. ASSUME NEW w, Written(w)
      PROVE  stale' \subseteq Workers
  BY <1>2 DEF TypeOK, Written, Reading
<1>3. ASSUME NEW w \in Workers, NEW s \in Statuses, Settle(w, s),
             attemptCount' \in Nat, attempts' \in Seq(Results)
      PROVE  TypeOK'
  <2>1. pass' \in [Workers -> Steps]
    BY <1>1, <1>3, StepTypes DEF Settle
  <2>2. stale' \subseteq Workers
    BY <1>2, <1>3 DEF Settle
  <2> QED
    BY <1>3, <2>1, <2>2 DEF TypeOK, Settle, Release, Overtaken, settings, facts, line
<1>4. ASSUME NEW w \in Workers, Select(w) \/ ClaimLost(w) \/ Restart(w)
      PROVE  TypeOK'
  <2>1. pass' \in [Workers -> Steps]
    BY <1>1, <1>4, StepTypes DEF Select, ClaimLost, Restart
  <2> QED
    BY <1>4, <2>1 DEF TypeOK, Select, ClaimLost, Restart, settings, intent, job, facts, line
<1>5. ASSUME NEW w \in Workers, Claim(w) \/ GiveBack(w)
      PROVE  TypeOK'
  <2>1. pass' \in [Workers -> Steps]
    BY <1>1, <1>5, StepTypes DEF Claim, GiveBack
  <2>2. stale' \subseteq Workers
    BY <1>2, <1>5 DEF Claim, GiveBack
  <2> QED
    BY <1>5, <2>1, <2>2 DEF TypeOK, Claim, GiveBack, Release, settings, intent, job, facts, line
<1>6. ASSUME NEW w \in Workers, Read(w) \/ Check(w) \/ ApplyLate(w)
      PROVE  TypeOK'
  <2>1. pass' \in [Workers -> Steps]
    <3>1. pass[w] \in Steps /\ status \in Statuses
      BY DEF TypeOK
    <3>2. CASE Read(w)
      BY <1>1, <3>1, <3>2, StepTypes DEF Read
    <3>3. CASE Check(w)
      <4>1. pass[w].seen \in Pending /\ (~Notifiable) \in BOOLEAN
        BY <3>3 DEF Check
      <4> QED
        BY <1>1, <3>3, <4>1, StepTypes DEF Check
    <3>4. CASE ApplyLate(w)
      BY <1>1, <3>4, StepTypes DEF ApplyLate
    <3> QED
      BY <1>6, <3>2, <3>3, <3>4
  <2> QED
    BY <1>6, <2>1 DEF TypeOK, Read, Check, ApplyLate, settings, intent, job, facts, line
<1>7. ASSUME NEW w \in Workers, Skip(w) \/ Publish(w) \/ NotConfigured(w) \/ GiveUp(w)
      PROVE  TypeOK'
  <2>1. CASE Publish(w)
    <3>1. attempts' \in Seq(Results) /\ attemptCount' \in Nat
      BY <2>1, AppendLog DEF TypeOK, Publish, Results
    <3> QED
      BY <1>3, <2>1, <3>1 DEF Publish, Statuses, Final
  <2>2. CASE Skip(w) \/ NotConfigured(w) \/ GiveUp(w)
    <3>1. attempts' \in Seq(Results) /\ attemptCount' \in Nat
      BY <2>2 DEF TypeOK, Skip, NotConfigured, GiveUp
    <3> QED
      BY <1>3, <2>2, <3>1 DEF Skip, NotConfigured, GiveUp, Statuses, Final
  <2> QED
    BY <1>7, <2>1, <2>2
<1>8. ASSUME NEW w \in Workers, Begin(w)
      PROVE  TypeOK'
  <2>1. attemptCount' \in Nat \ {0} /\ attemptCount' = attemptCount + 1
    BY <1>8 DEF TypeOK, Begin
  <2>2. attempts' \in Seq(Results)
    BY <1>8, CutShortLog, AppendLog DEF TypeOK, Begin, Results
  <2>3. pass' \in [Workers -> Steps]
    BY <1>1, <1>8, <2>1, StepTypes DEF Begin
  <2>4. stale' \subseteq Workers
    BY <1>2, <1>8 DEF Begin
  <2> QED
    BY <1>8, <2>1, <2>2, <2>3, <2>4
    DEF TypeOK, Begin, Overtaken, Statuses, Pending, settings, facts, line
<1>9. ASSUME NEW w \in Workers, Send(w)
      PROVE  TypeOK'
  <2>1. PICK reply \in Replies :
          /\ Move(w, [step |-> "answered", attempt |-> pass[w].attempt, result |-> Result(reply)])
          /\ IF reply = "accepted" THEN Accept ELSE UNCHANGED <<remembered, copies>>
          /\ underway' = IF reply = "none" THEN underway + 1 ELSE underway
    BY <1>9 DEF Send
  <2>2. pass[w].attempt \in Nat \ {0}
    BY <1>9, StepFields DEF Send, TypeOK
  <2>3. pass' \in [Workers -> Steps]
    BY <1>1, <2>1, <2>2, ResultTypes, StepTypes
  <2>4. underway' \in Nat
    BY <2>1 DEF TypeOK
  <2>5. remembered' \in BOOLEAN /\ copies' \in Nat
    BY <2>1, AcceptType DEF TypeOK
  <2> QED
    BY <1>9, <2>3, <2>4, <2>5 DEF TypeOK, Send, settings, intent, job, facts
<1>10. ASSUME NEW w \in Workers, Apply(w)
       PROVE  TypeOK'
  <2>1. pass[w].result \in Answers
    BY <1>10, StepFields DEF Apply, TypeOK
  <2>2. status' \in Statuses
    BY <1>10, <2>1 DEF Apply, Record, Outcome, Statuses, Final, Pending, Waiting
  <2>3. attempts' \in Seq(Results)
    BY <1>10, <2>1, RecordLog DEF Apply, Record, TypeOK, Results
  <2>4. pass' \in [Workers -> Steps]
    BY <1>1, <1>10, StepTypes DEF Apply, Record
  <2>5. stale' \subseteq Workers
    BY <1>2, <1>10 DEF Apply, Record
  <2> QED
    BY <1>10, <2>2, <2>3, <2>4, <2>5
    DEF TypeOK, Apply, Record, Release, Overtaken, settings, facts, line
<1>11. ASSUME NEW w \in Workers, Conflict(w) \/ Crash(w)
       PROVE  TypeOK'
  <2>1. Die(w) /\ mishaps' \in Nat
    BY <1>11 DEF Conflict, Crash, TypeOK
  <2>2. pass' \in [Workers -> Steps]
    BY <1>1, <2>1, StepTypes DEF Die
  <2> QED
    BY <2>1, <2>2 DEF TypeOK, Die, settings, intent, facts
<1>12. ASSUME Requests
       PROVE  TypeOK'
  <2>1. stale' \subseteq Workers
    BY <1>2, <1>12 DEF TypeOK, Requests, HandlerSelects, HandlerCommits, HandlerFails, RetryNotification,
                       EntitlementChanges, Unlink
  <2>2. CASE HandlerSelects \/ HandlerFails
    BY <2>1, <2>2 DEF TypeOK, HandlerSelects, HandlerFails, settings, intent, job, facts, line
  <2>3. CASE HandlerCommits
    <3>1. status' \in Statuses /\ started' \in BOOLEAN /\ late' \in BOOLEAN
      BY <2>3 DEF TypeOK, HandlerCommits, Statuses, Final
    <3>2. asked' \in BOOLEAN /\ handler' \in {"none", "saw", "missed", "stale"}
      BY <2>3 DEF HandlerCommits
    <3> QED
      BY <2>1, <2>3, <3>1, <3>2 DEF TypeOK, HandlerCommits, settings, job, line
  <2>4. CASE RetryNotification
    BY <2>1, <2>4 DEF TypeOK, RetryNotification, Release, Statuses, Pending, Waiting, settings, facts, line
  <2>5. CASE EntitlementChanges \/ Unlink
    <3>1. asked' \in BOOLEAN /\ entitled' \in BOOLEAN /\ linked' \in BOOLEAN
      BY <2>5 DEF TypeOK, EntitlementChanges, Unlink
    <3> QED
      BY <2>1, <2>5, <3>1 DEF TypeOK, EntitlementChanges, Unlink, settings, intent, job, line
  <2> QED
    BY <1>12, <2>2, <2>3, <2>4, <2>5 DEF Requests
<1>13. ASSUME Time \/ LineHandles \/ LineForgets
       PROVE  TypeOK'
  <2>1. CASE Time
    <3>1. late' \in BOOLEAN /\ available' \in BOOLEAN /\ lease' \in {"none", "held", "expired"}
      BY <2>1 DEF TypeOK, Time, LeaseExpires, BecomesAvailable, WindowCloses, intent, job
    <3>2. mishaps' \in Nat
      BY <2>1 DEF TypeOK, Time, LeaseExpires, BecomesAvailable, WindowCloses
    <3> QED
      BY <2>1, <3>1, <3>2
      DEF TypeOK, Time, LeaseExpires, BecomesAvailable, WindowCloses, settings, intent, job, facts, line
  <2>2. CASE LineHandles
    BY <2>2, AcceptType DEF TypeOK, LineHandles, settings, intent, job, facts
  <2>3. CASE LineForgets
    <3>1. remembered' \in BOOLEAN
      BY <2>3 DEF LineForgets
    <3> QED
      BY <2>3, <3>1 DEF TypeOK, LineForgets, settings, intent, job, facts
  <2> QED
    BY <1>13, <2>1, <2>2, <2>3
<1>14. CASE UNCHANGED vars
  BY <1>14 DEF TypeOK, vars, settings, intent, job, facts, line
<1> QED
  BY <1>4, <1>5, <1>6, <1>7, <1>8, <1>9, <1>10, <1>11, <1>12, <1>13, <1>14 DEF Next, Work

\* The rows and passes hold values of their types.
THEOREM DeliveryTypeCorrect == Spec => []TypeOK
<1>1. ASSUME Init PROVE TypeOK
  <2>1. pass \in [Workers -> Steps]
    BY <1>1, StepTypes DEF Init
  <2>2. attempts \in Seq(Results) /\ stale \subseteq Workers
    BY <1>1 DEF Init
  <2>3. /\ configured \in BOOLEAN /\ started \in BOOLEAN /\ late \in BOOLEAN /\ available \in BOOLEAN
        /\ asked \in BOOLEAN /\ entitled \in BOOLEAN /\ linked \in BOOLEAN /\ remembered \in BOOLEAN
    BY <1>1 DEF Init
  <2> QED
    BY <1>1, <2>1, <2>2, <2>3 DEF Init, TypeOK, Statuses, Pending, Waiting
<1> QED
  BY <1>1, TypeStep, PTL DEF Spec

---------------------------------------------------------------------------
(* The invariants.                                                         *)

Calling == {w \in Workers : pass[w].step \in {"sending", "answered"}}

\* A pass whose rows nobody wrote since still sees the status it read; a handler that
\* may still cancel faces a waiting intent; an owner with a call out is processing.
ReadInv ==
  /\ \A w \in Reading : w \notin stale => status = pass[w].seen
  /\ handler = "saw" => status \in Waiting
  /\ \A w \in Calling : owner = w => status = "PROCESSING"

\* A handler that found nothing to cancel before any attempt found a settled intent,
\* so that no pass can start on it any more.
AskedInv ==
  /\ attempts = <<>> => status # "PROCESSING"
  /\ handler = "missed" /\ attempts = <<>> => status \notin Pending
  /\ attempts = <<>> =>
       \A w \in Workers : pass[w].step = "checked" /\ ~pass[w].barred /\ w \notin stale => asked

\* LINE takes the message once, and forgets it only when no request can follow.
CopiesInv ==
  /\ remembered => copies = 1
  /\ ~remembered =>
       \/ copies = 0
       \/ copies = 1 /\ late /\ underway = 0 /\ \A w \in Workers : pass[w].step # "sending"

\* Attempt i is neither failed nor about to be, nor is it waiting for an answer.
InDoubt(i) ==
  /\ attempts[i] # "FAILED"
  /\ \A w \in Calling : pass[w].attempt = i =>
       pass[w].step = "answered" /\ pass[w].result # "FAILED"

\* A message taken, or still to be taken, belongs to an attempt that is in doubt.
DoubtInv ==
  /\ channel = "LINE" /\ status = "API_ACCEPTED" => copies > 0
  /\ \A w \in Calling :
       /\ pass[w].attempt \in DOMAIN attempts
       /\ attempts[pass[w].attempt] # "FAILED"
       /\ pass[w].step = "answered" /\ pass[w].result = "API_ACCEPTED" => copies > 0
       /\ \A v \in Calling : pass[v].attempt = pass[w].attempt => v = w
  /\ copies > 0 \/ underway > 0 => \E i \in DOMAIN attempts : InDoubt(i)

\* While passes read in time, a claim is its owner's alone until he has acted on it,
\* and the attempt of the owner is the one in flight.
OwnerInv ==
  /\ \A w \in Workers : pass[w].step = "claimed" => owner = w /\ lease = "held"
  /\ \A w \in Reading : w \notin stale => owner = w
  /\ \A w \in Calling : owner = w => /\ pass[w].attempt \in DOMAIN attempts
                                     /\ attempts[pass[w].attempt] = "IN_FLIGHT"

---------------------------------------------------------------------------
(* The log of attempts.                                                    *)

\* The steps that write the intent or the log; the channel never changes.
LEMMA RowChanges ==
  ASSUME [Next]_vars
  PROVE  /\ channel' = channel
         /\ \/ \E w \in Workers : \/ Skip(w) \/ NotConfigured(w) \/ GiveUp(w)
                                  \/ Publish(w) \/ Begin(w) \/ Apply(w)
            \/ HandlerCommits
            \/ RetryNotification
            \/ UNCHANGED <<status, started, attempts, attemptCount>>
<1>1. ASSUME NEW w \in Workers,
             \/ Select(w) \/ Claim(w) \/ ClaimLost(w) \/ Read(w) \/ Check(w) \/ GiveBack(w)
             \/ Send(w) \/ ApplyLate(w) \/ Conflict(w) \/ Crash(w) \/ Restart(w)
      PROVE  UNCHANGED <<channel, status, started, attempts, attemptCount>>
  BY <1>1 DEF Select, Claim, ClaimLost, Read, Check, GiveBack, Send, ApplyLate, Conflict, Crash, Restart, Die,
              settings, intent, job
<1>2. ASSUME \/ HandlerSelects \/ HandlerFails \/ EntitlementChanges \/ Unlink
             \/ Time \/ LineHandles \/ LineForgets \/ UNCHANGED vars
      PROVE  UNCHANGED <<channel, status, started, attempts, attemptCount>>
  BY <1>2 DEF HandlerSelects, HandlerFails, EntitlementChanges, Unlink, Time, LeaseExpires, BecomesAvailable,
              WindowCloses, LineHandles, LineForgets, vars, settings, intent, job
<1>3. ASSUME NEW w \in Workers,
             Skip(w) \/ NotConfigured(w) \/ GiveUp(w) \/ Publish(w) \/ Begin(w) \/ Apply(w)
      PROVE  channel' = channel
  BY <1>3 DEF Skip, NotConfigured, GiveUp, Publish, Begin, Apply, Settle, Record, settings
<1>4. ASSUME HandlerCommits \/ RetryNotification
      PROVE  channel' = channel
  BY <1>4 DEF HandlerCommits, RetryNotification, settings
<1> QED
  BY <1>1, <1>2, <1>3, <1>4 DEF Next, Work, Requests

\* Nothing is in flight on the list of notifications.
LogInv ==
  /\ AttemptsAreLogged
  /\ channel = "IN_APP" => \A i \in DOMAIN attempts : attempts[i] # "IN_FLIGHT"

\* LogInv is inductive with the types.
LEMMA LogStep == TypeOK /\ LogInv /\ [Next]_vars => LogInv'
<1> SUFFICES ASSUME TypeOK, LogInv, [Next]_vars PROVE LogInv'
  OBVIOUS
<1> USE DeliveryAssumption
<1>0. attempts \in Seq(Results) /\ attemptCount \in Nat /\ channel' = channel
  BY RowChanges DEF TypeOK
<1>1. ASSUME NEW w \in Workers, Skip(w) \/ NotConfigured(w) \/ GiveUp(w)
      PROVE  LogInv'
  <2>1. attempts' = attempts /\ attemptCount' = attemptCount /\ status' # "RETRY_WAIT"
    BY <1>1 DEF Skip, NotConfigured, GiveUp, Settle
  <2> QED
    BY <1>0, <2>1 DEF LogInv, AttemptsAreLogged
<1>2. ASSUME NEW w \in Workers, Publish(w)
      PROVE  LogInv'
  <2>1. /\ attempts' = Append(attempts, "IN_APP_PUBLISHED") /\ attemptCount' = attemptCount + 1
        /\ status' # "RETRY_WAIT" /\ channel = "IN_APP"
    BY <1>2 DEF Publish, Settle
  <2>2. /\ Len(attempts') = Len(attempts) + 1
        /\ \A i \in DOMAIN attempts' : attempts'[i] # "IN_FLIGHT"
    BY <1>0, <2>1, AppendLog DEF LogInv, Results
  <2> QED
    BY <1>0, <2>1, <2>2 DEF LogInv, AttemptsAreLogged
<1>3. ASSUME NEW w \in Workers, Begin(w)
      PROVE  LogInv'
  <2>1. /\ attempts' = Append(CutShort(attempts), "IN_FLIGHT") /\ attemptCount' = attemptCount + 1
        /\ status' # "RETRY_WAIT" /\ ~(attemptCount >= MAX_ATTEMPTS) /\ channel = "LINE"
    BY <1>3 DEF Begin, Exhausted
  <2>2. attemptCount' <= MAX_ATTEMPTS
    BY <1>0, <2>1
  <2>3. Len(attempts') = attemptCount'
    BY <1>0, <2>1, CutShortLog, AppendLog DEF LogInv, AttemptsAreLogged, Results
  <2>4. \A i \in DOMAIN attempts' : attempts'[i] = "IN_FLIGHT" => i = Len(attempts')
    BY <1>0, <2>1, CutShortLog, AppendLog DEF Results
  <2> QED
    BY <1>0, <2>1, <2>2, <2>3, <2>4 DEF LogInv, AttemptsAreLogged
<1>4. ASSUME NEW w \in Workers, Apply(w)
      PROVE  LogInv'
  <2>1. pass[w].result \in Answers
    BY <1>4, StepFields DEF Apply, TypeOK
  <2>2. /\ attempts' = [attempts EXCEPT ![pass[w].attempt] = pass[w].result]
        /\ attemptCount' = attemptCount
    BY <1>4 DEF Apply, Record
  <2>3. /\ Len(attempts') = Len(attempts) /\ DOMAIN attempts' = DOMAIN attempts
        /\ \A i \in DOMAIN attempts : attempts'[i] = "IN_FLIGHT" => attempts[i] = "IN_FLIGHT"
    BY <1>0, <2>1, <2>2, RecordLog DEF Answers, Results
  <2>4. status' = "RETRY_WAIT" => attemptCount < MAX_ATTEMPTS
    BY <1>4 DEF Apply, Record, Outcome
  <2> QED
    BY <1>0, <2>2, <2>3, <2>4 DEF LogInv, AttemptsAreLogged
<1>5. CASE HandlerCommits \/ RetryNotification
  <2>1. attempts' = attempts /\ attemptCount' = attemptCount
    BY <1>5 DEF HandlerCommits, RetryNotification, job
  <2>2. status' = "RETRY_WAIT" => status = "RETRY_WAIT"
    BY <1>5 DEF HandlerCommits, RetryNotification
  <2> QED
    BY <1>0, <2>1, <2>2 DEF LogInv, AttemptsAreLogged
<1>6. CASE UNCHANGED <<status, started, attempts, attemptCount>>
  BY <1>0, <1>6 DEF LogInv, AttemptsAreLogged
<1> QED
  BY <1>1, <1>2, <1>3, <1>4, <1>5, <1>6, RowChanges

\* The log keeps up with the job, whoever dies.
THEOREM LogIsComplete == Spec => []AttemptsAreLogged
<1>1. Init => LogInv
  BY DeliveryAssumption DEF Init, LogInv, AttemptsAreLogged
<1>2. LogInv => AttemptsAreLogged
  BY DEF LogInv
<1> QED
  BY <1>1, <1>2, LogStep, DeliveryTypeCorrect, PTL DEF Spec

---------------------------------------------------------------------------
(* What a pass has read.                                                   *)

\* Moving one pass.
LEMMA Moved ==
  ASSUME TypeOK, NEW w \in Workers, NEW p, Move(w, p)
  PROVE  pass'[w] = p /\ \A v \in Workers : v # w => pass'[v] = pass[v]
BY DEF TypeOK, Move

\* Everybody else who is reading notices a write.
LEMMA WrittenStale ==
  ASSUME NEW w, Written(w)
  PROVE  \A v \in Reading : v # w => v \in stale'
BY DEF Written

\* A pass that is settling something has current rows, and is not a caller.
LEMMA FreshStatus ==
  ASSUME TypeOK, ReadInv, NEW w \in Workers, pass[w].step = "checked", w \notin stale
  PROVE  status \in Pending /\ status = pass[w].seen
<1>1. pass[w].seen \in Pending
  BY StepFields DEF TypeOK
<1> QED
  BY <1>1 DEF ReadInv, Reading

\* ReadInv is inductive with the types.
LEMMA ReadStep == TypeOK /\ ReadInv /\ [Next]_vars => ReadInv'
<1> SUFFICES ASSUME TypeOK, ReadInv, [Next]_vars PROVE ReadInv'
  OBVIOUS
<1> USE DeliveryAssumption
<1>1. ASSUME NEW w \in Workers, NEW s, Settle(w, s), status \in Pending
      PROVE  ReadInv'
  <2>1. pass'[w].step = "idle" /\ \A v \in Workers : v # w => pass'[v] = pass[v]
    BY <1>1, Moved DEF Settle
  <2>2. \A v \in Reading : v # w => v \in stale'
    BY <1>1, WrittenStale DEF Settle
  <2>3. Reading' \subseteq stale'
    BY <2>1, <2>2 DEF Reading
  <2>4. handler' # "saw" /\ owner' = NoOne
    BY <1>1 DEF Settle, Overtaken, Release
  <2> QED
    BY <2>3, <2>4 DEF ReadInv, Calling
<1>2. ASSUME NEW w \in Workers, Skip(w) \/ Publish(w) \/ NotConfigured(w) \/ GiveUp(w)
      PROVE  ReadInv'
  <2>1. \E s : Settle(w, s)
    BY <1>2 DEF Skip, Publish, NotConfigured, GiveUp
  <2>2. pass[w].step = "checked" /\ w \notin stale
    BY <1>2 DEF Skip, Publish, NotConfigured, GiveUp, Sendable, Settle
  <2> QED
    BY <1>1, <2>1, <2>2, FreshStatus
<1>3. ASSUME NEW w \in Workers, Begin(w)
      PROVE  ReadInv'
  <2>1. pass'[w].step = "sending" /\ \A v \in Workers : v # w => pass'[v] = pass[v]
    BY <1>3, Moved DEF Begin
  <2>2. \A v \in Reading : v # w => v \in stale'
    BY <1>3, WrittenStale DEF Begin
  <2>3. Reading' \subseteq stale'
    BY <2>1, <2>2 DEF Reading
  <2>4. handler' # "saw" /\ status' = "PROCESSING"
    BY <1>3 DEF Begin, Overtaken
  <2> QED
    BY <2>3, <2>4 DEF ReadInv
<1>4. ASSUME NEW w \in Workers, Apply(w)
      PROVE  ReadInv'
  <2>1. pass'[w].step = "idle" /\ \A v \in Workers : v # w => pass'[v] = pass[v]
    BY <1>4, Moved DEF Apply, Record
  <2>2. \A v \in Reading : v # w => v \in stale'
    BY <1>4, WrittenStale DEF Apply, Record
  <2>3. Reading' \subseteq stale'
    BY <2>1, <2>2 DEF Reading
  <2>4. handler' # "saw" /\ owner' = NoOne
    BY <1>4 DEF Apply, Record, Overtaken, Release
  <2> QED
    BY <2>3, <2>4 DEF ReadInv, Calling
<1>5. ASSUME NEW w \in Workers, Claim(w)
      PROVE  ReadInv'
  <2>1. pass'[w].step = "claimed" /\ \A v \in Workers : v # w => pass'[v] = pass[v]
    BY <1>5, Moved DEF Claim
  <2>2. \A v \in Reading : v # w => v \in stale'
    BY <1>5, WrittenStale DEF Claim
  <2>3. Reading' \subseteq stale'
    BY <2>1, <2>2 DEF Reading
  <2>4. owner' = w /\ status' = status /\ handler' = handler
    BY <1>5 DEF Claim, intent
  <2> QED
    BY <2>1, <2>3, <2>4 DEF ReadInv, Calling
<1>6. ASSUME NEW w \in Workers, GiveBack(w)
      PROVE  ReadInv'
  <2>1. pass'[w].step = "idle" /\ \A v \in Workers : v # w => pass'[v] = pass[v]
    BY <1>6, Moved DEF GiveBack
  <2>2. \A v \in Reading : v # w => v \in stale'
    BY <1>6, WrittenStale DEF GiveBack
  <2>3. Reading' \subseteq stale'
    BY <2>1, <2>2 DEF Reading
  <2>4. owner' = NoOne /\ status' = status /\ handler' = handler
    BY <1>6 DEF GiveBack, Release, intent
  <2> QED
    BY <2>1, <2>3, <2>4 DEF ReadInv, Calling
<1>7. ASSUME NEW w \in Workers, NEW p, Move(w, p),
             p.step \in {"read", "checked"} /\ w \notin stale => p.seen = status,
             p.step \notin {"sending"},
             p.step = "answered" => pass[w].step = "sending",
             UNCHANGED <<status, handler, owner, stale>>
      PROVE  ReadInv'
  <2>1. pass'[w] = p /\ \A v \in Workers : v # w => pass'[v] = pass[v]
    BY <1>7, Moved
  <2> QED
    BY <1>7, <2>1 DEF ReadInv, Reading, Calling
<1>8. ASSUME NEW w \in Workers,
             Select(w) \/ ClaimLost(w) \/ Read(w) \/ Check(w) \/ Send(w) \/ ApplyLate(w) \/ Restart(w)
      PROVE  ReadInv'
  <2>1. UNCHANGED <<status, handler, owner, stale>>
    BY <1>8 DEF Select, ClaimLost, Read, Check, Send, ApplyLate, Restart, intent, job
  <2>2. CASE Select(w) \/ ClaimLost(w) \/ ApplyLate(w) \/ Restart(w)
    <3>1. \E p : Move(w, p) /\ p.step \in {"idle", "chosen"}
      BY <2>2 DEF Select, ClaimLost, ApplyLate, Restart
    <3> QED
      BY <1>7, <2>1, <3>1
  <2>3. CASE Read(w)
    BY <1>7, <2>1, <2>3 DEF Read
  <2>4. CASE Check(w)
    <3>1. w \notin stale => pass[w].seen = status
      BY <2>4 DEF Check, ReadInv, Reading
    <3>2. Move(w, [step |-> "checked", seen |-> pass[w].seen, barred |-> ~Notifiable])
      BY <2>4 DEF Check
    <3> QED
      BY <1>7, <2>1, <3>1, <3>2
  <2>5. CASE Send(w)
    <3>1. pass[w].step = "sending" /\ \E p : Move(w, p) /\ p.step = "answered"
      BY <2>5 DEF Send
    <3> QED
      BY <1>7, <2>1, <3>1
  <2> QED
    BY <1>8, <2>2, <2>3, <2>4, <2>5
<1>9. ASSUME NEW w \in Workers, Conflict(w) \/ Crash(w)
      PROVE  ReadInv'
  <2>1. Die(w)
    BY <1>9 DEF Conflict, Crash
  <2>2. pass'[w].step = "dead" /\ \A v \in Workers : v # w => pass'[v] = pass[v]
    BY <2>1, Moved DEF Die
  <2>3. /\ status' = status /\ handler' = handler /\ \A v \in Workers : owner' = v => owner = v
        /\ \A v \in Workers : v # w /\ v \notin stale' => v \notin stale
    BY <2>1 DEF Die, intent
  <2> QED
    BY <2>2, <2>3 DEF ReadInv, Reading, Calling
<1>10. CASE HandlerCommits
  <2>1. pass' = pass /\ owner' = owner /\ handler' = "none"
    BY <1>10 DEF HandlerCommits, job
  <2>2. CASE handler = "saw"
    <3>1. Written(NoOne) /\ status \in Waiting
      BY <1>10, <2>2 DEF HandlerCommits, ReadInv
    <3>2. Reading' \subseteq stale'
      BY <2>1, <3>1, WrittenStale DEF Reading
    <3>3. \A w \in Calling : owner # w
      BY <3>1 DEF ReadInv, Waiting
    <3> QED
      BY <2>1, <3>2, <3>3 DEF ReadInv, Calling
  <2>3. CASE handler = "missed"
    <3>1. status' = status /\ stale' = stale
      BY <1>10, <2>3 DEF HandlerCommits
    <3> QED
      BY <2>1, <3>1 DEF ReadInv, Reading, Calling
  <2> QED
    BY <1>10, <2>2, <2>3 DEF HandlerCommits
<1>11. CASE RetryNotification
  <2>1. pass' = pass /\ owner' = NoOne /\ handler' = "none" /\ Written(NoOne)
    BY <1>11 DEF RetryNotification, Release
  <2>2. Reading' \subseteq stale'
    BY <2>1, WrittenStale DEF Reading
  <2> QED
    BY <2>1, <2>2 DEF ReadInv, Calling
<1>12. CASE HandlerSelects \/ HandlerFails
  BY <1>12 DEF HandlerSelects, HandlerFails, ReadInv, Reading, Calling, intent, job
<1>13. CASE UNCHANGED <<status, handler, pass, stale, owner>>
  BY <1>13 DEF ReadInv, Reading, Calling
<1>14. \/ \E w \in Workers : Work(w) \/ Crash(w) \/ Restart(w)
       \/ HandlerSelects \/ HandlerCommits \/ HandlerFails \/ RetryNotification
       \/ UNCHANGED <<status, handler, pass, stale, owner>>
  BY DEF Next, Requests, Time, EntitlementChanges, Unlink, LeaseExpires, BecomesAvailable, WindowCloses,
         LineHandles, LineForgets, vars, intent, job
<1> QED
  BY <1>2, <1>3, <1>4, <1>5, <1>6, <1>8, <1>9, <1>10, <1>11, <1>12, <1>13, <1>14 DEF Work

\* Init satisfies it: nobody has read anything.
LEMMA ReadInit == Init => ReadInv
BY DeliveryAssumption DEF Init, ReadInv, Reading, Calling

\* A final status stays.
THEOREM FinalStays == Spec => FinalIsFinal
<1>1. TypeOK /\ ReadInv /\ [Next]_vars => [(status \in Final) => (status' = status)]_vars
  <2> SUFFICES ASSUME TypeOK, ReadInv, [Next]_vars, status \in Final PROVE status' = status
    OBVIOUS
  <2>1. status \notin Pending /\ status \notin {"DEAD_LETTER", "RETRY_WAIT"}
    BY DEF Final, Pending, Waiting
  <2>2. ASSUME NEW w \in Workers, Skip(w) \/ NotConfigured(w) \/ GiveUp(w) \/ Publish(w) \/ Begin(w)
        PROVE  FALSE
    <3>1. pass[w].step = "checked" /\ w \notin stale
      BY <2>2 DEF Skip, NotConfigured, GiveUp, Publish, Begin, Sendable, Settle
    <3> QED
      BY <2>1, <3>1, FreshStatus
  <2>3. ASSUME NEW w \in Workers, Apply(w)
        PROVE  FALSE
    BY <2>1, <2>3 DEF Apply, ReadInv, Calling, Pending
  <2>4. CASE HandlerCommits
    BY <2>1, <2>4 DEF HandlerCommits, ReadInv, Pending
  <2>5. CASE RetryNotification
    BY <2>1, <2>5 DEF RetryNotification, RetryAllowed
  <2> QED
    BY <2>2, <2>3, <2>4, <2>5, RowChanges
<1> QED
  BY <1>1, ReadInit, ReadStep, DeliveryTypeCorrect, PTL DEF Spec, FinalIsFinal

---------------------------------------------------------------------------
(* The first attempt.                                                      *)

\* Whoever writes a row leaves no other pass with current rows.
LEMMA NobodyFresh ==
  ASSUME TypeOK, NEW w \in Workers,
         \/ Skip(w) \/ NotConfigured(w) \/ GiveUp(w) \/ Publish(w) \/ Begin(w) \/ Apply(w)
         \/ Claim(w) \/ GiveBack(w)
  PROVE  Reading' \subseteq stale'
<1>1. Written(w) /\ \E p : Move(w, p) /\ p.step \in {"idle", "sending", "claimed"}
  BY DEF Skip, NotConfigured, GiveUp, Publish, Begin, Apply, Claim, GiveBack, Settle, Record
<1>2. pass'[w].step \notin {"read", "checked"} /\ \A v \in Workers : v # w => pass'[v] = pass[v]
  BY <1>1, Moved
<1> QED
  BY <1>1, <1>2, WrittenStale DEF Reading

\* AskedInv is inductive with the types and ReadInv.
LEMMA AskedStep == TypeOK /\ ReadInv /\ AskedInv /\ [Next]_vars => AskedInv'
<1> SUFFICES ASSUME TypeOK, ReadInv, AskedInv, [Next]_vars PROVE AskedInv'
  OBVIOUS
<1> USE DeliveryAssumption
<1>0. attempts \in Seq(Results)
  BY DEF TypeOK
<1>1. ASSUME NEW w \in Workers, Skip(w) \/ NotConfigured(w) \/ GiveUp(w)
      PROVE  AskedInv'
  <2>1. status' \notin Pending /\ status' # "PROCESSING"
    BY <1>1 DEF Skip, NotConfigured, GiveUp, Settle, Pending, Waiting
  <2>2. Reading' \subseteq stale'
    BY <1>1, NobodyFresh
  <2> QED
    BY <2>1, <2>2 DEF AskedInv, Reading
<1>2. ASSUME NEW w \in Workers, Publish(w) \/ Begin(w)
      PROVE  AskedInv'
  <2>1. \E log \in Seq(Results), r \in Results : attempts' = Append(log, r)
    BY <1>0, <1>2, CutShortLog DEF Publish, Begin, Results
  <2>2. attempts' # <<>>
    BY <2>1
  <2> QED
    BY <2>2 DEF AskedInv
<1>3. ASSUME NEW w \in Workers, Apply(w)
      PROVE  AskedInv'
  <2>1. status = "PROCESSING"
    BY <1>3 DEF Apply, ReadInv, Calling
  <2>2. attempts # <<>> /\ pass[w].result \in Results
    BY <1>3, <2>1, StepFields DEF AskedInv, Apply, TypeOK, Results
  <2>3. Len(attempts') = Len(attempts)
    BY <1>0, <1>3, <2>2, RecordLog DEF Apply, Record
  <2>4. attempts' # <<>>
    BY <1>0, <2>2, <2>3
  <2> QED
    BY <2>4 DEF AskedInv
<1>4. ASSUME NEW w \in Workers, Claim(w) \/ GiveBack(w)
      PROVE  AskedInv'
  <2>1. UNCHANGED <<status, attempts, handler>>
    BY <1>4 DEF Claim, GiveBack, intent
  <2>2. Reading' \subseteq stale'
    BY <1>4, NobodyFresh
  <2> QED
    BY <2>1, <2>2 DEF AskedInv, Reading
<1>5. ASSUME NEW w \in Workers,
             \/ Select(w) \/ ClaimLost(w) \/ Read(w) \/ Send(w) \/ ApplyLate(w) \/ Restart(w)
             \/ Conflict(w) \/ Crash(w)
      PROVE  AskedInv'
  <2>1. UNCHANGED <<status, attempts, handler, asked>> /\ stale \ {w} \subseteq stale'
    BY <1>5 DEF Select, ClaimLost, Read, Send, ApplyLate, Restart, Conflict, Crash, Die, intent, facts
  <2>2. \E p : Move(w, p) /\ p.step # "checked"
    <3>1. CASE Send(w)
      BY <3>1 DEF Send
    <3>2. CASE Read(w)
      BY <3>2 DEF Read
    <3>3. CASE Conflict(w) \/ Crash(w)
      BY <3>3 DEF Conflict, Crash, Die
    <3>4. CASE Select(w) \/ ClaimLost(w) \/ ApplyLate(w) \/ Restart(w)
      BY <3>4 DEF Select, ClaimLost, ApplyLate, Restart
    <3> QED
      BY <1>5, <3>1, <3>2, <3>3, <3>4
  <2>3. pass'[w].step # "checked" /\ \A v \in Workers : v # w => pass'[v] = pass[v]
    BY <2>2, Moved
  <2> QED
    BY <2>1, <2>3 DEF AskedInv
<1>6. ASSUME NEW w \in Workers, Check(w)
      PROVE  AskedInv'
  <2>1. UNCHANGED <<status, attempts, handler, asked, stale>>
    BY <1>6 DEF Check, intent, facts
  <2>2. pass'[w].barred = ~Notifiable /\ \A v \in Workers : v # w => pass'[v] = pass[v]
    BY <1>6, Moved DEF Check
  <2>3. ~pass'[w].barred => asked
    BY <2>2 DEF Notifiable
  <2> QED
    BY <2>1, <2>2, <2>3 DEF AskedInv
<1>7. CASE HandlerSelects
  BY <1>7 DEF HandlerSelects, AskedInv, Pending, intent, facts
<1>8. CASE HandlerCommits
  <2>1. pass' = pass /\ attempts' = attempts /\ handler' = "none"
    BY <1>8 DEF HandlerCommits
  <2>2. CASE handler = "saw"
    <3>1. Written(NoOne) /\ status' # "PROCESSING"
      BY <1>8, <2>2 DEF HandlerCommits
    <3>2. Reading' \subseteq stale'
      BY <2>1, <3>1, WrittenStale DEF Reading
    <3> QED
      BY <2>1, <3>1, <3>2 DEF AskedInv, Reading
  <2>3. CASE handler = "missed"
    <3>1. status' = status /\ stale' = stale
      BY <1>8, <2>3 DEF HandlerCommits
    <3>2. attempts = <<>> => \A v \in Workers : pass[v].step = "checked" => v \in stale
      BY <2>3, FreshStatus DEF AskedInv
    <3> QED
      BY <2>1, <3>1, <3>2 DEF AskedInv
  <2> QED
    BY <1>8, <2>2, <2>3 DEF HandlerCommits
<1>9. CASE RetryNotification
  <2>1. pass' = pass /\ status' = "READY" /\ handler' = "none" /\ Written(NoOne)
    BY <1>9 DEF RetryNotification
  <2>2. Reading' \subseteq stale'
    BY <2>1, WrittenStale DEF Reading
  <2> QED
    BY <2>1, <2>2 DEF AskedInv, Reading
<1>10. CASE HandlerFails
  BY <1>10 DEF HandlerFails, AskedInv, intent, facts
<1>11. CASE UNCHANGED <<status, attempts, handler, pass, stale, asked>>
  BY <1>11 DEF AskedInv
<1>12. \/ \E w \in Workers : Work(w) \/ Crash(w) \/ Restart(w)
       \/ HandlerSelects \/ HandlerCommits \/ HandlerFails \/ RetryNotification
       \/ UNCHANGED <<status, attempts, handler, pass, stale, asked>>
  BY DEF Next, Requests, Time, EntitlementChanges, Unlink, LeaseExpires, BecomesAvailable, WindowCloses,
         LineHandles, LineForgets, vars, intent, facts
<1> QED
  BY <1>1, <1>2, <1>3, <1>4, <1>5, <1>6, <1>7, <1>8, <1>9, <1>10, <1>11, <1>12 DEF Work

\* No first attempt, and no publication, but for a task that is still asked for.
THEOREM FirstAttemptIsAskedFor == Spec => FirstAttemptWasAsked
<1>1. Init => AskedInv
  BY DEF Init, AskedInv
<1>2. TypeOK /\ ReadInv /\ AskedInv /\ [Next]_vars => [attempts = <<>> /\ attempts' # <<>> => asked]_vars
  <2> SUFFICES ASSUME TypeOK, ReadInv, AskedInv, [Next]_vars, attempts = <<>>, attempts' # <<>>
               PROVE  asked
    OBVIOUS
  <2>1. ASSUME NEW w \in Workers, Publish(w) \/ Begin(w)
        PROVE  asked
    BY <2>1 DEF Publish, Begin, Sendable, Settle, AskedInv
  <2>2. ASSUME NEW w \in Workers, Apply(w)
        PROVE  FALSE
    BY <2>2 DEF Apply, ReadInv, Calling, AskedInv
  <2>3. ASSUME NEW w \in Workers, Skip(w) \/ NotConfigured(w) \/ GiveUp(w)
        PROVE  FALSE
    BY <2>3 DEF Skip, NotConfigured, GiveUp
  <2>4. CASE HandlerCommits \/ RetryNotification
    BY <2>4 DEF HandlerCommits, RetryNotification
  <2> QED
    BY <2>1, <2>2, <2>3, <2>4, RowChanges
<1> QED
  BY <1>1, <1>2, AskedStep, ReadInit, ReadStep, DeliveryTypeCorrect, PTL DEF Spec, FirstAttemptWasAsked

---------------------------------------------------------------------------
(* Delivered once.                                                         *)

\* The steps that concern LINE: those that call it, or could call it, and its own.
LEMMA LineChanges ==
  ASSUME TypeOK, [Next]_vars
  PROVE  \/ \E w \in Workers : Begin(w) \/ Send(w) \/ Conflict(w) \/ Crash(w)
         \/ LineHandles \/ LineForgets \/ WindowCloses
         \/ /\ UNCHANGED <<remembered, copies, underway, late>>
            /\ \A v \in Workers : pass'[v].step = "sending" => pass[v].step = "sending"
<1>1. ASSUME NEW w \in Workers,
             \/ Select(w) \/ Claim(w) \/ ClaimLost(w) \/ Read(w) \/ Check(w) \/ GiveBack(w) \/ Skip(w)
             \/ Publish(w) \/ NotConfigured(w) \/ GiveUp(w) \/ Apply(w) \/ ApplyLate(w) \/ Restart(w)
      PROVE  /\ UNCHANGED <<remembered, copies, underway, late>>
             /\ \A v \in Workers : pass'[v].step = "sending" => pass[v].step = "sending"
  <2>1. UNCHANGED <<remembered, copies, underway, late>>
    BY <1>1 DEF Select, Claim, ClaimLost, Read, Check, GiveBack, Skip, Publish, NotConfigured, GiveUp,
                Apply, ApplyLate, Restart, Settle, Record, intent, line
  <2>2. \E p : Move(w, p) /\ p.step # "sending"
    <3>1. CASE Read(w) \/ Check(w)
      BY <3>1 DEF Read, Check
    <3>2. CASE ~(Read(w) \/ Check(w))
      BY <1>1, <3>2 DEF Select, Claim, ClaimLost, GiveBack, Skip, Publish, NotConfigured, GiveUp,
                        Apply, ApplyLate, Restart, Settle, Record
    <3> QED
      BY <3>1, <3>2
  <2> QED
    BY <2>1, <2>2, Moved
<1>2. ASSUME \/ Requests \/ LeaseExpires \/ BecomesAvailable \/ UNCHANGED vars
      PROVE  UNCHANGED <<remembered, copies, underway, late, pass>>
  BY <1>2 DEF Requests, HandlerSelects, HandlerCommits, HandlerFails, RetryNotification,
              EntitlementChanges, Unlink, LeaseExpires, BecomesAvailable, vars, intent, line
<1> QED
  BY <1>1, <1>2 DEF Next, Work, Time

\* CopiesInv is inductive with the types.
LEMMA CopiesStep == TypeOK /\ CopiesInv /\ [Next]_vars => CopiesInv'
<1> SUFFICES ASSUME TypeOK, CopiesInv, [Next]_vars PROVE CopiesInv'
  OBVIOUS
<1>0. underway \in Nat /\ copies \in Nat
  BY DEF TypeOK
<1>1. ASSUME NEW w \in Workers, Begin(w)
      PROVE  CopiesInv'
  <2>1. ~late /\ UNCHANGED <<remembered, copies, underway, late>>
    BY <1>1 DEF Begin, Exhausted, line
  <2> QED
    BY <2>1 DEF CopiesInv
<1>2. ASSUME NEW w \in Workers, Send(w)
      PROVE  CopiesInv'
  <2>1. pass[w].step = "sending" /\ (Accept \/ UNCHANGED <<remembered, copies>>)
    BY <1>2 DEF Send
  <2>2. late' = late /\ (remembered => copies = 1) /\ (~remembered => copies = 0)
    BY <1>2, <2>1 DEF CopiesInv, Send, intent
  <2>3. copies' \in {0, 1} /\ (remembered' => copies' = 1) /\ (~remembered' => copies' = 0)
    BY <2>1, <2>2 DEF Accept
  <2> QED
    BY <2>3 DEF CopiesInv
<1>3. ASSUME NEW w \in Workers, Conflict(w) \/ Crash(w)
      PROVE  CopiesInv'
  <2>1. Die(w)
    BY <1>3 DEF Conflict, Crash
  <2>2. pass'[w].step = "dead" /\ \A v \in Workers : v # w => pass'[v] = pass[v]
    BY <2>1, Moved DEF Die
  <2>3. UNCHANGED <<remembered, copies, late>> /\ (pass[w].step # "sending" => underway' = underway)
    BY <2>1 DEF Die, intent
  <2> QED
    BY <2>2, <2>3 DEF CopiesInv
<1>4. CASE LineHandles
  <2>1. underway > 0 /\ pass' = pass /\ (Accept \/ UNCHANGED <<remembered, copies>>)
    BY <1>4 DEF LineHandles
  <2>2. underway # 0
    BY <1>0, <2>1
  <2>3. (remembered => copies = 1) /\ (~remembered => copies = 0)
    BY <2>2 DEF CopiesInv
  <2>4. copies' \in {0, 1} /\ (remembered' => copies' = 1) /\ (~remembered' => copies' = 0)
    BY <2>1, <2>3 DEF Accept
  <2> QED
    BY <2>4 DEF CopiesInv
<1>5. CASE LineForgets
  BY <1>5 DEF LineForgets, CopiesInv, intent
<1>6. CASE WindowCloses
  BY <1>6 DEF WindowCloses, CopiesInv, line
<1>7. CASE /\ UNCHANGED <<remembered, copies, underway, late>>
           /\ \A v \in Workers : pass'[v].step = "sending" => pass[v].step = "sending"
  BY <1>7 DEF CopiesInv
<1> QED
  BY <1>1, <1>2, <1>3, <1>4, <1>5, <1>6, <1>7, LineChanges

\* One message, at most.
THEOREM OneMessage == Spec => []DeliveredOnce
<1>1. Init => CopiesInv
  BY DEF Init, CopiesInv
<1>2. CopiesInv => DeliveredOnce
  BY DEF CopiesInv, DeliveredOnce
<1> QED
  BY <1>1, <1>2, CopiesStep, DeliveryTypeCorrect, PTL DEF Spec

---------------------------------------------------------------------------
(* Results stand, while passes read in time.                               *)

\* Giving up the lease by its owner keeps OwnerInv.
LEMMA ReleasedByOwner ==
  ASSUME TypeOK, OwnerInv, NEW w \in Workers, owner = w, Release, Written(w),
         Move(w, [step |-> "idle"])
  PROVE  OwnerInv'
<1> USE DeliveryAssumption
<1>1. pass'[w].step = "idle" /\ \A v \in Workers : v # w => pass'[v] = pass[v]
  BY Moved
<1>2. Reading' \subseteq stale'
  BY <1>1, WrittenStale DEF Reading
<1>3. owner' = NoOne
  BY DEF Release
<1>4. \A v \in Workers : pass'[v].step # "claimed"
  BY <1>1 DEF OwnerInv
<1> QED
  BY <1>2, <1>3, <1>4 DEF OwnerInv, Calling, Reading

\* OwnerInv is inductive with the types and the log.
LEMMA OwnerStep == TypeOK /\ LogInv /\ OwnerInv /\ [Next /\ ReadsInTime]_vars => OwnerInv'
<1> SUFFICES ASSUME TypeOK, LogInv, OwnerInv, [Next /\ ReadsInTime]_vars PROVE OwnerInv'
  OBVIOUS
<1> USE DeliveryAssumption
<1>1. ASSUME NEW w \in Workers, Select(w) \/ ClaimLost(w) \/ Restart(w) \/ ApplyLate(w) \/ Check(w)
      PROVE  OwnerInv'
  <2>1. UNCHANGED <<lease, owner, attempts, stale>>
    BY <1>1 DEF Select, ClaimLost, Restart, ApplyLate, Check, job
  <2>2. PICK p : /\ Move(w, p)
                 /\ p.step \in {"idle", "chosen", "checked"}
                 /\ p.step = "checked" => pass[w].step = "read"
    BY <1>1 DEF Select, ClaimLost, Restart, ApplyLate, Check
  <2>3. pass'[w] = p /\ \A v \in Workers : v # w => pass'[v] = pass[v]
    BY <2>2, Moved
  <2>4. Reading' \subseteq Reading /\ Calling' \subseteq Calling \ {w}
    BY <2>2, <2>3 DEF Reading, Calling
  <2>5. \A v \in Workers : pass'[v].step = "claimed" => pass[v].step = "claimed"
    BY <2>2, <2>3
  <2>6. \A v \in Calling' : pass'[v] = pass[v]
    BY <2>3, <2>4 DEF Calling
  <2> QED
    BY <2>1, <2>4, <2>5, <2>6 DEF OwnerInv
<1>2. ASSUME NEW w \in Workers, Claim(w)
      PROVE  OwnerInv'
  <2>1. lease # "held" /\ lease' = "held" /\ owner' = w /\ attempts' = attempts
    BY <1>2 DEF Claim
  <2>2. pass'[w].step = "claimed" /\ \A v \in Workers : v # w => pass'[v] = pass[v]
    BY <1>2, Moved DEF Claim
  <2>3. Reading' \subseteq stale'
    BY <1>2, <2>2, WrittenStale DEF Claim, Reading
  <2> QED
    BY <2>1, <2>2, <2>3 DEF OwnerInv, Calling, Reading
<1>3. ASSUME NEW w \in Workers, Read(w)
      PROVE  OwnerInv'
  <2>1. owner = w /\ UNCHANGED <<lease, owner, attempts, stale>>
    BY <1>3 DEF Read, OwnerInv, job
  <2>2. pass'[w].step = "read" /\ \A v \in Workers : v # w => pass'[v] = pass[v]
    BY <1>3, Moved DEF Read
  <2> QED
    BY <2>1, <2>2 DEF OwnerInv, Calling, Reading
<1>4. ASSUME NEW w \in Workers,
             GiveBack(w) \/ Skip(w) \/ Publish(w) \/ NotConfigured(w) \/ GiveUp(w) \/ Apply(w)
      PROVE  OwnerInv'
  <2>1. owner = w
    BY <1>4 DEF GiveBack, Skip, Publish, NotConfigured, GiveUp, Apply, Sendable, Settle, OwnerInv, Reading
  <2>2. Release /\ Written(w) /\ Move(w, [step |-> "idle"])
    BY <1>4 DEF GiveBack, Skip, Publish, NotConfigured, GiveUp, Apply, Settle, Record
  <2> QED
    BY <2>1, <2>2, ReleasedByOwner
<1>5. ASSUME NEW w \in Workers, Begin(w)
      PROVE  OwnerInv'
  <2>1. owner = w /\ owner' = owner /\ attempts' = Append(CutShort(attempts), "IN_FLIGHT")
    BY <1>5 DEF Begin, Sendable, OwnerInv, Reading
  <2>2. /\ pass'[w].step = "sending" /\ pass'[w].attempt = attemptCount + 1
        /\ \A v \in Workers : v # w => pass'[v] = pass[v]
    BY <1>5, Moved DEF Begin
  <2>3. Reading' \subseteq stale'
    BY <1>5, <2>2, WrittenStale DEF Begin, Reading
  <2>4. attemptCount + 1 \in DOMAIN attempts' /\ attempts'[attemptCount + 1] = "IN_FLIGHT"
    <3>1. attempts \in Seq(Results) /\ attemptCount = Len(attempts) /\ "IN_FLIGHT" \in Results
      BY DEF TypeOK, LogInv, AttemptsAreLogged, Results
    <3> QED
      BY <2>1, <3>1, CutShortLog, AppendLog
  <2>5. \A v \in Workers : pass'[v].step # "claimed"
    BY <2>1, <2>2 DEF OwnerInv
  <2> QED
    BY <2>1, <2>2, <2>3, <2>4, <2>5 DEF OwnerInv, Calling
<1>6. ASSUME NEW w \in Workers, Send(w)
      PROVE  OwnerInv'
  <2>1. pass[w].step = "sending" /\ UNCHANGED <<lease, owner, attempts, stale>>
    BY <1>6 DEF Send, job
  <2>2. PICK r : Move(w, [step |-> "answered", attempt |-> pass[w].attempt, result |-> r])
    BY <1>6 DEF Send
  <2>3. /\ pass'[w].step = "answered" /\ pass'[w].attempt = pass[w].attempt
        /\ \A v \in Workers : v # w => pass'[v] = pass[v]
    BY <2>2, Moved
  <2> QED
    BY <2>1, <2>3 DEF OwnerInv, Calling, Reading
<1>7. ASSUME NEW w \in Workers, Conflict(w) \/ Crash(w)
      PROVE  OwnerInv'
  <2>1. Die(w)
    BY <1>7 DEF Conflict, Crash
  <2>2. pass'[w].step = "dead" /\ \A v \in Workers : v # w => pass'[v] = pass[v]
    BY <2>1, Moved DEF Die
  <2>3. /\ UNCHANGED <<lease, attempts>> /\ stale' = stale \ {w}
        /\ owner' = IF owner = w THEN Gone ELSE owner
    BY <2>1 DEF Die
  <2> QED
    BY <2>2, <2>3 DEF OwnerInv, Calling, Reading
<1>8. CASE RetryNotification
  <2>1. owner' = NoOne /\ lease # "held" /\ pass' = pass /\ Written(NoOne)
    BY <1>8 DEF RetryNotification, Release
  <2>2. Reading' \subseteq stale'
    BY <2>1, WrittenStale DEF Reading
  <2> QED
    BY <2>1, <2>2 DEF OwnerInv, Calling, Reading
<1>9. CASE LeaseExpires
  <2>1. lease = "held" /\ lease' = "expired" /\ UNCHANGED <<owner, attempts, pass, stale>>
    BY <1>9 DEF LeaseExpires
  <2>2. \A w \in Workers : pass[w].step # "claimed"
    BY <2>1 DEF OwnerInv, ReadsInTime, vars, job
  <2> QED
    BY <2>1, <2>2 DEF OwnerInv, Calling, Reading
<1>10. CASE UNCHANGED <<lease, owner, attempts, pass>> /\ stale \subseteq stale'
  BY <1>10 DEF OwnerInv, Calling, Reading
<1>11. ASSUME HandlerCommits
       PROVE  UNCHANGED <<lease, owner, attempts, pass>> /\ stale \subseteq stale'
  <2>1. stale \subseteq Workers
    BY DEF TypeOK
  <2>2. stale \subseteq stale'
    BY <1>11, <2>1 DEF HandlerCommits, Written
  <2> QED
    BY <1>11, <2>2 DEF HandlerCommits, job
<1>12. ASSUME \/ HandlerSelects \/ HandlerFails \/ EntitlementChanges \/ Unlink
              \/ BecomesAvailable \/ WindowCloses \/ LineHandles \/ LineForgets \/ UNCHANGED vars
       PROVE  UNCHANGED <<lease, owner, attempts, pass, stale>>
  BY <1>12 DEF HandlerSelects, HandlerFails, EntitlementChanges, Unlink, BecomesAvailable,
               WindowCloses, LineHandles, LineForgets, vars, job
<1> QED
  BY <1>1, <1>2, <1>3, <1>4, <1>5, <1>6, <1>7, <1>8, <1>9, <1>10, <1>11, <1>12 DEF Next, Work, Requests, Time

\* What a step writes into the log is a new entry, or the result of an attempt in flight.
LEMMA LogGrows ==
  ASSUME TypeOK, OwnerInv, [Next]_vars, NEW i \in DOMAIN attempts, attempts[i] # "IN_FLIGHT"
  PROVE  i \in DOMAIN attempts' /\ attempts'[i] = attempts[i]
<1>0. attempts \in Seq(Results)
  BY DEF TypeOK
<1>1. ASSUME NEW w \in Workers, Publish(w) \/ Begin(w)
      PROVE  i \in DOMAIN attempts' /\ attempts'[i] = attempts[i]
  <2>1. CASE Publish(w)
    BY <1>0, <2>1, AppendLog DEF Publish, Results
  <2>2. CASE Begin(w)
    <3>1. attempts' = Append(CutShort(attempts), "IN_FLIGHT") /\ "IN_FLIGHT" \in Results
      BY <2>2 DEF Begin, Results
    <3> QED
      BY <1>0, <3>1, CutShortLog, AppendLog
  <2> QED
    BY <1>1, <2>1, <2>2
<1>2. ASSUME NEW w \in Workers, Apply(w)
      PROVE  i \in DOMAIN attempts' /\ attempts'[i] = attempts[i]
  <2>1. pass[w].step = "answered" /\ owner = w
        /\ attempts' = [attempts EXCEPT ![pass[w].attempt] = pass[w].result]
    BY <1>2 DEF Apply, Record
  <2>2. pass[w].attempt # i
    BY <2>1 DEF OwnerInv, Calling
  <2>3. pass[w].result \in Results
    BY <2>1, StepFields DEF TypeOK, Results
  <2> QED
    BY <1>0, <2>1, <2>2, <2>3, RecordLog
<1>3. ASSUME NEW w \in Workers, Skip(w) \/ NotConfigured(w) \/ GiveUp(w)
      PROVE  attempts' = attempts
  BY <1>3 DEF Skip, NotConfigured, GiveUp
<1>4. ASSUME HandlerCommits \/ RetryNotification
      PROVE  attempts' = attempts
  BY <1>4 DEF HandlerCommits, RetryNotification
<1> QED
  BY <1>1, <1>2, <1>3, <1>4, RowChanges

\* A result stands, provided that a pass reads the job while it holds the lease.
THEOREM ResultsStay == PromptSpec => ResultsStand
<1>1. Init => OwnerInv
  BY DEF Init, OwnerInv, Reading, Calling
<1>2. Init => LogInv
  BY DeliveryAssumption DEF Init, LogInv, AttemptsAreLogged
<1>3. TypeOK /\ OwnerInv /\ [Next]_vars =>
        [\A i \in DOMAIN attempts :
           attempts[i] # "IN_FLIGHT" => i \in DOMAIN attempts' /\ attempts'[i] = attempts[i]]_vars
  BY LogGrows
<1>4. PromptSpec => Spec
  <2>1. [Next /\ ReadsInTime]_vars => [Next]_vars
    OBVIOUS
  <2> QED
    BY <2>1, PTL DEF PromptSpec, Spec
<1> QED
  BY <1>1, <1>2, <1>3, <1>4, OwnerStep, LogStep, DeliveryTypeCorrect, PTL DEF PromptSpec, Spec, ResultsStand

---------------------------------------------------------------------------
(* Honest records.                                                         *)

\* Only these steps begin or change a call.
LEMMA CallChanges ==
  ASSUME TypeOK, [Next]_vars
  PROVE  \/ \E w \in Workers : Begin(w) \/ Send(w) \/ Apply(w) \/ Conflict(w) \/ Crash(w)
         \/ \A v \in Workers : v \in Calling' => v \in Calling /\ pass'[v] = pass[v]
<1>1. ASSUME NEW w \in Workers,
             \/ Select(w) \/ Claim(w) \/ ClaimLost(w) \/ Read(w) \/ Check(w) \/ GiveBack(w) \/ Skip(w)
             \/ Publish(w) \/ NotConfigured(w) \/ GiveUp(w) \/ ApplyLate(w) \/ Restart(w)
      PROVE  \A v \in Workers : v \in Calling' => v \in Calling /\ pass'[v] = pass[v]
  <2>1. \E p : Move(w, p) /\ p.step \notin {"sending", "answered"}
    <3>1. CASE Read(w) \/ Check(w)
      BY <3>1 DEF Read, Check
    <3>2. CASE ~(Read(w) \/ Check(w))
      BY <1>1, <3>2 DEF Select, Claim, ClaimLost, GiveBack, Skip, Publish, NotConfigured, GiveUp,
                        ApplyLate, Restart, Settle
    <3> QED
      BY <3>1, <3>2
  <2> QED
    BY <2>1, Moved DEF Calling
<1>2. ASSUME \/ Requests \/ Time \/ LineHandles \/ LineForgets \/ UNCHANGED vars
      PROVE  pass' = pass
  BY <1>2 DEF Requests, HandlerSelects, HandlerCommits, HandlerFails, RetryNotification, EntitlementChanges,
              Unlink, Time, LeaseExpires, BecomesAvailable, WindowCloses, LineHandles, LineForgets, vars
<1>3. pass' = pass => \A v \in Workers : v \in Calling' => v \in Calling /\ pass'[v] = pass[v]
  BY DEF Calling
<1> QED
  BY <1>1, <1>2, <1>3 DEF Next, Work

\* DoubtInv holds on while nothing is accused of failing, begun or sent.
LEMMA DoubtKept ==
  ASSUME DoubtInv,
         DOMAIN attempts \subseteq DOMAIN attempts',
         \A i \in DOMAIN attempts : attempts'[i] = "FAILED" => attempts[i] = "FAILED",
         \A v \in Workers : v \in Calling' => v \in Calling /\ pass'[v] = pass[v],
         copies > 0 => copies' > 0,
         copies' > 0 \/ underway' > 0 => copies > 0 \/ underway > 0,
         channel' = "LINE" /\ status' = "API_ACCEPTED" => copies' > 0
  PROVE  DoubtInv'
<1>1. \A v \in Calling' : v \in Calling /\ pass'[v] = pass[v]
  BY DEF Calling
<1>2. \A i \in DOMAIN attempts : InDoubt(i) => InDoubt(i)'
  BY <1>1 DEF InDoubt
<1>3. copies' > 0 \/ underway' > 0 => \E i \in DOMAIN attempts' : InDoubt(i)'
  BY <1>2 DEF DoubtInv
<1>4. ASSUME NEW w \in Calling'
      PROVE  /\ pass'[w].attempt \in DOMAIN attempts'
             /\ attempts'[pass'[w].attempt] # "FAILED"
             /\ pass'[w].step = "answered" /\ pass'[w].result = "API_ACCEPTED" => copies' > 0
             /\ \A v \in Calling' : pass'[v].attempt = pass'[w].attempt => v = w
  BY <1>1 DEF DoubtInv
<1> QED
  BY <1>3, <1>4 DEF DoubtInv

\* DoubtInv is inductive with the types, the log and the copies.
LEMMA DoubtStep == TypeOK /\ LogInv /\ CopiesInv /\ DoubtInv /\ [Next]_vars => DoubtInv'
<1> SUFFICES ASSUME TypeOK, LogInv, CopiesInv, DoubtInv, [Next]_vars PROVE DoubtInv'
  OBVIOUS
<1>0. /\ attempts \in Seq(Results) /\ attemptCount = Len(attempts) /\ copies \in Nat /\ underway \in Nat
      /\ channel' = channel
  BY RowChanges DEF TypeOK, LogInv, AttemptsAreLogged
<1>1. ASSUME NEW w \in Workers, Begin(w)
      PROVE  DoubtInv'
  <2>1. /\ attempts' = Append(CutShort(attempts), "IN_FLIGHT") /\ "IN_FLIGHT" \in Results
        /\ status' = "PROCESSING" /\ UNCHANGED <<copies, underway>>
    BY <1>1 DEF Begin, line, Results
  <2>2. /\ pass[w].step = "checked" /\ pass'[w].step = "sending"
        /\ pass'[w].attempt = Len(attempts) + 1
        /\ \A v \in Workers : v # w => pass'[v] = pass[v]
    BY <1>0, <1>1, Moved DEF Begin, Sendable
  <2>3. /\ DOMAIN attempts' = DOMAIN attempts \cup {Len(attempts) + 1}
        /\ Len(attempts) + 1 \notin DOMAIN attempts
        /\ attempts'[Len(attempts) + 1] = "IN_FLIGHT"
        /\ \A i \in DOMAIN attempts : attempts'[i] = "FAILED" => attempts[i] = "FAILED"
    BY <1>0, <2>1, CutShortLog, AppendLog
  <2>4. Calling' = Calling \cup {w} /\ \A v \in Calling : v # w /\ pass'[v] = pass[v]
    BY <2>2 DEF Calling
  <2>5. \A v \in Calling : pass[v].attempt \in DOMAIN attempts
    BY DEF DoubtInv
  <2>6. \A i \in DOMAIN attempts : InDoubt(i) => InDoubt(i)'
    BY <2>2, <2>3, <2>4 DEF InDoubt
  <2>7. \A v \in Calling' :
          /\ pass'[v].attempt \in DOMAIN attempts'
          /\ attempts'[pass'[v].attempt] # "FAILED"
          /\ pass'[v].step = "answered" /\ pass'[v].result = "API_ACCEPTED" => copies' > 0
    BY <2>1, <2>2, <2>3, <2>4 DEF DoubtInv
  <2>8. \A u, v \in Calling' : pass'[v].attempt = pass'[u].attempt => v = u
    BY <2>2, <2>3, <2>4, <2>5 DEF DoubtInv
  <2>9. copies' > 0 \/ underway' > 0 => \E i \in DOMAIN attempts' : InDoubt(i)'
    BY <2>1, <2>3, <2>6 DEF DoubtInv
  <2> QED
    BY <2>1, <2>7, <2>8, <2>9 DEF DoubtInv
<1>2. ASSUME NEW w \in Workers, Send(w)
      PROVE  DoubtInv'
  <2>1. PICK reply \in Replies :
          /\ Move(w, [step |-> "answered", attempt |-> pass[w].attempt, result |-> Result(reply)])
          /\ IF reply = "accepted" THEN Accept ELSE UNCHANGED <<remembered, copies>>
          /\ underway' = IF reply = "none" THEN underway + 1 ELSE underway
    BY <1>2 DEF Send
  <2>2. pass[w].step = "sending" /\ UNCHANGED <<attempts, status>>
    BY <1>2 DEF Send, intent
  <2>3. /\ pass'[w].step = "answered" /\ pass'[w].attempt = pass[w].attempt
        /\ pass'[w].result = Result(reply)
        /\ \A v \in Workers : v # w => pass'[v] = pass[v]
    BY <2>1, Moved
  <2>4. w \in Calling /\ Calling' = Calling
    BY <2>2, <2>3 DEF Calling
  <2>5. reply = "accepted" => copies' > 0
    BY <1>0, <2>1 DEF Accept, CopiesInv
  <2>6. copies > 0 => copies' > 0
    BY <1>0, <2>1, <2>5
  <2>7. Result(reply) = "API_ACCEPTED" => reply = "accepted"
    BY DEF Result, Replies
  <2>8. \A v \in Calling' :
          /\ pass'[v].attempt = pass[v].attempt
          /\ pass'[v].step = "answered" /\ pass'[v].result = "API_ACCEPTED" => copies' > 0
    BY <2>3, <2>4, <2>5, <2>6, <2>7 DEF DoubtInv, Calling
  <2>9. copies' > 0 \/ underway' > 0 => \E i \in DOMAIN attempts' : InDoubt(i)'
    <3>1. CASE reply = "refused"
      <4>1. UNCHANGED <<copies, underway>>
        BY <2>1, <3>1
      <4>2. \A i \in DOMAIN attempts : InDoubt(i) => InDoubt(i)'
        BY <2>2, <2>3, <2>4 DEF InDoubt, Calling
      <4> QED
        BY <2>2, <4>1, <4>2 DEF DoubtInv
    <3>2. CASE reply # "refused"
      <4>1. Result(reply) # "FAILED"
        BY <3>2 DEF Result, Replies
      <4>2. \A v \in Calling : pass[v].attempt = pass[w].attempt => v = w
        BY <2>4 DEF DoubtInv
      <4>3. pass[w].attempt \in DOMAIN attempts /\ attempts[pass[w].attempt] # "FAILED"
        BY <2>4 DEF DoubtInv
      <4>4. InDoubt(pass[w].attempt)'
        BY <2>2, <2>3, <2>4, <2>8, <4>1, <4>2, <4>3 DEF InDoubt
      <4> QED
        BY <2>2, <2>3, <4>3, <4>4
    <3> QED
      BY <3>1, <3>2
  <2> QED
    BY <1>0, <2>2, <2>4, <2>6, <2>8, <2>9 DEF DoubtInv
<1>3. ASSUME NEW w \in Workers, Apply(w)
      PROVE  DoubtInv'
  <2>1. /\ pass[w].step = "answered" /\ Move(w, [step |-> "idle"]) /\ UNCHANGED <<copies, underway>>
        /\ attempts' = [attempts EXCEPT ![pass[w].attempt] = pass[w].result]
        /\ status' = "API_ACCEPTED" => pass[w].result = "API_ACCEPTED"
    BY <1>3 DEF Apply, Record, Outcome, line
  <2>2. w \in Calling /\ pass[w].result \in Results
    BY <2>1, StepFields DEF TypeOK, Calling, Results
  <2>3. pass'[w].step = "idle" /\ \A v \in Workers : v # w => pass'[v] = pass[v]
    BY <2>1, Moved
  <2>4. /\ DOMAIN attempts' = DOMAIN attempts
        /\ \A i \in DOMAIN attempts :
             attempts'[i] = IF i = pass[w].attempt THEN pass[w].result ELSE attempts[i]
    BY <1>0, <2>1, <2>2, RecordLog
  <2>5. Calling' = Calling \ {w} /\ \A v \in Calling' : pass'[v] = pass[v]
    BY <2>3 DEF Calling
  <2>6. \A v \in Calling' : pass[v].attempt # pass[w].attempt
    BY <2>2, <2>5 DEF DoubtInv
  <2>7. \A v \in Calling' :
          /\ pass'[v].attempt \in DOMAIN attempts'
          /\ attempts'[pass'[v].attempt] # "FAILED"
          /\ pass'[v].step = "answered" /\ pass'[v].result = "API_ACCEPTED" => copies' > 0
    BY <2>1, <2>4, <2>5, <2>6 DEF DoubtInv
  <2>8. \A u, v \in Calling' : pass'[v].attempt = pass'[u].attempt => v = u
    BY <2>5 DEF DoubtInv
  <2>9. \A i \in DOMAIN attempts : InDoubt(i) => InDoubt(i)'
    BY <2>2, <2>4, <2>5 DEF InDoubt
  <2>10. status' = "API_ACCEPTED" => copies' > 0
    BY <2>1, <2>2 DEF DoubtInv
  <2>11. copies' > 0 \/ underway' > 0 => \E i \in DOMAIN attempts' : InDoubt(i)'
    BY <2>1, <2>4, <2>9 DEF DoubtInv
  <2> QED
    BY <2>7, <2>8, <2>10, <2>11 DEF DoubtInv
<1>4. ASSUME NEW w \in Workers, Conflict(w) \/ Crash(w)
      PROVE  DoubtInv'
  <2>1. Die(w)
    BY <1>4 DEF Conflict, Crash
  <2>2. pass'[w].step = "dead" /\ \A v \in Workers : v # w => pass'[v] = pass[v]
    BY <2>1, Moved DEF Die
  <2>3. /\ UNCHANGED <<status, attempts, copies>>
        /\ underway' = IF pass[w].step = "sending" THEN underway + 1 ELSE underway
    BY <2>1 DEF Die, intent
  <2>4. Calling' = Calling \ {w} /\ \A v \in Calling' : pass'[v] = pass[v]
    BY <2>2 DEF Calling
  <2>5. CASE pass[w].step = "sending"
    <3>1. w \in Calling
      BY <2>5 DEF Calling
    <3>2. PICK i \in DOMAIN attempts : i = pass[w].attempt
      BY <3>1 DEF DoubtInv
    <3>3. attempts[i] # "FAILED" /\ \A v \in Calling' : pass[v].attempt # i
      BY <2>4, <3>1, <3>2 DEF DoubtInv
    <3>4. InDoubt(i)'
      BY <2>3, <2>4, <3>3 DEF InDoubt
    <3>5. \A v \in Calling' :
            /\ pass'[v].attempt \in DOMAIN attempts'
            /\ attempts'[pass'[v].attempt] # "FAILED"
            /\ pass'[v].step = "answered" /\ pass'[v].result = "API_ACCEPTED" => copies' > 0
            /\ \A u \in Calling' : pass'[u].attempt = pass'[v].attempt => u = v
      BY <2>3, <2>4 DEF DoubtInv
    <3> QED
      BY <1>0, <2>3, <3>2, <3>4, <3>5 DEF DoubtInv
  <2>6. CASE pass[w].step # "sending"
    <3>1. \A v \in Workers : v \in Calling' => v \in Calling /\ pass'[v] = pass[v]
      BY <2>4
    <3>2. status' = "API_ACCEPTED" /\ channel' = "LINE" => copies' > 0
      BY <1>0, <2>3 DEF DoubtInv
    <3> QED
      BY <2>3, <2>6, <3>1, <3>2, DoubtKept
  <2> QED
    BY <2>5, <2>6
<1>5. CASE \A v \in Workers : v \in Calling' => v \in Calling /\ pass'[v] = pass[v]
  <2> SUFFICES ASSUME ~\E w \in Workers : Begin(w) \/ Send(w) \/ Apply(w) \/ Conflict(w) \/ Crash(w)
               PROVE  DoubtInv'
    BY <1>1, <1>2, <1>3, <1>4
  <2>1. \/ UNCHANGED <<status, attempts>>
        \/ \E w \in Workers : Publish(w)
        \/ attempts' = attempts /\ status' # "API_ACCEPTED"
    BY RowChanges DEF Skip, NotConfigured, GiveUp, Settle, HandlerCommits, RetryNotification
  <2>2. (copies > 0 => copies' > 0) /\ (copies' > 0 \/ underway' > 0 => copies > 0 \/ underway > 0)
    <3>1. CASE LineHandles
      <4>1. underway > 0 /\ (Accept \/ copies' = copies)
        BY <3>1 DEF LineHandles
      <4>2. copies > 0 => copies' > 0
        BY <1>0, <4>1 DEF Accept
      <4> QED
        BY <4>1, <4>2
    <3>2. CASE LineForgets \/ WindowCloses
      BY <3>2 DEF LineForgets, WindowCloses, line
    <3> QED
      BY <3>1, <3>2, LineChanges
  <2>3. CASE \E w \in Workers : Publish(w)
    <3>1. channel = "IN_APP" /\ attempts' = Append(attempts, "IN_APP_PUBLISHED")
      BY <2>3 DEF Publish
    <3>2. /\ DOMAIN attempts \subseteq DOMAIN attempts'
          /\ \A i \in DOMAIN attempts : attempts'[i] = attempts[i]
      BY <1>0, <3>1, AppendLog DEF Results
    <3>3. channel' # "LINE"
      BY <1>0, <3>1
    <3> QED
      BY <1>5, <2>2, <3>2, <3>3, DoubtKept
  <2>4. CASE attempts' = attempts /\ (status' = "API_ACCEPTED" => status = "API_ACCEPTED")
    <3>1. channel' = "LINE" /\ status' = "API_ACCEPTED" => copies' > 0
      BY <1>0, <2>2, <2>4 DEF DoubtInv
    <3> QED
      BY <1>5, <2>2, <2>4, <3>1, DoubtKept
  <2> QED
    BY <2>1, <2>3, <2>4
<1> QED
  BY <1>1, <1>2, <1>3, <1>4, <1>5, CallChanges

\* What the records say of LINE is true, whoever died and whatever answer was lost.
THEOREM RecordsStayHonest == Spec => []RecordsAreHonest
<1>1. Init => LogInv /\ CopiesInv /\ DoubtInv
  BY DeliveryAssumption DEF Init, LogInv, AttemptsAreLogged, CopiesInv, DoubtInv, Calling
<1>2. DoubtInv => RecordsAreHonest
  BY DEF DoubtInv, InDoubt, RecordsAreHonest
<1> QED
  BY <1>1, <1>2, LogStep, CopiesStep, DoubtStep, DeliveryTypeCorrect, PTL DEF Spec
=============================================================================

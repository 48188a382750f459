------------------------------ MODULE FileScan ------------------------------
(***************************************************************************)
(* process_scans of worker.py: passes of several workers over the files    *)
(* that wait for a scan, from the completed upload (FileUpload) to the     *)
(* verdict.  A worker holds nothing while it scans but the lease it wrote; *)
(* it may die, or outlive the lease, and the next worker starts again.     *)
(***************************************************************************)
EXTENDS Naturals

CONSTANTS
  Files, Workers, None,
  MAX_ATTEMPTS, \* five
  MaxCrashes    \* bound: workers that die

ASSUME ScanAssumption ==
  MAX_ATTEMPTS \in Nat \ {0} /\ MaxCrashes \in Nat /\ None \notin Files

VARIABLES
  object,   \* object[f]: what is on the disk, against what was uploaded
  row,      \* row[f]: the scan columns of FileVersion; a lease is named by the claim that wrote it
  over,     \* over[f]: scan_lease_until has passed
  due,      \* due[f]: scan_retry_at has passed
  worker,   \* worker[w]: where its pass is
  crashes

vars == <<object, row, over, due, worker, crashes>>

Objects == {"sound", "unsafe", "altered", "missing"}
Resting == [pc |-> "rest", todo |-> {}, file |-> None, lease |-> 0, attempt |-> 0, result |-> None]

Init ==
  /\ object \in [Files -> Objects]
  /\ row = [f \in Files |-> [status |-> "PENDING_SCAN", attempts |-> 0, lease |-> 0]]
  /\ over = [f \in Files |-> FALSE] /\ due = [f \in Files |-> TRUE]
  /\ worker = [w \in Workers |-> Resting]
  /\ crashes = 0

Free(f) == row[f].lease = 0 \/ over[f]
Waiting(f) == row[f].status \in {"PENDING_SCAN", "SCANNING", "SCAN_FAILED"} /\ row[f].attempts < MAX_ATTEMPTS

\* Slip: a file in its last attempt is left to the worker that has it.
NotExhausted(f) == FALSE

\* The last permitted scan ran out of its lease.
Exhausted(f) == row[f].status = "SCANNING" /\ row[f].attempts >= MAX_ATTEMPTS /\ row[f].lease # 0 /\ over[f]

\* A pass gives up what is exhausted and lists its candidates.
BeginPass(w) ==
  /\ worker[w].pc = "rest"
  /\ row' = [f \in Files |-> IF Exhausted(f) THEN [row[f] EXCEPT !.status = "SCAN_FAILED", !.lease = 0] ELSE row[f]]
  /\ LET todo == {f \in Files : Waiting(f) /\ due[f] /\ Free(f)} IN
       /\ todo # {} \/ row' # row
       /\ worker' = [worker EXCEPT ![w] = [@ EXCEPT !.todo = todo, !.pc = IF todo = {} THEN "rest" ELSE "claim"]]
  /\ UNCHANGED <<object, over, due, crashes>>

\* The UPDATE of the claim compares again, but not scan_retry_at.
Claimable(f) == Waiting(f) /\ Free(f)

After(w, f) == IF worker[w].todo = {f} THEN "rest" ELSE "claim"

Claim(w, f) ==
  /\ worker[w].pc = "claim" /\ f \in worker[w].todo
  /\ IF Claimable(f)
     THEN LET n == row[f].attempts + 1 IN
          /\ row' = [row EXCEPT ![f] = [status |-> "SCANNING", attempts |-> n, lease |-> n]]
          /\ over' = [over EXCEPT ![f] = FALSE]
          /\ worker' = [worker EXCEPT ![w] =
                          [@ EXCEPT !.pc = "read", !.file = f, !.lease = n, !.todo = worker[w].todo \ {f}]]
     ELSE /\ worker' = [worker EXCEPT ![w] = [@ EXCEPT !.pc = After(w, f), !.todo = worker[w].todo \ {f}]]
          /\ UNCHANGED <<row, over>>
  /\ UNCHANGED <<object, due, crashes>>

\* The row is read after the commit of the claim.
Read(w) ==
  /\ worker[w].pc = "read"
  /\ worker' = [worker EXCEPT ![w] = [@ EXCEPT !.pc = "scan", !.attempt = row[worker[w].file].attempts]]
  /\ UNCHANGED <<object, row, over, due, crashes>>

\* Slip: the digest is not compared, only the scanner is asked.
ResultsUncompared(f) ==
  CASE object[f] = "missing" -> {"SCAN_FAILED"}
    [] object[f] = "unsafe" -> {"REJECTED", "SCAN_FAILED"}
    [] OTHER -> {"CLEAN", "SCAN_FAILED"}

\* inspect_object against the row, then scan_object; the object may be unreadable or too large,
\* the scanner unavailable.
Results(f) ==
  CASE object[f] = "missing" -> {"SCAN_FAILED"}
    [] object[f] \in {"altered", "unsafe"} -> {"REJECTED", "SCAN_FAILED"}
    [] OTHER -> {"CLEAN", "SCAN_FAILED"}

Scan(w) ==
  /\ worker[w].pc = "scan"
  /\ \E result \in Results(worker[w].file) :
       worker' = [worker EXCEPT ![w] = [@ EXCEPT !.pc = "write", !.result = result]]
  /\ UNCHANGED <<object, row, over, due, crashes>>

\* Slip: the attempt alone is compared.
SameAttempt(w) == row[worker[w].file].attempts = worker[w].attempt

\* Slip: only that a scan is under way.
StillScanning(w) == row[worker[w].file].status = "SCANNING"

\* Is the claim still this worker's?
StillHeld(w) ==
  LET v == row[worker[w].file] IN
  v.attempts = worker[w].attempt /\ v.lease = worker[w].lease /\ v.status = "SCANNING"

Write(w) ==
  /\ worker[w].pc = "write"
  /\ LET f == worker[w].file IN
     /\ IF StillHeld(w)
        THEN /\ row' = [row EXCEPT ![f] = [@ EXCEPT !.status = worker[w].result, !.lease = 0]]
             /\ due' = [due EXCEPT ![f] = ~(worker[w].result = "SCAN_FAILED" /\ worker[w].attempt < MAX_ATTEMPTS)]
        ELSE UNCHANGED <<row, due>>
     /\ worker' = [worker EXCEPT ![w] = [Resting EXCEPT !.todo = worker[w].todo,
                                                       !.pc = IF worker[w].todo = {} THEN "rest" ELSE "claim"]]
  /\ UNCHANGED <<object, over, crashes>>

---------------------------------------------------------------------------
(* Time and crashes.                                                       *)

LeaseEnds(f) ==
  /\ row[f].lease # 0 /\ ~over[f]
  /\ over' = [over EXCEPT ![f] = TRUE]
  /\ UNCHANGED <<object, row, due, worker, crashes>>

RetryDue(f) ==
  /\ ~due[f]
  /\ due' = [due EXCEPT ![f] = TRUE]
  /\ UNCHANGED <<object, row, over, worker, crashes>>

Die(w) ==
  /\ crashes < MaxCrashes /\ worker[w].pc # "rest"
  /\ crashes' = crashes + 1
  /\ worker' = [worker EXCEPT ![w] = Resting]
  /\ UNCHANGED <<object, row, over, due>>

Step(w) == BeginPass(w) \/ (\E f \in Files : Claim(w, f)) \/ Read(w) \/ Scan(w) \/ Write(w)

Next ==
  \/ \E w \in Workers : Step(w) \/ Die(w)
  \/ \E f \in Files : LeaseEnds(f) \/ RetryDue(f)

Spec == Init /\ [][Next]_vars

\* Workers poll for ever, and time passes.
FairSpec ==
  /\ Spec
  /\ \A w \in Workers : WF_vars(Step(w))
  /\ \A f \in Files : WF_vars(LeaseEnds(f)) /\ WF_vars(RetryDue(f))

---------------------------------------------------------------------------
(* Properties.                                                             *)

Busy(w) == worker[w].pc \in {"read", "scan", "write"}

ScanTypeOK ==
  /\ row \in [Files -> [status : {"PENDING_SCAN", "SCANNING", "SCAN_FAILED", "CLEAN", "REJECTED"},
                       attempts : 0..MAX_ATTEMPTS, lease : 0..MAX_ATTEMPTS]]
  /\ \A f \in Files : (row[f].lease # 0) = (row[f].status = "SCANNING")
  /\ over \in [Files -> BOOLEAN] /\ due \in [Files -> BOOLEAN]
  /\ \A w \in Workers : worker[w].todo \subseteq Files /\ (Busy(w) => worker[w].file \in Files)

\* A file readable as CLEAN is the one that was uploaded and it passed the scanner;
\* a rejected one is not.
VerdictIsTrue ==
  \A f \in Files :
    /\ row[f].status = "CLEAN" => object[f] = "sound"
    /\ row[f].status = "REJECTED" => object[f] \in {"unsafe", "altered"}

Settled(f) ==
  row[f].status \in {"CLEAN", "REJECTED"} \/ (row[f].status = "SCAN_FAILED" /\ row[f].attempts = MAX_ATTEMPTS)

\* What a file settled at stands: no verdict of a worker that outlived its lease
\* changes it, not even that of the last attempt, given up by another worker's pass.
SettledStandsStep == \A f \in Files : Settled(f) => row'[f] = row[f]

\* A verdict that comes after another claim never ends that claim's scan.
LateVerdictIgnoredStep ==
  \A f \in Files, w \in Workers :
    row[f].status = "SCANNING" /\ row'[f].status # "SCANNING" /\ worker[w].file = f /\ worker[w].pc = "write"
      /\ worker'[w].pc # "write"
      => worker[w].lease = row[f].lease

\* Together: once a file has settled, or another claim has begun, no late verdict counts.
VerdictsStand == [][SettledStandsStep /\ LateVerdictIgnoredStep]_vars

\* "Expired leases must still reach a visible failure state instead of remaining
\* SCANNING" (worker.py:38): every file settles.
FilesSettle == \A f \in Files : <>[]Settled(f)
=============================================================================

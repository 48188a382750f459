--------------------------- MODULE FileScanProofs ---------------------------
(***************************************************************************)
(* What FileScan promises of the verdicts, for any number of files and     *)
(* workers, attempts and crashes.                                          *)
(*                                                                         *)
(* A lease is there exactly while a file is in a scan and carries the      *)
(* number of the claim that wrote it; who is at work on a file holds the   *)
(* number of a claim that was made, and a result that fits the object.     *)
(***************************************************************************)
EXTENDS FileScan, TLAPS

Statuses == {"PENDING_SCAN", "SCANNING", "SCAN_FAILED", "CLEAN", "REJECTED"}
ScanRow == [status : Statuses, attempts : 0..MAX_ATTEMPTS, lease : 0..MAX_ATTEMPTS]
Pass == [pc : {"rest", "claim", "read", "scan", "write"}, todo : SUBSET Files, file : Files \cup {None},
         lease : 0..MAX_ATTEMPTS, attempt : 0..MAX_ATTEMPTS,
         result : {None, "CLEAN", "REJECTED", "SCAN_FAILED"}]

Types ==
  /\ object \in [Files -> Objects]
  /\ row \in [Files -> ScanRow]
  /\ over \in [Files -> BOOLEAN] /\ due \in [Files -> BOOLEAN]
  /\ worker \in [Workers -> Pass]
  /\ \A w \in Workers : Busy(w) => worker[w].file \in Files

\* A lease is there while a file is in a scan, and is that of its last claim.
Leases ==
  \A f \in Files :
    /\ row[f].lease # 0 <=> row[f].status = "SCANNING"
    /\ row[f].lease # 0 => row[f].lease = row[f].attempts

\* A worker at a file made one of its claims, and counts no fewer attempts.
Claims ==
  \A w \in Workers :
    /\ Busy(w) => worker[w].lease \in 1..row[worker[w].file].attempts
    /\ worker[w].pc \in {"scan", "write"} =>
         worker[w].attempt \in worker[w].lease..row[worker[w].file].attempts

\* A result that waits to be written fits the object.
Fits == \A w \in Workers : worker[w].pc = "write" => worker[w].result \in Results(worker[w].file)

ScanInv == Types /\ Leases /\ Claims /\ Fits /\ VerdictIsTrue

LEMMA RestingIsPass == Resting \in Pass
<1>1. 0 \in 0..MAX_ATTEMPTS
  BY ScanAssumption
<1>2. QED
  BY <1>1 DEF Resting, Pass

LEMMA ResultFacts ==
  ASSUME Types, NEW f \in Files, NEW result \in Results(f)
  PROVE  /\ result \in {"CLEAN", "REJECTED", "SCAN_FAILED"}
         /\ result = "CLEAN" => object[f] = "sound"
         /\ result = "REJECTED" => object[f] \in {"unsafe", "altered"}
BY DEF Types, Objects, Results

LEMMA InitInv == Init => ScanInv
<1> SUFFICES ASSUME Init PROVE ScanInv
  OBVIOUS
<1>1. /\ \A f \in Files : row[f] = [status |-> "PENDING_SCAN", attempts |-> 0, lease |-> 0]
      /\ \A w \in Workers : worker[w] = Resting /\ worker[w].pc = "rest"
  BY DEF Init, Resting
<1>2. row \in [Files -> ScanRow] /\ worker \in [Workers -> Pass]
  <2>1. [status |-> "PENDING_SCAN", attempts |-> 0, lease |-> 0] \in ScanRow
    BY ScanAssumption DEF ScanRow, Statuses
  <2>2. QED
    BY <2>1, RestingIsPass DEF Init
<1>3. QED
  BY <1>1, <1>2 DEF Init, ScanInv, Types, Leases, Claims, Fits, VerdictIsTrue, Busy

\* A step of one worker that leaves it at no file is none of the others' business.
LEMMA NotBusy ==
  ASSUME Types, Claims, Fits, NEW w \in Workers, UNCHANGED object,
         \A f \in Files : row'[f].attempts = row[f].attempts,
         worker'[w].pc \in {"rest", "claim"}, \A v \in Workers : v # w => worker'[v] = worker[v]
  PROVE  (\A v \in Workers : Busy(v) => worker[v].file \in Files)' /\ Claims' /\ Fits'
<1>1. ASSUME NEW v \in Workers, Busy(v)'
      PROVE  /\ worker'[v] = worker[v] /\ worker[v].file \in Files
             /\ row'[worker[v].file].attempts = row[worker[v].file].attempts
  BY <1>1 DEF Types, Busy
<1>2. (\A v \in Workers : Busy(v) => worker[v].file \in Files)'
  BY <1>1
<1>3. Claims'
  BY <1>1 DEF Claims, Busy
<1>4. Fits'
  <2>1. ASSUME NEW v \in Workers, worker'[v].pc = "write" PROVE (worker[v].result \in Results(worker[v].file))'
    BY <2>1, <1>1 DEF Fits, Results, Busy
  <2>2. QED
    BY <2>1 DEF Fits
<1>5. QED
  BY <1>2, <1>3, <1>4

\* What changes neither rows nor workers.
LEMMA RestKept ==
  ASSUME ScanInv, UNCHANGED <<object, row, worker>>, over' \in [Files -> BOOLEAN], due' \in [Files -> BOOLEAN]
  PROVE  ScanInv'
<1>1. Types' /\ Leases' /\ Claims' /\ VerdictIsTrue'
  BY DEF ScanInv, Types, Leases, Claims, VerdictIsTrue, Busy
<1>2. Fits'
  BY DEF ScanInv, Fits, Results
<1>3. QED
  BY <1>1, <1>2 DEF ScanInv

LEMMA BeginPassInv ==
  ASSUME ScanInv, NEW w \in Workers, BeginPass(w)
  PROVE  ScanInv'
<1>1. (\A v \in Workers : Busy(v) => worker[v].file \in Files)' /\ Claims' /\ Fits'
  <2>1. \A f \in Files : row'[f].attempts = row[f].attempts
    BY DEF ScanInv, Types, BeginPass, ScanRow
  <2>2. worker'[w].pc \in {"rest", "claim"} /\ \A v \in Workers : v # w => worker'[v] = worker[v]
    BY DEF ScanInv, Types, BeginPass, Pass
  <2>3. UNCHANGED object
    BY DEF BeginPass
  <2>4. QED
    BY <2>1, <2>2, <2>3, NotBusy DEF ScanInv
<1>2. Types'
  <2>1. row' \in [Files -> ScanRow]
    <3>1. ASSUME NEW f \in Files
          PROVE  row[f] \in ScanRow /\ [row[f] EXCEPT !.status = "SCAN_FAILED", !.lease = 0] \in ScanRow
      <4>1. row[f] \in ScanRow /\ 0 \in 0..MAX_ATTEMPTS
        BY ScanAssumption DEF ScanInv, Types
      <4>2. QED
        BY <4>1 DEF ScanRow, Statuses
    <3>2. QED
      BY <3>1 DEF BeginPass
  <2>2. worker' \in [Workers -> Pass]
    <3> DEFINE todo == {f \in Files : Waiting(f) /\ due[f] /\ Free(f)}
               pass == [worker[w] EXCEPT !.todo = todo, !.pc = IF todo = {} THEN "rest" ELSE "claim"]
    <3>1. worker[w] \in Pass /\ todo \in SUBSET Files
      BY DEF ScanInv, Types
    <3>2. worker' = [worker EXCEPT ![w] = pass]
      BY DEF BeginPass
    <3> HIDE DEF todo
    <3>3. pass \in Pass
      BY <3>1 DEF Pass
    <3>4. QED
      BY <3>2, <3>3 DEF ScanInv, Types
  <2>3. UNCHANGED <<object, over, due>>
    BY DEF BeginPass
  <2>4. QED
    BY <2>1, <2>2, <2>3, <1>1 DEF ScanInv, Types
<1>3. Leases' /\ VerdictIsTrue'
  BY DEF ScanInv, Types, Leases, VerdictIsTrue, BeginPass, Exhausted, ScanRow, Statuses
<1>4. QED
  BY <1>1, <1>2, <1>3 DEF ScanInv

LEMMA ClaimInv ==
  ASSUME ScanInv, NEW w \in Workers, NEW f \in Files, Claim(w, f)
  PROVE  ScanInv'
<1>1. CASE Claimable(f)
  <2> DEFINE n == row[f].attempts + 1
             now == [status |-> "SCANNING", attempts |-> n, lease |-> n]
             pass == [worker[w] EXCEPT !.pc = "read", !.file = f, !.lease = n, !.todo = worker[w].todo \ {f}]
  <2>1. n \in 1..MAX_ATTEMPTS /\ now \in ScanRow
    BY <1>1, ScanAssumption DEF ScanInv, Types, Claimable, Waiting, ScanRow, Statuses
  <2>2. /\ row' = [row EXCEPT ![f] = now] /\ over' = [over EXCEPT ![f] = FALSE]
        /\ worker' = [worker EXCEPT ![w] = pass]
        /\ UNCHANGED <<object, due>>
    BY <1>1 DEF Claim
  <2>3. /\ worker' \in [Workers -> Pass]
        /\ worker'[w].pc = "read" /\ worker'[w].file = f /\ worker'[w].lease = n
        /\ \A v \in Workers : v # w => worker'[v] = worker[v]
    <3>1. worker[w] \in Pass /\ n \in 0..MAX_ATTEMPTS
      BY <2>1 DEF ScanInv, Types
    <3> HIDE DEF n
    <3>2. pass \in Pass /\ pass.pc = "read" /\ pass.file = f /\ pass.lease = n
      BY <3>1 DEF Pass
    <3> HIDE DEF pass
    <3>3. QED
      BY <2>2, <3>2 DEF ScanInv, Types
  <2>4. /\ row' \in [Files -> ScanRow] /\ row'[f] = now
        /\ \A g \in Files : g # f => row'[g] = row[g]
        /\ \A g \in Files : row'[g].attempts >= row[g].attempts
    BY <2>1, <2>2, ScanAssumption DEF ScanInv, Types, ScanRow
  <2> HIDE DEF now
  <2>5. Types'
    BY <2>2, <2>3, <2>4 DEF ScanInv, Types, Busy
  <2>6. Leases' /\ VerdictIsTrue'
    BY <2>1, <2>2, <2>4 DEF now, ScanInv, Types, Leases, VerdictIsTrue
  <2>7. Claims'
    <3>1. ASSUME NEW v \in Workers, v # w PROVE
            /\ Busy(v)' => worker'[v].lease \in 1..row'[worker'[v].file].attempts
            /\ worker'[v].pc \in {"scan", "write"} =>
                 worker'[v].attempt \in worker'[v].lease..row'[worker'[v].file].attempts
      <4>1. ASSUME Busy(v) PROVE worker[v].file \in Files /\ row'[worker[v].file].attempts >= row[worker[v].file].attempts
        BY <4>1, <2>4 DEF ScanInv, Types
      <4>2. /\ \A g \in Files : row[g].attempts \in Nat /\ row'[g].attempts \in Nat
            /\ worker[v].lease \in Nat /\ worker[v].attempt \in Nat
        BY <2>4, ScanAssumption DEF ScanInv, Types, ScanRow, Pass
      <4>3. QED
        BY <3>1, <2>3, <4>1, <4>2 DEF ScanInv, Claims, Busy
    <3>2. Busy(w)' => worker'[w].lease \in 1..row'[worker'[w].file].attempts
      BY <2>1, <2>3, <2>4 DEF now
    <3>3. QED
      BY <3>1, <3>2, <2>3 DEF Claims
  <2>8. Fits'
    BY <2>2, <2>3 DEF ScanInv, Fits, Results
  <2>9. QED
    BY <2>5, <2>6, <2>7, <2>8 DEF ScanInv
<1>2. CASE ~Claimable(f)
  <2> DEFINE pass == [worker[w] EXCEPT !.pc = After(w, f), !.todo = worker[w].todo \ {f}]
  <2>1. /\ worker' = [worker EXCEPT ![w] = pass]
        /\ UNCHANGED <<object, row, over, due>>
    BY <1>2 DEF Claim
  <2>2. After(w, f) \in {"rest", "claim"}
    BY DEF After
  <2>3. pass \in Pass /\ pass.pc \in {"rest", "claim"}
    <3>1. worker[w] \in Pass
      BY DEF ScanInv, Types
    <3>2. QED
      BY <2>2, <3>1 DEF Pass
  <2> HIDE DEF pass
  <2>4. /\ worker' \in [Workers -> Pass]
        /\ worker'[w].pc \in {"rest", "claim"} /\ \A v \in Workers : v # w => worker'[v] = worker[v]
    BY <2>1, <2>3 DEF ScanInv, Types
  <2>5. (\A v \in Workers : Busy(v) => worker[v].file \in Files)' /\ Claims' /\ Fits'
    BY <2>1, <2>4, NotBusy DEF ScanInv
  <2>6. QED
    BY <2>1, <2>4, <2>5 DEF ScanInv, Types, Leases, VerdictIsTrue
<1>3. QED
  BY <1>1, <1>2

LEMMA ReadInv ==
  ASSUME ScanInv, NEW w \in Workers, Read(w)
  PROVE  ScanInv'
<1> DEFINE n == row[worker[w].file].attempts
<1>1. worker[w].file \in Files /\ n \in 0..MAX_ATTEMPTS /\ worker[w].lease \in 1..n
  BY DEF ScanInv, Types, Claims, Busy, Read, ScanRow
<1>2. worker' = [worker EXCEPT ![w] = [@ EXCEPT !.pc = "scan", !.attempt = n]] /\ UNCHANGED <<object, row, over, due>>
  BY DEF Read
<1>3. /\ worker' \in [Workers -> Pass]
      /\ worker'[w].pc = "scan" /\ worker'[w].attempt = n
      /\ worker'[w].file = worker[w].file /\ worker'[w].lease = worker[w].lease
      /\ \A v \in Workers : v # w => worker'[v] = worker[v]
  BY <1>1, <1>2 DEF ScanInv, Types, Pass
<1>4. n \in worker[w].lease..n
  BY <1>1, ScanAssumption
<1>5. Types' /\ Leases' /\ VerdictIsTrue'
  BY <1>1, <1>2, <1>3 DEF ScanInv, Types, Leases, VerdictIsTrue, Busy
<1>6. Claims'
  BY <1>1, <1>2, <1>3, <1>4 DEF ScanInv, Claims, Busy
<1>7. Fits'
  BY <1>2, <1>3 DEF ScanInv, Fits, Results
<1>8. QED
  BY <1>5, <1>6, <1>7 DEF ScanInv

LEMMA ScanStepInv ==
  ASSUME ScanInv, NEW w \in Workers, Scan(w)
  PROVE  ScanInv'
<1>1. worker[w].file \in Files /\ worker[w].pc = "scan"
  BY DEF ScanInv, Types, Busy, Scan
<1>2. PICK result \in Results(worker[w].file) : worker' = [worker EXCEPT ![w] = [@ EXCEPT !.pc = "write", !.result = result]]
  BY DEF Scan
<1>3. result \in {"CLEAN", "REJECTED", "SCAN_FAILED"}
  BY <1>1, ResultFacts DEF ScanInv
<1>4. /\ worker' \in [Workers -> Pass]
      /\ worker'[w].pc = "write" /\ worker'[w].result = result /\ worker'[w].attempt = worker[w].attempt
      /\ worker'[w].file = worker[w].file /\ worker'[w].lease = worker[w].lease
      /\ \A v \in Workers : v # w => worker'[v] = worker[v]
  BY <1>2, <1>3 DEF ScanInv, Types, Pass
<1>5. UNCHANGED <<object, row, over, due>>
  BY DEF Scan
<1>6. Types' /\ Leases' /\ Claims' /\ VerdictIsTrue'
  BY <1>1, <1>4, <1>5 DEF ScanInv, Types, Leases, Claims, VerdictIsTrue, Busy
<1>7. Fits'
  BY <1>2, <1>4, <1>5 DEF ScanInv, Fits, Results
<1>8. QED
  BY <1>6, <1>7 DEF ScanInv

LEMMA WriteInv ==
  ASSUME ScanInv, NEW w \in Workers, Write(w)
  PROVE  ScanInv'
<1> DEFINE f == worker[w].file
           pass == [Resting EXCEPT !.todo = worker[w].todo, !.pc = IF worker[w].todo = {} THEN "rest" ELSE "claim"]
<1>1. f \in Files /\ worker[w].result \in Results(f)
  BY DEF ScanInv, Types, Fits, Busy, Write
<1>2. worker' = [worker EXCEPT ![w] = pass] /\ UNCHANGED <<object, over>>
  BY DEF Write
<1>3. pass \in Pass /\ pass.pc \in {"rest", "claim"}
  <2>1. Resting \in Pass /\ worker[w].todo \in SUBSET Files
    BY RestingIsPass DEF ScanInv, Types, Pass
  <2>2. QED
    BY <2>1 DEF Pass
<1> HIDE DEF pass
<1>4. /\ worker' \in [Workers -> Pass] /\ worker'[w].pc \in {"rest", "claim"}
      /\ \A v \in Workers : v # w => worker'[v] = worker[v]
  BY <1>2, <1>3 DEF ScanInv, Types
<1>5. CASE StillHeld(w)
  <2>1. /\ row' = [row EXCEPT ![f] = [@ EXCEPT !.status = worker[w].result, !.lease = 0]]
        /\ due' = [due EXCEPT ![f] = ~(worker[w].result = "SCAN_FAILED" /\ worker[w].attempt < MAX_ATTEMPTS)]
    BY <1>5 DEF Write
  <2>2. /\ worker[w].result \in {"CLEAN", "REJECTED", "SCAN_FAILED"}
        /\ worker[w].result = "CLEAN" => object[f] = "sound"
        /\ worker[w].result = "REJECTED" => object[f] \in {"unsafe", "altered"}
    BY <1>1, ResultFacts DEF ScanInv
  <2>3. /\ row' \in [Files -> ScanRow]
        /\ row'[f].status = worker[w].result /\ row'[f].lease = 0
        /\ \A g \in Files : g # f => row'[g] = row[g]
        /\ \A g \in Files : row'[g].attempts = row[g].attempts
    <3> DEFINE now == [row[f] EXCEPT !.status = worker[w].result, !.lease = 0]
    <3>1. row[f] \in ScanRow /\ 0 \in 0..MAX_ATTEMPTS
      BY <1>1, ScanAssumption DEF ScanInv, Types
    <3>2. now \in ScanRow /\ now.status = worker[w].result /\ now.lease = 0 /\ now.attempts = row[f].attempts
      BY <2>2, <3>1 DEF ScanRow, Statuses
    <3>3. row' = [row EXCEPT ![f] = now]
      BY <2>1
    <3> HIDE DEF now
    <3>4. QED
      BY <1>1, <3>2, <3>3 DEF ScanInv, Types
  <2>4. (\A v \in Workers : Busy(v) => worker[v].file \in Files)' /\ Claims' /\ Fits'
    BY <1>2, <1>4, <2>3, NotBusy DEF ScanInv
  <2>5. Types'
    BY <1>2, <1>4, <2>1, <2>3, <2>4 DEF ScanInv, Types
  <2>6. Leases' /\ VerdictIsTrue'
    BY <1>1, <1>2, <2>2, <2>3 DEF ScanInv, Leases, VerdictIsTrue
  <2>7. QED
    BY <2>4, <2>5, <2>6 DEF ScanInv
<1>6. CASE ~StillHeld(w)
  <2>1. UNCHANGED <<row, due>>
    BY <1>6 DEF Write
  <2>2. (\A v \in Workers : Busy(v) => worker[v].file \in Files)' /\ Claims' /\ Fits'
    BY <1>2, <1>4, <2>1, NotBusy DEF ScanInv
  <2>3. QED
    BY <1>2, <1>4, <2>1, <2>2 DEF ScanInv, Types, Leases, VerdictIsTrue
<1>7. QED
  BY <1>5, <1>6

LEMMA DieInv ==
  ASSUME ScanInv, NEW w \in Workers, Die(w)
  PROVE  ScanInv'
<1>1. worker' = [worker EXCEPT ![w] = Resting] /\ UNCHANGED <<object, row, over, due>>
  BY DEF Die
<1>2. worker' \in [Workers -> Pass] /\ worker'[w].pc = "rest" /\ \A v \in Workers : v # w => worker'[v] = worker[v]
  BY <1>1, RestingIsPass DEF ScanInv, Types, Resting
<1>3. (\A v \in Workers : Busy(v) => worker[v].file \in Files)' /\ Claims' /\ Fits'
  BY <1>1, <1>2, NotBusy DEF ScanInv
<1>4. QED
  BY <1>1, <1>2, <1>3 DEF ScanInv, Types, Leases, VerdictIsTrue

\* Every step keeps the leases, the claims and the verdicts as they should be.
LEMMA InvStep == ScanInv /\ [Next]_vars => ScanInv'
<1> SUFFICES ASSUME ScanInv, [Next]_vars PROVE ScanInv'
  OBVIOUS
<1>1. ASSUME NEW w \in Workers, Step(w) PROVE ScanInv'
  BY <1>1, BeginPassInv, ClaimInv, ReadInv, ScanStepInv, WriteInv DEF Step
<1>2. ASSUME NEW w \in Workers, Die(w) PROVE ScanInv'
  BY <1>2, DieInv
<1>3. ASSUME NEW f \in Files, LeaseEnds(f) \/ RetryDue(f) PROVE ScanInv'
  <2>1. UNCHANGED <<object, row, worker>> /\ over' \in [Files -> BOOLEAN] /\ due' \in [Files -> BOOLEAN]
    BY <1>3 DEF ScanInv, Types, LeaseEnds, RetryDue
  <2>2. QED
    BY <2>1, RestKept
<1>4. CASE UNCHANGED vars
  <2>1. UNCHANGED <<object, row, worker>> /\ over' \in [Files -> BOOLEAN] /\ due' \in [Files -> BOOLEAN]
    BY <1>4 DEF ScanInv, Types, vars
  <2>2. QED
    BY <2>1, RestKept
<1>5. QED
  BY <1>1, <1>2, <1>3, <1>4 DEF Next

THEOREM ScanInvariant == Spec => []ScanInv
BY InitInv, InvStep, PTL DEF Spec

\* Rows and passes keep their form: attempts and leases stay within MAX_ATTEMPTS, a row has
\* a lease exactly while it is SCANNING, and whoever is at work is at work on a file.
THEOREM ScanTypeCorrect == Spec => []ScanTypeOK
<1>1. ScanInv => ScanTypeOK
  BY DEF ScanInv, Types, Leases, ScanTypeOK, ScanRow, Statuses, Pass
<1>2. QED
  BY ScanInvariant, <1>1, PTL

\* However many workers scan it, and whichever of them die or outlive their lease, a file
\* is CLEAN only if it is the one that was uploaded and passed the scanner, and is
\* rejected only if it is not.
THEOREM VerdictsAreTrue == Spec => []VerdictIsTrue
<1>1. ScanInv => VerdictIsTrue
  BY DEF ScanInv
<1>2. QED
  BY ScanInvariant, <1>1, PTL

\* Once a file has settled nothing changes its row, and whoever ends a scan held the
\* claim that began it.
THEOREM VerdictsAreFinal == Spec => VerdictsStand
<1>1. ASSUME ScanInv, Next PROVE SettledStandsStep
  <2> SUFFICES ASSUME NEW f \in Files, Settled(f) PROVE row'[f] = row[f]
    BY DEF SettledStandsStep
  <2>a. row \in [Files -> ScanRow]
    BY <1>1 DEF ScanInv, Types
  <2>b. ~Waiting(f) /\ row[f].status # "SCANNING"
    BY <2>a, ScanAssumption DEF Settled, Waiting, ScanRow
  <2>1. ASSUME NEW w \in Workers, BeginPass(w) PROVE row'[f] = row[f]
    BY <2>1, <2>b DEF BeginPass, Exhausted
  <2>2. ASSUME NEW w \in Workers, NEW g \in Files, Claim(w, g) PROVE row'[f] = row[f]
    BY <2>2, <2>a, <2>b DEF Claim, Claimable
  <2>3. ASSUME NEW w \in Workers, Write(w) PROVE row'[f] = row[f]
    <3>1. CASE StillHeld(w)
      BY <3>1, <2>3, <2>a, <2>b DEF Write, StillHeld
    <3>2. CASE ~StillHeld(w)
      BY <3>2, <2>3 DEF Write
    <3>3. QED
      BY <3>1, <3>2
  <2>4. QED
    BY <1>1, <2>1, <2>2, <2>3 DEF Next, Step, Read, Scan, Die, LeaseEnds, RetryDue
<1>2. ASSUME ScanInv, Next PROVE LateVerdictIgnoredStep
  <2> SUFFICES ASSUME NEW f \in Files, NEW w \in Workers, row[f].status = "SCANNING", row'[f].status # "SCANNING",
                      worker[w].file = f, worker[w].pc = "write", worker'[w].pc # "write"
               PROVE  worker[w].lease = row[f].lease
    BY DEF LateVerdictIgnoredStep
  <2>a. worker \in [Workers -> Pass]
    BY <1>2 DEF ScanInv, Types
  <2>1. CASE Write(w)
    BY <2>1 DEF Write, StillHeld
  <2>2. ASSUME NEW v \in Workers, v # w, Step(v) PROVE FALSE
    <3>1. worker'[w] = worker[w]
      BY <2>2, <2>a DEF Step, BeginPass, Claim, Read, Scan, Write
    <3>2. QED
      BY <3>1
  <2>3. CASE Step(w) /\ ~Write(w)
    BY <2>3 DEF Step, BeginPass, Claim, Read, Scan
  <2>4. ASSUME NEW v \in Workers, Die(v) PROVE FALSE
    BY <2>4 DEF Die
  <2>5. ASSUME NEW g \in Files, LeaseEnds(g) \/ RetryDue(g) PROVE FALSE
    BY <2>5 DEF LeaseEnds, RetryDue
  <2>6. QED
    BY <1>2, <2>1, <2>2, <2>3, <2>4, <2>5 DEF Next
<1>3. ScanInv /\ [Next]_vars => [SettledStandsStep /\ LateVerdictIgnoredStep]_vars
  BY <1>1, <1>2
<1>4. QED
  BY ScanInvariant, <1>3, PTL DEF Spec, VerdictsStand
=============================================================================

------------------------------ MODULE Exports ------------------------------
(***************************************************************************)
(* Exports of case lists asked for by one member of staff (admin.py).      *)
(*                                                                         *)
(* A request counts what is waiting, and inserts later.  A worker's pass   *)
(* locks the oldest waiting jobs, skipping what another pass has locked,   *)
(* writes their files one after the other, and commits all at once: a file *)
(* written before a crash stays, and the next pass writes it anew.         *)
(***************************************************************************)
EXTENDS Naturals, FiniteSets, FiniteSetsExt

CONSTANTS
  NJobs,     \* bound: jobs ever made, numbered in the order of created_at
  Requests, Workers, None,
  MaxActive, \* three
  Batch,     \* five
  MaxDeaths  \* bound

ExportsAssumption ==
  /\ NJobs \in Nat /\ MaxActive \in Nat /\ Batch \in Nat \ {0} /\ MaxDeaths \in Nat
  /\ None \notin Workers \cup {"PENDING", "READY", "CANCELLED"}

Jobs == 1..NJobs

VARIABLES
  job,      \* job[j]: status and whether its time is over
  file,     \* file[j]: "none", "part" or "whole"
  allowed,  \* the requester is active, has a role, and may see all the cases
  request,  \* request[r]: whether it has counted
  pass,     \* pass[w]: jobs locked, the next status of those dealt with, the file being written
  got,      \* what downloads have answered: job and file
  deaths

vars == <<job, file, allowed, request, pass, got, deaths>>

NoPass == [jobs |-> {}, next |-> <<>>, writing |-> 0]

Init ==
  /\ job = [j \in Jobs |-> [status |-> None, expired |-> FALSE]]
  /\ file = [j \in Jobs |-> "none"]
  /\ allowed = TRUE
  /\ request = [r \in Requests |-> "idle"]
  /\ pass = [w \in Workers |-> NoPass]
  /\ got = {} /\ deaths = 0

Made == {j \in Jobs : job[j].status # None}
Pending == {j \in Jobs : job[j].status = "PENDING"}
Locked == UNION {pass[w].jobs : w \in Workers}

---------------------------------------------------------------------------
(* request_export and download_export.                                     *)

Count(r) ==
  /\ request[r] = "idle" /\ allowed /\ Cardinality(Pending) < MaxActive
  /\ request' = [request EXCEPT ![r] = "counted"]
  /\ UNCHANGED <<job, file, allowed, pass, got, deaths>>

Insert(r) ==
  /\ request[r] = "counted" /\ Cardinality(Made) < NJobs
  /\ job' = [job EXCEPT ![Cardinality(Made) + 1].status = "PENDING"]
  /\ request' = [request EXCEPT ![r] = "idle"]
  /\ UNCHANGED <<file, allowed, pass, got, deaths>>

Download(j) ==
  /\ job[j].status = "READY" /\ ~job[j].expired /\ allowed /\ file[j] # "none"
  /\ got' = got \cup {[job |-> j, file |-> file[j]]}
  /\ UNCHANGED <<job, file, allowed, request, pass, deaths>>

---------------------------------------------------------------------------
(* process_exports                                                         *)

Oldest == LET free == Pending \ Locked IN
  {j \in free : Cardinality({i \in free : i <= j}) <= Batch}

Take(w) ==
  /\ pass[w].jobs = {} /\ Oldest # {}
  /\ pass' = [pass EXCEPT ![w].jobs = Oldest]
  /\ UNCHANGED <<job, file, allowed, request, got, deaths>>

Todo(w) == pass[w].jobs \ DOMAIN pass[w].next
Put(f, x, v) == [y \in DOMAIN f \cup {x} |-> IF y = x THEN v ELSE f[y]]

\* Slip: what may not be exported is passed over and left waiting.
CancelNot(w) ==
  /\ pass[w].writing = 0 /\ Todo(w) # {}
  /\ LET j == Min(Todo(w)) IN
     /\ job[j].expired \/ ~allowed
     /\ pass' = [pass EXCEPT ![w].next = Put(@, j, "PENDING")]
  /\ UNCHANGED <<job, file, allowed, request, got, deaths>>

\* What is too old, or whose requester lost the right to it, is not written.
Cancel(w) ==
  /\ pass[w].writing = 0 /\ Todo(w) # {}
  /\ LET j == Min(Todo(w)) IN
     /\ job[j].expired \/ ~allowed
     /\ pass' = [pass EXCEPT ![w].next = Put(@, j, "CANCELLED")]
  /\ UNCHANGED <<job, file, allowed, request, got, deaths>>

\* Slip: the job is made ready, and committed, before its file is written.
OpenReady(w) ==
  /\ pass[w].writing = 0 /\ Todo(w) # {}
  /\ LET j == Min(Todo(w)) IN
     /\ ~job[j].expired /\ allowed
     /\ file' = [file EXCEPT ![j] = "part"]
     /\ job' = [job EXCEPT ![j].status = "READY"]
     /\ pass' = [pass EXCEPT ![w].writing = j]
  /\ UNCHANGED <<allowed, request, got, deaths>>

\* The file is opened and emptied, whether it is there from an earlier pass or not.
Open(w) ==
  /\ pass[w].writing = 0 /\ Todo(w) # {}
  /\ LET j == Min(Todo(w)) IN
     /\ ~job[j].expired /\ allowed
     /\ file' = [file EXCEPT ![j] = "part"]
     /\ pass' = [pass EXCEPT ![w].writing = j]
  /\ UNCHANGED <<job, allowed, request, got, deaths>>

Close(w) ==
  /\ pass[w].writing # 0
  /\ file' = [file EXCEPT ![pass[w].writing] = "whole"]
  /\ pass' = [pass EXCEPT ![w] = [jobs |-> pass[w].jobs, next |-> Put(pass[w].next, pass[w].writing, "READY"),
                                    writing |-> 0]]
  /\ UNCHANGED <<job, allowed, request, got, deaths>>

Commit(w) ==
  /\ pass[w].jobs # {} /\ Todo(w) = {}
  /\ job' = [j \in Jobs |-> IF j \in pass[w].jobs THEN [job[j] EXCEPT !.status = pass[w].next[j]] ELSE job[j]]
  /\ pass' = [pass EXCEPT ![w] = NoPass]
  /\ UNCHANGED <<file, allowed, request, got, deaths>>

\* The process dies: rows are rolled back, files are not.
Die(w) ==
  /\ pass[w].jobs # {} /\ deaths < MaxDeaths
  /\ deaths' = deaths + 1
  /\ pass' = [pass EXCEPT ![w] = NoPass]
  /\ UNCHANGED <<job, file, allowed, request, got>>

---------------------------------------------------------------------------
Expires(j) ==
  /\ j \in Made /\ ~job[j].expired
  /\ job' = [job EXCEPT ![j].expired = TRUE]
  /\ UNCHANGED <<file, allowed, request, pass, got, deaths>>

\* Roles, status or the access to a case change, either way.
AccessChanges == allowed' = ~allowed /\ UNCHANGED <<job, file, request, pass, got, deaths>>

Step(w) == Take(w) \/ Cancel(w) \/ Open(w) \/ Close(w) \/ Commit(w)

Next ==
  \/ \E r \in Requests : Count(r) \/ Insert(r)
  \/ \E w \in Workers : Step(w) \/ Die(w)
  \/ \E j \in Jobs : Download(j) \/ Expires(j)
  \/ AccessChanges

Spec == Init /\ [][Next]_vars
FairSpec == Spec /\ \A w \in Workers : WF_vars(Step(w))

---------------------------------------------------------------------------
(* Properties.                                                             *)

\* Rows are within their types; no job is in two passes; what a pass holds still waits.
ExportsTypeOK ==
  /\ \A j \in Jobs : job[j].status \in {None, "PENDING", "READY", "CANCELLED"}
  /\ \A w \in Workers : pass[w].jobs \subseteq Pending /\ DOMAIN pass[w].next \subseteq pass[w].jobs
  /\ \A v, w \in Workers : v # w => pass[v].jobs \cap pass[w].jobs = {}

\* What is ready has its whole file, and nothing but a whole file was ever handed out,
\* wherever passes died and whoever wrote the file again.
ReadyIsWhole ==
  /\ \A j \in Jobs : job[j].status = "READY" => file[j] = "whole"
  /\ \A x \in got : x.file = "whole"

\* Every job that waits is made ready or cancelled.
JobsSettle == \A j \in Jobs : job[j].status = "PENDING" ~> job[j].status \in {"READY", "CANCELLED"}
=============================================================================

--------------------------- MODULE CaseAssignment ---------------------------
(***************************************************************************)
(* Assigning several cases at once (assign_cases of cases.py).             *)
(*                                                                         *)
(* The rows are locked one by one in the order of their ids, whatever the  *)
(* order of the list; each is checked when it is locked, the assignee when *)
(* all are; then all are written in one commit.  Handlers of single cases  *)
(* and other batches come between.                                         *)
(***************************************************************************)
EXTENDS Naturals, FiniteSets, SequencesExt, FiniteSetsExt

CONSTANTS
  NCases,      \* cases, numbered in the order of their ids
  Batches,     \* requests
  Staff, None,
  MaxVersion   \* bound: a case that was written so often is not listed or handled

AssignmentAssumption == NCases \in Nat /\ MaxVersion \in Nat /\ None \notin Batches \cup Staff

Cases == 1..NCases

VARIABLES
  case,    \* case[c]: version, whether open, assigned_to
  able,    \* accounts that are active and have the scope
  batch,   \* batch[b]: the request
  lock     \* lock[c]: the batch that holds the row, or None

vars == <<case, able, batch, lock>>

Idle == [list |-> <<>>, seen |-> <<>>, to |-> None, held |-> {}, pc |-> "idle"]

Init ==
  /\ case = [c \in Cases |-> [version |-> 1, open |-> TRUE, assigned |-> None]]
  /\ able = Staff
  /\ batch = [b \in Batches |-> Idle]
  /\ lock = [c \in Cases |-> None]

Ends(b) == batch' = [batch EXCEPT ![b] = Idle] /\ lock' = [c \in Cases |-> IF lock[c] = b THEN None ELSE lock[c]]

\* The list a supervisor sends, with the versions on the page.
Send(b) ==
  /\ batch[b].pc = "idle" /\ \A c \in Cases : case[c].version <= MaxVersion
  /\ \E S \in SUBSET Cases \ {{}} : \E list \in SetToSeqs(S), to \in Staff :
       batch' = [batch EXCEPT ![b] = [list |-> list, seen |-> [c \in S |-> case[c].version], to |-> to,
                                      held |-> {}, pc |-> "lock"]]
  /\ UNCHANGED <<case, able, lock>>

Listed(b) == Range(batch[b].list)
Left(b) == Listed(b) \ batch[b].held

\* Slip: rows are locked in the order of the list.
InListOrder(b) == SelectSeq(batch[b].list, LAMBDA c : c \notin batch[b].held)[1]

InIdOrder(b) == Min(Left(b))

\* A row locked: checked at once, and the whole batch fails with it.
LockNext(b) ==
  /\ batch[b].pc = "lock" /\ Left(b) # {}
  /\ LET c == InIdOrder(b) IN
     /\ lock[c] = None
     /\ IF case[c].version = batch[b].seen[c] /\ case[c].open
        THEN /\ lock' = [lock EXCEPT ![c] = b]
             /\ batch' = [batch EXCEPT ![b].held = @ \cup {c}]
        ELSE Ends(b)
  /\ UNCHANGED <<case, able>>

CheckAssignee(b) ==
  /\ batch[b].pc = "lock" /\ Left(b) = {}
  /\ IF batch[b].to \in able
     THEN batch' = [batch EXCEPT ![b].pc = "write"] /\ UNCHANGED lock
     ELSE Ends(b)
  /\ UNCHANGED <<case, able>>

\* Slip: rows are written and committed as the list is walked.
WriteOneByOne(b) ==
  /\ batch[b].pc = "write"
  /\ case' = [case EXCEPT ![batch[b].list[1]].assigned = batch[b].to, ![batch[b].list[1]].version = @ + 1]
  /\ IF Len(batch[b].list) = 1 THEN Ends(b)
     ELSE batch' = [batch EXCEPT ![b].list = Tail(@)] /\ lock' = [lock EXCEPT ![batch[b].list[1]] = None]
  /\ UNCHANGED able

\* Every row of the list gets a new version, also one that is assigned so already: its event
\* dates it (_event, cases.py:92).
Write(b) ==
  /\ batch[b].pc = "write"
  /\ case' = [c \in Cases |-> IF c \in Listed(b)
                              THEN [case[c] EXCEPT !.assigned = batch[b].to, !.version = case[c].version + 1] ELSE case[c]]
  /\ Ends(b)
  /\ UNCHANGED able

---------------------------------------------------------------------------
(* Others.                                                                 *)

\* A handler of one case: it locks the row, writes and commits.
Handler(c, open) ==
  /\ lock[c] = None /\ case[c].open /\ case[c].version < MaxVersion
  /\ case' = [case EXCEPT ![c] = [@ EXCEPT !.version = case[c].version + 1, !.open = open]]
  /\ UNCHANGED <<able, batch, lock>>

Disabled(a) ==
  /\ able' = able \ {a}
  /\ UNCHANGED <<case, batch, lock>>

Die(b) == batch[b].pc # "idle" /\ Ends(b) /\ UNCHANGED <<case, able>>

Step(b) == LockNext(b) \/ CheckAssignee(b) \/ Write(b)
Next ==
  \/ \E b \in Batches : Send(b) \/ Step(b) \/ Die(b)
  \/ \E c \in Cases, open \in BOOLEAN : Handler(c, open)
  \/ \E a \in Staff : Disabled(a)

Spec == Init /\ [][Next]_vars

---------------------------------------------------------------------------
(* Properties.                                                             *)

\* Rows are within their types; a batch holds the rows it has checked.
AssignmentTypeOK ==
  /\ \A c \in Cases : case[c].assigned \in Staff \cup {None} /\ case[c].version \in Nat \ {0}
  /\ \A b \in Batches, c \in Cases : lock[c] = b <=> c \in batch[b].held

\* Cases change hands only as a whole list, each in the version the supervisor saw and
\* open ("validate the entire batch before any assignment write", cases.py:1079).
AssignedAsSeenStep ==
  \A c \in Cases : case'[c].assigned # case[c].assigned =>
    \E b \in Batches : c \in Listed(b) /\
      \A d \in Listed(b) : /\ case'[d].assigned = batch[b].to
                           /\ case[d].version = batch[b].seen[d] /\ case[d].open
AssignedAsSeen == [][AssignedAsSeenStep]_vars

\* Batches never wait for each other in a circle, in whatever order the lists name the
\* cases: of those under way, one has its next row or all of them.
NoCircleOfBatches ==
  (\E b \in Batches : batch[b].pc # "idle") =>
    \E b \in Batches : batch[b].pc # "idle" /\ (Left(b) = {} \/ lock[InIdOrder(b)] = None)
=============================================================================

---------------------------- MODULE CaseTracking ----------------------------
(***************************************************************************)
(* The applicant's page of frontend/src/citizen/CaseTracking.tsx: the list *)
(* of cases, the case that is open, and the card on which a supplement is  *)
(* answered with files and a statement.  Each case has one task.           *)
(*                                                                         *)
(* The page does not order the answers it waits for; one that was read     *)
(* before may arrive after a later one.  A card is mounted for a version of*)
(* the task: another version gets a new card, and what the old one waits   *)
(* for ends outside the page.                                              *)
(***************************************************************************)
EXTENDS Naturals, FiniteSets, FiniteSetsExt

CONSTANTS
  Cases,
  Files,       \* files that may be uploaded
  None,
  MaxSelected, \* ten: the files of one submission
  MaxChanges,  \* bound: versions of all tasks together, before the staff change one
  MaxKey,      \* bound: keys remembered at once
  MaxWaiting   \* bound: requests awaited at once

\* What a submission says.
Nothing == [ids |-> {}, statement |-> FALSE]
Contents == [ids : SUBSET Files, statement : BOOLEAN]

\* A case as the page reads it, and the state of a card with the operation that is pending.
Rows == [case : Cases, status : {"OPEN", "SUBMITTED"}, version : Nat, files : SUBSET Files]
Operations == [key : Nat, content : Contents]
Cards ==
  [case : Cases, version : Nat, mount : Nat, uploaded : SUBSET Files, content : Contents,
   lock : BOOLEAN, pending : BOOLEAN, operation : Operations \cup {None}]

TrackingAssumption ==
  /\ MaxSelected \in Nat /\ MaxChanges \in Nat /\ MaxKey \in Nat /\ MaxWaiting \in Nat
  /\ None \notin Rows \cup Operations \cup Cards

VARIABLES
  task,     \* task[c]: status, version and submission of the task of c
  files,    \* files[c]: uploads that are complete
  record,   \* the case that is open, as it was read, or None
  card,     \* the state of its TaskCard, or None
  busy,     \* of the page
  wire      \* requests awaited

vars == <<task, files, record, card, busy, wire>>

\* TaskCard, its state and refs.
NewCard(r, mount) ==
  [case |-> r.case, version |-> r.version, mount |-> mount, uploaded |-> r.files,
   content |-> Nothing, lock |-> FALSE, pending |-> FALSE, operation |-> None]

Init ==
  /\ task = [c \in Cases |-> [status |-> "OPEN", version |-> 1, received |-> None]]
  /\ files = [c \in Cases |-> {}]
  /\ record = None
  /\ card = None
  /\ busy = FALSE
  /\ wire = {}

---------------------------------------------------------------------------
(* The server.                                                             *)

RowOf(c) == [case |-> c, status |-> task[c].status, version |-> task[c].version, files |-> files[c]]

\* Slip: any version will do.
AnyVersion(etag, current) == TRUE

\* check_version, and the comparison of the task's revision.
CheckVersion(etag, current) == etag = current

Replayed(r) == task[r.case].received # None /\ task[r.case].received.key = r.key

Accepted(r) ==
  \/ Replayed(r)
  \/ /\ CheckVersion(r.etag, task[r.case].version)
     /\ task[r.case].status = "OPEN"

\* submit_task
Submit(r) ==
  IF Replayed(r) THEN UNCHANGED task
  ELSE task' = [task EXCEPT ![r.case] =
         [status |-> "SUBMITTED", version |-> @.version + 1,
          received |-> [key |-> r.key, content |-> r.content, shown |-> r.shown,
                        answers |-> @.version, seen |-> r.etag]]]

\* The staff change the requirement, or ask again.
Staff ==
  /\ \E c \in Cases :
       /\ MapThenSumSet(LAMBDA d : task[d].version, Cases) < MaxChanges
       /\ task' = [task EXCEPT ![c] = [status |-> "OPEN", version |-> @.version + 1, received |-> @.received]]
  /\ UNCHANGED <<files, record, card, busy, wire>>

---------------------------------------------------------------------------
(* The page.                                                               *)

CanAsk == Cardinality(wire) < MaxWaiting

\* open: nothing says that an earlier one is awaited.
Asked(c, requests) == requests \cup {[kind |-> "open", row |-> RowOf(c)]}

\* The rows of the list are never disabled.
OpenFromList(c) ==
  /\ record = None /\ CanAsk
  /\ wire' = Asked(c, wire) /\ busy' = TRUE
  /\ UNCHANGED <<task, files, record, card>>

Refresh ==
  /\ record # None /\ ~busy /\ CanAsk
  /\ wire' = Asked(record.case, wire) /\ busy' = TRUE
  /\ UNCHANGED <<task, files, record, card>>

\* "All cases": the list is loaded too, but it opens nothing.
BackToList ==
  /\ record # None /\ ~busy
  /\ record' = None /\ card' = None
  /\ UNCHANGED <<task, files, busy, wire>>

\* A number that tells a new card from the owners of what is awaited.
FreeMount == CHOOSE m \in 1..(MaxWaiting + 1) : \A r \in wire : r.kind # "open" => r.mount # m

\* The card is kept for the same version of the same task.
CardFor(row) ==
  IF card # None /\ card.case = row.case /\ card.version = row.version
  THEN card ELSE NewCard(row, FreeMount)

\* The answer is what the server had when it was asked, or has by now.
OpenArrives(r, row) ==
  /\ r.kind = "open" /\ row \in {r.row, RowOf(r.row.case)}
  /\ record' = row
  /\ card' = CardFor(row)
  /\ busy' = FALSE
  /\ wire' = wire \ {r}
  /\ UNCHANGED <<task, files>>

OpenFails(r) ==
  /\ r.kind = "open"
  /\ record' = None /\ card' = None
  /\ busy' = FALSE
  /\ wire' = wire \ {r}
  /\ UNCHANGED <<task, files>>

---------------------------------------------------------------------------
(* The card.                                                               *)

CanEdit == card # None /\ record.status = "OPEN" /\ ~card.lock /\ ~card.pending

Edit(content) ==
  /\ CanEdit /\ content # card.content
  /\ content.ids \subseteq card.uploaded
  /\ card' = [card EXCEPT !.content = content]
  /\ UNCHANGED <<task, files, record, busy, wire>>

Upload(f) ==
  /\ CanEdit /\ CanAsk /\ \A c \in Cases : f \notin files[c]
  /\ card' = [card EXCEPT !.lock = TRUE]
  /\ wire' = wire \cup {[kind |-> "upload", case |-> card.case, mount |-> card.mount, file |-> f]}
  /\ UNCHANGED <<task, files, record, busy>>

\* randomUUID: a key that nobody remembers.
Unused ==
  {k \in 1..MaxKey : /\ \A c \in Cases : task[c].received # None => task[c].received.key # k
                     /\ \A r \in wire : r.kind = "submit" => r.key # k}
NewKey == CHOOSE k \in Unused : TRUE

\* Slip: every click is an operation of its own.
FreshOperation == [key |-> NewKey, content |-> card.content]

\* The operation that is pending, or a new one with the content of the card.
Operation ==
  IF card.operation # None THEN card.operation
  ELSE [key |-> NewKey, content |-> card.content]

SubmitTask ==
  /\ card # None /\ record.status = "OPEN" /\ ~card.lock /\ CanAsk
  /\ card.operation # None \/ Unused # {}
  /\ Cardinality(card.content.ids) <= MaxSelected /\ card.content # Nothing
  /\ card' = [card EXCEPT !.lock = TRUE, !.pending = TRUE, !.operation = Operation]
  /\ wire' = wire \cup {[kind |-> "submit", case |-> card.case, mount |-> card.mount,
                         etag |-> card.version, shown |-> card.content,
                         key |-> Operation.key, content |-> Operation.content,
                         previous |-> IF card.operation = None THEN 0 ELSE card.operation.key]}
  /\ UNCHANGED <<task, files, record, busy>>

---------------------------------------------------------------------------
(* What the card waits for.  Its owner may have left the page by then.     *)

Owns(r) == card # None /\ card.mount = r.mount

\* Slip: the card may be edited again, and still sends what it sent.
Reopened(c) == [c EXCEPT !.lock = FALSE, !.pending = FALSE]

\* act, catch: a refusal ends the operation.
Refused(c) == [c EXCEPT !.lock = FALSE, !.pending = FALSE, !.operation = None]

Settled(r, then) == card' = (IF Owns(r) THEN then ELSE card) /\ UNCHANGED record

UploadEnds(r) ==
  /\ r.kind = "upload"
  /\ files' = [files EXCEPT ![r.case] = @ \cup {r.file}]
  /\ \/ Settled(r, [card EXCEPT !.lock = FALSE, !.uploaded = @ \cup {r.file},
                                !.content.ids = @ \cup {r.file}])
     \/ Settled(r, [card EXCEPT !.lock = FALSE])
  /\ wire' = wire \ {r}
  /\ UNCHANGED <<task, busy>>

\* Received: onDone opens the case again, whatever the page shows by then.
SubmitSucceeds(r) ==
  /\ r.kind = "submit" /\ Accepted(r)
  /\ Submit(r)
  /\ Settled(r, [card EXCEPT !.lock = FALSE, !.pending = FALSE, !.operation = None])
  /\ busy' = TRUE
  /\ wire' = (wire \ {r}) \cup
       {[kind |-> "open", row |-> [RowOf(r.case) EXCEPT !.status = task'[r.case].status,
                                                        !.version = task'[r.case].version]]}
  /\ UNCHANGED files

\* An answer below 500: for the version, the state or, before either is looked at, for
\* the token.
SubmitRefused(r) ==
  /\ r.kind = "submit"
  /\ Settled(r, Refused(card))
  /\ wire' = wire \ {r}
  /\ UNCHANGED <<task, files, busy>>

\* No answer, or 500 and above.
SubmitLost(r) ==
  /\ r.kind = "submit"
  /\ \/ UNCHANGED task
     \/ Accepted(r) /\ Submit(r)
  /\ Settled(r, [card EXCEPT !.lock = FALSE])
  /\ wire' = wire \ {r}
  /\ UNCHANGED <<files, busy>>

---------------------------------------------------------------------------
Next ==
  \/ Staff
  \/ \E c \in Cases : OpenFromList(c)
  \/ Refresh \/ BackToList
  \/ \E content \in Contents : Edit(content)
  \/ \E f \in Files : Upload(f)
  \/ SubmitTask
  \/ \E r \in wire : \/ r.kind = "open" /\ \E row \in {r.row, RowOf(r.row.case)} : OpenArrives(r, row)
                     \/ OpenFails(r)
                     \/ UploadEnds(r)
                     \/ SubmitSucceeds(r) \/ SubmitRefused(r) \/ SubmitLost(r)

Spec == Init /\ [][Next]_vars

---------------------------------------------------------------------------
(* Properties.                                                             *)

\* The card belongs to the record that is shown, and an operation of it is pending as
\* long as it may still be repeated.
TrackingTypeOK ==
  /\ record \in Rows \cup {None} /\ card \in Cards \cup {None}
  /\ record = None <=> card = None
  /\ card # None => /\ card.case = record.case /\ card.version = record.version
                    /\ card.content.ids \subseteq card.uploaded
                    /\ card.pending <=> card.operation # None
                    /\ card.lock <=> \E r \in wire : r.kind # "open" /\ r.mount = card.mount
  /\ Cardinality({r \in wire : r.kind # "open"}) <= MaxWaiting

\* What the server received is what the card showed when the applicant sent it, after
\* whatever failures, retries and corrections.
ReceivedAsShown ==
  \A c \in Cases : task[c].received # None => task[c].received.content = task[c].received.shown

\* A submission answers the requirement that the card showed, not one that has
\* replaced it.
AnswersWhatWasSeen ==
  \A c \in Cases : task[c].received # None => task[c].received.answers = task[c].received.seen

\* The retry of a submission that was received is recognised: the applicant is not told
\* of a conflict with his own.
RetryIsRecognised ==
  \A r \in wire :
    r.kind = "submit" /\ task[r.case].received # None
      /\ task[r.case].received.key \in {r.previous, r.key} => Replayed(r)
=============================================================================

-------------------------- MODULE ApplicationForm --------------------------
(***************************************************************************)
(* The applicant's form of frontend/src/citizen/ApplicationForm.tsx and the*)
(* part of the server it talks to: POST /cases, GET and PATCH /cases/{id}, *)
(* POST /cases/{id}/submit, with their ETags and idempotency records       *)
(* (cases.py, common.py).  A member of Mounts is one mount of the          *)
(* component: a tab, or a later visit of the page in the same tab.         *)
(*                                                                         *)
(* A call is sent in one step and served in another.  The component handles*)
(* the answer in the step that serves the request: until then its controls *)
(* are disabled and it does nothing an answer on its way could meet.  The  *)
(* network may fail before or after the server acts; then the component    *)
(* gets an error, and a request it no longer waits for may be served late. *)
(* One document type is required.                                          *)
(***************************************************************************)
EXTENDS Naturals, FiniteSets

CONSTANTS
  Mounts,      \* mounts of the component
  Cases,       \* the applicant's cases
  Existing,    \* those that are drafts from before, with all Files uploaded
  Forms,       \* contents of the form
  Empty,       \* the form of a new case
  Complete,    \* the forms that pass the scheme's final validation
  Files,       \* file versions, each uploaded at most once
  None,        \* no case, file, operation
  MaxClicks,   \* bound: submissions begun by one mount
  MaxVersion,  \* bound: version at which a draft is no longer saved
  MaxLate      \* bound: requests that are served although nobody waits

\* A submission as it is stored, and as it is frozen until its outcome is known.
Submission == [form : Forms, file : Files, key : Mounts \X Nat]
Attempt == [etag : Nat, key : Mounts \X Nat, file : Files]

ASSUME FormAssumption ==
  /\ Empty \in Forms /\ Complete \subseteq Forms /\ Existing \subseteq Cases
  /\ None \notin Cases \cup Files \cup Forms \cup Submission \cup Attempt
  /\ None \notin {"load", "create", "open", "reload", "save", "saveAndLearn", "saveAndSubmit", "submit", "upload"}

VARIABLES
  row,       \* row[c]: the case on the server, its files and its submission
  records,   \* idempotency records: the row a key's operation answered with
  tab,       \* tab[m]: state of the component
  wire,      \* requests not served yet; live: the component waits for the answer
  signed     \* history: key and content of each confirmed click on submit

vars == <<row, records, tab, wire, signed>>

NoRow == [version |-> 0, status |-> "NONE", form |-> Empty, files |-> {}, sub |-> None]

\* A component that has just been mounted, and one that is gone.
Fresh == [mounted |-> TRUE, page |-> "loading", drafts |-> {}, case |-> None, etag |-> 0,
          draft |-> FALSE, form |-> Empty, file |-> None, dirty |-> FALSE, confirmed |-> FALSE,
          error |-> FALSE, pending |-> None, clicks |-> 0, doing |-> None]
Ended == [Fresh EXCEPT !.mounted = FALSE]

Init ==
  /\ row = [c \in Cases |-> IF c \in Existing
                           THEN [NoRow EXCEPT !.version = 1, !.status = "DRAFT", !.files = Files]
                           ELSE NoRow]
  /\ records = {}
  /\ tab = [m \in Mounts |-> Fresh]
  /\ wire = {}
  /\ signed = {}

---------------------------------------------------------------------------
(* Requests.                                                               *)

ReadOf(m, c) == [kind |-> "read", mount |-> m, live |-> TRUE, case |-> c]
CreateOf(m) == [kind |-> "create", mount |-> m, live |-> TRUE, key |-> <<m, 0>>]
SaveOf(m) == [kind |-> "save", mount |-> m, live |-> TRUE, case |-> tab[m].case,
              etag |-> tab[m].etag, form |-> tab[m].form]
UploadOf(m, x) == [kind |-> "upload", mount |-> m, live |-> TRUE, case |-> tab[m].case, file |-> x]
SubmitOf(m, p) == [kind |-> "submit", mount |-> m, live |-> TRUE, case |-> tab[m].case,
                   etag |-> p.etag, key |-> p.key, file |-> p.file]

---------------------------------------------------------------------------
(* The component: what starts a call.  act takes its lock, so that one     *)
(* operation runs at a time, and clears the last error.                    *)

Idle(m) == tab[m].mounted /\ tab[m].doing = None
Editing(m) == tab[m].mounted /\ tab[m].page = "form" /\ tab[m].draft

\* The fields and file inputs are disabled.
Locked(m) == tab[m].doing # None \/ tab[m].pending # None \/ ~tab[m].draft

Start(m, op, r) ==
  /\ tab' = [tab EXCEPT ![m] = [@ EXCEPT !.doing = op, !.error = FALSE]]
  /\ wire' = wire \cup {r}
  /\ UNCHANGED <<row, records>>

\* The effect that runs on mount, without a case: the list of drafts, or an error.
LoadList(m) ==
  /\ Idle(m) /\ tab[m].page = "loading"
  /\ \E drafts \in {{}, {c \in Cases : row[c].status = "DRAFT"}} :
       tab' = [tab EXCEPT ![m] = [@ EXCEPT !.page = "start", !.drafts = drafts]]
  /\ UNCHANGED <<row, records, wire, signed>>

\* The same effect with a caseId.
LoadCase(m, c) ==
  /\ Idle(m) /\ tab[m].page = "loading" /\ row[c].version > 0
  /\ Start(m, "load", ReadOf(m, c))
  /\ UNCHANGED signed

NewApplication(m) ==
  /\ Idle(m) /\ tab[m].page = "start"
  /\ Start(m, "create", CreateOf(m))
  /\ UNCHANGED signed

OpenDraft(m, c) ==
  /\ Idle(m) /\ tab[m].page = "start" /\ c \in tab[m].drafts
  /\ Start(m, "open", ReadOf(m, c))
  /\ UNCHANGED signed

\* Slip: fields that stay enabled while an operation runs.
EditWhileBusy(m, f) ==
  /\ Editing(m) /\ tab[m].pending = None /\ f # tab[m].form
  /\ tab' = [tab EXCEPT ![m] = [@ EXCEPT !.form = f, !.dirty = TRUE, !.confirmed = FALSE]]
  /\ UNCHANGED <<row, records, wire, signed>>

\* update
Edit(m, f) ==
  /\ Editing(m) /\ ~Locked(m) /\ f # tab[m].form
  /\ tab' = [tab EXCEPT ![m] = [@ EXCEPT !.form = f, !.dirty = TRUE, !.confirmed = FALSE]]
  /\ UNCHANGED <<row, records, wire, signed>>

\* A file is chosen for the document type.
Upload(m, x) ==
  /\ Editing(m) /\ ~Locked(m)
  /\ \A c \in Cases : x \notin row[c].files
  /\ \A r \in wire : r.kind = "upload" => r.file # x
  /\ Start(m, "upload", UploadOf(m, x))
  /\ UNCHANGED signed

\* The check box of the last step.
Confirm(m) ==
  /\ Editing(m) /\ Idle(m) /\ ~tab[m].confirmed
  /\ tab' = [tab EXCEPT ![m] = [@ EXCEPT !.confirmed = TRUE]]
  /\ UNCHANGED <<row, records, wire, signed>>

SaveDraft(m) ==
  /\ Editing(m) /\ Idle(m) /\ tab[m].pending = None
  /\ Start(m, "save", SaveOf(m))
  /\ UNCHANGED signed

\* The button of the safety step: save, then leave for the course.
SaveAndLearn(m) ==
  /\ Editing(m) /\ Idle(m)
  /\ Start(m, "saveAndLearn", SaveOf(m))
  /\ UNCHANGED signed

\* The button of the last step.
SubmitOffered(m) == Editing(m) /\ Idle(m) /\ tab[m].confirmed /\ tab[m].file # None

\* Slip: one key for all the operations of a visit.
VisitKey(m) == <<m, 0>>

\* The key of the submission that the next click begins.
NextKey(m) == <<m, tab[m].clicks + 1>>

\* A first click on submit saves the form.
ClickSubmit(m) ==
  /\ SubmitOffered(m) /\ tab[m].pending = None /\ tab[m].clicks < MaxClicks
  /\ Start(m, "saveAndSubmit", SaveOf(m))
  /\ signed' = {s \in signed : s.key # NextKey(m)}
                 \cup {[key |-> NextKey(m), form |-> tab[m].form, file |-> tab[m].file]}

\* A later click, while the outcome is unknown, repeats the frozen request.
Retry(m) ==
  /\ SubmitOffered(m) /\ tab[m].pending # None
  /\ Start(m, "submit", SubmitOf(m, tab[m].pending))
  /\ UNCHANGED signed

\* The button beside an error.
Reload(m) ==
  /\ Editing(m) /\ Idle(m) /\ tab[m].error
  /\ Start(m, "reload", ReadOf(m, tab[m].case))
  /\ UNCHANGED signed

---------------------------------------------------------------------------
(* The component: what the outcome of its call does.                       *)

\* adopt: the page becomes a copy of the case, with a complete file of the type.
Adopted(t, c, body) ==
  {[t EXCEPT !.page = "form", !.case = c, !.etag = body.version, !.draft = body.status = "DRAFT",
             !.form = body.form, !.file = x, !.dirty = FALSE, !.confirmed = FALSE,
             !.pending = None, !.doing = None] :
     x \in IF body.files = {} THEN {None} ELSE body.files}

\* save: the answer replaces the record, not the form.
Saved(t, body) == [t EXCEPT !.etag = body.version, !.dirty = FALSE, !.doing = None]

\* What is frozen when the save before a submission has succeeded.
Frozen(m, body) == [etag |-> body.version, key |-> NextKey(m), file |-> tab[m].file]

\* The state after a success.  The submission that follows a save is sent even if
\* the component has been unmounted meanwhile; onSubmitted and onSafety leave.
Succeeded(m, c, body) ==
  LET t == tab[m] IN
  CASE t.doing = "saveAndSubmit" ->
         {[Saved(t, body) EXCEPT !.clicks = t.clicks + 1, !.pending = Frozen(m, body), !.doing = "submit"]}
    [] t.doing \in {"submit", "saveAndLearn"} \/ (~t.mounted /\ t.doing # "saveAndSubmit") -> {Ended}
    [] t.mounted /\ t.doing \in {"load", "create", "open", "reload"} -> Adopted(t, c, body)
    [] t.mounted /\ t.doing = "save" -> {Saved(t, body)}

\* The catch and finally of act, and of the effect on mount.
Failed(t, pending) ==
  IF t.mounted
  THEN [t EXCEPT !.pending = pending, !.error = TRUE, !.doing = None,
                 !.page = IF t.page = "loading" THEN "start" ELSE t.page]
  ELSE Ended

\* An ApiError below 500: whatever was tried, the outcome of a pending submission
\* is taken for known.  Otherwise it stays pending.
Refusal(m) == tab' = [tab EXCEPT ![m] = Failed(tab[m], None)]
Broken(m) == tab' = [tab EXCEPT ![m] = Failed(tab[m], tab[m].pending)]

\* The answer to r, with the requests that are then on the wire.
Success(r, c, body) ==
  IF r.live
  THEN \/ /\ \E t \in Succeeded(r.mount, c, body) : tab' = [tab EXCEPT ![r.mount] = t]
          /\ wire' = (wire \ {r}) \cup
                       (IF tab[r.mount].doing = "saveAndSubmit"
                        THEN {SubmitOf(r.mount, Frozen(r.mount, body))} ELSE {})
       \/ Broken(r.mount) /\ wire' = wire \ {r}
  ELSE UNCHANGED tab /\ wire' = wire \ {r}

Uploaded(r) ==
  /\ IF r.live
     THEN \/ tab' = [tab EXCEPT ![r.mount] =
                       IF tab[r.mount].mounted
                       THEN [@ EXCEPT !.file = r.file, !.confirmed = FALSE, !.doing = None] ELSE Ended]
          \/ Broken(r.mount)
     ELSE UNCHANGED tab
  /\ wire' = wire \ {r}

Refuse(r) ==
  /\ IF r.live THEN Refusal(r.mount) \/ Broken(r.mount) ELSE UNCHANGED tab
  /\ wire' = wire \ {r}
  /\ UNCHANGED <<row, records>>

---------------------------------------------------------------------------
(* The server.                                                             *)

\* idem_start finds the record of the key and answers as before.
Known(r) == \E rec \in records : rec.key = r.key
Replay(r) ==
  /\ \E rec \in records : rec.key = r.key /\ Success(r, rec.case, rec.row)
  /\ UNCHANGED <<row, records>>

\* idem_finish, in the transaction of the operation.
Finish(r, c) ==
  /\ records' = records \cup {[key |-> r.key, case |-> c, row |-> row'[c]]}
  /\ Success(r, c, row'[c])

Create(r) ==
  \E c \in Cases :
    /\ row[c] = NoRow
    /\ row' = [row EXCEPT ![c] = [@ EXCEPT !.version = 1, !.status = "DRAFT"]]
    /\ Finish(r, c)

\* create_case
ServeCreate(r) == IF Known(r) THEN Replay(r) ELSE Create(r)

\* get_case
ServeRead(r) == Success(r, r.case, row[r.case]) /\ UNCHANGED <<row, records>>

\* patch_case
ServeSave(r) ==
  LET c == r.case IN
  IF row[c].version = r.etag /\ row[c].status = "DRAFT"
  THEN /\ row[c].version < MaxVersion
       /\ row' = [row EXCEPT ![c] = [@ EXCEPT !.version = row[c].version + 1, !.form = r.form]]
       /\ Success(r, c, row'[c])
       /\ UNCHANGED records
  ELSE Refuse(r)

\* _validate_form, _files and _required_documents of a submission.
Acceptable(c, file) == row[c].form \in Complete /\ file \in row[c].files

\* Revision, submission and receipt are written with the case.
Submit(r) ==
  LET c == r.case IN
  /\ row' = [row EXCEPT ![c] = [@ EXCEPT !.version = row[c].version + 1, !.status = "RECEIVED",
                        !.sub = [form |-> row[c].form, file |-> r.file, key |-> r.key]]]
  /\ Finish(r, c)

\* Slip: submissions that do not compare the version.
SubmitAnyVersion(r) ==
  IF Known(r) THEN Replay(r)
  ELSE IF row[r.case].status = "DRAFT" /\ Acceptable(r.case, r.file) THEN Submit(r) ELSE Refuse(r)

\* submit_case: the key's record first, then version, state and content.  A
\* refusal rolls the record back.
ServeSubmit(r) ==
  IF Known(r) THEN Replay(r)
  ELSE IF /\ row[r.case].version = r.etag
          /\ row[r.case].status = "DRAFT"
          /\ Acceptable(r.case, r.file)
       THEN Submit(r)
       ELSE Refuse(r)

\* complete_upload of a document of the draft.
ServeUpload(r) ==
  IF row[r.case].status = "DRAFT"
  THEN /\ row' = [row EXCEPT ![r.case] = [@ EXCEPT !.files = row[r.case].files \cup {r.file}]]
       /\ Uploaded(r)
       /\ UNCHANGED records
  ELSE Refuse(r)

Serve ==
  \E r \in wire :
    /\ \/ r.kind = "create" /\ ServeCreate(r)
       \/ r.kind = "read" /\ ServeRead(r)
       \/ r.kind = "save" /\ ServeSave(r)
       \/ r.kind = "submit" /\ ServeSubmit(r)
       \/ r.kind = "upload" /\ ServeUpload(r)
    /\ UNCHANGED signed

---------------------------------------------------------------------------
(* Faults.                                                                 *)

\* The connection fails before the server acts: the request is lost or late.
Break(m) ==
  /\ \E r \in wire :
       /\ r.mount = m /\ r.live
       /\ \/ wire' = wire \ {r}
          \/ /\ r.kind # "read" /\ Cardinality({s \in wire : ~s.live}) < MaxLate
             /\ wire' = (wire \ {r}) \cup {[r EXCEPT !.live = FALSE]}
  /\ Broken(m)
  /\ UNCHANGED <<row, records, signed>>

\* The applicant goes elsewhere; a running operation is not cancelled.
Leave(m) ==
  /\ tab[m].mounted
  /\ tab' = [tab EXCEPT ![m] =
       IF tab[m].doing = None THEN Ended
       ELSE [@ EXCEPT !.mounted = FALSE, !.drafts = {}, !.dirty = FALSE, !.confirmed = FALSE]]
  /\ UNCHANGED <<row, records, wire, signed>>

---------------------------------------------------------------------------
Next ==
  \/ Serve
  \/ \E m \in Mounts :
       \/ LoadList(m) \/ NewApplication(m) \/ SaveDraft(m) \/ SaveAndLearn(m)
       \/ Confirm(m) \/ ClickSubmit(m) \/ Retry(m) \/ Reload(m)
       \/ \E c \in Cases : LoadCase(m, c) \/ OpenDraft(m, c)
       \/ \E x \in Files : Upload(m, x)
       \/ \E f \in Forms : Edit(m, f)
       \/ Break(m) \/ Leave(m)

Spec == Init /\ [][Next]_vars

---------------------------------------------------------------------------
(* Properties.                                                             *)

Row == [version : Nat, status : {"NONE", "DRAFT", "RECEIVED"}, form : Forms,
        files : SUBSET Files, sub : Submission \cup {None}]

\* The tables and the pending operation hold what they should.
FormTypeOK ==
  /\ row \in [Cases -> Row]
  /\ \A rec \in records : rec.key \in Mounts \X Nat /\ rec.case \in Cases /\ rec.row \in Row
  /\ \A m \in Mounts : tab[m].pending # None =>
       /\ tab[m].pending.key = <<m, tab[m].clicks>>
       /\ tab[m].pending.file \in Files

\* What was submitted is what stood on the page at the confirmed click that
\* began this submission: no other tab's save, no later edit or upload, no late
\* or repeated request puts other content under the receipt.
SubmittedAsConfirmed ==
  \A c \in Cases : row[c].sub # None =>
    [key |-> row[c].sub.key, form |-> row[c].sub.form, file |-> row[c].sub.file] \in signed

\* A page that leaves for the receipt leaves for the receipt of its own
\* submission, not of another tab's and not after a refusal.
ReceiptIsOwnStep ==
  \A m \in Mounts :
    tab[m].mounted /\ tab[m].doing = "submit" /\ ~tab'[m].mounted /\ tab'[m].doing = None =>
      /\ row'[tab[m].case].sub # None
      /\ row'[tab[m].case].sub.key = tab[m].pending.key
ReceiptIsOwn == [][ReceiptIsOwnStep]_vars

\* A page without unsaved changes, whose version is the current one, shows the
\* case as it is stored.
CleanMeansSaved ==
  \A m \in Mounts :
    LET t == tab[m] IN
    Editing(m) /\ Idle(m) /\ ~t.dirty /\ t.etag = row[t.case].version => t.form = row[t.case].form

\* However often a lost answer makes the applicant repeat it, one visit of the
\* page creates one case.
OneCasePerVisit ==
  \A r, s \in records : r.key = s.key => r.case = s.case
=============================================================================

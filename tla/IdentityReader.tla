--------------------------- MODULE IdentityReader ---------------------------
(***************************************************************************)
(* Reading an identity card in the browser: the component IdentityOCR.tsx  *)
(* and recognizeLocally of ocr.ts with its worker.                         *)
(*                                                                         *)
(* Pictures are loaded, turned and read asynchronously, one at a time, but *)
(* the form around it may disable the component at any moment, which gives *)
(* up what is under way and lets it end by itself.  Of a candidate only its*)
(* origin is kept: blank, typed, or the picture whose text it was taken    *)
(* from.                                                                   *)
(***************************************************************************)
EXTENDS Naturals, FiniteSets

CONSTANTS
  Images,     \* pictures, each loaded or turned into another
  Jobs,       \* bound: numbers for what is under way
  None

Sides == {"front", "back"}

\* What may be under way: a picture is prepared, or its text recognized by a worker.
Reading ==
  [kind : {"image", "text"}, side : Sides, image : Images, worker : {"none", "creating", "running"},
   turn : BOOLEAN, cancelled : BOOLEAN]

ReaderAssumption ==
  IsFiniteSet(Jobs) /\ None \notin Images \cup Reading /\ Images \cap {"typed"} = {}

VARIABLES
  side,       \* side[s]: its picture, and whether it was recognized
  field,      \* field[s]: the origin of the candidates of the side
  job,        \* job[j]: what is under way, or None
  locked,     \* the ref, and busy which follows it
  disabled,
  reviewed,   \* the check box; what it was ticked for, or None
  handed      \* history: what was handed to the form last was what had been reviewed

vars == <<side, field, job, locked, disabled, reviewed, handed>>

NoSide == [image |-> None, recognized |-> FALSE]

Init ==
  /\ side = [s \in Sides |-> NoSide]
  /\ field = [s \in Sides |-> None]
  /\ job = [j \in Jobs |-> None]
  /\ locked = FALSE
  /\ disabled = FALSE
  /\ reviewed = None
  /\ handed = TRUE

---------------------------------------------------------------------------
(* Helpers of the component.                                               *)

Running == {j \in Jobs : job[j] # None}
Immutable == disabled \/ locked

\* Slip: the check box stays ticked.
KeepReview == UNCHANGED reviewed

\* invalidate
Invalidate == reviewed' = None

\* resetFields
ResetFields(s) == field' = [field EXCEPT ![s] = None]

\* begin: earlier work has no turn any more.
Begin(j, work) ==
  /\ ~locked /\ ~disabled /\ job[j] = None
  /\ locked' = TRUE
  /\ Invalidate
  /\ job' = [k \in Jobs |-> IF k = j THEN work
                            ELSE IF job[k] = None THEN None ELSE [job[k] EXCEPT !.turn = FALSE]]

Work(kind, s, image, worker) ==
  [kind |-> kind, side |-> s, image |-> image, worker |-> worker, turn |-> TRUE,
   cancelled |-> FALSE]

\* Slip: the result is taken in whatever happened meanwhile.
AnyTurn(j) == TRUE

\* token === operation.current, and not disabled.
Counts(j) == job[j].turn /\ ~disabled

\* finish, and nothing is left of the work.
Finish(j) ==
  /\ locked' = (locked /\ ~job[j].turn)
  /\ job' = [job EXCEPT ![j] = None]

---------------------------------------------------------------------------
(* Pictures.                                                               *)

Load(s, image, j) ==
  /\ Begin(j, Work("image", s, image, "none"))
  /\ UNCHANGED <<side, field, disabled, handed>>

Rotate(s, image, j) ==
  /\ side[s].image \notin {None, image}
  /\ Begin(j, Work("image", s, image, "none"))
  /\ UNCHANGED <<side, field, disabled, handed>>

\* The picture is prepared: it replaces the one before with all that was read of it.
ImageReady(j) ==
  /\ job[j] # None /\ job[j].kind = "image"
  /\ IF Counts(j)
     THEN /\ side' = [side EXCEPT ![job[j].side] = [image |-> job[j].image, recognized |-> FALSE]]
          /\ ResetFields(job[j].side) /\ Invalidate
     ELSE UNCHANGED <<side, field, reviewed>>
  /\ Finish(j)
  /\ UNCHANGED <<disabled, handed>>

ImageFails(j) ==
  /\ job[j] # None /\ job[j].kind = "image"
  /\ Finish(j)
  /\ UNCHANGED <<side, field, disabled, reviewed, handed>>

Remove(s) ==
  /\ ~Immutable /\ side[s].image # None
  /\ side' = [side EXCEPT ![s] = NoSide]
  /\ ResetFields(s) /\ Invalidate
  /\ UNCHANGED <<job, locked, disabled, handed>>

---------------------------------------------------------------------------
(* Recognition.                                                            *)

\* The candidates of an earlier run go with the start of a new one.
Recognize(s, j) ==
  /\ side[s].image # None
  /\ Begin(j, Work("text", s, side[s].image, "creating"))
  /\ side' = [side EXCEPT ![s].recognized = FALSE]
  /\ ResetFields(s)
  /\ UNCHANGED <<disabled, handed>>

\* Slip: nobody waits any more for the worker that is being created.
WorkerOutlives(j) == [job EXCEPT ![j].worker = "running"]

\* createWorker resolves: if the run was cancelled before, the worker is terminated.
WorkerCreated(j) ==
  IF job[j].cancelled THEN [job EXCEPT ![j] = None] ELSE [job EXCEPT ![j].worker = "running"]

WorkerReady(j) ==
  /\ job[j] # None /\ job[j].worker = "creating"
  /\ job' = WorkerCreated(j)
  /\ UNCHANGED <<side, field, locked, disabled, reviewed, handed>>

\* createWorker rejects: nothing is left of a run that was cancelled before.
WorkerFails(j) ==
  /\ job[j] # None /\ job[j].worker = "creating"
  /\ Finish(j)
  /\ UNCHANGED <<side, field, disabled, reviewed, handed>>

\* stopWorker, for a worker that has been created; the promise of another goes on.
Stopped(work) ==
  IF work.worker = "creating" THEN [work EXCEPT !.cancelled = TRUE, !.turn = FALSE] ELSE None

\* Slip: a recognition has no end of its own.
NeverStopped(j) == FALSE /\ j \in Jobs

\* The cancel button, the two minutes, an error of the worker.
Interrupt(j) ==
  /\ job[j] # None /\ job[j].kind = "text" /\ ~job[j].cancelled
  /\ locked' = (locked /\ ~job[j].turn)
  /\ job' = [job EXCEPT ![j] = Stopped(@)]
  /\ UNCHANGED <<side, field, disabled, reviewed, handed>>

\* The text: parseFrontOCR and parseBackOCR may find nothing in it.
TextArrives(j) ==
  /\ job[j] # None /\ job[j].worker = "running" /\ ~job[j].cancelled
  /\ IF Counts(j)
     THEN /\ side' = [side EXCEPT ![job[j].side].recognized = TRUE]
          /\ \E origin \in {None, job[j].image} : field' = [field EXCEPT ![job[j].side] = origin]
     ELSE UNCHANGED <<side, field>>
  /\ Finish(j)
  /\ UNCHANGED <<disabled, reviewed, handed>>

---------------------------------------------------------------------------
(* The form around it.                                                     *)

\* The effect of disabled: work loses its turn, a recognition is aborted, the lock freed.
Disable ==
  /\ ~disabled
  /\ disabled' = TRUE
  /\ locked' = FALSE
  /\ job' = [j \in Jobs |->
       IF job[j] = None THEN None
       ELSE IF job[j].kind = "text" /\ job[j].turn THEN Stopped(job[j])
       ELSE [job[j] EXCEPT !.turn = FALSE]]
  /\ UNCHANGED <<side, field, reviewed, handed>>

Enable ==
  /\ disabled
  /\ disabled' = FALSE
  /\ UNCHANGED <<side, field, job, locked, reviewed, handed>>

\* The applicant of the form changes.
ApplicantChanges ==
  /\ reviewed # None
  /\ reviewed' = None
  /\ UNCHANGED <<side, field, job, locked, disabled, handed>>

---------------------------------------------------------------------------
(* Candidates.                                                             *)

Shown == [s \in Sides |-> [image |-> side[s].image, origin |-> field[s]]]

\* checkIdentity: both sides recognized and nothing blank.
HasErrors == \E s \in Sides : ~side[s].recognized \/ field[s] = None

Type(s) ==
  /\ ~Immutable /\ field[s] # "typed"
  /\ \E t \in Sides : side[t].image # None
  /\ field' = [field EXCEPT ![s] = "typed"]
  /\ Invalidate
  /\ UNCHANGED <<side, job, locked, disabled, handed>>

Review ==
  /\ ~Immutable /\ ~HasErrors /\ reviewed = None
  /\ reviewed' = Shown
  /\ UNCHANGED <<side, field, job, locked, disabled, handed>>

\* canConfirm
Confirm ==
  /\ ~Immutable /\ ~HasErrors /\ reviewed # None
  /\ handed' = (Shown = reviewed)
  /\ UNCHANGED <<side, field, job, locked, disabled, reviewed>>

---------------------------------------------------------------------------
Next ==
  \/ \E s \in Sides, image \in Images, j \in Jobs : Load(s, image, j) \/ Rotate(s, image, j)
  \/ \E s \in Sides, j \in Jobs : Recognize(s, j)
  \/ \E s \in Sides : Remove(s) \/ Type(s)
  \/ \E j \in Jobs : \/ ImageReady(j) \/ ImageFails(j) \/ Interrupt(j)
                     \/ WorkerReady(j) \/ WorkerFails(j) \/ TextArrives(j)
  \/ Disable \/ Enable \/ ApplicantChanges \/ Review \/ Confirm

\* The two minutes come; a worker that is created or fails does so some day.
Settles ==
  \/ \E j \in Jobs : ImageReady(j) \/ ImageFails(j)
  \/ \E j \in Jobs : Interrupt(j) \/ TextArrives(j)

Spec == Init /\ [][Next]_vars /\ WF_vars(Settles)

---------------------------------------------------------------------------
(* Properties.                                                             *)

\* The lock is held by the work that has its turn, and by nothing else.
ReaderTypeOK ==
  /\ \A s \in Sides : /\ field[s] \in Images \cup {None, "typed"}
                      /\ side[s].recognized => side[s].image # None
  /\ locked <=> \E j \in Running : job[j].turn
  /\ Cardinality({j \in Running : job[j].turn}) <= 1
  /\ disabled => ~locked

\* A candidate that was not typed comes from the picture beside it, not from one that
\* was there before, though readings end late and out of turn.
CandidatesOfThePicture ==
  \A s \in Sides : field[s] \in Images => side[s].recognized /\ field[s] = side[s].image

\* What is handed to the application is what the applicant has ticked as compared, with
\* the pictures that were shown at that moment.
HandedAsReviewed == handed

\* No worker goes on reading a picture after the run was given up, and there is one
\* at most that reads.
NoStrayWorker ==
  /\ \A j \in Running : job[j].worker = "running" => ~job[j].cancelled /\ job[j].turn
  /\ Cardinality({j \in Running : job[j].worker = "running"}) <= 1

\* The component is free again some day, whatever hangs.
FreeAgain == locked ~> ~locked
=============================================================================

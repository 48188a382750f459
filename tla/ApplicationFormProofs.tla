------------------------ MODULE ApplicationFormProofs ------------------------
(***************************************************************************)
(* What ApplicationForm promises of submissions and receipts, for any      *)
(* number of mounts, cases, forms and files, and however many answers are  *)
(* lost, repeated or late.                                                 *)
(*                                                                         *)
(* A submission carries the version its own save was answered with: while  *)
(* the case is at that version its form is the one that was confirmed, and *)
(* afterwards the server refuses.  A key is used for one case only.        *)
(***************************************************************************)
EXTENDS ApplicationForm, TLAPS

---------------------------------------------------------------------------
(* Types.                                                                  *)

Operations ==
  {"load", "create", "open", "reload", "save", "saveAndLearn", "saveAndSubmit", "submit", "upload"}

Key == Mounts \X Nat

Page == [mounted : BOOLEAN, page : {"loading", "start", "form"}, drafts : SUBSET Cases,
         case : Cases \cup {None}, etag : Nat, draft : BOOLEAN, form : Forms, file : Files \cup {None},
         dirty : BOOLEAN, confirmed : BOOLEAN, error : BOOLEAN, pending : Attempt \cup {None},
         clicks : Nat, doing : Operations \cup {None}]

ReadRequest == [kind : {"read"}, mount : Mounts, live : BOOLEAN, case : Cases]
CreateRequest == [kind : {"create"}, mount : Mounts, live : BOOLEAN, key : Mounts \X {0}]
SaveRequest == [kind : {"save"}, mount : Mounts, live : BOOLEAN, case : Cases, etag : Nat, form : Forms]
UploadRequest == [kind : {"upload"}, mount : Mounts, live : BOOLEAN, case : Cases, file : Files]
SubmitRequest == [kind : {"submit"}, mount : Mounts, live : BOOLEAN, case : Cases, etag : Nat, key : Key,
                  file : Files]
Request == ReadRequest \cup CreateRequest \cup SaveRequest \cup UploadRequest \cup SubmitRequest

Record == [key : Key, case : Cases, row : Row]
Signature == [key : Key, form : Forms, file : Files]

Types ==
  /\ row \in [Cases -> Row]
  /\ records \in SUBSET Record
  /\ tab \in [Mounts -> Page]
  /\ wire \in SUBSET Request
  /\ signed \in SUBSET Signature

---------------------------------------------------------------------------
(* The invariant.                                                          *)

KindOf(op) ==
  CASE op \in {"load", "open", "reload"} -> "read"
    [] op = "create" -> "create"
    [] op \in {"save", "saveAndLearn", "saveAndSubmit"} -> "save"
    [] op = "submit" -> "submit"
    [] op = "upload" -> "upload"

\* A mount that can still act, and a key that its mount has used up.
Active(m) == tab[m].mounted \/ tab[m].doing # None
Spent(key) == Active(key[1]) => key[2] <= tab[key[1]].clicks

\* Is r the call that the page t waits for?
Awaited(r, t) ==
  /\ t.doing # None /\ r.kind = KindOf(t.doing)
  /\ r.kind = "save" => r.case = t.case /\ r.form = t.form
  /\ r.kind = "submit" => t.pending # None /\ r.case = t.case /\ r.key = t.pending.key

\* A page waits for one call at a time.
Waits ==
  /\ \A r \in wire : r.live => Awaited(r, tab[r.mount])
  /\ \A r, s \in wire : r.live /\ s.live /\ r.mount = s.mount => r = s

\* A page that shows a case has one, at a version the case has had.
ShowsAt(m) ==
  tab[m].page = "form" => tab[m].case \in Cases /\ tab[m].etag <= row[tab[m].case].version
Showing == \A m \in Mounts : ShowsAt(m)

\* If the case is still at the version of the submission p, its form is the confirmed one.
Vouched(c, p) ==
  /\ c \in Cases /\ p.key[2] > 0 /\ Spent(p.key)
  /\ p.etag <= row[c].version
  /\ p.etag = row[c].version => [key |-> p.key, form |-> row[c].form, file |-> p.file] \in signed

\* A page that saves before it submits has recorded the confirmed click.
ClickedAt(m) ==
  tab[m].doing = "saveAndSubmit" =>
    /\ tab[m].case \in Cases /\ tab[m].file \in Files /\ tab[m].pending = None
    /\ [key |-> NextKey(m), form |-> tab[m].form, file |-> tab[m].file] \in signed
Clicked == \A m \in Mounts : ClickedAt(m)

PendingAt(m) ==
  tab[m].pending # None =>
    tab[m].pending.key = <<m, tab[m].clicks>> /\ Vouched(tab[m].case, tab[m].pending)
Pending == \A m \in Mounts : PendingAt(m)

Sending == \A r \in wire : r.kind = "submit" => Vouched(r.case, r)

\* Who uses a key, and for which case.
Uses ==
  {<<r.key, r.case>> : r \in {s \in wire : s.kind = "submit"}}
    \cup {<<rec.key, rec.case>> : rec \in records}
    \cup {<<tab[m].pending.key, tab[m].case>> : m \in {n \in Mounts : tab[n].pending # None}}

OneCase == \A u, v \in Uses : u[1] = v[1] => u[2] = v[2]

Received ==
  \A c \in Cases : row[c].sub # None =>
    /\ row[c].status = "RECEIVED" /\ Spent(row[c].sub.key)
    /\ [key |-> row[c].sub.key, form |-> row[c].sub.form, file |-> row[c].sub.file] \in signed

\* A record answers with a row that the case has had; that of a submission with its receipt.
Recorded ==
  \A rec \in records :
    /\ Spent(rec.key)
    /\ rec.key[2] > 0 => row[rec.case].sub # None /\ row[rec.case].sub.key = rec.key
    /\ rec.row.version <= row[rec.case].version
    /\ rec.row.version = row[rec.case].version => rec.row.form = row[rec.case].form

\* CleanMeansSaved, also while the page waits.
CleanAt(m) ==
  tab[m].mounted /\ tab[m].page = "form" /\ ~tab[m].dirty /\ tab[m].etag = row[tab[m].case].version
    => tab[m].form = row[tab[m].case].form
Clean == \A m \in Mounts : CleanAt(m)

FormInv ==
  /\ Types /\ Waits /\ Showing /\ Clicked /\ Pending /\ Sending
  /\ OneCase /\ Received /\ Recorded /\ Clean

---------------------------------------------------------------------------
(* Pages: what each change of one leaves as it was.                        *)

\* The page u asks for nothing that t did not, and claims nothing that t did not.
Calmer(t, u) ==
  /\ u.mounted \/ u.doing # None => (t.mounted \/ t.doing # None) /\ u.clicks = t.clicks
  /\ u.page = "form" => t.page = "form" /\ u.case = t.case /\ u.etag = t.etag
  /\ u.mounted /\ u.page = "form" /\ ~u.dirty => t.mounted /\ ~t.dirty /\ u.form = t.form
  /\ u.pending # None => u.pending = t.pending /\ u.case = t.case /\ u.clicks = t.clicks
  /\ u.doing # None =>
       u.doing = t.doing /\ u.form = t.form /\ u.file = t.file /\ u.pending = t.pending /\ u.case = t.case
         /\ u.clicks = t.clicks

LEMMA FreshPage == Fresh \in Page /\ Ended \in Page /\ Ended.doing = None /\ ~Ended.mounted
BY FormAssumption DEF Fresh, Ended, Page

LEMMA EndedIsCalm ==
  ASSUME NEW t PROVE Calmer(t, Ended)
BY DEF Calmer, Fresh, Ended

LEMMA FailedPage ==
  ASSUME NEW t \in Page, NEW p \in {None, t.pending}
  PROVE  Failed(t, p) \in Page /\ Calmer(t, Failed(t, p)) /\ Failed(t, p).doing = None
<1>1. CASE ~t.mounted
  BY <1>1, FreshPage, EndedIsCalm DEF Failed
<1>2. CASE t.mounted
  <2> DEFINE u == [t EXCEPT !.pending = p, !.error = TRUE, !.doing = None,
                            !.page = IF t.page = "loading" THEN "start" ELSE t.page]
  <2>1. u \in Page
    BY DEF Page
  <2>2. Calmer(t, u)
    BY <1>2 DEF Calmer, Page
  <2>3. Failed(t, p) = u /\ u.doing = None
    BY <1>2 DEF Failed, Page
  <2>4. QED
    BY <2>1, <2>2, <2>3
<1>3. QED
  BY <1>1, <1>2 DEF Page

LEMMA StartedPage ==
  ASSUME NEW t \in Page, NEW op \in Operations
  PROVE  LET u == [t EXCEPT !.doing = op, !.error = FALSE] IN
         /\ u \in Page /\ u.doing = op
         /\ u.mounted = t.mounted /\ u.page = t.page /\ u.case = t.case /\ u.etag = t.etag /\ u.form = t.form
         /\ u.file = t.file /\ u.dirty = t.dirty /\ u.pending = t.pending /\ u.clicks = t.clicks
BY DEF Page

LEMMA AdoptedPage ==
  ASSUME NEW t \in Page, NEW c \in Cases, NEW body \in Row, NEW u \in Adopted(t, c, body)
  PROVE  /\ u \in Page /\ u.doing = None /\ u.mounted = t.mounted /\ u.clicks = t.clicks
         /\ u.page = "form" /\ u.case = c /\ u.etag = body.version /\ u.form = body.form /\ u.pending = None
<1>1. PICK x \in IF body.files = {} THEN {None} ELSE body.files :
        u = [t EXCEPT !.page = "form", !.case = c, !.etag = body.version, !.draft = body.status = "DRAFT",
                      !.form = body.form, !.file = x, !.dirty = FALSE, !.confirmed = FALSE,
                      !.pending = None, !.doing = None]
  BY DEF Adopted
<1> DEFINE version == body.version
           form == body.form
           draft == body.status = "DRAFT"
<1>2. x \in Files \cup {None} /\ version \in Nat /\ form \in Forms /\ draft \in BOOLEAN
  BY DEF Row
<1>3. u = [t EXCEPT !.page = "form", !.case = c, !.etag = version, !.draft = draft,
                    !.form = form, !.file = x, !.dirty = FALSE, !.confirmed = FALSE,
                    !.pending = None, !.doing = None]
  BY <1>1
<1>4. /\ u.doing = None /\ u.mounted = t.mounted /\ u.clicks = t.clicks /\ u.page = "form"
      /\ u.case = c /\ u.etag = version /\ u.form = form /\ u.pending = None
  <2> HIDE DEF version, form, draft
  <2>1. QED
    BY <1>3 DEF Page
<1>5. u \in Page
  <2> HIDE DEF version, form, draft
  <2>1. QED
    BY <1>2, <1>3 DEF Page
<1>6. QED
  BY <1>4, <1>5

LEMMA SavedPage ==
  ASSUME NEW t \in Page, NEW body \in Row
  PROVE  LET u == Saved(t, body) IN
         /\ u \in Page /\ u.doing = None /\ u.etag = body.version /\ u.mounted = t.mounted /\ u.page = t.page
         /\ u.case = t.case /\ u.form = t.form /\ u.file = t.file /\ u.pending = t.pending
         /\ u.clicks = t.clicks
BY DEF Saved, Page, Row

\* The page that sends the submission its save was for.
Sent(s, n, p) == [s EXCEPT !.clicks = n, !.pending = p, !.doing = "submit"]

LEMMA SentPage ==
  ASSUME NEW s \in Page, NEW n \in Nat, NEW p \in Attempt
  PROVE  LET u == Sent(s, n, p) IN
         /\ u \in Page /\ u.doing = "submit" /\ u.pending = p /\ u.clicks = n
         /\ u.etag = s.etag /\ u.mounted = s.mounted /\ u.page = s.page
         /\ u.case = s.case /\ u.form = s.form /\ u.file = s.file
<1> DEFINE u == Sent(s, n, p)
<1>1. u \in Page
  BY DEF Sent, Page, Operations
<1>2. /\ u.doing = "submit" /\ u.pending = p /\ u.clicks = n
      /\ u.etag = s.etag /\ u.mounted = s.mounted /\ u.page = s.page
  BY DEF Sent, Page
<1>3. u.case = s.case /\ u.form = s.form /\ u.file = s.file
  BY DEF Sent, Page
<1>4. QED
  BY <1>1, <1>2, <1>3

---------------------------------------------------------------------------
(* One step: what the server does, and what the page that waits does.      *)

\* What every step leaves true of the rows: the first submission stays.
RowStep(c) ==
  /\ row'[c].version >= row[c].version
  /\ row'[c].version = row[c].version => row'[c].form = row[c].form
  /\ row[c].sub # None => row'[c].sub = row[c].sub /\ row'[c].status = row[c].status
  /\ row'[c].sub # row[c].sub =>
       /\ row'[c].status = "RECEIVED" /\ Spent(row'[c].sub.key)
       /\ [key |-> row'[c].sub.key, form |-> row'[c].sub.form, file |-> row'[c].sub.file] \in signed

\* And of the records: a use of a key that is not an old one is `new`, and nobody has
\* used its key before.
NewRecord(rec, new) ==
  /\ Spent(rec.key) /\ rec.row = row'[rec.case]
  /\ rec.key[2] > 0 => row'[rec.case].sub # None /\ row'[rec.case].sub.key = rec.key
  /\ <<rec.key, rec.case>> \in Uses \/ (<<rec.key, rec.case>> = new /\ \A u \in Uses : u[1] # new[1])

ServerStep(new) ==
  /\ row' \in [Cases -> Row] /\ records' \in SUBSET Record
  /\ \A c \in Cases : RowStep(c)
  /\ \A rec \in records' : rec \in records \/ NewRecord(rec, new)

PageStep(m) ==
  /\ \A n \in Mounts : n # m => tab'[n] = tab[n]
  /\ Active(m)' => Active(m) /\ tab'[m].clicks >= tab[m].clicks

\* Only a click that is not counted yet is forgotten.
SignedStep(m) == \A s \in signed : s \in signed' \/ (s.key[1] = m /\ ~Spent(s.key))

Same(r, s) ==
  /\ r.kind = s.kind /\ r.mount = s.mount
  /\ r.kind = "submit" => r.case = s.case /\ r.key = s.key /\ r.etag = s.etag /\ r.file = s.file

WireStep(m) ==
  /\ \A r \in wire' : r.live /\ r.mount # m => r \in wire
  /\ \A r \in wire' : r.live /\ r.mount = m => Awaited(r, tab'[m])
  /\ \A r, s \in wire' : r.live /\ s.live /\ r.mount = m /\ s.mount = m => r = s
  /\ \A r \in wire' : r.kind = "submit" => (\E s \in wire : Same(r, s)) \/ Vouched(r.case, r)'

LEMMA SubmitFacts ==
  ASSUME Types, NEW r \in wire, r.kind = "submit"
  PROVE  r \in SubmitRequest /\ r.case \in Cases /\ r.key \in Key /\ r.etag \in Nat /\ r.file \in Files
BY DEF Types, Request, ReadRequest, CreateRequest, SaveRequest, UploadRequest, SubmitRequest

LEMMA SpentStays ==
  ASSUME Types, Types', NEW m \in Mounts, PageStep(m), NEW key \in Key, Spent(key)
  PROVE  Spent(key)'
<1>1. key[1] \in Mounts /\ key[2] \in Nat
  BY DEF Key
<1>2. tab[key[1]].clicks \in Nat /\ tab'[key[1]].clicks \in Nat
  BY <1>1 DEF Types, Page
<1>3. QED
  BY <1>1, <1>2 DEF PageStep, Spent, Active

LEMMA SignedStays ==
  ASSUME Types, NEW m \in Mounts, SignedStep(m), NEW s \in signed, Spent(s.key)
  PROVE  s \in signed'
BY DEF SignedStep

LEMMA VouchedStays ==
  ASSUME Types, Types', NEW m \in Mounts, PageStep(m), SignedStep(m), NEW new, ServerStep(new),
         NEW c, NEW p, p.key \in Key, p.etag \in Nat, Vouched(c, p)
  PROVE  Vouched(c, p)'
<1>1. c \in Cases /\ p.key[2] > 0 /\ Spent(p.key)'
  BY SpentStays DEF Vouched
<1>2. /\ p.etag <= row[c].version /\ row[c].version \in Nat /\ row'[c].version \in Nat
      /\ row'[c].version >= row[c].version
      /\ row'[c].version = row[c].version => row'[c].form = row[c].form
  BY <1>1 DEF Types, Row, Vouched, ServerStep, RowStep
<1>3. ASSUME p.etag = row'[c].version
      PROVE  [key |-> p.key, form |-> row'[c].form, file |-> p.file] \in signed'
  <2>1. p.etag = row[c].version /\ row'[c].form = row[c].form
    BY <1>2, <1>3
  <2> DEFINE s == [key |-> p.key, form |-> row[c].form, file |-> p.file]
  <2>2. s \in signed /\ Spent(s.key)
    BY <2>1 DEF Vouched
  <2>3. s \in signed'
    BY <2>2, SignedStays
  <2>4. QED
    BY <2>1, <2>3
<1>4. QED
  BY <1>1, <1>2, <1>3 DEF Vouched

LEMMA ServerInv ==
  ASSUME FormInv, Types', NEW m \in Mounts, PageStep(m), SignedStep(m), NEW new, ServerStep(new)
  PROVE  Received' /\ Recorded'
<1>1. Received'
  <2> SUFFICES ASSUME NEW c \in Cases, row'[c].sub # None
               PROVE  /\ row'[c].status = "RECEIVED" /\ Spent(row[c].sub.key)'
                      /\ [key |-> row'[c].sub.key, form |-> row'[c].sub.form, file |-> row'[c].sub.file] \in signed'
    BY DEF Received
  <2>1. PICK key \in Key : key = row'[c].sub.key
    BY DEF Types, Row, Submission, Key
  <2> DEFINE s == [key |-> key, form |-> row'[c].sub.form, file |-> row'[c].sub.file]
  <2>2. row'[c].status = "RECEIVED" /\ Spent(key) /\ s \in signed
    BY <2>1 DEF FormInv, Received, ServerStep, RowStep
  <2>3. Spent(key)' /\ s \in signed'
    BY <2>2, SpentStays, SignedStays DEF FormInv
  <2>4. QED
    BY <2>1, <2>2, <2>3
<1>2. Recorded'
  <2> SUFFICES ASSUME NEW rec \in records'
               PROVE  /\ Spent(rec.key)'
                      /\ rec.key[2] > 0 => row'[rec.case].sub # None /\ row'[rec.case].sub.key = rec.key
                      /\ rec.row.version <= row'[rec.case].version
                      /\ rec.row.version = row'[rec.case].version => rec.row.form = row'[rec.case].form
    BY DEF Recorded
  <2>1. /\ rec.key \in Key /\ rec.case \in Cases /\ rec.row.version \in Nat
        /\ row[rec.case].version \in Nat /\ row'[rec.case].version \in Nat
    BY DEF FormInv, Types, Record, Row
  <2>2. CASE rec \in records
    <3>1. Spent(rec.key)'
      BY <2>1, <2>2, SpentStays DEF FormInv, Recorded
    <3>2. RowStep(rec.case)
      BY <2>1 DEF ServerStep
    <3>3. QED
      BY <2>1, <2>2, <3>1, <3>2 DEF FormInv, Recorded, RowStep
  <2>3. CASE NewRecord(rec, new)
    <3>1. Spent(rec.key)'
      BY <2>1, <2>3, SpentStays DEF FormInv, NewRecord
    <3>2. QED
      BY <2>1, <2>3, <3>1 DEF NewRecord
  <2>4. QED
    BY <2>2, <2>3 DEF ServerStep
<1>3. QED
  BY <1>1, <1>2

\* A page that is calmer, or as it was, and whose click was not forgotten: no row that it
\* shows has gone back.
LEMMA CalmPage ==
  ASSUME FormInv, Types', NEW m \in Mounts, PageStep(m), SignedStep(m), NEW new, ServerStep(new),
         NEW n \in Mounts, Calmer(tab[n], tab'[n]),
         \A s \in signed : s.key = NextKey(n) => s \in signed'
  PROVE  ShowsAt(n)' /\ CleanAt(n)' /\ ClickedAt(n)' /\ PendingAt(n)'
<1> DEFINE t == tab[n]
           u == tab'[n]
<1>1. t \in Page /\ u \in Page
  BY DEF FormInv, Types
<1>2. ShowsAt(n)' /\ CleanAt(n)'
  <2>1. CASE u.page = "form"
    <3> DEFINE c == t.case
    <3>1. t.page = "form" /\ u.case = c /\ u.etag = t.etag
      BY <2>1 DEF Calmer
    <3>2. /\ c \in Cases /\ t.etag <= row[c].version
          /\ t.etag \in Nat /\ row[c].version \in Nat /\ row'[c].version \in Nat
      BY <3>1 DEF FormInv, Showing, ShowsAt, Types, Page, Row
    <3>3. RowStep(c)
      BY <3>2 DEF ServerStep
    <3>4. ShowsAt(n)'
      BY <3>1, <3>2, <3>3 DEF ShowsAt, RowStep
    <3>5. ASSUME u.mounted, ~u.dirty, u.etag = row'[c].version PROVE u.form = row'[c].form
      <4>1. t.mounted /\ ~t.dirty /\ u.form = t.form
        BY <2>1, <3>5 DEF Calmer
      <4>2. t.etag = row[c].version /\ row'[c].form = row[c].form
        BY <3>1, <3>2, <3>3, <3>5 DEF RowStep
      <4>3. QED
        BY <3>1, <4>1, <4>2 DEF FormInv, Clean, CleanAt
    <3>6. QED
      BY <3>1, <3>4, <3>5 DEF CleanAt
  <2>2. CASE u.page # "form"
    BY <2>2 DEF ShowsAt, CleanAt
  <2>3. QED
    BY <2>1, <2>2
<1>3. ClickedAt(n)'
  <2> SUFFICES ASSUME u.doing = "saveAndSubmit" PROVE ClickedAt(n)'
    BY DEF ClickedAt
  <2>1. /\ t.doing = "saveAndSubmit" /\ u.form = t.form /\ u.file = t.file /\ u.pending = t.pending
        /\ u.case = t.case /\ u.clicks = t.clicks
    BY FormAssumption DEF Calmer
  <2> DEFINE s == [key |-> NextKey(n), form |-> t.form, file |-> t.file]
  <2>2. s \in signed /\ s.key = NextKey(n)
    BY <2>1 DEF FormInv, Clicked, ClickedAt
  <2>3. s \in signed'
    BY <2>2
  <2>4. s = [key |-> NextKey(n), form |-> tab[n].form, file |-> tab[n].file]'
    BY <2>1 DEF NextKey
  <2>5. QED
    BY <2>1, <2>3, <2>4 DEF FormInv, Clicked, ClickedAt
<1>4. PendingAt(n)'
  <2> SUFFICES ASSUME u.pending # None PROVE PendingAt(n)'
    BY DEF PendingAt
  <2>1. u.pending = t.pending /\ u.case = t.case /\ u.clicks = t.clicks
    BY DEF Calmer
  <2>2. PICK c, p : c = t.case /\ p = t.pending
    OBVIOUS
  <2>3. p.key \in Key /\ p.etag \in Nat /\ Vouched(c, p)
    BY <1>1, <2>1, <2>2 DEF Page, Attempt, Key, FormInv, Pending, PendingAt
  <2>4. Vouched(c, p)'
    BY <2>3, VouchedStays DEF FormInv
  <2>5. QED
    BY <2>1, <2>2, <2>4 DEF FormInv, Pending, PendingAt
<1>5. QED
  BY <1>2, <1>3, <1>4

LEMMA SamePage ==
  ASSUME NEW t PROVE Calmer(t, t)
BY DEF Calmer

\* The other pages are as they were.
LEMMA MountsInv ==
  ASSUME FormInv, Types', NEW m \in Mounts, PageStep(m), SignedStep(m), NEW new, ServerStep(new),
         ShowsAt(m)', CleanAt(m)', ClickedAt(m)', PendingAt(m)'
  PROVE  Showing' /\ Clean' /\ Clicked' /\ Pending'
<1>1. ASSUME NEW n \in Mounts, n # m
      PROVE  ShowsAt(n)' /\ CleanAt(n)' /\ ClickedAt(n)' /\ PendingAt(n)'
  <2>1. Calmer(tab[n], tab'[n])
    BY <1>1, SamePage DEF PageStep
  <2>2. \A s \in signed : s.key = NextKey(n) => s \in signed'
    BY <1>1 DEF SignedStep, NextKey
  <2>3. QED
    BY <2>1, <2>2, CalmPage
<1>2. QED
  BY <1>1 DEF Showing, Clean, Clicked, Pending

LEMMA WireInv ==
  ASSUME FormInv, Types', NEW m \in Mounts, PageStep(m), SignedStep(m), NEW new, ServerStep(new), WireStep(m)
  PROVE  Waits' /\ Sending'
<1>1. Waits'
  <2>1. ASSUME NEW r \in wire', r.live PROVE Awaited(r, tab'[r.mount])
    <3>1. r.mount \in Mounts
      BY DEF Types, Request, ReadRequest, CreateRequest, SaveRequest, UploadRequest, SubmitRequest
    <3>2. CASE r.mount = m
      BY <2>1, <3>2 DEF WireStep
    <3>3. CASE r.mount # m
      BY <2>1, <3>1, <3>3 DEF WireStep, PageStep, FormInv, Waits
    <3>4. QED
      BY <3>2, <3>3
  <2>2. ASSUME NEW r \in wire', NEW s \in wire', r.live, s.live, r.mount = s.mount PROVE r = s
    BY <2>2 DEF WireStep, FormInv, Waits
  <2>3. QED
    BY <2>1, <2>2 DEF Waits, Awaited
<1>2. Sending'
  <2>1. ASSUME NEW r \in wire', r.kind = "submit", NEW s \in wire, Same(r, s) PROVE Vouched(r.case, r)'
    <3>1. /\ s.kind = "submit" /\ r.case = s.case /\ r.key = s.key /\ r.etag = s.etag /\ r.file = s.file
      BY <2>1 DEF Same
    <3>2. s.key \in Key /\ s.etag \in Nat
      BY <3>1, SubmitFacts DEF FormInv
    <3>3. Vouched(s.case, s)'
      BY <3>1, <3>2, VouchedStays DEF FormInv, Sending
    <3>4. QED
      BY <3>1, <3>3 DEF Vouched
  <2>2. QED
    BY <2>1 DEF Sending, WireStep
<1>3. QED
  BY <1>1, <1>2

LEMMA UsesFacts ==
  /\ \A r \in wire : r.kind = "submit" => <<r.key, r.case>> \in Uses
  /\ \A rec \in records : <<rec.key, rec.case>> \in Uses
  /\ \A m \in Mounts : tab[m].pending # None => <<tab[m].pending.key, tab[m].case>> \in Uses
BY DEF Uses

LEMMA UsesSpent ==
  ASSUME FormInv, NEW u \in Uses
  PROVE  u[1] \in Key /\ Spent(u[1])
<1>1. ASSUME NEW r \in wire, r.kind = "submit", u = <<r.key, r.case>> PROVE u[1] \in Key /\ Spent(u[1])
  BY <1>1, SubmitFacts DEF FormInv, Sending, Vouched
<1>2. ASSUME NEW rec \in records, u = <<rec.key, rec.case>> PROVE u[1] \in Key /\ Spent(u[1])
  BY <1>2 DEF FormInv, Recorded, Types, Record
<1>3. ASSUME NEW m \in Mounts, tab[m].pending # None, u = <<tab[m].pending.key, tab[m].case>>
      PROVE  u[1] \in Key /\ Spent(u[1])
  BY <1>3 DEF FormInv, Pending, PendingAt, Vouched, Types, Page, Attempt, Key
<1>4. QED
  BY <1>1, <1>2, <1>3 DEF Uses

\* What the page's step and the server's do to the uses of keys.
UseStep(m, new) ==
  LET old(u) == u \in Uses \/ (u = new /\ \A v \in Uses : v[1] # new[1]) IN
  /\ \A r \in wire' : r.kind = "submit" => old(<<r.key, r.case>>)
  /\ tab'[m].pending # None => old(<<tab'[m].pending.key, tab'[m].case>>)

LEMMA UsesInv ==
  ASSUME FormInv, NEW m \in Mounts, PageStep(m), NEW new, ServerStep(new), UseStep(m, new)
  PROVE  OneCase'
<1> DEFINE old(u) == u \in Uses \/ (u = new /\ \A v \in Uses : v[1] # new[1])
<1>1. ASSUME NEW u \in Uses' PROVE old(u)
  <2>1. ASSUME NEW r \in wire', r.kind = "submit", u = <<r.key, r.case>> PROVE old(u)
    BY <2>1 DEF UseStep
  <2>2. ASSUME NEW rec \in records', u = <<rec.key, rec.case>> PROVE old(u)
    BY <2>2, UsesFacts DEF ServerStep, NewRecord
  <2>3. ASSUME NEW n \in Mounts, tab'[n].pending # None, u = <<tab'[n].pending.key, tab'[n].case>> PROVE old(u)
    BY <2>3, UsesFacts DEF UseStep, PageStep
  <2>4. QED
    BY <2>1, <2>2, <2>3 DEF Uses
<1>2. QED
  BY <1>1 DEF FormInv, OneCase

LEMMA StepInv ==
  ASSUME FormInv, Types', NEW m \in Mounts, PageStep(m), SignedStep(m), NEW new, ServerStep(new),
         WireStep(m), UseStep(m, new), ShowsAt(m)', CleanAt(m)', ClickedAt(m)', PendingAt(m)'
  PROVE  FormInv'
BY ServerInv, MountsInv, WireInv, UsesInv DEF FormInv

LEMMA ServerRests ==
  ASSUME Types, UNCHANGED <<row, records>>, NEW new
  PROVE  ServerStep(new)
BY DEF Types, Row, ServerStep, RowStep

LEMMA OneChanges ==
  ASSUME Types, NEW m \in Mounts, NEW u \in Page, tab' = [tab EXCEPT ![m] = u]
  PROVE  tab' \in [Mounts -> Page] /\ tab'[m] = u /\ \A n \in Mounts : n # m => tab'[n] = tab[n]
BY DEF Types

\* The page m becomes a calmer one, and nothing new is sent.
LEMMA CalmInv ==
  ASSUME FormInv, NEW m \in Mounts, NEW new, ServerStep(new), UNCHANGED signed,
         NEW u \in Page, tab' = [tab EXCEPT ![m] = u], Calmer(tab[m], u),
         wire' \in SUBSET Request,
         \A r \in wire' : (\E s \in wire : Same(r, s)) /\ (r.live => r \in wire),
         \A r \in wire' : r.live /\ r.mount = m => u.doing # None
  PROVE  FormInv'
<1>1. tab' \in [Mounts -> Page] /\ tab'[m] = u /\ \A n \in Mounts : n # m => tab'[n] = tab[n]
  BY OneChanges DEF FormInv
<1>2. Types'
  BY <1>1 DEF Types, ServerStep, FormInv
<1>3. PageStep(m)
  <2>1. tab[m].clicks \in Nat
    BY DEF FormInv, Types, Page
  <2>2. QED
    BY <1>1, <2>1 DEF PageStep, Active, Calmer
<1>4. SignedStep(m)
  BY DEF SignedStep
<1>5. ShowsAt(m)' /\ CleanAt(m)' /\ ClickedAt(m)' /\ PendingAt(m)'
  BY <1>1, <1>2, <1>3, <1>4, CalmPage
<1>6. WireStep(m)
  <2>1. ASSUME NEW r \in wire', r.live, r.mount = m PROVE Awaited(r, u)
    BY <2>1 DEF FormInv, Waits, Awaited, Calmer
  <2>2. QED
    BY <1>1, <2>1 DEF WireStep, FormInv, Waits
<1>7. UseStep(m, new)
  BY <1>1, UsesFacts DEF UseStep, Calmer, Same
<1>8. QED
  BY <1>2, <1>3, <1>4, <1>5, <1>6, <1>7, StepInv

---------------------------------------------------------------------------
(* The page starts a call.                                                 *)

LEMMA StartInv ==
  ASSUME FormInv, NEW m \in Mounts, Idle(m), NEW op \in Operations, NEW r \in Request, r.live, r.mount = m,
         Start(m, op, r), signed' \in SUBSET Signature, SignedStep(m),
         r.kind = KindOf(op),
         r.kind = "save" => r.case = tab[m].case /\ r.form = tab[m].form,
         r.kind = "submit" =>
           /\ tab[m].pending # None /\ r.case = tab[m].case
           /\ r.key = tab[m].pending.key /\ r.etag = tab[m].pending.etag /\ r.file = tab[m].pending.file,
         op = "saveAndSubmit" =>
           /\ tab[m].case \in Cases /\ tab[m].file \in Files /\ tab[m].pending = None
           /\ [key |-> NextKey(m), form |-> tab[m].form, file |-> tab[m].file] \in signed'
  PROVE  FormInv'
<1> DEFINE t == tab[m]
           u == [t EXCEPT !.doing = op, !.error = FALSE]
<1>1. /\ u \in Page /\ u.doing = op
      /\ u.mounted = t.mounted /\ u.page = t.page /\ u.case = t.case /\ u.etag = t.etag /\ u.form = t.form
      /\ u.file = t.file /\ u.dirty = t.dirty /\ u.pending = t.pending /\ u.clicks = t.clicks
  <2>1. t \in Page
    BY DEF FormInv, Types
  <2>2. QED
    BY <2>1, StartedPage
<1>2. tab' = [tab EXCEPT ![m] = u] /\ wire' = wire \cup {r} /\ UNCHANGED <<row, records>>
  BY DEF Start
<1> HIDE DEF u
<1>3. tab' \in [Mounts -> Page] /\ tab'[m] = u /\ \A n \in Mounts : n # m => tab'[n] = tab[n]
  BY <1>1, <1>2, OneChanges DEF FormInv
<1>4. Types'
  BY <1>2, <1>3 DEF Types, FormInv
<1>5. op # None /\ t.doing = None /\ t.mounted
  BY FormAssumption DEF Operations, Idle
<1>6. PageStep(m) /\ ServerStep(None)
  <2>1. t.clicks \in Nat
    BY DEF FormInv, Types, Page
  <2>2. QED
    BY <1>1, <1>2, <1>3, <1>5, <2>1, ServerRests DEF PageStep, Active, FormInv
<1>7. ShowsAt(m)' /\ CleanAt(m)' /\ ClickedAt(m)'
  BY <1>1, <1>2, <1>3 DEF FormInv, Showing, ShowsAt, Clean, CleanAt, ClickedAt, NextKey
<1>8. t.pending # None =>
        /\ t.pending.key \in Key /\ t.pending.etag \in Nat
        /\ t.pending.key = <<m, t.clicks>> /\ Vouched(t.case, t.pending)
  BY DEF FormInv, Types, Page, Attempt, Key, Pending, PendingAt
<1>9. PendingAt(m)'
  <2> SUFFICES ASSUME t.pending # None PROVE PendingAt(m)'
    BY <1>1, <1>3 DEF PendingAt
  <2>1. PICK c, p : c = t.case /\ p = t.pending
    OBVIOUS
  <2>2. Vouched(c, p)'
    BY <1>4, <1>6, <1>8, <2>1, VouchedStays DEF FormInv
  <2>3. QED
    BY <1>1, <1>3, <1>8, <2>1, <2>2 DEF PendingAt
<1>10. WireStep(m)
  <2>1. \A q \in wire : q.live => q.mount # m
    BY <1>5 DEF FormInv, Waits, Awaited
  <2>2. Awaited(r, u)
    BY <1>1, <1>5 DEF Awaited
  <2>3. ASSUME r.kind = "submit" PROVE Vouched(r.case, r)'
    <3>1. r.key \in Key /\ r.etag \in Nat /\ Vouched(r.case, r)
      BY <1>8, <2>3 DEF Vouched
    <3>2. QED
      BY <1>4, <1>6, <3>1, VouchedStays DEF FormInv
  <2>4. \A q \in wire : Same(q, q)
    BY DEF Same
  <2>5. QED
    BY <1>2, <1>3, <2>1, <2>2, <2>3, <2>4 DEF WireStep
<1>11. UseStep(m, None)
  BY <1>1, <1>2, <1>3, UsesFacts DEF UseStep
<1>12. QED
  BY <1>4, <1>6, <1>7, <1>9, <1>10, <1>11, StepInv

---------------------------------------------------------------------------
(* The page gets an answer.                                                *)

\* It becomes a copy of a row the case has, or has had.
LEMMA AdoptInv ==
  ASSUME FormInv, NEW r \in wire, r.live, NEW new, ServerStep(new), UNCHANGED signed,
         NEW c \in Cases, NEW body \in Row, body.version <= row'[c].version,
         body.version = row'[c].version => body.form = row'[c].form,
         NEW u \in Adopted(tab[r.mount], c, body), tab' = [tab EXCEPT ![r.mount] = u], wire' = wire \ {r}
  PROVE  FormInv'
<1> DEFINE m == r.mount
           t == tab[m]
<1>1. m \in Mounts /\ t \in Page
  BY DEF FormInv, Types, Request, ReadRequest, CreateRequest, SaveRequest, UploadRequest, SubmitRequest
<1>2. /\ u \in Page /\ u.doing = None /\ u.mounted = t.mounted /\ u.clicks = t.clicks
      /\ u.page = "form" /\ u.case = c /\ u.etag = body.version /\ u.form = body.form /\ u.pending = None
  BY <1>1, AdoptedPage
<1>3. tab' \in [Mounts -> Page] /\ tab'[m] = u /\ \A n \in Mounts : n # m => tab'[n] = tab[n]
  BY <1>1, <1>2, OneChanges DEF FormInv
<1>4. Types'
  BY <1>3 DEF Types, ServerStep, FormInv
<1>5. PageStep(m) /\ SignedStep(m)
  <2>1. t.clicks \in Nat
    BY <1>1 DEF Page
  <2>2. QED
    BY <1>2, <1>3, <2>1 DEF PageStep, Active, SignedStep
<1>6. ShowsAt(m)' /\ CleanAt(m)' /\ ClickedAt(m)' /\ PendingAt(m)'
  BY <1>2, <1>3, FormAssumption DEF ShowsAt, CleanAt, ClickedAt, PendingAt
<1>7. WireStep(m)
  <2>1. \A q \in wire' : q \in wire /\ Same(q, q) /\ (q.live => q.mount # m)
    BY DEF FormInv, Waits, Same
  <2>2. QED
    BY <2>1 DEF WireStep
<1>8. UseStep(m, new)
  BY <1>2, <1>3, UsesFacts DEF UseStep
<1>9. QED
  BY <1>1, <1>4, <1>5, <1>6, <1>7, <1>8, StepInv

\* What a page that waits for its save knows.
LEMMA SaveFacts ==
  ASSUME FormInv, NEW r \in wire, r.live, r.kind = "save"
  PROVE  /\ r.mount \in Mounts /\ tab[r.mount] \in Page /\ r.case \in Cases /\ r.form \in Forms
         /\ tab[r.mount].doing # None /\ tab[r.mount].case = r.case /\ tab[r.mount].form = r.form
<1>1. r \in SaveRequest
  BY DEF FormInv, Types, Request, ReadRequest, CreateRequest, SaveRequest, UploadRequest, SubmitRequest
<1>2. QED
  BY <1>1 DEF FormInv, Types, SaveRequest, Waits, Awaited

\* Its save was answered with the row that was written.
LEMMA SavedInv ==
  ASSUME FormInv, NEW r \in wire, r.live, r.kind = "save", ServerStep(None), UNCHANGED signed,
         row'[r.case].form = r.form,
         tab' = [tab EXCEPT ![r.mount] = Saved(tab[r.mount], row'[r.case])], wire' = wire \ {r}
  PROVE  FormInv'
<1> DEFINE m == r.mount
           t == tab[m]
           body == row'[r.case]
           u == Saved(t, body)
<1>1. m \in Mounts /\ t \in Page /\ body \in Row /\ t.case = r.case /\ t.form = r.form /\ r.case \in Cases
  BY SaveFacts DEF ServerStep
<1>2. /\ u \in Page /\ u.doing = None /\ u.etag = body.version /\ u.mounted = t.mounted /\ u.page = t.page
      /\ u.case = t.case /\ u.form = t.form /\ u.file = t.file /\ u.pending = t.pending
      /\ u.clicks = t.clicks
  BY <1>1, SavedPage
<1>3. tab' \in [Mounts -> Page] /\ tab'[m] = u /\ \A n \in Mounts : n # m => tab'[n] = tab[n]
  BY <1>1, <1>2, OneChanges DEF FormInv
<1>4. Types'
  BY <1>3 DEF Types, ServerStep, FormInv
<1>5. PageStep(m) /\ SignedStep(m)
  <2>1. t.clicks \in Nat
    BY <1>1 DEF Page
  <2>2. QED
    BY <1>2, <1>3, <2>1 DEF PageStep, Active, SignedStep
<1> HIDE DEF u
<1>6. ShowsAt(m)' /\ CleanAt(m)' /\ ClickedAt(m)'
  <2>1. body.version \in Nat
    BY <1>1 DEF Row
  <2>2. QED
    BY <1>1, <1>2, <1>3, <2>1, FormAssumption DEF ShowsAt, CleanAt, ClickedAt
<1>7. PendingAt(m)'
  <2> SUFFICES ASSUME t.pending # None PROVE PendingAt(m)'
    BY <1>2, <1>3 DEF PendingAt
  <2>1. PICK c, p : c = t.case /\ p = t.pending
    OBVIOUS
  <2>2. p.key \in Key /\ p.etag \in Nat /\ p.key = <<m, t.clicks>> /\ Vouched(c, p)
    BY <1>1, <2>1 DEF Page, Attempt, Key, FormInv, Pending, PendingAt
  <2>3. Vouched(c, p)'
    BY <1>1, <1>4, <1>5, <2>2, VouchedStays DEF FormInv
  <2>4. QED
    BY <1>2, <1>3, <2>1, <2>2, <2>3 DEF PendingAt
<1>8. WireStep(m)
  <2>1. \A q \in wire' : q \in wire /\ Same(q, q) /\ (q.live => q.mount # m)
    BY DEF FormInv, Waits, Same
  <2>2. QED
    BY <2>1 DEF WireStep
<1>9. UseStep(m, None)
  BY <1>1, <1>2, <1>3, UsesFacts DEF UseStep
<1>10. QED
  BY <1>1, <1>4, <1>5, <1>6, <1>7, <1>8, <1>9, StepInv

\* And the submission is sent, under a key that nobody has used.
LEMMA SendInv ==
  ASSUME FormInv, NEW r \in wire, r.live, r.kind = "save", tab[r.mount].doing = "saveAndSubmit",
         ServerStep(None), UNCHANGED <<records, signed>>, row'[r.case].form = r.form,
         NEW u \in Page, u.doing = "submit", u.pending = Frozen(r.mount, row'[r.case]),
         LET t == tab[r.mount] IN
           /\ u.clicks = t.clicks + 1 /\ u.etag = row'[r.case].version
           /\ u.mounted = t.mounted /\ u.page = t.page /\ u.case = t.case /\ u.form = t.form /\ u.file = t.file,
         tab' = [tab EXCEPT ![r.mount] = u],
         wire' = (wire \ {r}) \cup {SubmitOf(r.mount, Frozen(r.mount, row'[r.case]))}
  PROVE  FormInv'
<1>0. PICK m, t, body, p, n, q, key, new :
        /\ m = r.mount /\ t = tab[m] /\ body = row'[r.case] /\ p = Frozen(m, body)
        /\ n = t.clicks + 1 /\ q = SubmitOf(m, p) /\ key = NextKey(m) /\ new = <<key, t.case>>
  OBVIOUS
<1>1. m \in Mounts /\ t \in Page /\ body \in Row /\ t.case = r.case /\ t.form = r.form /\ r.case \in Cases
  BY <1>0, SaveFacts DEF ServerStep
<1>2. /\ t.file \in Files /\ t.pending = None
      /\ [key |-> key, form |-> t.form, file |-> t.file] \in signed
  BY <1>0, <1>1 DEF FormInv, Clicked, ClickedAt
<1>3. /\ key \in Key /\ key = <<m, n>> /\ key[1] = m /\ key[2] = n /\ n > 0 /\ n \in Nat /\ n > t.clicks
      /\ t.clicks \in Nat
  BY <1>0, <1>1 DEF NextKey, Key, Page
<1>4. p \in Attempt /\ p.etag = body.version /\ p.key = key /\ p.file = t.file /\ body.version \in Nat
  BY <1>0, <1>1, <1>2, <1>3 DEF Frozen, Attempt, Row, Key
<1>5. /\ q \in SubmitRequest /\ q.kind = "submit" /\ q.mount = m /\ q.live /\ q.case = t.case
      /\ q.etag = p.etag /\ q.key = p.key /\ q.file = p.file
  BY <1>0, <1>1, <1>2, <1>3, <1>4 DEF SubmitOf, SubmitRequest
<1>6. tab' \in [Mounts -> Page] /\ tab'[m] = u /\ \A o \in Mounts : o # m => tab'[o] = tab[o]
  BY <1>0, <1>1, OneChanges DEF FormInv
<1>7. wire' = (wire \ {r}) \cup {q} /\ \A s \in wire \ {r} : Same(s, s) /\ (s.live => s.mount # m)
  BY <1>0 DEF FormInv, Waits, Same
<1>8. Types'
  BY <1>5, <1>6, <1>7 DEF Types, ServerStep, FormInv, Request
<1>9. PageStep(m) /\ SignedStep(m) /\ ServerStep(new)
  <2>1. Active(m)' => Active(m)
    BY <1>0, SaveFacts DEF Active
  <2>2. QED
    BY <1>0, <1>3, <1>6, <2>1 DEF PageStep, SignedStep, ServerStep
<1>10. ShowsAt(m)' /\ CleanAt(m)' /\ ClickedAt(m)'
  BY <1>0, <1>1, <1>4, <1>6 DEF ShowsAt, CleanAt, ClickedAt
<1>11. Vouched(t.case, p)'
  <2>1. tab'[key[1]].clicks = key[2]
    BY <1>0, <1>3, <1>6
  <2>2. Spent(p.key)'
    BY <1>3, <1>4, <2>1 DEF Spent
  <2>3. QED
    BY <1>0, <1>1, <1>2, <1>3, <1>4, <2>2 DEF Vouched
<1>12. PendingAt(m)'
  BY <1>0, <1>3, <1>4, <1>6, <1>11 DEF PendingAt
<1>13. WireStep(m)
  <2>1. Awaited(q, u)
    BY <1>0, <1>4, <1>5, FormAssumption DEF Awaited, KindOf
  <2>2. Vouched(q.case, q)'
    BY <1>5, <1>11 DEF Vouched
  <2>3. ASSUME NEW s \in wire' PROVE s \in wire \ {r} \/ s = q
    BY <1>7
  <2>4. \A s \in wire' : s.live /\ s.mount = m => s = q
    BY <1>7, <2>3
  <2>5. \A s \in wire' : s.kind = "submit" => (\E x \in wire : Same(s, x)) \/ Vouched(s.case, s)'
    BY <1>7, <2>2, <2>3
  <2>6. QED
    BY <1>5, <1>6, <2>1, <2>3, <2>4, <2>5 DEF WireStep
<1>14. UseStep(m, new)
  <2>1. \A v \in Uses : v[1] # key
    <3>1. Active(m)
      BY <1>0, SaveFacts DEF Active
    <3>2. QED
      BY <1>0, <1>3, <3>1, UsesSpent DEF Spent
  <2>2. \A s \in wire' : s.kind = "submit" => <<s.key, s.case>> \in Uses \/ <<s.key, s.case>> = new
    BY <1>0, <1>4, <1>5, <1>7, UsesFacts
  <2>3. <<u.pending.key, u.case>> = new
    BY <1>0, <1>4
  <2>4. QED
    BY <1>0, <1>6, <2>1, <2>2, <2>3 DEF UseStep
<1>15. QED
  BY <1>1, <1>8, <1>9, <1>10, <1>12, <1>13, <1>14, StepInv

\* Nobody waits for the answer.
LEMMA UnheardInv ==
  ASSUME FormInv, NEW r \in wire, ~r.live, NEW new, ServerStep(new), UNCHANGED <<tab, signed>>, wire' = wire \ {r}
  PROVE  FormInv'
<1>1. r.mount \in Mounts
  BY DEF FormInv, Types, Request, ReadRequest, CreateRequest, SaveRequest, UploadRequest, SubmitRequest
<1>2. PICK m, u : m = r.mount /\ u = tab[m]
  OBVIOUS
<1>3. m \in Mounts /\ u \in Page /\ tab' = [tab EXCEPT ![m] = u] /\ Calmer(tab[m], u)
  BY <1>1, <1>2, SamePage DEF FormInv, Types
<1>4. wire' \in SUBSET Request /\ \A q \in wire' : q \in wire /\ Same(q, q)
  BY DEF FormInv, Types, Same
<1>5. \A q \in wire' : q.live /\ q.mount = m => u.doing # None
  BY <1>2, <1>4 DEF FormInv, Waits, Awaited
<1>6. QED
  BY <1>3, <1>4, <1>5, CalmInv

\* The answer leaves the page a calmer one.
LEMMA HeardInv ==
  ASSUME FormInv, NEW r \in wire, r.live, NEW new, ServerStep(new), UNCHANGED signed,
         NEW u \in Page, Calmer(tab[r.mount], u), tab' = [tab EXCEPT ![r.mount] = u], wire' = wire \ {r}
  PROVE  FormInv'
<1>1. r.mount \in Mounts
  BY DEF FormInv, Types, Request, ReadRequest, CreateRequest, SaveRequest, UploadRequest, SubmitRequest
<1>2. wire' \in SUBSET Request /\ \A q \in wire' : q \in wire /\ Same(q, q) /\ (q.live => q.mount # r.mount)
  BY DEF FormInv, Types, Same, Waits
<1>3. QED
  BY <1>1, <1>2, CalmInv

LEMMA FailureInv ==
  ASSUME FormInv, NEW r \in wire, r.live, NEW new, ServerStep(new), UNCHANGED signed,
         Refusal(r.mount) \/ Broken(r.mount), wire' = wire \ {r}
  PROVE  FormInv'
<1>1. r.mount \in Mounts
  BY DEF FormInv, Types, Request, ReadRequest, CreateRequest, SaveRequest, UploadRequest, SubmitRequest
<1>2. PICK t, p : t = tab[r.mount] /\ p \in {None, t.pending} /\ tab' = [tab EXCEPT ![r.mount] = Failed(t, p)]
  BY DEF Refusal, Broken
<1>3. PICK u : u = Failed(t, p)
  OBVIOUS
<1>4. t \in Page
  BY <1>1, <1>2 DEF FormInv, Types
<1>5. u \in Page /\ Calmer(t, u)
  BY <1>2, <1>3, <1>4, FailedPage
<1>6. QED
  BY <1>2, <1>3, <1>5, HeardInv

LEMMA SuccessInv ==
  ASSUME FormInv, NEW r \in wire, r.kind # "upload", NEW new, ServerStep(new), UNCHANGED signed,
         NEW c \in Cases, NEW body \in Row, Success(r, c, body), body.version <= row'[c].version,
         body.version = row'[c].version => body.form = row'[c].form,
         r.kind = "save" => c = r.case /\ body = row'[c] /\ body.form = r.form /\ UNCHANGED records
  PROVE  FormInv'
<1>1. CASE ~r.live
  BY <1>1, UnheardInv DEF Success
<1>2. CASE r.live /\ Broken(r.mount) /\ wire' = wire \ {r}
  BY <1>2, FailureInv
<1>3. ASSUME r.live, NEW u \in Succeeded(r.mount, c, body), tab' = [tab EXCEPT ![r.mount] = u],
             wire' = (wire \ {r}) \cup
                       (IF tab[r.mount].doing = "saveAndSubmit"
                        THEN {SubmitOf(r.mount, Frozen(r.mount, body))} ELSE {})
      PROVE  FormInv'
  <2>0. PICK m, t : m = r.mount /\ t = tab[m]
    OBVIOUS
  <2>1. m \in Mounts /\ t \in Page /\ t.doing \in Operations /\ r.kind = KindOf(t.doing)
    <3>1. m \in Mounts
      BY <2>0 DEF FormInv, Types, Request, ReadRequest, CreateRequest, SaveRequest, UploadRequest, SubmitRequest
    <3>2. t \in Page /\ t.doing # None /\ r.kind = KindOf(t.doing)
      BY <1>3, <2>0, <3>1 DEF FormInv, Types, Waits, Awaited
    <3>3. QED
      BY <3>1, <3>2 DEF Page
  <2>2. CASE t.doing = "saveAndSubmit"
    <3>1. PICK p, n, saved : p = Frozen(m, body) /\ n = t.clicks + 1 /\ saved = Saved(t, body)
      OBVIOUS
    <3>2. u = Sent(saved, n, p)
      BY <2>0, <2>2, <3>1 DEF Succeeded, Sent
    <3>3. r.kind = "save" /\ c = r.case /\ body = row'[c] /\ body.form = r.form /\ UNCHANGED records
      BY <2>1, <2>2 DEF KindOf
    <3>4. p \in Attempt /\ n \in Nat
      <4>1. t.file \in Files
        BY <2>0, <2>1, <2>2 DEF FormInv, Clicked, ClickedAt
      <4>2. t.clicks \in Nat /\ body.version \in Nat
        BY <2>1 DEF Page, Row
      <4>3. QED
        BY <2>0, <2>1, <3>1, <4>1, <4>2 DEF Frozen, Attempt, NextKey
    <3>5. /\ saved \in Page /\ saved.etag = body.version /\ saved.mounted = t.mounted /\ saved.page = t.page
          /\ saved.case = t.case /\ saved.form = t.form /\ saved.file = t.file
      BY <2>1, <3>1, SavedPage
    <3>6. /\ u \in Page /\ u.doing = "submit" /\ u.pending = p /\ u.clicks = t.clicks + 1 /\ u.etag = body.version
          /\ u.mounted = t.mounted /\ u.page = t.page /\ u.case = t.case /\ u.form = t.form /\ u.file = t.file
      BY <3>1, <3>2, <3>4, <3>5, SentPage
    <3>7. ServerStep(None) /\ wire' = (wire \ {r}) \cup {SubmitOf(m, p)}
      BY <1>3, <2>0, <2>2, <3>1, <3>3 DEF ServerStep
    <3>8. r.live /\ UNCHANGED <<records, signed>> /\ row'[r.case].form = r.form
      BY <1>3, <3>3
    <3>9. QED
      BY <1>3, <2>0, <2>2, <3>1, <3>3, <3>6, <3>7, <3>8, SendInv
  <2>3. CASE t.doing # "saveAndSubmit"
    <3>0. wire' = wire \ {r}
      BY <1>3, <2>0, <2>3
    <3>1. CASE t.doing \in {"submit", "saveAndLearn"} \/ ~t.mounted
      <4>1. u = Ended
        BY <2>0, <2>3, <3>1 DEF Succeeded
      <4>2. QED
        BY <1>3, <2>0, <3>0, <4>1, FreshPage, EndedIsCalm, HeardInv
    <3>2. CASE t.mounted /\ t.doing \in {"load", "create", "open", "reload"}
      <4>1. u \in Adopted(t, c, body)
        BY <2>0, <3>2 DEF Succeeded
      <4>2. QED
        BY <1>3, <2>0, <3>0, <4>1, AdoptInv
    <3>3. CASE t.mounted /\ t.doing = "save"
      <4>1. u = Saved(t, body)
        BY <2>0, <3>3 DEF Succeeded
      <4>2. r.kind = "save" /\ c = r.case /\ body = row'[c] /\ body.form = r.form /\ UNCHANGED records
        BY <2>1, <3>3 DEF KindOf
      <4>3. ServerStep(None)
        BY <4>2 DEF ServerStep
      <4>4. QED
        BY <1>3, <2>0, <3>0, <4>1, <4>2, <4>3, SavedInv
    <3>4. t.doing # "upload"
      BY <2>1 DEF KindOf
    <3>5. QED
      BY <2>1, <2>3, <3>1, <3>2, <3>3, <3>4 DEF Operations, Page
  <2>4. QED
    BY <2>2, <2>3
<1>4. QED
  BY <1>1, <1>2, <1>3 DEF Success

---------------------------------------------------------------------------
(* What the server does.                                                   *)

LEMMA ReplayInv ==
  ASSUME FormInv, NEW r \in wire, r.kind # "upload", r.kind # "save", Replay(r), UNCHANGED signed
  PROVE  FormInv'
<1>1. PICK rec \in records : rec.key = r.key /\ Success(r, rec.case, rec.row)
  BY DEF Replay
<1>2. PICK c, body : c = rec.case /\ body = rec.row
  OBVIOUS
<1>3. /\ c \in Cases /\ body \in Row
      /\ body.version <= row[c].version /\ (body.version = row[c].version => body.form = row[c].form)
  BY <1>2 DEF FormInv, Types, Record, Recorded
<1>4. ServerStep(None) /\ UNCHANGED row
  BY ServerRests DEF Replay, FormInv
<1>5. Success(r, c, body)
  BY <1>1, <1>2
<1>6. QED
  BY <1>3, <1>4, <1>5, SuccessInv

LEMMA ReadInv ==
  ASSUME FormInv, NEW r \in wire, r.kind = "read", ServeRead(r), UNCHANGED signed
  PROVE  FormInv'
<1>1. r.case \in Cases
  BY DEF FormInv, Types, Request, ReadRequest, CreateRequest, SaveRequest, UploadRequest, SubmitRequest
<1>2. PICK c, body : c = r.case /\ body = row[c]
  OBVIOUS
<1>3. c \in Cases /\ body \in Row /\ body.version \in Nat
  BY <1>1, <1>2 DEF FormInv, Types, Row
<1>4. ServerStep(None) /\ row'[c] = row[c] /\ Success(r, c, body)
  BY <1>2, ServerRests DEF ServeRead, FormInv
<1>5. QED
  BY <1>2, <1>3, <1>4, SuccessInv

LEMMA RefuseInv ==
  ASSUME FormInv, NEW r \in wire, Refuse(r), UNCHANGED signed
  PROVE  FormInv'
<1>1. ServerStep(None)
  BY ServerRests DEF Refuse, FormInv
<1>2. QED
  BY <1>1, FailureInv, UnheardInv DEF Refuse

LEMMA RowChanges ==
  ASSUME Types, NEW c \in Cases, NEW b \in Row, row' = [row EXCEPT ![c] = b]
  PROVE  row' \in [Cases -> Row] /\ row'[c] = b /\ \A d \in Cases : d # c => row'[d] = row[d]
BY DEF Types

LEMMA CreateInv ==
  ASSUME FormInv, NEW r \in wire, r.kind = "create", ~Known(r), Create(r), UNCHANGED signed
  PROVE  FormInv'
<1>1. PICK c \in Cases :
        /\ row[c] = NoRow
        /\ row' = [row EXCEPT ![c] = [@ EXCEPT !.version = 1, !.status = "DRAFT"]]
        /\ Finish(r, c)
  BY DEF Create
<1>2. PICK body, new, rec :
        /\ body = [row[c] EXCEPT !.version = 1, !.status = "DRAFT"]
        /\ new = <<r.key, c>> /\ rec = [key |-> r.key, case |-> c, row |-> body]
  OBVIOUS
<1>3. r.key \in Mounts \X {0} /\ r.key \in Key /\ r.key[1] \in Mounts /\ r.key[2] = 0
  BY DEF FormInv, Types, Request, ReadRequest, CreateRequest, SaveRequest, UploadRequest, SubmitRequest, Key
<1>4. /\ body \in Row /\ body.version = 1 /\ body.form = row[c].form /\ body.sub = None /\ row[c].sub = None
      /\ row[c].version = 0
  <2>1. row[c] \in Row
    BY DEF FormInv, Types
  <2>2. row[c].sub = None /\ row[c].version = 0
    BY <1>1 DEF NoRow
  <2>3. QED
    BY <1>2, <2>1, <2>2 DEF Row
<1>5. row' \in [Cases -> Row] /\ row'[c] = body /\ \A d \in Cases : d # c => row'[d] = row[d]
  BY <1>1, <1>2, <1>4, RowChanges DEF FormInv
<1>6. \A d \in Cases : RowStep(d)
  BY <1>5, <1>4 DEF RowStep, FormInv, Types, Row
<1>7. NewRecord(rec, new)
  <2>1. Spent(r.key)
    BY <1>3 DEF Spent, FormInv, Types, Page
  <2>2. \A u \in Uses : u[1] # new[1]
    <3>1. ASSUME NEW s \in wire, s.kind = "submit" PROVE s.key # r.key
      <4>1. s.key[2] > 0
        BY <3>1 DEF FormInv, Sending, Vouched
      <4>2. QED
        BY <1>3, <4>1
    <3>2. \A s \in records : s.key # r.key
      BY DEF Known
    <3>3. ASSUME NEW m \in Mounts, tab[m].pending # None PROVE tab[m].pending.key # r.key
      <4>1. tab[m].pending.key[2] > 0
        BY <3>3 DEF FormInv, Pending, PendingAt, Vouched
      <4>2. QED
        BY <1>3, <4>1
    <3>4. QED
      BY <1>2, <3>1, <3>2, <3>3 DEF Uses
  <2>3. QED
    BY <1>2, <1>3, <1>4, <1>5, <2>1, <2>2 DEF NewRecord
<1>8. records' = records \cup {rec} /\ rec \in Record /\ Success(r, c, body)
  BY <1>1, <1>2, <1>3, <1>4, <1>5 DEF Finish, Record
<1>9. ServerStep(new)
  BY <1>6, <1>7, <1>8, <1>5 DEF ServerStep, FormInv, Types
<1>10. QED
  BY <1>4, <1>8, <1>9, <1>5, SuccessInv

LEMMA SaveInv ==
  ASSUME FormInv, NEW r \in wire, r.kind = "save", ServeSave(r), UNCHANGED signed
  PROVE  FormInv'
<1>1. r.case \in Cases /\ r.form \in Forms
  BY DEF FormInv, Types, Request, ReadRequest, CreateRequest, SaveRequest, UploadRequest, SubmitRequest
<1>2. CASE row[r.case].version = r.etag /\ row[r.case].status = "DRAFT"
  <2>1. PICK c, n, body : c = r.case /\ n = row[c].version + 1 /\ body = [row[c] EXCEPT !.version = n, !.form = r.form]
    OBVIOUS
  <2>2. row' = [row EXCEPT ![c] = body] /\ Success(r, c, row'[c]) /\ UNCHANGED records
    BY <1>2, <2>1 DEF ServeSave
  <2>3. row[c] \in Row /\ n \in Nat /\ row[c].version \in Nat /\ n > row[c].version
    BY <1>1, <2>1 DEF FormInv, Types, Row
  <2>4. /\ body \in Row /\ body.version = n /\ body.form = r.form
        /\ body.sub = row[c].sub /\ body.status = row[c].status
    BY <1>1, <2>1, <2>3 DEF Row
  <2>5. row' \in [Cases -> Row] /\ row'[c] = body /\ \A d \in Cases : d # c => row'[d] = row[d]
    BY <1>1, <2>1, <2>2, <2>4, RowChanges DEF FormInv
  <2>6. \A d \in Cases : RowStep(d)
    BY <2>3, <2>4, <2>5 DEF RowStep, FormInv, Types, Row
  <2>7. ServerStep(None)
    BY <2>2, <2>5, <2>6 DEF ServerStep, FormInv, Types
  <2>8. c \in Cases /\ body.version <= row'[c].version /\ Success(r, c, body)
    BY <1>1, <2>1, <2>2, <2>3, <2>4, <2>5
  <2>9. QED
    BY <2>1, <2>2, <2>4, <2>5, <2>7, <2>8, SuccessInv
<1>3. CASE ~(row[r.case].version = r.etag /\ row[r.case].status = "DRAFT")
  BY <1>3, RefuseInv DEF ServeSave
<1>4. QED
  BY <1>2, <1>3

\* The version is the one that the submission was vouched for: what is stored was confirmed.
LEMMA SubmitInv ==
  ASSUME FormInv, NEW r \in wire, r.kind = "submit", row[r.case].version = r.etag, row[r.case].status = "DRAFT",
         Submit(r), UNCHANGED signed
  PROVE  FormInv'
<1>1. r.case \in Cases /\ r.key \in Key /\ r.file \in Files
  BY SubmitFacts DEF FormInv
<1>2. PICK c, n, sub, body, rec :
        /\ c = r.case /\ n = row[c].version + 1
        /\ sub = [form |-> row[c].form, file |-> r.file, key |-> r.key]
        /\ body = [row[c] EXCEPT !.version = n, !.status = "RECEIVED", !.sub = sub]
        /\ rec = [key |-> r.key, case |-> c, row |-> body]
  OBVIOUS
<1>3. row' = [row EXCEPT ![c] = body] /\ Finish(r, c)
  BY <1>2 DEF Submit
<1>4. /\ row[c] \in Row /\ n \in Nat /\ row[c].version \in Nat /\ n > row[c].version
      /\ sub \in Submission /\ sub # None /\ sub.form = row[c].form /\ sub.file = r.file /\ sub.key = r.key
  BY <1>1, <1>2, FormAssumption DEF FormInv, Types, Row, Submission, Key
<1>5. /\ body \in Row /\ body.version = n /\ body.form = row[c].form
      /\ body.sub = sub /\ body.status = "RECEIVED"
  BY <1>2, <1>4 DEF Row
<1>6. row' \in [Cases -> Row] /\ row'[c] = body /\ \A d \in Cases : d # c => row'[d] = row[d]
  BY <1>1, <1>2, <1>3, <1>5, RowChanges DEF FormInv
<1>7. /\ Spent(r.key) /\ [key |-> r.key, form |-> row[c].form, file |-> r.file] \in signed
      /\ row[c].sub = None
  <2>1. Vouched(r.case, r)
    BY DEF FormInv, Sending
  <2>2. row[c].sub = None
    BY <1>1, <1>2 DEF FormInv, Received
  <2>3. QED
    BY <1>2, <2>1, <2>2 DEF Vouched
<1>8. \A d \in Cases : RowStep(d)
  <2>1. RowStep(c)
    BY <1>4, <1>5, <1>6, <1>7 DEF RowStep
  <2>2. ASSUME NEW d \in Cases, d # c PROVE RowStep(d)
    BY <1>6, <2>2 DEF RowStep, FormInv, Types, Row
  <2>3. QED
    BY <2>1, <2>2
<1>9. NewRecord(rec, None)
  <2>1. rec.key = r.key /\ rec.case = c /\ rec.row = row'[c] /\ row'[c].sub = sub
    BY <1>2, <1>5, <1>6
  <2>2. <<r.key, c>> \in Uses
    BY <1>2, UsesFacts
  <2>3. QED
    BY <1>4, <1>7, <2>1, <2>2 DEF NewRecord
<1>10. records' = records \cup {rec} /\ rec \in Record /\ Success(r, c, body)
  BY <1>1, <1>2, <1>3, <1>5, <1>6 DEF Finish, Record
<1>11. ServerStep(None)
  BY <1>6, <1>8, <1>9, <1>10 DEF ServerStep, FormInv, Types
<1>12. c \in Cases /\ body.version <= row'[c].version
  BY <1>1, <1>2, <1>4, <1>5, <1>6
<1>13. QED
  BY <1>5, <1>6, <1>10, <1>11, <1>12, SuccessInv

LEMMA UploadInv ==
  ASSUME FormInv, NEW r \in wire, r.kind = "upload", ServeUpload(r), UNCHANGED signed
  PROVE  FormInv'
<1>1. r.case \in Cases /\ r.file \in Files /\ r.mount \in Mounts
  BY DEF FormInv, Types, Request, ReadRequest, CreateRequest, SaveRequest, UploadRequest, SubmitRequest
<1>2. CASE row[r.case].status = "DRAFT"
  <2>1. PICK c, files : c = r.case /\ files = row[c].files \cup {r.file}
    OBVIOUS
  <2>2. row' = [row EXCEPT ![c] = [@ EXCEPT !.files = files]] /\ Uploaded(r) /\ UNCHANGED records
    BY <1>2, <2>1 DEF ServeUpload
  <2>3. files \in SUBSET Files
    BY <1>1, <2>1 DEF FormInv, Types, Row
  <2>4. /\ row' \in [Cases -> Row] /\ \A d \in Cases : d # c => row'[d] = row[d]
        /\ row'[c].version = row[c].version /\ row'[c].form = row[c].form
        /\ row'[c].sub = row[c].sub /\ row'[c].status = row[c].status
    BY <1>1, <2>1, <2>2, <2>3 DEF FormInv, Types, Row
  <2>5. \A d \in Cases : RowStep(d)
    BY <1>1, <2>1, <2>4 DEF RowStep, FormInv, Types, Row
  <2>6. ServerStep(None) /\ wire' = wire \ {r}
    BY <2>2, <2>4, <2>5 DEF ServerStep, FormInv, Types, Uploaded
  <2>7. CASE ~r.live
    BY <2>2, <2>6, <2>7, UnheardInv DEF Uploaded
  <2>8. CASE r.live /\ Broken(r.mount)
    BY <2>6, <2>8, FailureInv
  <2>9. ASSUME r.live,
               tab' = [tab EXCEPT ![r.mount] =
                       IF tab[r.mount].mounted
                       THEN [@ EXCEPT !.file = r.file, !.confirmed = FALSE, !.doing = None] ELSE Ended]
        PROVE  FormInv'
    <3>1. PICK t, u : /\ t = tab[r.mount] /\ tab' = [tab EXCEPT ![r.mount] = u]
                      /\ u = IF t.mounted THEN [t EXCEPT !.file = r.file, !.confirmed = FALSE, !.doing = None] ELSE Ended
      BY <2>9
    <3>2. t \in Page
      BY <1>1, <3>1 DEF FormInv, Types
    <3>3. u \in Page /\ Calmer(t, u)
      <4>1. CASE t.mounted
        BY <1>1, <3>1, <3>2, <4>1 DEF Page, Calmer
      <4>2. CASE ~t.mounted
        BY <3>1, <4>2, FreshPage, EndedIsCalm
      <4>3. QED
        BY <4>1, <4>2
    <3>4. QED
      BY <2>6, <2>9, <3>1, <3>3, HeardInv
  <2>10. QED
    BY <2>2, <2>7, <2>8, <2>9 DEF Uploaded
<1>3. CASE row[r.case].status # "DRAFT"
  BY <1>3, RefuseInv DEF ServeUpload
<1>4. QED
  BY <1>2, <1>3

LEMMA ServeInv ==
  ASSUME FormInv, Serve
  PROVE  FormInv'
<1>1. PICK r \in wire :
        /\ \/ r.kind = "create" /\ ServeCreate(r)
           \/ r.kind = "read" /\ ServeRead(r)
           \/ r.kind = "save" /\ ServeSave(r)
           \/ r.kind = "submit" /\ ServeSubmit(r)
           \/ r.kind = "upload" /\ ServeUpload(r)
        /\ UNCHANGED signed
  BY DEF Serve
<1>2. CASE r.kind = "create" /\ ServeCreate(r)
  BY <1>1, <1>2, ReplayInv, CreateInv DEF ServeCreate
<1>3. CASE r.kind = "submit" /\ ServeSubmit(r)
  BY <1>1, <1>3, ReplayInv, SubmitInv, RefuseInv DEF ServeSubmit
<1>4. QED
  BY <1>1, <1>2, <1>3, ReadInv, SaveInv, UploadInv

---------------------------------------------------------------------------
(* What the applicant does, and the network.                               *)

\* A page that does not call becomes a calmer one, or goes on waiting.
LEMMA QuietInv ==
  ASSUME FormInv, NEW m \in Mounts, NEW u \in Page, tab' = [tab EXCEPT ![m] = u], Calmer(tab[m], u),
         tab[m].doing # None => u.doing # None, UNCHANGED <<row, records, wire, signed>>
  PROVE  FormInv'
<1>1. ServerStep(None)
  BY ServerRests DEF FormInv
<1>2. wire' \in SUBSET Request /\ \A r \in wire' : r \in wire /\ Same(r, r)
  BY DEF FormInv, Types, Same
<1>3. \A r \in wire' : r.live /\ r.mount = m => u.doing # None
  BY <1>2 DEF FormInv, Waits, Awaited
<1>4. QED
  BY <1>1, <1>2, <1>3, CalmInv

LEMMA LoadListInv ==
  ASSUME FormInv, NEW m \in Mounts, LoadList(m)
  PROVE  FormInv'
<1>1. PICK drafts \in SUBSET Cases : tab' = [tab EXCEPT ![m] = [@ EXCEPT !.page = "start", !.drafts = drafts]]
  BY DEF LoadList
<1>2. PICK t, u : t = tab[m] /\ u = [t EXCEPT !.page = "start", !.drafts = drafts]
  OBVIOUS
<1>3. t \in Page
  BY <1>2 DEF FormInv, Types
<1>4. t.doing = None
  BY <1>2 DEF LoadList, Idle
<1>5. u \in Page /\ Calmer(t, u)
  <2>1. u \in Page
    BY <1>2, <1>3 DEF Page
  <2>2. Calmer(t, u)
    BY <1>2, <1>3, <1>4 DEF Page, Calmer
  <2>3. QED
    BY <2>1, <2>2
<1>6. tab' = [tab EXCEPT ![m] = u] /\ UNCHANGED <<row, records, wire, signed>>
  BY <1>1, <1>2 DEF LoadList
<1>7. QED
  BY <1>2, <1>4, <1>5, <1>6, QuietInv

LEMMA EditInv ==
  ASSUME FormInv, NEW m \in Mounts, NEW f \in Forms, Edit(m, f)
  PROVE  FormInv'
<1>1. PICK t, u : t = tab[m] /\ u = [t EXCEPT !.form = f, !.dirty = TRUE, !.confirmed = FALSE]
  OBVIOUS
<1>2. t \in Page
  BY <1>1 DEF FormInv, Types
<1>3. t.doing = None
  BY <1>1 DEF Edit, Locked
<1>4. u \in Page /\ Calmer(t, u)
  <2>1. u \in Page
    BY <1>1, <1>2 DEF Page
  <2>2. Calmer(t, u)
    BY <1>1, <1>2, <1>3 DEF Page, Calmer
  <2>3. QED
    BY <2>1, <2>2
<1>5. tab' = [tab EXCEPT ![m] = u] /\ UNCHANGED <<row, records, wire, signed>>
  BY <1>1 DEF Edit
<1>6. QED
  BY <1>1, <1>3, <1>4, <1>5, QuietInv

LEMMA ConfirmInv ==
  ASSUME FormInv, NEW m \in Mounts, Confirm(m)
  PROVE  FormInv'
<1>1. PICK t, u : t = tab[m] /\ u = [t EXCEPT !.confirmed = TRUE]
  OBVIOUS
<1>2. t \in Page
  BY <1>1 DEF FormInv, Types
<1>3. t.doing = None
  BY <1>1 DEF Confirm, Idle
<1>4. u \in Page /\ Calmer(t, u)
  <2>1. u \in Page
    BY <1>1, <1>2 DEF Page
  <2>2. Calmer(t, u)
    BY <1>1, <1>2, <1>3 DEF Page, Calmer
  <2>3. QED
    BY <2>1, <2>2
<1>5. tab' = [tab EXCEPT ![m] = u] /\ UNCHANGED <<row, records, wire, signed>>
  BY <1>1 DEF Confirm
<1>6. QED
  BY <1>1, <1>3, <1>4, <1>5, QuietInv

LEMMA LeaveInv ==
  ASSUME FormInv, NEW m \in Mounts, Leave(m)
  PROVE  FormInv'
<1>1. PICK t, u : /\ t = tab[m] /\ tab' = [tab EXCEPT ![m] = u]
                  /\ u = IF t.doing = None THEN Ended
                         ELSE [t EXCEPT !.mounted = FALSE, !.drafts = {}, !.dirty = FALSE, !.confirmed = FALSE]
  BY DEF Leave
<1>2. t \in Page
  BY <1>1 DEF FormInv, Types
<1>3. u \in Page /\ Calmer(t, u) /\ (t.doing # None => u.doing # None)
  <2>1. CASE t.doing = None
    BY <1>1, <2>1, FreshPage, EndedIsCalm
  <2>2. CASE t.doing # None
    BY <1>1, <1>2, <2>2 DEF Page, Calmer
  <2>3. QED
    BY <2>1, <2>2
<1>4. UNCHANGED <<row, records, wire, signed>>
  BY DEF Leave
<1>5. QED
  BY <1>1, <1>3, <1>4, QuietInv

LEMMA BreakInv ==
  ASSUME FormInv, NEW m \in Mounts, Break(m)
  PROVE  FormInv'
<1>1. PICK r \in wire :
        /\ r.mount = m /\ r.live
        /\ \/ wire' = wire \ {r}
           \/ r.kind # "read" /\ wire' = (wire \ {r}) \cup {[r EXCEPT !.live = FALSE]}
  BY DEF Break
<1>2. Broken(m) /\ UNCHANGED <<row, records, signed>> /\ ServerStep(None)
  BY ServerRests DEF Break, FormInv
<1>3. CASE wire' = wire \ {r}
  BY <1>1, <1>2, <1>3, FailureInv
<1>4. CASE r.kind # "read" /\ wire' = (wire \ {r}) \cup {[r EXCEPT !.live = FALSE]}
  <2>1. PICK late : late = [r EXCEPT !.live = FALSE]
    OBVIOUS
  <2>2. late \in Request /\ ~late.live /\ Same(late, r)
    <3>1. CASE r \in ReadRequest
      BY <1>4, <3>1 DEF ReadRequest
    <3>2. CASE r \in CreateRequest
      BY <2>1, <3>2 DEF Request, CreateRequest, Same
    <3>3. CASE r \in SaveRequest
      BY <2>1, <3>3 DEF Request, SaveRequest, Same
    <3>4. CASE r \in UploadRequest
      BY <2>1, <3>4 DEF Request, UploadRequest, Same
    <3>5. CASE r \in SubmitRequest
      BY <2>1, <3>5 DEF Request, SubmitRequest, Same
    <3>6. QED
      BY <3>1, <3>2, <3>3, <3>4, <3>5 DEF FormInv, Types, Request
  <2>3. PICK t, u : t = tab[m] /\ u = Failed(t, t.pending)
    OBVIOUS
  <2>4. t \in Page /\ tab' = [tab EXCEPT ![m] = u]
    BY <1>2, <2>3 DEF FormInv, Types, Broken
  <2>5. u \in Page /\ Calmer(t, u)
    BY <2>3, <2>4, FailedPage
  <2>6. \A q \in wire \ {r} : Same(q, q) /\ (q.live => q.mount # m)
    BY <1>1 DEF FormInv, Waits, Same
  <2>7. wire' \in SUBSET Request
    BY <1>4, <2>1, <2>2 DEF FormInv, Types
  <2>8. /\ \A q \in wire' : (\E s \in wire : Same(q, s)) /\ (q.live => q \in wire)
        /\ \A q \in wire' : q.live => q.mount # m
    BY <1>4, <2>1, <2>2, <2>6
  <2>9. QED
    BY <1>2, <2>3, <2>4, <2>5, <2>7, <2>8, CalmInv
<1>5. QED
  BY <1>1, <1>3, <1>4

\* A page that shows a draft has the case and what it wants to save of it.
LEMMA EditingFacts ==
  ASSUME FormInv, NEW m \in Mounts, Editing(m)
  PROVE  tab[m] \in Page /\ tab[m].case \in Cases /\ tab[m].etag \in Nat /\ tab[m].form \in Forms
BY DEF FormInv, Types, Page, Editing, Showing, ShowsAt

LEMMA SaveOfIsRequest ==
  ASSUME FormInv, NEW m \in Mounts, Editing(m)
  PROVE  /\ SaveOf(m) \in Request /\ SaveOf(m).kind = "save" /\ SaveOf(m).live /\ SaveOf(m).mount = m
         /\ SaveOf(m).case = tab[m].case /\ SaveOf(m).form = tab[m].form
BY EditingFacts DEF SaveOf, Request, SaveRequest

LEMMA ReadStartInv ==
  ASSUME FormInv, NEW m \in Mounts, Idle(m), NEW op \in {"load", "open", "reload"}, NEW c \in Cases,
         Start(m, op, ReadOf(m, c)), UNCHANGED signed
  PROVE  FormInv'
<1>1. PICK r : r = ReadOf(m, c)
  OBVIOUS
<1>2. r \in Request /\ r.kind = "read" /\ r.live /\ r.mount = m
  BY <1>1 DEF ReadOf, Request, ReadRequest
<1>3. op \in Operations /\ op # "saveAndSubmit" /\ KindOf(op) = "read"
  BY DEF Operations, KindOf
<1>4. signed' \in SUBSET Signature /\ SignedStep(m)
  BY DEF FormInv, Types, SignedStep
<1>5. QED
  BY <1>1, <1>2, <1>3, <1>4, StartInv

LEMMA NewApplicationInv ==
  ASSUME FormInv, NEW m \in Mounts, NewApplication(m)
  PROVE  FormInv'
<1>1. PICK r : r = CreateOf(m)
  OBVIOUS
<1>2. r \in Request /\ r.kind = "create" /\ r.live /\ r.mount = m
  BY <1>1 DEF CreateOf, Request, CreateRequest
<1>3. "create" \in Operations /\ KindOf("create") = "create"
  BY DEF Operations, KindOf
<1>4. signed' \in SUBSET Signature /\ SignedStep(m)
  BY DEF FormInv, Types, SignedStep, NewApplication
<1>5. QED
  BY <1>1, <1>2, <1>3, <1>4, StartInv DEF NewApplication

LEMMA UploadStartInv ==
  ASSUME FormInv, NEW m \in Mounts, NEW x \in Files, Upload(m, x)
  PROVE  FormInv'
<1>1. PICK r : r = UploadOf(m, x)
  OBVIOUS
<1>2. Editing(m) /\ Idle(m) /\ Start(m, "upload", r) /\ UNCHANGED signed
  BY <1>1 DEF Upload, Editing, Locked, Idle
<1>3. r \in Request /\ r.kind = "upload" /\ r.live /\ r.mount = m
  BY <1>1, <1>2, EditingFacts DEF UploadOf, Request, UploadRequest
<1>4. "upload" \in Operations /\ KindOf("upload") = "upload"
  BY DEF Operations, KindOf
<1>5. signed' \in SUBSET Signature /\ SignedStep(m)
  BY <1>2 DEF FormInv, Types, SignedStep
<1>6. QED
  BY <1>2, <1>3, <1>4, <1>5, StartInv

LEMMA SaveStartInv ==
  ASSUME FormInv, NEW m \in Mounts, SaveDraft(m) \/ SaveAndLearn(m)
  PROVE  FormInv'
<1>1. PICK op, r : op \in {"save", "saveAndLearn"} /\ r = SaveOf(m) /\ Start(m, op, r)
  BY DEF SaveDraft, SaveAndLearn
<1>2. Editing(m) /\ Idle(m) /\ UNCHANGED signed
  BY DEF SaveDraft, SaveAndLearn
<1>3. /\ r \in Request /\ r.kind = "save" /\ r.live /\ r.mount = m
      /\ r.case = tab[m].case /\ r.form = tab[m].form
  BY <1>1, <1>2, SaveOfIsRequest
<1>4. op \in Operations /\ op # "saveAndSubmit" /\ KindOf(op) = "save"
  BY <1>1 DEF Operations, KindOf
<1>5. signed' \in SUBSET Signature /\ SignedStep(m)
  BY <1>2 DEF FormInv, Types, SignedStep
<1>6. QED
  BY <1>1, <1>2, <1>3, <1>4, <1>5, StartInv

\* The click is recorded under a key that nobody has used.
LEMMA ClickSubmitInv ==
  ASSUME FormInv, NEW m \in Mounts, ClickSubmit(m)
  PROVE  FormInv'
<1>1. PICK r, t, key, click :
        /\ r = SaveOf(m) /\ t = tab[m] /\ key = NextKey(m)
        /\ click = [key |-> key, form |-> t.form, file |-> t.file]
  OBVIOUS
<1>2. /\ Editing(m) /\ Idle(m) /\ t.file # None /\ t.pending = None /\ Start(m, "saveAndSubmit", r)
      /\ signed' = {s \in signed : s.key # key} \cup {click}
  BY <1>1 DEF ClickSubmit, SubmitOffered
<1>3. /\ r \in Request /\ r.kind = "save" /\ r.live /\ r.mount = m /\ r.case = t.case /\ r.form = t.form
  BY <1>1, <1>2, SaveOfIsRequest
<1>4. t \in Page /\ t.case \in Cases /\ t.form \in Forms /\ t.file \in Files /\ t.clicks \in Nat
  BY <1>1, <1>2, EditingFacts DEF Page
<1>5. key \in Key /\ key[1] = m /\ key[2] = t.clicks + 1 /\ click \in Signature
  BY <1>1, <1>4 DEF NextKey, Key, Signature
<1>6. ~Spent(key)
  BY <1>1, <1>2, <1>4, <1>5 DEF Spent, Active, Idle
<1>7. SignedStep(m)
  BY <1>2, <1>5, <1>6 DEF SignedStep
<1>8. signed' \in SUBSET Signature /\ click \in signed'
  BY <1>2, <1>5 DEF FormInv, Types
<1>9. "saveAndSubmit" \in Operations /\ KindOf("saveAndSubmit") = "save"
  BY DEF Operations, KindOf
<1>10. QED
  BY <1>1, <1>2, <1>3, <1>4, <1>7, <1>8, <1>9, StartInv

LEMMA RetryInv ==
  ASSUME FormInv, NEW m \in Mounts, Retry(m)
  PROVE  FormInv'
<1>1. PICK t, p, r : t = tab[m] /\ p = t.pending /\ r = SubmitOf(m, p)
  OBVIOUS
<1>2. Editing(m) /\ Idle(m) /\ p # None /\ Start(m, "submit", r) /\ UNCHANGED signed
  BY <1>1 DEF Retry, SubmitOffered
<1>3. p.etag \in Nat /\ p.key \in Key /\ p.file \in Files
  BY <1>1, <1>2, EditingFacts DEF Page, Attempt, Key
<1>4. /\ r \in Request /\ r.kind = "submit" /\ r.live /\ r.mount = m /\ r.case = t.case
      /\ r.key = p.key /\ r.etag = p.etag /\ r.file = p.file
  BY <1>1, <1>2, <1>3, EditingFacts DEF SubmitOf, Request, SubmitRequest
<1>5. "submit" \in Operations /\ KindOf("submit") = "submit"
  BY DEF Operations, KindOf
<1>6. signed' \in SUBSET Signature /\ SignedStep(m)
  BY <1>2 DEF FormInv, Types, SignedStep
<1>7. /\ tab[m].pending # None /\ r.case = tab[m].case
      /\ r.key = tab[m].pending.key /\ r.etag = tab[m].pending.etag /\ r.file = tab[m].pending.file
  BY <1>1, <1>2, <1>4
<1>8. QED
  BY <1>2, <1>4, <1>5, <1>6, <1>7, StartInv

---------------------------------------------------------------------------
(* The invariant.                                                          *)

LEMMA InitInv == Init => FormInv
<1> SUFFICES ASSUME Init PROVE FormInv
  OBVIOUS
<1>1. \A c \in Cases : row[c] \in Row /\ row[c].sub = None
  <2>1. NoRow \in Row /\ NoRow.sub = None
    BY FormAssumption DEF NoRow, Row
  <2>2. [NoRow EXCEPT !.version = 1, !.status = "DRAFT", !.files = Files] \in Row
    BY <2>1 DEF Row
  <2>3. [NoRow EXCEPT !.version = 1, !.status = "DRAFT", !.files = Files].sub = None
    BY DEF NoRow
  <2>4. QED
    BY <2>1, <2>2, <2>3 DEF Init
<1>2. row \in [Cases -> Row]
  BY <1>1 DEF Init
<1>3. \A m \in Mounts : tab[m] = Fresh
  BY DEF Init
<1>4. Fresh.page = "loading" /\ Fresh.doing = None /\ Fresh.pending = None
  BY DEF Fresh
<1>5. Types
  BY <1>2, FreshPage DEF Init, Types
<1>6. Waits /\ Sending /\ Recorded
  BY DEF Init, Waits, Sending, Recorded
<1>7. Showing /\ Clean /\ Clicked /\ Pending
  BY <1>3, <1>4, FormAssumption DEF Showing, ShowsAt, Clean, CleanAt, Clicked, ClickedAt, Pending, PendingAt
<1>8. OneCase
  BY <1>3, <1>4 DEF Init, OneCase, Uses
<1>9. Received
  BY <1>1 DEF Received
<1>10. QED
  BY <1>5, <1>6, <1>7, <1>8, <1>9 DEF FormInv

LEMMA NextInv == FormInv /\ [Next]_vars => FormInv'
<1> SUFFICES ASSUME FormInv, [Next]_vars PROVE FormInv'
  OBVIOUS
<1>1. CASE Serve
  BY <1>1, ServeInv
<1>2. ASSUME NEW m \in Mounts, NEW c \in Cases, LoadCase(m, c) \/ OpenDraft(m, c) PROVE FormInv'
  BY <1>2, ReadStartInv DEF LoadCase, OpenDraft
<1>3. ASSUME NEW m \in Mounts, Reload(m) PROVE FormInv'
  BY <1>3, EditingFacts, ReadStartInv DEF Reload
<1>4. CASE UNCHANGED vars
  <2>1. /\ Types' = Types /\ Waits' = Waits /\ Showing' = Showing /\ Clicked' = Clicked /\ Pending' = Pending
        /\ Sending' = Sending
    BY <1>4 DEF vars, Types, Waits, Showing, ShowsAt, Clicked, ClickedAt, NextKey, Pending, PendingAt, Sending,
                Vouched, Spent, Active
  <2>2. OneCase' = OneCase /\ Received' = Received /\ Recorded' = Recorded /\ Clean' = Clean
    BY <1>4 DEF vars, OneCase, Uses, Received, Recorded, Clean, CleanAt, Spent, Active
  <2>3. QED
    BY <2>1, <2>2 DEF FormInv
<1>5. QED
  BY <1>1, <1>2, <1>3, <1>4, LoadListInv, NewApplicationInv, SaveStartInv, ConfirmInv, ClickSubmitInv, RetryInv,
     UploadStartInv, EditInv, BreakInv, LeaveInv DEF Next

THEOREM FormInvariant == Spec => []FormInv
BY InitInv, NextInv, PTL DEF Spec

---------------------------------------------------------------------------
(* What follows.                                                           *)

LEMMA FormPromises == FormInv => SubmittedAsConfirmed /\ CleanMeansSaved /\ OneCasePerVisit
<1>1. FormInv => SubmittedAsConfirmed
  BY DEF FormInv, Received, SubmittedAsConfirmed
<1>2. FormInv => CleanMeansSaved
  BY DEF FormInv, Clean, CleanAt, CleanMeansSaved, Editing
<1>3. FormInv => OneCasePerVisit
  <2> SUFFICES ASSUME FormInv, NEW r \in records, NEW s \in records, r.key = s.key PROVE r.case = s.case
    BY DEF OneCasePerVisit
  <2>1. <<r.key, r.case>> \in Uses /\ <<s.key, s.case>> \in Uses
    BY UsesFacts
  <2>2. QED
    BY <2>1 DEF FormInv, OneCase
<1>4. QED
  BY <1>1, <1>2, <1>3

LEMMA FormTyped == FormInv => FormTypeOK
BY DEF FormInv, Types, Record, Key, Pending, PendingAt, FormTypeOK, Page, Attempt

\* The tables and the pending operation hold what they should.
THEOREM FormTypeCorrect == Spec => []FormTypeOK
BY FormTyped, FormInvariant, PTL

\* Whatever two tabs, late requests and repeated ones do: what is stored as submitted is
\* what was on the page at the confirmed click whose key the submission carries.
THEOREM SubmissionsAreConfirmed == Spec => []SubmittedAsConfirmed
BY FormPromises, FormInvariant, PTL

\* A page without unsaved changes and at the current version shows what is stored.
THEOREM CleanPagesAreSaved == Spec => []CleanMeansSaved
BY FormPromises, FormInvariant, PTL

\* Records of one key are of one case.
THEOREM VisitsMakeOneCase == Spec => []OneCasePerVisit
BY FormPromises, FormInvariant, PTL

---------------------------------------------------------------------------
(* A page leaves for the receipt.                                          *)

\* The answer to r changes the page that waits for it, and no other.
Answers(r) == IF r.live THEN \E u : tab' = [tab EXCEPT ![r.mount] = u] ELSE UNCHANGED tab

LEMMA SuccessAnswers ==
  ASSUME NEW r, NEW c, NEW body, Success(r, c, body)
  PROVE  Answers(r)
BY DEF Success, Broken, Answers

LEMMA RefusalAnswers ==
  ASSUME NEW r, Refuse(r)
  PROVE  Answers(r)
BY DEF Refuse, Refusal, Broken, Answers

LEMMA ServeAnswers ==
  ASSUME NEW r, ServeCreate(r) \/ ServeRead(r) \/ ServeSave(r) \/ ServeSubmit(r) \/ ServeUpload(r)
  PROVE  Answers(r)
<1>1. CASE Replay(r) \/ ServeRead(r)
  BY <1>1, SuccessAnswers DEF Replay, ServeRead
<1>2. CASE Create(r)
  <2>1. PICK c \in Cases :
          /\ row[c] = NoRow
          /\ row' = [row EXCEPT ![c] = [@ EXCEPT !.version = 1, !.status = "DRAFT"]]
          /\ Finish(r, c)
    BY <1>2 DEF Create
  <2>2. PICK body : body = row'[c]
    OBVIOUS
  <2>3. QED
    BY <2>1, <2>2, SuccessAnswers DEF Finish
<1>3. CASE Submit(r)
  <2>1. PICK c, body : c = r.case /\ body = row'[c]
    OBVIOUS
  <2>2. Finish(r, c)
    BY <1>3, <2>1 DEF Submit
  <2>3. QED
    BY <2>1, <2>2, SuccessAnswers DEF Finish
<1>4. CASE ServeSave(r)
  <2>1. PICK body : Refuse(r) \/ Success(r, r.case, body)
    BY <1>4 DEF ServeSave
  <2>2. QED
    BY <2>1, SuccessAnswers, RefusalAnswers
<1>5. CASE ServeUpload(r)
  BY <1>5, RefusalAnswers DEF ServeUpload, Uploaded, Broken, Answers
<1>6. QED
  BY <1>1, <1>2, <1>3, <1>4, <1>5, RefusalAnswers DEF ServeCreate, ServeSubmit

\* An error leaves a mounted page where it is.
LEMMA FailureStays ==
  ASSUME FormInv, NEW m \in Mounts, tab[m].mounted, NEW n \in Mounts, Refusal(n) \/ Broken(n)
  PROVE  tab'[m].mounted
<1>1. PICK t, p, u : /\ t = tab[n] /\ p \in {None, t.pending} /\ u = Failed(t, p)
                     /\ tab' = [tab EXCEPT ![n] = u]
  BY DEF Refusal, Broken
<1>2. t \in Page
  BY <1>1 DEF FormInv, Types
<1>3. t.mounted => u.mounted
  BY <1>1, <1>2 DEF Failed, Page
<1>4. QED
  BY <1>1, <1>3 DEF FormInv, Types

\* A page left while it waits goes on waiting.
LEMMA LeavingWaits ==
  ASSUME FormInv, NEW m \in Mounts, Leave(m), tab[m].doing # None
  PROVE  tab'[m].doing # None
<1>1. PICK t, u : /\ t = tab[m] /\ tab' = [tab EXCEPT ![m] = u]
                  /\ u = IF t.doing = None THEN Ended
                         ELSE [t EXCEPT !.mounted = FALSE, !.drafts = {}, !.dirty = FALSE, !.confirmed = FALSE]
  BY DEF Leave
<1>2. t \in Page
  BY <1>1 DEF FormInv, Types
<1>3. u.doing = t.doing
  BY <1>1, <1>2 DEF Page
<1>4. QED
  BY <1>1, <1>3 DEF FormInv, Types

\* A page that submits goes on waiting, or stays, in every step but the server's.
LEMMA LeavesWhenServed ==
  ASSUME FormInv, Next, NEW m \in Mounts, tab[m].mounted, tab[m].doing = "submit",
         ~tab'[m].mounted, tab'[m].doing = None
  PROVE  Serve
<1>1. tab[m] \in Page /\ tab[m].doing # None
  BY FormAssumption DEF FormInv, Types
<1>2. ASSUME NEW n \in Mounts, NEW u, tab' = [tab EXCEPT ![n] = u] PROVE n = m
  BY <1>2 DEF FormInv, Types
<1>3. ASSUME NEW n \in Mounts, tab[n].doing = None, NEW op, NEW r, Start(n, op, r) PROVE FALSE
  BY <1>1, <1>2, <1>3 DEF Start
<1>4. ASSUME NEW n \in Mounts, LoadList(n) PROVE FALSE
  BY <1>1, <1>2, <1>4 DEF LoadList, Idle
<1>5. ASSUME NEW n \in Mounts, Confirm(n) PROVE FALSE
  BY <1>1, <1>2, <1>5 DEF Confirm, Idle
<1>6. ASSUME NEW n \in Mounts, NEW f \in Forms, Edit(n, f) PROVE FALSE
  BY <1>1, <1>2, <1>6 DEF Edit, Locked
<1>7. ASSUME NEW n \in Mounts, NewApplication(n) \/ SaveDraft(n) \/ SaveAndLearn(n) \/ Reload(n) PROVE FALSE
  BY <1>3, <1>7 DEF NewApplication, SaveDraft, SaveAndLearn, Reload, Idle
<1>8. ASSUME NEW n \in Mounts, ClickSubmit(n) \/ Retry(n) PROVE FALSE
  BY <1>3, <1>8 DEF ClickSubmit, Retry, SubmitOffered, Idle
<1>9. ASSUME NEW n \in Mounts, NEW c \in Cases, LoadCase(n, c) \/ OpenDraft(n, c) PROVE FALSE
  BY <1>3, <1>9 DEF LoadCase, OpenDraft, Idle
<1>10. ASSUME NEW n \in Mounts, NEW x \in Files, Upload(n, x) PROVE FALSE
  BY <1>3, <1>10 DEF Upload, Locked
<1>11. ASSUME NEW n \in Mounts, Break(n) PROVE FALSE
  BY <1>11, FailureStays DEF Break
<1>12. ASSUME NEW n \in Mounts, Leave(n) PROVE FALSE
  <2>1. n = m
    BY <1>2, <1>12 DEF Leave
  <2>2. QED
    BY <1>1, <1>12, <2>1, LeavingWaits
<1>13. QED
  BY <1>4, <1>5, <1>6, <1>7, <1>8, <1>9, <1>10, <1>11, <1>12 DEF Next

\* A page leaves for the receipt only when the answer to its own submission says so, and
\* then the receipt is the one of that submission.
THEOREM ReceiptsAreOwn == Spec => ReceiptIsOwn
<1>1. ASSUME FormInv, FormInv', Next PROVE ReceiptIsOwnStep
  <2> SUFFICES ASSUME NEW m \in Mounts, tab[m].mounted, tab[m].doing = "submit", ~tab'[m].mounted,
                      tab'[m].doing = None
               PROVE  row'[tab[m].case].sub # None /\ row'[tab[m].case].sub.key = tab[m].pending.key
    BY DEF ReceiptIsOwnStep
  <2>1. PICK r \in wire :
          \/ r.kind = "create" /\ ServeCreate(r)
          \/ r.kind = "read" /\ ServeRead(r)
          \/ r.kind = "save" /\ ServeSave(r)
          \/ r.kind = "submit" /\ ServeSubmit(r)
          \/ r.kind = "upload" /\ ServeUpload(r)
    BY <1>1, LeavesWhenServed DEF Serve
  <2>2. r.live /\ r.mount = m
    <3>1. tab \in [Mounts -> Page] /\ tab'[m] # tab[m]
      BY <1>1 DEF FormInv, Types
    <3>2. QED
      BY <2>1, <3>1, ServeAnswers DEF Answers
  <2>3. /\ r.kind = "submit" /\ ServeSubmit(r)
        /\ r.key[2] > 0 /\ r.case = tab[m].case /\ r.key = tab[m].pending.key
    <3>1. r.kind = "submit"
      BY <1>1, <2>2 DEF FormInv, Waits, Awaited, KindOf
    <3>2. QED
      BY <1>1, <2>1, <2>2, <3>1 DEF FormInv, Sending, Vouched, Waits, Awaited
  <2>4. PICK rec \in records' : rec.key = r.key /\ rec.case = r.case
    <3>1. CASE Replay(r)
      <4>1. PICK rec \in records : rec.key = r.key
        BY <3>1 DEF Replay
      <4>2. rec.case = r.case
        BY <1>1, <2>3, <4>1, UsesFacts DEF FormInv, OneCase
      <4>3. QED
        BY <3>1, <4>1, <4>2 DEF Replay
    <3>2. CASE Submit(r)
      <4>1. PICK c : c = r.case /\ Finish(r, c)
        BY <3>2 DEF Submit
      <4>2. PICK body : body = row'[c]
        OBVIOUS
      <4>3. records' = records \cup {[key |-> r.key, case |-> c, row |-> body]}
        BY <4>1, <4>2 DEF Finish
      <4>4. PICK rec : rec = [key |-> r.key, case |-> c, row |-> body]
        OBVIOUS
      <4>5. rec \in records' /\ rec.key = r.key /\ rec.case = r.case
        BY <4>1, <4>3, <4>4
      <4>6. QED
        BY <4>5
    <3>3. ~Refuse(r)
      BY <1>1, <2>2, FailureStays DEF Refuse
    <3>4. QED
      BY <2>3, <3>1, <3>2, <3>3 DEF ServeSubmit
  <2>5. QED
    BY <1>1, <2>3, <2>4 DEF FormInv, Recorded
<1>2. QED
  BY <1>1, FormInvariant, PTL DEF Spec, ReceiptIsOwn
=============================================================================

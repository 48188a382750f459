------------------------------ MODULE PagesProofs ------------------------------
(***************************************************************************)
(* What the pages promise, for any number of tabs, cases, requests, files  *)
(* and callers: each page has an invariant of its own, and beside the      *)
(* others, which rest, it behaves as it does alone.                        *)
(***************************************************************************)
EXTENDS Pages, ApplicationFormProofs, Sequences, FiniteSetTheorems, WellFoundedInduction

---------------------------------------------------------------------------
(* The applicant's form.  Visits that make cases are the behaviours of     *)
(* ApplicationForm; of the tabs that share drafts its proofs are taken with*)
(* their tables, once the instances are seen to be the same.               *)

Draft == INSTANCE ApplicationFormProofs WITH
  Mounts <- Tabs, Cases <- Drafts, Existing <- Drafts, MaxClicks <- MaxSubmits, MaxVersion <- MaxSaves,
  MaxLate <- MaxDelayed,
  row <- draftRow, records <- draftRecords, tab <- draftTab, wire <- draftWire, signed <- draftSigned

LEMMA SameAssumption == Draft!FormAssumption
BY PagesAssumption DEF Submitting!FormAssumption, Draft!FormAssumption, Submitting!Submission, Draft!Submission,
   Submitting!Attempt, Draft!Attempt

LEMMA SameStart == Submitting!Init <=> Draft!Init
<1>1. Submitting!NoRow = Draft!NoRow /\ Submitting!Fresh = Draft!Fresh
  BY DEF Submitting!NoRow, Draft!NoRow, Submitting!Fresh, Draft!Fresh
<1> QED BY Zenon, <1>1 DEF Submitting!Init, Draft!Init

LEMMA SameActions == Submitting!Next <=> Draft!Next
<1> USE DEF Submitting!NoRow, Draft!NoRow, Submitting!Fresh, Draft!Fresh, Submitting!Ended, Draft!Ended,
            Submitting!ReadOf, Draft!ReadOf, Submitting!CreateOf, Draft!CreateOf,
            Submitting!SaveOf, Draft!SaveOf, Submitting!UploadOf, Draft!UploadOf,
            Submitting!SubmitOf, Draft!SubmitOf, Submitting!Idle, Draft!Idle,
            Submitting!Editing, Draft!Editing, Submitting!Locked, Draft!Locked, Submitting!Start, Draft!Start,
            Submitting!SubmitOffered, Draft!SubmitOffered, Submitting!NextKey, Draft!NextKey,
            Submitting!Adopted, Draft!Adopted, Submitting!Saved, Draft!Saved, Submitting!Frozen, Draft!Frozen,
            Submitting!Succeeded, Draft!Succeeded, Submitting!Failed, Draft!Failed,
            Submitting!Refusal, Draft!Refusal, Submitting!Broken, Draft!Broken,
            Submitting!Success, Draft!Success, Submitting!Uploaded, Draft!Uploaded,
            Submitting!Refuse, Draft!Refuse, Submitting!Known, Draft!Known, Submitting!Replay, Draft!Replay,
            Submitting!Finish, Draft!Finish, Submitting!Create, Draft!Create,
            Submitting!Acceptable, Draft!Acceptable, Submitting!Submit, Draft!Submit
<1>1. \A m : Submitting!LoadList(m) <=> Draft!LoadList(m)
  BY Zenon DEF Submitting!LoadList, Draft!LoadList
<1>2. \A m, c : Submitting!LoadCase(m, c) <=> Draft!LoadCase(m, c)
  BY Zenon DEF Submitting!LoadCase, Draft!LoadCase
<1>3. \A m : Submitting!NewApplication(m) <=> Draft!NewApplication(m)
  BY Zenon DEF Submitting!NewApplication, Draft!NewApplication
<1>4. \A m, c : Submitting!OpenDraft(m, c) <=> Draft!OpenDraft(m, c)
  BY Zenon DEF Submitting!OpenDraft, Draft!OpenDraft
<1>5. \A m, f : Submitting!Edit(m, f) <=> Draft!Edit(m, f)
  BY Zenon DEF Submitting!Edit, Draft!Edit
<1>6. \A m, x : Submitting!Upload(m, x) <=> Draft!Upload(m, x)
  BY Zenon DEF Submitting!Upload, Draft!Upload
<1>7. \A m : Submitting!Confirm(m) <=> Draft!Confirm(m)
  BY Zenon DEF Submitting!Confirm, Draft!Confirm
<1>8. \A m : Submitting!SaveDraft(m) <=> Draft!SaveDraft(m)
  BY Zenon DEF Submitting!SaveDraft, Draft!SaveDraft
<1>9. \A m : Submitting!SaveAndLearn(m) <=> Draft!SaveAndLearn(m)
  BY Zenon DEF Submitting!SaveAndLearn, Draft!SaveAndLearn
<1>10. \A m : Submitting!ClickSubmit(m) <=> Draft!ClickSubmit(m)
  BY Zenon DEF Submitting!ClickSubmit, Draft!ClickSubmit
<1>11. \A m : Submitting!Retry(m) <=> Draft!Retry(m)
  BY Zenon DEF Submitting!Retry, Draft!Retry
<1>12. \A m : Submitting!Reload(m) <=> Draft!Reload(m)
  BY Zenon DEF Submitting!Reload, Draft!Reload
<1>13. \A r : Submitting!ServeCreate(r) <=> Draft!ServeCreate(r)
  BY Zenon DEF Submitting!ServeCreate, Draft!ServeCreate
<1>14. \A r : Submitting!ServeRead(r) <=> Draft!ServeRead(r)
  BY Zenon DEF Submitting!ServeRead, Draft!ServeRead
<1>15. \A r : Submitting!ServeSave(r) <=> Draft!ServeSave(r)
  BY Zenon DEF Submitting!ServeSave, Draft!ServeSave
<1>16. \A r : Submitting!ServeSubmit(r) <=> Draft!ServeSubmit(r)
  BY Zenon DEF Submitting!ServeSubmit, Draft!ServeSubmit
<1>17. \A r : Submitting!ServeUpload(r) <=> Draft!ServeUpload(r)
  BY Zenon DEF Submitting!ServeUpload, Draft!ServeUpload
<1>18. \A m : Submitting!Break(m) <=> Draft!Break(m)
  BY Zenon DEF Submitting!Break, Draft!Break, Submitting!Cardinality, Draft!Cardinality
<1>19. \A m : Submitting!Leave(m) <=> Draft!Leave(m)
  BY Zenon DEF Submitting!Leave, Draft!Leave
<1>20. Submitting!Serve <=> Draft!Serve
  BY Zenon, <1>13, <1>14, <1>15, <1>16, <1>17 DEF Submitting!Serve, Draft!Serve
<1> QED
  BY Zenon, <1>1, <1>2, <1>3, <1>4, <1>5, <1>6, <1>7, <1>8, <1>9, <1>10, <1>11, <1>12, <1>18, <1>19, <1>20
     DEF Submitting!Next, Draft!Next

LEMMA SubmittingInit == Submitting!Init => Draft!FormInv
BY SameAssumption, SameStart, Draft!InitInv

LEMMA SubmittingStep == ASSUME Draft!FormInv, [Submitting!Next]_draftVars PROVE Draft!FormInv'
<1>1. [Draft!Next]_Draft!vars BY SameActions DEF draftVars, Draft!vars
<1> QED BY <1>1, SameAssumption, Draft!NextInv

LEMMA SubmittingPromises == Draft!FormInv => Submitting!SubmittedAsConfirmed /\ Submitting!CleanMeansSaved
<1>1. Draft!FormInv => Draft!SubmittedAsConfirmed /\ Draft!CleanMeansSaved BY SameAssumption, Draft!FormPromises
<1> QED
  BY <1>1 DEF Submitting!SubmittedAsConfirmed, Draft!SubmittedAsConfirmed, Submitting!CleanMeansSaved,
     Draft!CleanMeansSaved, Submitting!Editing, Draft!Editing, Submitting!Idle, Draft!Idle

\* The tables of the tabs that share drafts hold what they should.
LEMMA SubmittingTyped == Draft!FormInv => Submitting!FormTypeOK
<1>1. Submitting!Submission = Draft!Submission BY DEF Submitting!Submission, Draft!Submission
<1>2. Submitting!Row = Draft!Row BY <1>1 DEF Submitting!Row, Draft!Row
<1>3. Submitting!FormTypeOK <=> Draft!FormTypeOK BY <1>2, Zenon DEF Submitting!FormTypeOK, Draft!FormTypeOK
<1> QED BY <1>3, SameAssumption, Draft!FormTyped

---------------------------------------------------------------------------
(* The session that the tabs share.                                        *)

\* What a page of the applicant's sends carries the token of the session it shows.

\* The answers under way.
Me(r) ==
  /\ r = [kind |-> "me", tab |-> r.tab, turn |-> r.turn, session |-> r.session]
  /\ r.tab \in Tabs /\ r.session \in Sessions \cup {None}
Data(r) ==
  /\ r = [kind |-> "data", tab |-> r.tab, turn |-> r.turn, session |-> r.session]
  /\ r.tab \in Tabs /\ r.turn \in BOOLEAN /\ r.session \in Sessions
Answered(requests) == \A r \in requests : Me(r) \/ Data(r)

TabPages == [opened : BOOLEAN, shown : Sessions \cup {None}, csrf : Sessions \cup {None}, checking : BOOLEAN,
             since : Sessions \cup {None}, data : Sessions \cup {None}]
SessionTypes ==
  /\ isAdmin \in BOOLEAN
  /\ jar \in Sessions \cup {None} /\ live \in BOOLEAN
  /\ page \in [Tabs -> TabPages]

\* The applicant's page keeps the token of the session it shows, and no other.
SessionInv ==
  /\ SessionTypes
  /\ Answered(answers)
  /\ ~isAdmin => \A t \in Tabs : page[t].csrf = page[t].shown

LEMMA SessInit == ASSUME Browser!SessionAssumption PROVE Browser!Init => SessionInv
<1> SUFFICES ASSUME Browser!Init PROVE SessionInv
  OBVIOUS
<1>1. Browser!Unopened \in TabPages /\ Browser!Unopened.csrf = Browser!Unopened.shown
  BY DEF Browser!Unopened, TabPages
<1>2. page = [t \in Tabs |-> Browser!Unopened] /\ isAdmin \in BOOLEAN /\ answers = {}
  BY DEF Browser!Init
<1>3. SessionTypes BY <1>1, <1>2 DEF Browser!Init, SessionTypes
<1> QED BY <1>1, <1>2, <1>3 DEF SessionInv, Answered

\* A request whose turn is taken away still bears its session.
LEMMA Passed ==
  ASSUME NEW q, NEW b
  PROVE  LET r == [q EXCEPT !.turn = b] IN
         /\ Me(q) => q.kind = "me" /\ r.kind = "me" /\ Me(r) /\ r.session = q.session
         /\ Data(q) => q.kind = "data" /\ r.kind = "data" /\ (b \in BOOLEAN => Data(r)) /\ r.turn = b
<1> DEFINE r == [q EXCEPT !.turn = b]
<1>1. ASSUME Me(q) PROVE q.kind = "me" /\ r.kind = "me" /\ Me(r) /\ r.session = q.session
  <2>1. q = [kind |-> "me", tab |-> q.tab, turn |-> q.turn, session |-> q.session] BY <1>1 DEF Me
  <2>2. r = [kind |-> "me", tab |-> q.tab, turn |-> b, session |-> q.session] BY <2>1
  <2> HIDE DEF r
  <2> QED BY <1>1, <2>1, <2>2 DEF Me
<1>2. ASSUME Data(q) PROVE q.kind = "data" /\ r.kind = "data" /\ (b \in BOOLEAN => Data(r)) /\ r.turn = b
  <2>1. q = [kind |-> "data", tab |-> q.tab, turn |-> q.turn, session |-> q.session] BY <1>2 DEF Data
  <2>2. r = [kind |-> "data", tab |-> q.tab, turn |-> b, session |-> q.session] BY <2>1
  <2> HIDE DEF r
  <2> QED BY <1>2, <2>1, <2>2 DEF Data
<1> QED BY <1>1, <1>2

LEMMA OutIsIn ==
  ASSUME Answered(answers), NEW t PROVE Answered(Browser!OutOfTurn(t))
<1> SUFFICES ASSUME NEW r \in Browser!OutOfTurn(t) PROVE Me(r) \/ Data(r) BY DEF Answered
<1>1. PICK q \in answers : r = IF isAdmin /\ q.tab = t /\ q.kind = "me" THEN [q EXCEPT !.turn = FALSE] ELSE q
  BY DEF Browser!OutOfTurn
<1> DEFINE v == [q EXCEPT !.turn = FALSE]
<1>2. (Me(q) => Me(v)) /\ (Data(q) => Data(v)) BY Passed
<1>3. r = q \/ r = v BY <1>1
<1> HIDE DEF v
<1> QED BY <1>2, <1>3 DEF Answered

\* The page takes another identity.
LEMMA Shows1 ==
  ASSUME Browser!SessionAssumption, SessionInv, NEW t \in Tabs, NEW s \in Sessions \cup {None}, NEW requests,
         NEW checking \in BOOLEAN, Answered(requests), Browser!Show(t, s, requests, checking), UNCHANGED isAdmin
  PROVE  /\ page' \in [Tabs -> TabPages]
         /\ Answered(answers')
         /\ ~isAdmin => \A u \in Tabs : page'[u].csrf = page'[u].shown
<1> DEFINE same == Browser!Owner(s) = Browser!Owner(page[t].shown)
           p == [opened |-> TRUE, shown |-> s, csrf |-> s, checking |-> checking,
                 since |-> IF same THEN page[t].since ELSE s, data |-> IF same THEN page[t].data ELSE None]
<1>1. page' = [page EXCEPT ![t] = p] /\ answers' = Browser!Remounted(requests, t, Browser!Owner(s))
  BY DEF Browser!Show
<1>2. p \in TabPages /\ p.shown = s /\ p.csrf = s BY DEF SessionInv, SessionTypes, TabPages
<1> HIDE DEF p
<1>3. page' \in [Tabs -> TabPages] BY <1>1, <1>2 DEF SessionInv, SessionTypes
<1>4. page'[t] = p /\ \A u \in Tabs \ {t} : page'[u] = page[u] BY <1>1 DEF SessionInv, SessionTypes
<1>5. ASSUME NEW r \in answers' PROVE Me(r) \/ Data(r)
  <2>1. PICK q \in requests : \/ r = q
                              \/ r = [q EXCEPT !.turn = FALSE]
    BY <1>1 DEF Browser!Remounted
  <2> DEFINE v == [q EXCEPT !.turn = FALSE]
  <2>2. (Me(q) => Me(v)) /\ (Data(q) => Data(v)) BY Passed
  <2>3. r = q \/ r = v BY <2>1
  <2> HIDE DEF v
  <2> QED BY <2>2, <2>3 DEF Answered
<1> QED BY <1>2, <1>3, <1>4, <1>5 DEF Answered, SessionInv

\* The same with the rest of the invariant.
LEMMA ShowsOn ==
  ASSUME Browser!SessionAssumption, SessionInv, NEW t \in Tabs, NEW s \in Sessions \cup {None}, NEW requests,
         NEW checking \in BOOLEAN,
         Answered(requests), Browser!Show(t, s, requests, checking), UNCHANGED isAdmin,
         jar' \in Sessions \cup {None}, live' \in BOOLEAN
  PROVE  SessionInv'
<1>1. /\ page' \in [Tabs -> TabPages]
      /\ Answered(answers')
      /\ ~isAdmin => \A u \in Tabs : page'[u].csrf = page'[u].shown
  BY Shows1
<1>2. Answered(answers)' BY <1>1 DEF Answered, Me, Data
<1> QED BY <1>1, <1>2 DEF SessionInv, SessionTypes, TabPages

\* Nothing that is shown changes but what was read.
LEMMA KeepsOn ==
  ASSUME SessionInv, UNCHANGED isAdmin, jar' \in Sessions \cup {None}, live' \in BOOLEAN,
         Answered(answers'), page' \in [Tabs -> TabPages],
         \A t \in Tabs : page'[t].shown = page[t].shown /\ (page'[t].csrf = page[t].csrf \/ isAdmin)
  PROVE  SessionInv'
<1>1. Answered(answers)' BY DEF Answered, Me, Data
<1> QED BY <1>1 DEF SessionInv, SessionTypes, TabPages

LEMMA SessActs ==
  ASSUME Browser!SessionAssumption, SessionInv, UNCHANGED isAdmin, NEW t \in Tabs,
         Browser!Refresh(t) \/ Browser!LogOut(t) \/ Browser!Operate(t) \/ Browser!Read(t)
  PROVE  SessionInv'
<1>1. Answered(Browser!OutOfTurn(t)) BY OutIsIn DEF SessionInv
<1>2. page[t] \in TabPages /\ page \in [Tabs -> TabPages] /\ None \in Sessions \cup {None}
      /\ page[t].checking \in BOOLEAN
  BY DEF SessionInv, SessionTypes, TabPages
<1>3. Browser!Expired(t) /\ UNCHANGED <<jar, live>> => SessionInv'
  BY <1>1, <1>2, ShowsOn DEF Browser!Expired, SessionInv, SessionTypes
<1>4. CASE Browser!Refresh(t)
  <2> DEFINE m == [kind |-> "me", tab |-> t, turn |-> TRUE, session |-> Browser!Recognised]
  <2>1. Me(m) BY DEF Me, Browser!Recognised, SessionInv, SessionTypes
  <2>2. answers' = Browser!OutOfTurn(t) \cup {m} /\ UNCHANGED <<jar, live>> BY <1>4 DEF Browser!Refresh
  <2> HIDE DEF m
  <2>3. Answered(answers') BY <1>1, <2>1, <2>2 DEF Answered
  <2>4. isAdmin \in BOOLEAN BY DEF SessionInv, SessionTypes
  <2>5. page' = [page EXCEPT ![t] = [page[t] EXCEPT !.opened = TRUE, !.checking = isAdmin]]
    BY <1>4 DEF Browser!Refresh
  <2>6. [page[t] EXCEPT !.opened = TRUE, !.checking = isAdmin] \in TabPages BY <1>2, <2>4 DEF TabPages
  <2>7. \A u \in Tabs : page'[u].shown = page[u].shown /\ page'[u].csrf = page[u].csrf
    BY <1>2, <2>5 DEF TabPages
  <2>8. page' \in [Tabs -> TabPages] BY <1>2, <2>5, <2>6
  <2> QED BY <2>2, <2>3, <2>7, <2>8, KeepsOn DEF SessionInv, SessionTypes
<1>5. CASE Browser!LogOut(t)
  <2>1. CASE Browser!Accepted(t)
    <3>1. live' = FALSE /\ jar' = None /\ Browser!Show(t, None, Browser!OutOfTurn(t), page[t].checking)
      BY <1>5, <2>1 DEF Browser!LogOut
    <3> QED BY <1>1, <1>2, <3>1, ShowsOn
  <2>2. CASE ~Browser!Accepted(t)
    <3>1. UNCHANGED <<live, jar>> /\ (Browser!Expired(t) \/ UNCHANGED <<page, answers>>)
      BY <1>5, <2>2 DEF Browser!LogOut
    <3>2. CASE UNCHANGED <<page, answers>> BY <3>1, <3>2, KeepsOn DEF SessionInv, SessionTypes
    <3> QED BY <1>3, <3>1, <3>2
  <2> QED BY <2>1, <2>2
<1>6. CASE Browser!Operate(t)
  <2>1. UNCHANGED <<live, jar>> /\ (Browser!Expired(t) \/ UNCHANGED <<page, answers>>)
    BY <1>6 DEF Browser!Operate
  <2>2. CASE UNCHANGED <<page, answers>> BY <2>1, <2>2, KeepsOn DEF SessionInv, SessionTypes
  <2> QED BY <1>3, <2>1, <2>2
<1>7. CASE Browser!Read(t)
  <2>1. CASE Browser!Recognised = None BY <1>3, <1>7, <2>1 DEF Browser!Read
  <2>2. CASE Browser!Recognised # None
    <3> DEFINE d == [kind |-> "data", tab |-> t, turn |-> TRUE, session |-> Browser!Recognised]
    <3>1. answers' = answers \cup {d} /\ UNCHANGED <<page, live, jar>> BY <1>7, <2>2 DEF Browser!Read
    <3>2. Data(d) BY <2>2 DEF Data, Browser!Recognised, SessionInv, SessionTypes
    <3> HIDE DEF d
    <3>3. Answered(answers') BY <3>1, <3>2 DEF Answered, SessionInv
    <3> QED BY <3>1, <3>3, KeepsOn DEF SessionInv, SessionTypes
  <2> QED BY <2>1, <2>2
<1> QED BY <1>4, <1>5, <1>6, <1>7

LEMMA SessAnswers ==
  ASSUME Browser!SessionAssumption, SessionInv, UNCHANGED isAdmin, NEW r \in answers,
         Browser!MeArrives(r) \/ Browser!MeFails(r) \/ Browser!DataArrives(r)
  PROVE  SessionInv'
<1> DEFINE t == r.tab
<1>1. Me(r) \/ Data(r) BY DEF SessionInv, Answered
<1>2. t \in Tabs /\ r.session \in Sessions \cup {None} BY <1>1 DEF Me, Data
<1>3. Answered(Browser!OutOfTurn(t)) BY OutIsIn DEF SessionInv
<1>4. page[t] \in TabPages /\ page \in [Tabs -> TabPages] BY <1>2 DEF SessionInv, SessionTypes
<1>5. \A S : S \subseteq answers => Answered(S) BY DEF SessionInv, Answered
<1>6. CASE Browser!MeArrives(r)
  <2> DEFINE S == Browser!OutOfTurn(t) \ {r, [r EXCEPT !.turn = FALSE]}
  <2>1. UNCHANGED <<live, jar>> BY <1>6 DEF Browser!MeArrives
  <2>3. Answered(S) BY <1>3 DEF Answered
  <2>4. CASE \E s \in {None, r.session} : Browser!Show(t, s, S, FALSE)
    <3> HIDE DEF S
    <3> QED BY <1>2, <2>1, <2>3, <2>4, ShowsOn DEF SessionInv, SessionTypes
  <2>5. CASE ~Browser!Adopts(r) /\ page' = [page EXCEPT ![t].csrf = r.session, ![t].checking = FALSE]
        /\ answers' = answers \ {r}
    <3>1. isAdmin BY <2>5 DEF Browser!Adopts
    <3>2. page' = [page EXCEPT ![t] = [page[t] EXCEPT !.csrf = r.session, !.checking = FALSE]] BY <2>5
    <3>3. [page[t] EXCEPT !.csrf = r.session, !.checking = FALSE] \in TabPages BY <1>2, <1>4 DEF TabPages
    <3>4. page' \in [Tabs -> TabPages] /\ \A u \in Tabs : page'[u].shown = page[u].shown
      BY <1>2, <1>4, <3>2, <3>3 DEF TabPages
    <3> QED BY <1>5, <2>1, <2>5, <3>1, <3>4, KeepsOn DEF SessionInv, SessionTypes
  <2> QED BY <1>6, <2>4, <2>5 DEF Browser!MeArrives
<1>7. CASE Browser!MeFails(r)
  <2>1. CASE isAdmin
    <3>1. page' = [page EXCEPT ![t] = [page[t] EXCEPT !.checking = FALSE]] /\ answers' = answers \ {r}
          /\ UNCHANGED <<live, jar>>
      BY <1>7, <2>1 DEF Browser!MeFails
    <3>2. page' \in [Tabs -> TabPages] /\ \A u \in Tabs : page'[u].shown = page[u].shown
      BY <1>2, <1>4, <3>1 DEF TabPages
    <3> QED BY <1>5, <2>1, <3>1, <3>2, KeepsOn DEF SessionInv, SessionTypes
  <2>2. CASE ~isAdmin
    <3>1. Browser!Show(t, None, answers \ {r}, FALSE) /\ UNCHANGED <<live, jar>>
      BY <1>7, <2>2 DEF Browser!MeFails
    <3> QED BY <1>2, <1>5, <3>1, ShowsOn DEF SessionInv, SessionTypes
  <2> QED BY <2>1, <2>2
<1>8. CASE Browser!DataArrives(r)
  <2>1. /\ page' = [page EXCEPT ![t] = [page[t] EXCEPT !.data = IF Browser!Shows(r) THEN r.session ELSE page[t].data]]
        /\ answers' = answers \ {r} /\ UNCHANGED <<live, jar>>
    BY <1>8 DEF Browser!DataArrives
  <2>2. page' \in [Tabs -> TabPages]
        /\ \A u \in Tabs : page'[u].shown = page[u].shown /\ page'[u].csrf = page[u].csrf
    BY <1>2, <1>4, <2>1 DEF TabPages
  <2> QED BY <1>5, <2>1, <2>2, KeepsOn DEF SessionInv, SessionTypes
<1> QED BY <1>6, <1>7, <1>8

LEMMA SessStep == ASSUME Browser!SessionAssumption, SessionInv, [Browser!Next]_sessionVars PROVE SessionInv'
<1>1. CASE UNCHANGED sessionVars BY <1>1, KeepsOn DEF sessionVars, SessionInv, SessionTypes
<1>2. ASSUME NEW t \in Tabs, NEW s \in Sessions, Browser!LogIn(t, s), UNCHANGED isAdmin PROVE SessionInv'
  <2>1. Answered(Browser!OutOfTurn(t)) BY OutIsIn DEF SessionInv
  <2>2. page[t].checking \in BOOLEAN BY DEF SessionInv, SessionTypes, TabPages
  <2>3. jar' = s /\ live' = TRUE
        /\ Browser!Show(t, s, Browser!OutOfTurn(t), page[t].checking)
    BY <1>2 DEF Browser!LogIn
  <2> QED BY <1>2, <2>1, <2>2, <2>3, ShowsOn
<1>3. ASSUME Browser!SessionEnds, UNCHANGED isAdmin PROVE SessionInv'
  BY <1>3, KeepsOn DEF Browser!SessionEnds, SessionInv, SessionTypes
<1> QED BY <1>1, <1>2, <1>3, SessActs, SessAnswers DEF Browser!Next

\* What else the tabs keep: a session that is known anywhere was issued, the cookie holds the newest, and a
\* page with an identity has a token.
MeIssued(requests, sessions) == \A r \in requests : r.kind = "me" => r.session \in sessions \cup {None}
PagesIssued(sessions) ==
  \A t \in Tabs : /\ page[t].shown \in sessions \cup {None} /\ page[t].since \in sessions \cup {None}
                  /\ page[t].shown # None => page[t].csrf # None
JarIsNewest ==
  /\ jar \in issued \cup {None} /\ (live => jar # None)
  /\ jar # None => \A s \in issued : s <= jar
SessionKept == issued \subseteq Sessions /\ JarIsNewest /\ MeIssued(answers, issued) /\ PagesIssued(issued)

LEMMA SessionKeptInit == Browser!Init => SessionKept
BY DEF Browser!Init, Browser!Unopened, SessionKept, JarIsNewest, MeIssued, PagesIssued

LEMMA OutIssued ==
  ASSUME Answered(answers), NEW sessions, MeIssued(answers, sessions), NEW t
  PROVE  MeIssued(Browser!OutOfTurn(t), sessions)
<1> SUFFICES ASSUME NEW r \in Browser!OutOfTurn(t) PROVE r.kind = "me" => r.session \in sessions \cup {None}
  BY DEF MeIssued
<1>1. PICK q \in answers : r = IF isAdmin /\ q.tab = t /\ q.kind = "me" THEN [q EXCEPT !.turn = FALSE] ELSE q
  BY DEF Browser!OutOfTurn
<1> DEFINE v == [q EXCEPT !.turn = FALSE]
<1>2. Me(q) \/ Data(q) BY DEF Answered
<1>3. q.kind = "me" => q.session \in sessions \cup {None} BY DEF MeIssued
<1>4. v.kind = "me" => v.session \in sessions \cup {None} BY <1>2, <1>3, Passed
<1>5. r = q \/ r = v BY <1>1
<1> HIDE DEF v
<1> QED BY <1>3, <1>4, <1>5

\* A page takes an identity that was issued, or none.
LEMMA ShowIssued ==
  ASSUME Browser!SessionAssumption, SessionInv, SessionKept, NEW t \in Tabs, issued \subseteq issued',
         NEW s \in issued' \cup {None}, NEW requests, NEW checking,
         Answered(requests), MeIssued(requests, issued'), Browser!Show(t, s, requests, checking)
  PROVE  MeIssued(answers', issued') /\ PagesIssued(issued)'
<1> DEFINE same == Browser!Owner(s) = Browser!Owner(page[t].shown)
           p == [opened |-> TRUE, shown |-> s, csrf |-> s, checking |-> checking,
                 since |-> IF same THEN page[t].since ELSE s, data |-> IF same THEN page[t].data ELSE None]
<1>1. page' = [page EXCEPT ![t] = p] /\ answers' = Browser!Remounted(requests, t, Browser!Owner(s))
  BY DEF Browser!Show
<1>2. p.shown = s /\ p.csrf = s /\ p.since \in {s, page[t].since} OBVIOUS
<1> HIDE DEF p
<1>3. page'[t] = p /\ \A u \in Tabs \ {t} : page'[u] = page[u] BY <1>1 DEF SessionInv, SessionTypes
<1>4. PagesIssued(issued)' BY <1>2, <1>3 DEF SessionKept, PagesIssued
<1>5. ASSUME NEW r \in answers' PROVE r.kind = "me" => r.session \in issued' \cup {None}
  <2>1. PICK q \in requests : \/ r = q
                              \/ r = [q EXCEPT !.turn = FALSE]
    BY <1>1 DEF Browser!Remounted
  <2> DEFINE v == [q EXCEPT !.turn = FALSE]
  <2>2. Me(q) \/ Data(q) BY DEF Answered
  <2>3. q.kind = "me" => q.session \in issued' \cup {None} BY DEF MeIssued
  <2>4. v.kind = "me" => v.session \in issued' \cup {None} BY <2>2, <2>3, Passed
  <2>5. r = q \/ r = v BY <2>1
  <2> HIDE DEF v
  <2> QED BY <2>3, <2>4, <2>5
<1> QED BY <1>4, <1>5 DEF MeIssued

\* The pages keep their identities.
LEMMA KeepIssued ==
  ASSUME SessionKept, UNCHANGED <<issued, jar, live>>, MeIssued(answers', issued),
         \A t \in Tabs : /\ page'[t].shown = page[t].shown /\ page'[t].since = page[t].since
                         /\ page'[t].csrf = page[t].csrf \/ page'[t].csrf # None
  PROVE  SessionKept'
BY DEF SessionKept, JarIsNewest, MeIssued, PagesIssued

LEMMA ExpiredIssued ==
  ASSUME Browser!SessionAssumption, SessionInv, SessionKept, NEW t \in Tabs, Browser!Expired(t), UNCHANGED <<issued, live, jar>>
  PROVE  SessionKept'
<1>1. Answered(Browser!OutOfTurn(t)) BY OutIsIn DEF SessionInv
<1>2. MeIssued(Browser!OutOfTurn(t), issued') BY OutIssued DEF SessionInv, SessionKept
<1>3. MeIssued(answers', issued') /\ PagesIssued(issued)' BY <1>1, <1>2, ShowIssued DEF Browser!Expired
<1> QED BY <1>3 DEF SessionKept, JarIsNewest, MeIssued

LEMMA ActsIssued ==
  ASSUME Browser!SessionAssumption, SessionInv, SessionKept, NEW t \in Tabs,
         Browser!Refresh(t) \/ Browser!LogOut(t) \/ Browser!Operate(t) \/ Browser!Read(t)
  PROVE  SessionKept'
<1>1. Answered(Browser!OutOfTurn(t)) BY OutIsIn DEF SessionInv
<1>2. MeIssued(Browser!OutOfTurn(t), issued) BY OutIssued DEF SessionInv, SessionKept
<1>4. CASE Browser!Refresh(t)
  <2> DEFINE m == [kind |-> "me", tab |-> t, turn |-> TRUE, session |-> Browser!Recognised]
  <2>1. m.session \in issued \cup {None} BY DEF Browser!Recognised, SessionKept, JarIsNewest
  <2>2. answers' = Browser!OutOfTurn(t) \cup {m} /\ UNCHANGED <<issued, jar, live>> BY <1>4 DEF Browser!Refresh
  <2> HIDE DEF m
  <2>3. MeIssued(answers', issued) BY <1>2, <2>1, <2>2 DEF MeIssued
  <2>4. \A u \in Tabs : page'[u].shown = page[u].shown /\ page'[u].csrf = page[u].csrf /\ page'[u].since = page[u].since
    BY <1>4 DEF Browser!Refresh, SessionInv, SessionTypes, TabPages
  <2> QED BY <2>2, <2>3, <2>4, KeepIssued
<1>5. CASE Browser!LogOut(t) /\ Browser!Accepted(t)
  <2>1. live' = FALSE /\ jar' = None /\ Browser!Show(t, None, Browser!OutOfTurn(t), page[t].checking)
        /\ UNCHANGED issued
    BY <1>5 DEF Browser!LogOut
  <2>2. MeIssued(answers', issued') /\ PagesIssued(issued)' BY <1>1, <1>2, <2>1, ShowIssued
  <2> QED BY <2>1, <2>2 DEF SessionKept, JarIsNewest, MeIssued
<1>6. CASE Browser!Expired(t) /\ UNCHANGED <<issued, live, jar>> BY <1>6, ExpiredIssued
<1>7. CASE UNCHANGED <<issued, live, jar, page, answers>>
  BY <1>7 DEF SessionKept, JarIsNewest, MeIssued, PagesIssued
<1>8. CASE Browser!Read(t) /\ Browser!Recognised # None
  <2> DEFINE d == [kind |-> "data", tab |-> t, turn |-> TRUE, session |-> Browser!Recognised]
  <2>1. answers' = answers \cup {d} /\ UNCHANGED <<issued, page, live, jar>> BY <1>8 DEF Browser!Read
  <2>2. d.kind = "data" OBVIOUS
  <2> HIDE DEF d
  <2>3. MeIssued(answers', issued) BY <2>1, <2>2 DEF MeIssued, SessionKept
  <2> QED BY <2>1, <2>3, KeepIssued
<1> QED BY <1>4, <1>5, <1>6, <1>7, <1>8 DEF Browser!LogOut, Browser!Operate, Browser!Read

LEMMA AnswersIssued ==
  ASSUME Browser!SessionAssumption, SessionInv, SessionKept, NEW r \in answers,
         Browser!MeArrives(r) \/ Browser!MeFails(r) \/ Browser!DataArrives(r)
  PROVE  SessionKept'
<1> DEFINE t == r.tab
<1>1. Me(r) \/ Data(r) BY DEF SessionInv, Answered
<1>2. t \in Tabs BY <1>1 DEF Me, Data
<1>3. UNCHANGED <<issued, live, jar>> BY DEF Browser!MeArrives, Browser!MeFails, Browser!DataArrives
<1>4. \A S : S \subseteq Browser!OutOfTurn(t) => Answered(S) /\ MeIssued(S, issued)
  <2>1. Answered(Browser!OutOfTurn(t)) BY OutIsIn DEF SessionInv
  <2>2. MeIssued(Browser!OutOfTurn(t), issued) BY OutIssued DEF SessionInv, SessionKept
  <2> QED BY <2>1, <2>2 DEF Answered, MeIssued
<1>5. \A S : S \subseteq answers => Answered(S) /\ MeIssued(S, issued)
  BY DEF SessionInv, Answered, SessionKept, MeIssued
<1>6. ASSUME NEW s \in issued \cup {None}, NEW S, Answered(S), MeIssued(S, issued), Browser!Show(t, s, S, FALSE)
      PROVE SessionKept'
  <2>1. MeIssued(S, issued') BY <1>3, <1>6 DEF MeIssued
  <2>2. issued \subseteq issued' /\ s \in issued' \cup {None} BY <1>3
  <2> HIDE DEF t
  <2>3. MeIssued(answers', issued') /\ PagesIssued(issued)' BY <1>2, <1>6, <2>1, <2>2, ShowIssued
  <2> QED BY <1>3, <2>3 DEF SessionKept, JarIsNewest, MeIssued
<1>7. CASE Browser!MeArrives(r)
  <2> DEFINE S == Browser!OutOfTurn(t) \ {r, [r EXCEPT !.turn = FALSE]}
  <2>1. r.session \in issued \cup {None} BY <1>7 DEF Browser!MeArrives, SessionKept, MeIssued
  <2>2. S \subseteq Browser!OutOfTurn(t) OBVIOUS
  <2>3. CASE \E s \in {None, r.session} : Browser!Show(t, s, S, FALSE)
    <3> HIDE DEF S
    <3> QED BY <1>4, <1>6, <2>1, <2>2, <2>3
  <2>4. CASE r.session # None /\ page' = [page EXCEPT ![t].csrf = r.session, ![t].checking = FALSE] /\ answers' = answers \ {r}
    <3>1. page' = [page EXCEPT ![t] = [page[t] EXCEPT !.csrf = r.session, !.checking = FALSE]] BY <2>4
    <3>2. \A u \in Tabs : /\ page'[u].shown = page[u].shown /\ page'[u].since = page[u].since
                          /\ page'[u].csrf = page[u].csrf \/ page'[u].csrf # None
      BY <1>2, <2>4, <3>1 DEF SessionInv, SessionTypes, TabPages
    <3> QED BY <1>3, <1>5, <2>4, <3>2, KeepIssued
  <2> QED BY <1>7, <2>3, <2>4 DEF Browser!MeArrives
<1>8. ASSUME answers' = answers \ {r}, NEW p, page' = [page EXCEPT ![t] = p], p.shown = page[t].shown,
             p.csrf = page[t].csrf, p.since = page[t].since
      PROVE  SessionKept'
  <2>1. \A u \in Tabs : page'[u].shown = page[u].shown /\ page'[u].csrf = page[u].csrf /\ page'[u].since = page[u].since
    BY <1>2, <1>8 DEF SessionInv, SessionTypes
  <2> QED BY <1>3, <1>5, <1>8, <2>1, KeepIssued
<1>9. CASE Browser!MeFails(r) /\ isAdmin
  <2> DEFINE p == [page[t] EXCEPT !.checking = FALSE]
  <2>1. page' = [page EXCEPT ![t] = p] /\ answers' = answers \ {r} BY <1>9 DEF Browser!MeFails
  <2>2. p.shown = page[t].shown /\ p.csrf = page[t].csrf /\ p.since = page[t].since
    BY <1>2 DEF SessionInv, SessionTypes, TabPages
  <2> HIDE DEF p
  <2> QED BY <1>8, <2>1, <2>2
<1>10. CASE Browser!MeFails(r) /\ ~isAdmin
  <2>1. Browser!Show(t, None, answers \ {r}, FALSE) BY <1>10 DEF Browser!MeFails
  <2> QED BY <1>5, <1>6, <2>1
<1>11. CASE Browser!DataArrives(r)
  <2> DEFINE p == [page[t] EXCEPT !.data = IF Browser!Shows(r) THEN r.session ELSE page[t].data]
  <2>1. page' = [page EXCEPT ![t] = p] /\ answers' = answers \ {r} BY <1>11 DEF Browser!DataArrives
  <2>2. p.shown = page[t].shown /\ p.csrf = page[t].csrf /\ p.since = page[t].since
    BY <1>2 DEF SessionInv, SessionTypes, TabPages
  <2> HIDE DEF p
  <2> QED BY <1>8, <2>1, <2>2
<1> QED BY <1>7, <1>9, <1>10, <1>11

LEMMA SessionKeptStep ==
  ASSUME Browser!SessionAssumption, SessionInv, SessionKept, [Browser!Next]_sessionVars PROVE SessionKept'
<1>1. CASE UNCHANGED sessionVars BY <1>1 DEF sessionVars, SessionKept, JarIsNewest, MeIssued, PagesIssued
<1>2. ASSUME NEW t \in Tabs, NEW s \in Sessions, Browser!LogIn(t, s) PROVE SessionKept'
  <2>1. /\ issued' = issued \cup {s} /\ live' = TRUE /\ jar' = s /\ issued = {r \in Sessions : r < s}
        /\ Browser!Show(t, s, Browser!OutOfTurn(t), page[t].checking)
    BY <1>2 DEF Browser!LogIn
  <2>2. Answered(Browser!OutOfTurn(t)) BY OutIsIn DEF SessionInv
  <2>3. MeIssued(Browser!OutOfTurn(t), issued') BY <2>1, OutIssued DEF SessionInv, SessionKept, MeIssued
  <2>4. MeIssued(answers', issued') /\ PagesIssued(issued)' BY <2>1, <2>2, <2>3, ShowIssued
  <2>5. JarIsNewest' /\ issued' \subseteq Sessions
    BY <2>1 DEF SessionKept, JarIsNewest, Browser!SessionAssumption
  <2> QED BY <2>4, <2>5 DEF SessionKept, MeIssued
<1>3. CASE Browser!SessionEnds
  BY <1>3 DEF Browser!SessionEnds, SessionKept, JarIsNewest, MeIssued, PagesIssued
<1> QED BY <1>1, <1>2, <1>3, ActsIssued, AnswersIssued DEF Browser!Next

\* Of the staff's pages: what is shown, and what is still waited for, was answered no earlier than the login
\* of the work area.
Later(s, t, pages) == pages[t].since # None /\ pages[t].since <= s
PagesLater(pages) ==
  \A t \in Tabs : /\ (pages[t].shown = None) <=> (pages[t].since = None)
                  /\ pages[t].data # None => Later(pages[t].data, t, pages)
AnswersLater(requests, pages) == \A r \in requests : Data(r) /\ r.turn => Later(r.session, r.tab, pages)
SessionLater == isAdmin => PagesLater(page) /\ AnswersLater(answers, page)

LEMMA SessionLaterInit == Browser!Init => SessionLater
BY DEF Browser!Init, Browser!Unopened, SessionLater, PagesLater, AnswersLater

LEMMA OutLater ==
  ASSUME Answered(answers), NEW t, AnswersLater(answers, page) PROVE AnswersLater(Browser!OutOfTurn(t), page)
<1> SUFFICES ASSUME NEW r \in Browser!OutOfTurn(t), Data(r), r.turn PROVE Later(r.session, r.tab, page)
  BY DEF AnswersLater
<1>1. PICK q \in answers : r = IF isAdmin /\ q.tab = t /\ q.kind = "me" THEN [q EXCEPT !.turn = FALSE] ELSE q
  BY DEF Browser!OutOfTurn
<1> DEFINE v == [q EXCEPT !.turn = FALSE]
<1>2. Me(q) => Me(v) /\ v.kind = "me" BY Passed
<1>3. Data(q) => q.kind = "data" BY Passed
<1>4. r = q \/ (r = v /\ q.kind = "me") BY <1>1
<1> HIDE DEF v
<1>5. r.kind = "data" BY DEF Data
<1> QED BY <1>2, <1>3, <1>4, <1>5 DEF Answered, AnswersLater

\* Another identity takes the turn of what was asked for; the same account keeps its work area.
LEMMA ShowLater ==
  ASSUME Browser!SessionAssumption, SessionInv, NEW t \in Tabs, NEW s \in Sessions \cup {None}, NEW requests,
         NEW checking, Answered(requests), PagesLater(page), AnswersLater(requests, page),
         Browser!Show(t, s, requests, checking)
  PROVE  SessionLater'
<1> DEFINE same == Browser!Owner(s) = Browser!Owner(page[t].shown)
           p == [opened |-> TRUE, shown |-> s, csrf |-> s, checking |-> checking,
                 since |-> IF same THEN page[t].since ELSE s, data |-> IF same THEN page[t].data ELSE None]
<1>1. page' = [page EXCEPT ![t] = p] /\ answers' = Browser!Remounted(requests, t, Browser!Owner(s))
  BY DEF Browser!Show
<1>2. p.shown = s /\ p.since = (IF same THEN page[t].since ELSE s) /\ p.data = (IF same THEN page[t].data ELSE None)
  OBVIOUS
<1> HIDE DEF p
<1>3. page'[t] = p /\ \A u \in Tabs \ {t} : page'[u] = page[u] BY <1>1 DEF SessionInv, SessionTypes
<1>4. same => (s = None <=> page[t].shown = None)
  <2>1. page[t].shown \in Sessions \cup {None} BY DEF SessionInv, SessionTypes, TabPages
  <2>2. \A a \in Sessions \cup {None} : Browser!Owner(a) = None <=> a = None
    BY DEF Browser!Owner, Browser!SessionAssumption
  <2> QED BY <2>1, <2>2
<1>5. ASSUME NEW u \in Tabs
      PROVE  /\ (page'[u].shown = None) <=> (page'[u].since = None)
             /\ page'[u].data # None => Later(page'[u].data, u, page')
  <2>1. CASE u # t BY <1>3, <2>1 DEF PagesLater, Later
  <2>2. CASE u = t /\ same
    <3> HIDE DEF same
    <3> QED BY <1>2, <1>3, <1>4, <2>2 DEF PagesLater, Later
  <2>3. CASE u = t /\ ~same BY <1>2, <1>3, <2>3
  <2> QED BY <2>1, <2>2, <2>3
<1>6. ASSUME NEW r \in answers', Data(r), r.turn PROVE Later(r.session, r.tab, page')
  <2>1. CASE same
    <3>1. r \in requests BY <1>1, <2>1 DEF Browser!Remounted
    <3>2. r.tab \in Tabs BY <1>6 DEF Data
    <3>3. page'[r.tab].since = page[r.tab].since BY <1>2, <1>3, <2>1, <3>2
    <3> QED BY <1>6, <3>1, <3>3 DEF AnswersLater, Later
  <2>2. CASE ~same
    <3>1. PICK q \in requests : r = IF q.tab = t /\ q.kind = "data" THEN [q EXCEPT !.turn = FALSE] ELSE q
      BY <1>1, <2>2 DEF Browser!Remounted
    <3> DEFINE v == [q EXCEPT !.turn = FALSE]
    <3>2. Data(q) => q.kind = "data" /\ ~v.turn BY Passed
    <3>3. Me(q) => q.kind = "me" BY Passed
    <3>4. IF q.tab = t /\ q.kind = "data" THEN r = v ELSE r = q BY <3>1
    <3> HIDE DEF v
    <3>5. r = q /\ q.tab # t
      <4>1. r.kind = "data" BY <1>6 DEF Data
      <4> QED BY <1>6, <3>2, <3>3, <3>4, <4>1 DEF Answered
    <3>6. r.tab \in Tabs BY <1>6 DEF Data
    <3>7. page'[r.tab] = page[r.tab] BY <1>3, <3>5, <3>6
    <3> QED BY <1>6, <3>5, <3>7 DEF AnswersLater, Later
  <2> QED BY <2>1, <2>2
<1> QED BY <1>5, <1>6 DEF SessionLater, PagesLater, AnswersLater, Later, Data

\* The work areas stay.
LEMMA KeepLater ==
  ASSUME isAdmin => PagesLater(page) /\ AnswersLater(answers', page),
         UNCHANGED isAdmin,
         \A t \in Tabs : /\ page'[t].shown = page[t].shown /\ page'[t].since = page[t].since
                         /\ isAdmin => page'[t].data = page[t].data \/ Later(page'[t].data, t, page)
  PROVE  SessionLater'
BY DEF SessionLater, PagesLater, AnswersLater, Later, Data

LEMMA ExpiredLater ==
  ASSUME Browser!SessionAssumption, SessionInv, SessionLater, NEW t \in Tabs, Browser!Expired(t), isAdmin
  PROVE  SessionLater'
<1>1. Answered(Browser!OutOfTurn(t)) BY OutIsIn DEF SessionInv
<1>2. AnswersLater(Browser!OutOfTurn(t), page) BY OutLater DEF SessionInv, SessionLater
<1> QED BY <1>1, <1>2, ShowLater DEF Browser!Expired, SessionLater

LEMMA ActsLater ==
  ASSUME Browser!SessionAssumption, SessionInv, SessionKept, SessionLater, UNCHANGED isAdmin, NEW t \in Tabs, isAdmin,
         Browser!Refresh(t) \/ Browser!LogOut(t) \/ Browser!Operate(t) \/ Browser!Read(t)
  PROVE  SessionLater'
<1>1. Answered(Browser!OutOfTurn(t)) BY OutIsIn DEF SessionInv
<1>2. AnswersLater(Browser!OutOfTurn(t), page) BY OutLater DEF SessionInv, SessionLater
<1>3. CASE Browser!Refresh(t)
  <2> DEFINE m == [kind |-> "me", tab |-> t, turn |-> TRUE, session |-> Browser!Recognised]
  <2>1. m.kind = "me" OBVIOUS
  <2>2. answers' = Browser!OutOfTurn(t) \cup {m} BY <1>3 DEF Browser!Refresh
  <2> HIDE DEF m
  <2>3. ~Data(m) BY <2>1 DEF Data
  <2>4. AnswersLater(answers', page) BY <1>2, <2>2, <2>3 DEF AnswersLater
  <2>5. \A u \in Tabs : page'[u].shown = page[u].shown /\ page'[u].since = page[u].since /\ page'[u].data = page[u].data
    BY <1>3 DEF Browser!Refresh, SessionInv, SessionTypes, TabPages
  <2> QED BY <2>4, <2>5, KeepLater DEF SessionLater
<1>4. CASE Browser!LogOut(t) /\ Browser!Accepted(t)
  <2>1. Browser!Show(t, None, Browser!OutOfTurn(t), page[t].checking) BY <1>4 DEF Browser!LogOut
  <2> QED BY <1>1, <1>2, <2>1, ShowLater DEF SessionLater
<1>5. CASE Browser!Expired(t) BY <1>5, ExpiredLater
<1>6. CASE UNCHANGED <<page, answers>> BY <1>6, KeepLater DEF SessionLater
<1>7. CASE Browser!Read(t) /\ Browser!Recognised # None
  <2> DEFINE d == [kind |-> "data", tab |-> t, turn |-> TRUE, session |-> Browser!Recognised]
  <2>1. answers' = answers \cup {d} /\ UNCHANGED page /\ page[t].shown # None
    BY <1>7 DEF Browser!Read, Browser!Offered
  <2>2. d.session = Browser!Recognised /\ d.tab = t OBVIOUS
  <2> HIDE DEF d
  <2>3. page[t].since # None /\ page[t].since \in issued BY <2>1 DEF SessionKept, PagesIssued, SessionLater, PagesLater
  <2>4. Browser!Recognised = jar /\ jar # None BY <1>7 DEF Browser!Recognised
  <2>5. Later(d.session, d.tab, page) BY <2>2, <2>3, <2>4 DEF Later, SessionKept, JarIsNewest
  <2>6. AnswersLater(answers', page) BY <2>1, <2>5 DEF AnswersLater, SessionLater
  <2> QED BY <2>1, <2>6, KeepLater DEF SessionLater
<1> QED BY <1>3, <1>4, <1>5, <1>6, <1>7 DEF Browser!LogOut, Browser!Operate, Browser!Read

LEMMA AnswersStayLater ==
  ASSUME Browser!SessionAssumption, SessionInv, SessionLater, UNCHANGED isAdmin, NEW r \in answers, isAdmin,
         Browser!MeArrives(r) \/ Browser!MeFails(r) \/ Browser!DataArrives(r)
  PROVE  SessionLater'
<1> DEFINE t == r.tab
<1>1. Me(r) \/ Data(r) BY DEF SessionInv, Answered
<1>2. t \in Tabs /\ r.session \in Sessions \cup {None} BY <1>1 DEF Me, Data
<1>3. AnswersLater(answers \ {r}, page) BY DEF SessionLater, AnswersLater
<1>4. ASSUME answers' = answers \ {r}, NEW p, page' = [page EXCEPT ![t] = p], p.shown = page[t].shown,
             p.since = page[t].since, p.data = page[t].data \/ Later(p.data, t, page)
      PROVE  SessionLater'
  <2>1. \A u \in Tabs : /\ page'[u].shown = page[u].shown /\ page'[u].since = page[u].since
                        /\ page'[u].data = page[u].data \/ Later(page'[u].data, u, page)
    BY <1>2, <1>4 DEF SessionInv, SessionTypes
  <2> QED BY <1>3, <1>4, <2>1, KeepLater DEF SessionLater
<1>5. CASE Browser!MeArrives(r)
  <2> DEFINE S == Browser!OutOfTurn(t) \ {r, [r EXCEPT !.turn = FALSE]}
  <2>1. Answered(S)
    <3>1. Answered(Browser!OutOfTurn(t)) BY OutIsIn DEF SessionInv
    <3> QED BY <3>1 DEF Answered
  <2>2. AnswersLater(S, page)
    <3>1. AnswersLater(Browser!OutOfTurn(t), page) BY OutLater DEF SessionInv, SessionLater
    <3> QED BY <3>1 DEF AnswersLater
  <2>3. CASE \E s \in {None, r.session} : Browser!Show(t, s, S, FALSE)
    <3> HIDE DEF S, t
    <3> QED BY <1>2, <2>1, <2>2, <2>3, ShowLater DEF SessionLater
  <2>4. CASE page' = [page EXCEPT ![t].csrf = r.session, ![t].checking = FALSE] /\ answers' = answers \ {r}
    <3> DEFINE p == [page[t] EXCEPT !.csrf = r.session, !.checking = FALSE]
    <3>1. page' = [page EXCEPT ![t] = p] BY <2>4
    <3>2. p.shown = page[t].shown /\ p.since = page[t].since /\ p.data = page[t].data
      BY <1>2 DEF SessionInv, SessionTypes, TabPages
    <3> HIDE DEF p
    <3> QED BY <1>4, <2>4, <3>1, <3>2
  <2> QED BY <1>5, <2>3, <2>4 DEF Browser!MeArrives
<1>6. CASE Browser!MeFails(r)
  <2> DEFINE p == [page[t] EXCEPT !.checking = FALSE]
  <2>1. page' = [page EXCEPT ![t] = p] /\ answers' = answers \ {r} BY <1>6 DEF Browser!MeFails
  <2>2. p.shown = page[t].shown /\ p.since = page[t].since /\ p.data = page[t].data
    BY <1>2 DEF SessionInv, SessionTypes, TabPages
  <2> HIDE DEF p
  <2> QED BY <1>4, <2>1, <2>2
<1>7. CASE Browser!DataArrives(r)
  <2> DEFINE p == [page[t] EXCEPT !.data = IF Browser!Shows(r) THEN r.session ELSE page[t].data]
  <2>1. page' = [page EXCEPT ![t] = p] /\ answers' = answers \ {r} /\ r.kind = "data"
    BY <1>7 DEF Browser!DataArrives
  <2>2. Browser!Shows(r) => Later(r.session, t, page)
    BY <1>1, <2>1 DEF Browser!Shows, Me, SessionLater, AnswersLater
  <2>3. p.shown = page[t].shown /\ p.since = page[t].since
        /\ p.data = (IF Browser!Shows(r) THEN r.session ELSE page[t].data)
    BY <1>2 DEF SessionInv, SessionTypes, TabPages
  <2> HIDE DEF p
  <2>4. p.data = page[t].data \/ Later(p.data, t, page) BY <2>2, <2>3
  <2> QED BY <1>4, <2>1, <2>3, <2>4
<1> QED BY <1>5, <1>6, <1>7

LEMMA SessionLaterStep ==
  ASSUME Browser!SessionAssumption, SessionInv, SessionKept, SessionLater, [Browser!Next]_sessionVars
  PROVE  SessionLater'
<1>1. isAdmin' = isAdmin BY DEF Browser!Next, sessionVars
<1> SUFFICES ASSUME isAdmin PROVE SessionLater'
  BY <1>1 DEF SessionLater
<1>2. CASE UNCHANGED sessionVars BY <1>2, KeepLater DEF sessionVars, SessionLater
<1>3. ASSUME NEW t \in Tabs, NEW s \in Sessions, Browser!LogIn(t, s) PROVE SessionLater'
  <2>1. Browser!Show(t, s, Browser!OutOfTurn(t), page[t].checking) BY <1>3 DEF Browser!LogIn
  <2>2. Answered(Browser!OutOfTurn(t)) BY OutIsIn DEF SessionInv
  <2>3. AnswersLater(Browser!OutOfTurn(t), page) BY OutLater DEF SessionInv, SessionLater
  <2> QED BY <2>1, <2>2, <2>3, ShowLater DEF SessionLater
<1>4. CASE Browser!SessionEnds BY <1>1, <1>4, KeepLater DEF Browser!SessionEnds, SessionLater
<1> QED BY <1>1, <1>2, <1>3, <1>4, ActsLater, AnswersStayLater DEF Browser!Next

LEMMA SessionPromises ==
  SessionInv /\ SessionLater => IF isAdmin THEN Browser!NothingOfAnEarlierLogin ELSE Browser!ActsAsShown
BY DEF SessionInv, SessionLater, PagesLater, Later, Browser!NothingOfAnEarlierLogin, Browser!ActsAsShown,
   Browser!Accepted, Browser!Recognised

LEMMA SessionTyped == ASSUME SessionInv, SessionKept, SessionLater PROVE Browser!SessionTypeOK
<1>1. isAdmin => \A t \in Tabs : page[t].shown = None => page[t].data = None
  BY DEF SessionLater, PagesLater, Later
<1> QED BY <1>1 DEF SessionInv, SessionTypes, SessionKept, JarIsNewest, PagesIssued, Browser!SessionTypeOK

---------------------------------------------------------------------------
(* The work area.                                                          *)

\* An answer that still counts is about the filter, or the case, that is chosen.

\* The requests under way: one whose answer counts is about the filter, or the case, that is there.
Lists(r) ==
  /\ r = [kind |-> "list", turn |-> r.turn, status |-> r.status, cursor |-> r.cursor]
  /\ r.status \in Filters
Details(r) == r = [kind |-> "detail", turn |-> r.turn, case |-> r.case, reload |-> r.reload]
WorkOperations(r) == r = [kind |-> "operation", turn |-> r.turn, case |-> r.case]

Wires ==
  \A r \in reads : /\ r.turn \in BOOLEAN
                   /\ \/ Lists(r) /\ (r.turn => r.status = status)
                      \/ Details(r) /\ (r.turn => r.case = selectedId)
                      \/ WorkOperations(r)

WorkspaceInv == status \in Filters /\ items \subseteq Listed /\ Wires /\ Workspace!BundleIsSelected
  /\ Workspace!ItemsMatchFilter

LEMMA SpaceInit == ASSUME Workspace!WorkspaceAssumption PROVE Workspace!Init => WorkspaceInv
BY DEF Workspace!WorkspaceAssumption, Workspace!Init, WorkspaceInv, Wires, Lists, Workspace!ListOf,
   Workspace!BundleIsSelected, Workspace!ItemsMatchFilter

\* A request whose turn is changed.
LEMMA Turned ==
  ASSUME NEW q, NEW b
  PROVE  LET r == [q EXCEPT !.turn = b] IN
         /\ Lists(q) => q.kind = "list" /\ Lists(r) /\ r.turn = b /\ r.status = q.status
         /\ Details(q) => q.kind = "detail" /\ Details(r) /\ r.turn = b /\ r.case = q.case
         /\ WorkOperations(q) => q.kind = "operation" /\ WorkOperations(r) /\ r.turn = b
<1> DEFINE r == [q EXCEPT !.turn = b]
<1>1. ASSUME Lists(q) PROVE q.kind = "list" /\ Lists(r) /\ r.turn = b /\ r.status = q.status
  <2>1. PICK t, f, c : q = [kind |-> "list", turn |-> t, status |-> f, cursor |-> c] BY <1>1 DEF Lists
  <2>2. f \in Filters BY <1>1, <2>1 DEF Lists
  <2>3. r = [kind |-> "list", turn |-> b, status |-> f, cursor |-> c] BY <2>1
  <2> HIDE DEF r
  <2> QED BY <2>1, <2>2, <2>3 DEF Lists
<1>2. ASSUME Details(q) PROVE q.kind = "detail" /\ Details(r) /\ r.turn = b /\ r.case = q.case
  <2>1. PICK t, c, d : q = [kind |-> "detail", turn |-> t, case |-> c, reload |-> d] BY <1>2 DEF Details
  <2>2. r = [kind |-> "detail", turn |-> b, case |-> c, reload |-> d] BY <2>1
  <2> HIDE DEF r
  <2> QED BY <2>1, <2>2 DEF Details
<1>3. ASSUME WorkOperations(q) PROVE q.kind = "operation" /\ WorkOperations(r) /\ r.turn = b
  <2>1. PICK t, c : q = [kind |-> "operation", turn |-> t, case |-> c] BY <1>3 DEF WorkOperations
  <2>2. r = [kind |-> "operation", turn |-> b, case |-> c] BY <2>1
  <2> HIDE DEF r
  <2> QED BY <2>1, <2>2 DEF WorkOperations
<1> QED BY <1>1, <1>2, <1>3

\* A request that is superseded is the same but for its turn.
LEMMA Overtaken ==
  ASSUME WorkspaceInv, NEW kind, NEW r \in Workspace!Superseded(kind)
  PROVE  /\ r.turn \in BOOLEAN
         /\ \/ Lists(r) /\ (r.turn => kind # "list" /\ r.status = status)
            \/ Details(r) /\ (r.turn => kind # "detail" /\ r.case = selectedId)
            \/ WorkOperations(r)
<1>1. PICK q \in reads : r = IF q.kind = kind THEN [q EXCEPT !.turn = FALSE] ELSE q BY DEF Workspace!Superseded
<1> DEFINE v == [q EXCEPT !.turn = FALSE]
<1>2. /\ Lists(q) => q.kind = "list" /\ Lists(v) /\ v.turn = FALSE
      /\ Details(q) => q.kind = "detail" /\ Details(v) /\ v.turn = FALSE
      /\ WorkOperations(q) => q.kind = "operation" /\ WorkOperations(v) /\ v.turn = FALSE
  BY Turned
<1>3. r = IF q.kind = kind THEN v ELSE q BY <1>1
<1> HIDE DEF v
<1> QED BY <1>2, <1>3 DEF WorkspaceInv, Wires

\* What is asked for is what is there.
LEMMA Asked ==
  ASSUME NEW f \in Filters, NEW c, NEW reload, NEW cursor
  PROVE  /\ Lists(Workspace!ListOf(f, cursor)) /\ Workspace!ListOf(f, cursor).turn
  /\ Workspace!ListOf(f, cursor).status = f
         /\ Details(Workspace!DetailOf(c, reload)) /\ Workspace!DetailOf(c, reload).turn /\ Workspace!DetailOf(c, reload).case = c
BY DEF Lists, Details, Workspace!ListOf, Workspace!DetailOf

LEMMA LoadsCases ==
  ASSUME WorkspaceInv, NEW f \in Filters, NEW cursor, Workspace!LoadCases(f, cursor,
         Workspace!Superseded("list")), status' = f,
         UNCHANGED selectedId
  PROVE  Wires'
<1>1. reads' = Workspace!Superseded("list") \cup {Workspace!ListOf(f, cursor)} BY DEF Workspace!LoadCases
<1>2. ASSUME NEW r \in Workspace!Superseded("list")
      PROVE  /\ r.turn \in BOOLEAN
             /\ \/ Lists(r) /\ (r.turn => r.status = status')
                \/ Details(r) /\ (r.turn => r.case = selectedId')
                \/ WorkOperations(r)
  BY <1>2, Overtaken
<1>3. Lists(Workspace!ListOf(f, cursor)) /\ Workspace!ListOf(f, cursor).turn /\ Workspace!ListOf(f, cursor).status = f
  BY Asked
<1> QED BY <1>1, <1>2, <1>3 DEF Wires

LEMMA LoadsCase ==
  ASSUME WorkspaceInv, NEW c, NEW reload, NEW S, S \subseteq Workspace!Superseded("detail"),
         reads' = S \cup {Workspace!DetailOf(c, reload)}, selectedId' = c, UNCHANGED status
  PROVE  Wires'
<1>1. ASSUME NEW r \in S
      PROVE  /\ r.turn \in BOOLEAN
             /\ \/ Lists(r) /\ (r.turn => r.status = status')
                \/ Details(r) /\ (r.turn => r.case = selectedId')
                \/ WorkOperations(r)
  BY <1>1, Overtaken
<1>2. Details(Workspace!DetailOf(c, reload)) /\ Workspace!DetailOf(c, reload).turn
      /\ Workspace!DetailOf(c, reload).case = c
  BY Asked DEF WorkspaceInv
<1> QED BY <1>1, <1>2 DEF Wires

LEMMA SpaceUser ==
  ASSUME Workspace!WorkspaceAssumption, WorkspaceInv,
         Workspace!RefreshList \/ Workspace!LoadMore \/ Workspace!ReloadCase \/ Workspace!ReadAgain \/ Workspace!Operate
           \/ (\E f \in Filters : Workspace!ChooseFilter(f)) \/ (\E c \in Listed : Workspace!OpenCase(c))
           \/ \E v \in {"cases", "accounts"} : Workspace!Close(v)
  PROVE  WorkspaceInv'
<1>1. CASE Workspace!RefreshList \/ Workspace!LoadMore
  <2>1. PICK cursor : Workspace!LoadCases(status, cursor, Workspace!Superseded("list")) /\ UNCHANGED <<status, Workspace!list, Workspace!detail>>
    BY <1>1 DEF Workspace!RefreshList, Workspace!LoadMore
  <2>2. Wires' BY <2>1, LoadsCases DEF WorkspaceInv, Workspace!detail
  <2> QED
    BY <2>1, <2>2 DEF WorkspaceInv, Workspace!BundleIsSelected, Workspace!ItemsMatchFilter, Workspace!list,
       Workspace!detail
<1>2. ASSUME NEW c, Workspace!LoadCase(c, FALSE), UNCHANGED <<status, Workspace!list>> PROVE WorkspaceInv'
  <2>1. Wires' BY <1>2, LoadsCase DEF Workspace!LoadCase
  <2> QED
    BY <1>2, <2>1 DEF Workspace!LoadCase, WorkspaceInv, Workspace!BundleIsSelected, Workspace!ItemsMatchFilter,
       Workspace!list
<1>3. CASE Workspace!ReloadCase BY <1>2, <1>3 DEF Workspace!ReloadCase
<1>4. CASE Workspace!ReadAgain
  <2>1. CASE selectedId # None BY <1>2, <1>4, <2>1 DEF Workspace!ReadAgain
  <2>2. CASE selectedId = None
    <3>1. Workspace!LoadCases(status, None, Workspace!Superseded("list"))
          /\ UNCHANGED <<status, Workspace!list, Workspace!detail>>
      BY <1>4, <2>2 DEF Workspace!ReadAgain
    <3>2. Wires' BY <3>1, LoadsCases DEF WorkspaceInv, Workspace!detail
    <3> QED
      BY <3>1, <3>2 DEF WorkspaceInv, Workspace!BundleIsSelected, Workspace!ItemsMatchFilter, Workspace!list,
         Workspace!detail
  <2> QED BY <2>1, <2>2
<1>5. CASE Workspace!Operate
  <2> DEFINE o == [kind |-> "operation", turn |-> TRUE, case |-> selectedId]
  <2>1. reads' = reads \cup {o} /\ UNCHANGED <<status, Workspace!list, Workspace!detail>>
    BY <1>5 DEF Workspace!Operate
  <2>2. WorkOperations(o) /\ o.turn BY DEF WorkOperations
  <2> HIDE DEF o
  <2>3. Wires' BY <2>1, <2>2 DEF WorkspaceInv, Wires, Lists, Details, WorkOperations, Workspace!detail
  <2> QED
    BY <2>1, <2>3 DEF WorkspaceInv, Workspace!BundleIsSelected, Workspace!ItemsMatchFilter, Workspace!list,
       Workspace!detail
<1>6. ASSUME NEW f \in Filters, Workspace!ChooseFilter(f) PROVE WorkspaceInv'
  <2>1. /\ Workspace!LoadCases(f, None, Workspace!Superseded("list")) /\ status' = f /\ items' = {} /\ UNCHANGED Workspace!detail
    BY <1>6 DEF Workspace!ChooseFilter
  <2>2. Wires' BY <2>1, LoadsCases DEF Workspace!detail
  <2> QED BY <2>1, <2>2 DEF WorkspaceInv, Workspace!BundleIsSelected, Workspace!ItemsMatchFilter, Workspace!detail
<1>7. ASSUME NEW c \in Listed, Workspace!OpenCase(c) PROVE WorkspaceInv'
  BY <1>2, <1>7 DEF Workspace!OpenCase
<1>8. ASSUME NEW v \in {"cases", "accounts"}, Workspace!Close(v) PROVE WorkspaceInv'
  <2>1. selectedId' = None /\ bundle' = None /\ UNCHANGED <<status, Workspace!list>> BY <1>8 DEF Workspace!Close
  <2>2. Wires'
    <3>1. CASE v = "cases" /\ ~Workspace!ListShown
      <4> DEFINE S == {[r EXCEPT !.turn = r.turn /\ r.kind = "operation"] : r \in reads}
      <4>1. reads' = S \cup {Workspace!ListOf(status, None)} BY <1>8, <3>1 DEF Workspace!Close, Workspace!LoadCases
      <4>2. ASSUME NEW r \in S
            PROVE  r.turn \in BOOLEAN /\ ((Lists(r) /\ ~r.turn) \/ (Details(r) /\ ~r.turn) \/ WorkOperations(r))
        <5>1. PICK q \in reads : r = [q EXCEPT !.turn = q.turn /\ q.kind = "operation"] OBVIOUS
        <5> DEFINE t == q.turn /\ q.kind = "operation"
                   z == [q EXCEPT !.turn = t]
        <5>2. /\ Lists(q) => q.kind = "list" /\ Lists(z) /\ z.turn = t
              /\ Details(q) => q.kind = "detail" /\ Details(z) /\ z.turn = t
              /\ WorkOperations(q) => q.kind = "operation" /\ WorkOperations(z) /\ z.turn = t
          BY Turned
        <5>3. r = z BY <5>1
        <5> HIDE DEF z
        <5> QED BY <5>2, <5>3 DEF WorkspaceInv, Wires
      <4>3. Lists(Workspace!ListOf(status, None)) /\ Workspace!ListOf(status, None).turn
            /\ Workspace!ListOf(status, None).status = status
        BY Asked DEF WorkspaceInv
      <4> HIDE DEF S
      <4> QED BY <2>1, <4>1, <4>2, <4>3 DEF Wires
    <3>2. CASE ~(v = "cases" /\ ~Workspace!ListShown)
      <4>1. reads' = Workspace!Superseded("detail") BY <1>8, <3>2 DEF Workspace!Close
      <4>2. ASSUME NEW r \in Workspace!Superseded("detail")
            PROVE  /\ r.turn \in BOOLEAN
                   /\ \/ Lists(r) /\ (r.turn => r.status = status')
                      \/ Details(r) /\ (r.turn => r.case = selectedId')
                      \/ WorkOperations(r)
        BY <2>1, <4>2, Overtaken
      <4> QED BY <4>1, <4>2 DEF Wires
    <3> QED BY <3>1, <3>2
  <2> QED BY <2>1, <2>2 DEF WorkspaceInv, Workspace!BundleIsSelected, Workspace!ItemsMatchFilter, Workspace!list
<1> QED BY <1>1, <1>3, <1>4, <1>5, <1>6, <1>7, <1>8

LEMMA SpaceAnswers ==
  ASSUME Workspace!WorkspaceAssumption, WorkspaceInv, NEW r \in reads,
         \/ Workspace!ListArrives(r) \/ Workspace!ListFails(r) \/ Workspace!DetailArrives(r) \/ Workspace!DetailFails(r)
         \/ Workspace!OperationDone(r) \/ Workspace!OperationFails(r)
  PROVE  WorkspaceInv'
<1> DEFINE rest == reads' = reads \ {r} /\ UNCHANGED <<status, selectedId>>
<1>1. rest => Wires' BY DEF WorkspaceInv, Wires
<1> HIDE DEF rest
<1>2. CASE Workspace!ListArrives(r)
  <2> DEFINE rows == Workspace!After(r.status, r.cursor)
  <2>1. rest /\ UNCHANGED <<status, Workspace!detail>> BY <1>2 DEF Workspace!ListArrives, rest, Workspace!detail
  <2>2. UNCHANGED Workspace!list \/ (Workspace!Counts(r) /\ items' \subseteq items \cup Workspace!PageOf(rows))
    BY <1>2 DEF Workspace!ListArrives
  <2>3. Workspace!Counts(r) => r.status = status
    BY <1>2 DEF Workspace!ListArrives, Workspace!Counts, WorkspaceInv, Wires, Lists, Details, WorkOperations
  <2>4. Workspace!PageOf(rows) \subseteq FilterShows[r.status] BY DEF Workspace!PageOf, Workspace!After
  <2>5. FilterShows[status] \subseteq Listed BY DEF Workspace!WorkspaceAssumption, WorkspaceInv
  <2> QED BY <1>1, <2>1, <2>2, <2>3, <2>4, <2>5
    DEF WorkspaceInv, Workspace!BundleIsSelected, Workspace!ItemsMatchFilter, Workspace!list, Workspace!detail
<1>3. CASE Workspace!DetailArrives(r)
  <2>1. rest /\ UNCHANGED Workspace!list /\ bundle' = IF Workspace!Counts(r) THEN r.case ELSE bundle
    BY <1>3 DEF Workspace!DetailArrives, rest
  <2>2. Workspace!Counts(r) => r.case = selectedId
    BY <1>3 DEF Workspace!DetailArrives, Workspace!Counts, WorkspaceInv, Wires, Lists, Details, WorkOperations
  <2> QED
    BY <1>1, <2>1, <2>2 DEF WorkspaceInv, Workspace!BundleIsSelected, Workspace!ItemsMatchFilter, rest,
       Workspace!list
<1>4. CASE Workspace!ListFails(r) \/ Workspace!DetailFails(r) \/ Workspace!OperationFails(r)
  <2>1. rest /\ UNCHANGED <<Workspace!list, Workspace!detail>>
    BY <1>4 DEF Workspace!ListFails, Workspace!DetailFails, Workspace!OperationFails, rest, Workspace!detail
  <2> QED
    BY <1>1, <2>1 DEF WorkspaceInv, Workspace!BundleIsSelected, Workspace!ItemsMatchFilter, rest, Workspace!list,
       Workspace!detail
<1>5. CASE Workspace!OperationDone(r)
  <2>1. /\ reads' = (Workspace!Superseded("detail") \ {r}) \cup {Workspace!DetailOf(r.case, TRUE)}
        /\ selectedId' = r.case /\ bundle' = None /\ UNCHANGED <<status, Workspace!list>>
    BY <1>5 DEF Workspace!OperationDone
  <2>2. Workspace!Superseded("detail") \ {r} \subseteq Workspace!Superseded("detail") OBVIOUS
  <2>3. Wires' BY <2>1, <2>2, LoadsCase
  <2> QED BY <2>1, <2>3 DEF WorkspaceInv, Workspace!BundleIsSelected, Workspace!ItemsMatchFilter, Workspace!list
<1> QED BY <1>2, <1>3, <1>4, <1>5

LEMMA SpaceStep == ASSUME Workspace!WorkspaceAssumption, WorkspaceInv, [Workspace!Next]_workspaceVars PROVE WorkspaceInv'
<1>1. CASE UNCHANGED workspaceVars
  BY <1>1 DEF workspaceVars, WorkspaceInv, Wires, Lists, Details, WorkOperations, Workspace!BundleIsSelected,
     Workspace!ItemsMatchFilter
<1>2. CASE Workspace!Answer BY <1>2, SpaceAnswers DEF Workspace!Answer
<1> QED BY <1>1, <1>2, SpaceUser DEF Workspace!Next

\* What else the work area keeps.  A request holds the area disabled if it is an operation, or the reading that
\* an operation waits for.
Holds(r) == r.kind = "operation" \/ (r.kind = "detail" /\ r.reload)
Reading(r) ==
  \/ r.kind = "list"
  \/ r.kind = "detail" /\ r.reload \in BOOLEAN /\ r.case \in Listed
  \/ r.kind = "operation" /\ r.case \in Listed

\* The area is disabled while a request holds it, and one does at a time.
HeldBy(requests, disabled1) ==
  /\ \A r \in requests : Reading(r)
  /\ disabled1 \in BOOLEAN /\ (disabled1 <=> \E r \in requests : Holds(r))
  /\ \A r, s \in requests : Holds(r) /\ Holds(s) => r = s

\* One list and one case are asked for whose answers count.
OneOfAKind(requests) ==
  \A r, s \in requests : r.turn /\ s.turn /\ r.kind = s.kind /\ r.kind # "operation" => r = s

SpaceKept ==
  /\ nextCursor \in Listed \cup {None} /\ selectedId \in Listed \cup {None}
  /\ HeldBy(reads, busy) /\ OneOfAKind(reads)

LEMMA SpaceKeptInit == Workspace!Init => SpaceKept
<1> SUFFICES ASSUME Workspace!Init PROVE SpaceKept OBVIOUS
<1> DEFINE x == Workspace!ListOf(InboxFilter, None)
<1>1. nextCursor = None /\ selectedId = None /\ busy = FALSE /\ reads = {x} BY DEF Workspace!Init
<1>2. x.kind = "list" BY DEF Workspace!ListOf
<1> HIDE DEF x
<1> QED BY <1>1, <1>2 DEF SpaceKept, HeldBy, OneOfAKind, Reading, Holds

\* A request whose turn is changed.
LEMMA TurnedSame ==
  ASSUME NEW q, NEW b
  PROVE  LET r == [q EXCEPT !.turn = b] IN
         /\ Lists(q) => q.kind = "list" /\ r.kind = "list" /\ r.turn = b
         /\ Details(q) => q.kind = "detail" /\ r.kind = "detail" /\ r.turn = b /\ r.case = q.case /\ r.reload = q.reload
         /\ WorkOperations(q) => q.kind = "operation" /\ r.kind = "operation" /\ r.turn = b /\ r.case = q.case
<1> DEFINE r == [q EXCEPT !.turn = b]
<1>1. ASSUME Lists(q) PROVE q.kind = "list" /\ r.kind = "list" /\ r.turn = b
  <2>1. PICK t, f, c : q = [kind |-> "list", turn |-> t, status |-> f, cursor |-> c] BY <1>1 DEF Lists
  <2>2. r = [kind |-> "list", turn |-> b, status |-> f, cursor |-> c] BY <2>1
  <2> HIDE DEF r
  <2> QED BY <2>1, <2>2
<1>2. ASSUME Details(q)
      PROVE  q.kind = "detail" /\ r.kind = "detail" /\ r.turn = b /\ r.case = q.case /\ r.reload = q.reload
  <2>1. PICK t, c, d : q = [kind |-> "detail", turn |-> t, case |-> c, reload |-> d] BY <1>2 DEF Details
  <2>2. r = [kind |-> "detail", turn |-> b, case |-> c, reload |-> d] BY <2>1
  <2> HIDE DEF r
  <2> QED BY <2>1, <2>2
<1>3. ASSUME WorkOperations(q) PROVE q.kind = "operation" /\ r.kind = "operation" /\ r.turn = b /\ r.case = q.case
  <2>1. PICK t, c : q = [kind |-> "operation", turn |-> t, case |-> c] BY <1>3 DEF WorkOperations
  <2>2. r = [kind |-> "operation", turn |-> b, case |-> c] BY <2>1
  <2> HIDE DEF r
  <2> QED BY <2>1, <2>2
<1> QED BY <1>1, <1>2, <1>3

\* Requests that are overtaken hold the area as they did, and none counts that did not.
LEMMA OvertakenKept ==
  ASSUME WorkspaceInv, SpaceKept, NEW F, NEW S, S = {F[q] : q \in reads},
         \A q \in reads : F[q] = q \/ \E b \in BOOLEAN : ~b /\ F[q] = [q EXCEPT !.turn = b]
  PROVE  /\ HeldBy(S, busy) /\ OneOfAKind(S)
         /\ \A r \in S : r.turn => \E q \in reads : r = q /\ F[q] = q
<1>1. ASSUME NEW q \in reads
      PROVE  /\ Reading(F[q]) /\ (Holds(F[q]) <=> Holds(q))
             /\ F[q].turn => F[q] = q
  <2>0. PICK b \in BOOLEAN : ~b /\ (F[q] = q \/ F[q] = [q EXCEPT !.turn = b]) OBVIOUS
  <2> DEFINE v == [q EXCEPT !.turn = b]
  <2>1. F[q] = q \/ F[q] = v BY <2>0
  <2>2. /\ Lists(q) => q.kind = "list" /\ v.kind = "list" /\ v.turn = b
        /\ Details(q) => q.kind = "detail" /\ v.kind = "detail" /\ v.turn = b /\ v.case = q.case /\ v.reload = q.reload
        /\ WorkOperations(q) => q.kind = "operation" /\ v.kind = "operation" /\ v.turn = b /\ v.case = q.case
    BY TurnedSame
  <2> HIDE DEF v
  <2>3. Lists(q) \/ Details(q) \/ WorkOperations(q) BY DEF WorkspaceInv, Wires
  <2>4. Reading(q) BY DEF SpaceKept, HeldBy
  <2> QED BY <2>0, <2>1, <2>2, <2>3, <2>4 DEF Reading, Holds
<1>2. \A r \in S : \E q \in reads : r = F[q] OBVIOUS
<1>3. \A q \in reads : F[q] \in S OBVIOUS
<1>4. \A r \in S : r.turn => \E q \in reads : r = q /\ F[q] = q BY <1>1, <1>2
<1>5. OneOfAKind(S) BY <1>4 DEF SpaceKept, OneOfAKind
<1>6. \A r \in S : Reading(r) BY <1>1, <1>2
<1>7. busy \in BOOLEAN /\ (busy <=> \E r \in S : Holds(r)) BY <1>1, <1>2, <1>3 DEF SpaceKept, HeldBy
<1>8. \A r, s \in S : Holds(r) /\ Holds(s) => r = s BY <1>1, <1>2 DEF SpaceKept, HeldBy
<1> QED BY <1>4, <1>5, <1>6, <1>7, <1>8 DEF HeldBy

LEMMA SupersededKept ==
  ASSUME WorkspaceInv, SpaceKept, NEW kind
  PROVE  /\ HeldBy(Workspace!Superseded(kind), busy) /\ OneOfAKind(Workspace!Superseded(kind))
         /\ \A r \in Workspace!Superseded(kind) : r.turn => r.kind # kind
<1> DEFINE F == [q \in reads |-> IF q.kind = kind THEN [q EXCEPT !.turn = FALSE] ELSE q]
           S == Workspace!Superseded(kind)
<1>1. S = {F[q] : q \in reads} BY DEF Workspace!Superseded
<1>0. \A q \in reads : F[q] = q \/ F[q] = [q EXCEPT !.turn = FALSE] OBVIOUS
<1>3. \A q \in reads : q.kind = kind => F[q] = [q EXCEPT !.turn = FALSE] OBVIOUS
<1> HIDE DEF F, S
<1>2. \A q \in reads : F[q] = q \/ \E b \in BOOLEAN : ~b /\ F[q] = [q EXCEPT !.turn = b] BY <1>0
<1>4. /\ HeldBy(S, busy) /\ OneOfAKind(S)
      /\ \A r \in S : r.turn => \E q \in reads : r = q /\ F[q] = q
  BY <1>1, <1>2, OvertakenKept
<1>5. ASSUME NEW q \in reads, q.kind = kind, F[q] = q PROVE ~q.turn
  <2> DEFINE v == [q EXCEPT !.turn = FALSE]
  <2>1. Lists(q) \/ Details(q) \/ WorkOperations(q) BY DEF WorkspaceInv, Wires
  <2>2. v.turn = FALSE BY <2>1, TurnedSame
  <2>3. q = v BY <1>3, <1>5
  <2> HIDE DEF v
  <2> QED BY <2>2, <2>3
<1> QED BY <1>4, <1>5 DEF S

\* A request is made that holds nothing, and takes the place of those of its kind.
LEMMA RequestMade ==
  ASSUME NEW S, NEW b, HeldBy(S, b), OneOfAKind(S), NEW x, Reading(x), ~Holds(x), \A r \in S : r.turn => r.kind # x.kind
  PROVE  HeldBy(S \cup {x}, b) /\ OneOfAKind(S \cup {x})
BY DEF HeldBy, OneOfAKind

\* A request is over.
LEMMA RequestOver ==
  ASSUME SpaceKept, NEW r \in reads
  PROVE  /\ OneOfAKind(reads \ {r})
         /\ HeldBy(reads \ {r}, IF Holds(r) THEN FALSE ELSE busy)
<1>1. CASE Holds(r) BY <1>1 DEF SpaceKept, HeldBy, OneOfAKind
<1>2. CASE ~Holds(r) BY <1>2 DEF SpaceKept, HeldBy, OneOfAKind
<1> QED BY <1>1, <1>2

LEMMA LoadsCasesKept ==
  ASSUME WorkspaceInv, SpaceKept, NEW f, NEW cursor, Workspace!LoadCases(f, cursor, Workspace!Superseded("list")),
         UNCHANGED <<busy, nextCursor, selectedId>>
  PROVE  SpaceKept'
<1> DEFINE x == Workspace!ListOf(f, cursor)
<1>1. reads' = Workspace!Superseded("list") \cup {x} BY DEF Workspace!LoadCases
<1>2. x.kind = "list" BY DEF Workspace!ListOf
<1> HIDE DEF x
<1>3. Reading(x) /\ ~Holds(x) BY <1>2 DEF Reading, Holds
<1>4. HeldBy(reads', busy) /\ OneOfAKind(reads') BY <1>1, <1>2, <1>3, SupersededKept, RequestMade
<1> QED BY <1>4 DEF SpaceKept

LEMMA LoadsCaseKept ==
  ASSUME WorkspaceInv, SpaceKept, NEW c \in Listed, Workspace!LoadCase(c, FALSE), UNCHANGED <<busy, nextCursor>>
  PROVE  SpaceKept'
<1> DEFINE x == Workspace!DetailOf(c, FALSE)
<1>1. reads' = Workspace!Superseded("detail") \cup {x} /\ selectedId' = c BY DEF Workspace!LoadCase
<1>2. x.kind = "detail" /\ x.reload = FALSE /\ x.case = c BY DEF Workspace!DetailOf
<1> HIDE DEF x
<1>3. Reading(x) /\ ~Holds(x) BY <1>2 DEF Reading, Holds
<1>4. HeldBy(reads', busy) /\ OneOfAKind(reads') BY <1>1, <1>2, <1>3, SupersededKept, RequestMade
<1> QED BY <1>1, <1>4 DEF SpaceKept

LEMMA ClosesKept ==
  ASSUME WorkspaceInv, SpaceKept, NEW v \in {"cases", "accounts"}, Workspace!Close(v) PROVE SpaceKept'
<1>0. selectedId' = None /\ UNCHANGED <<busy, nextCursor>> BY DEF Workspace!Close, Workspace!list
<1>1. CASE v = "cases" /\ ~Workspace!ListShown
  <2> DEFINE F == [q \in reads |-> [q EXCEPT !.turn = q.turn /\ q.kind = "operation"]]
             S == {F[q] : q \in reads}
             x == Workspace!ListOf(status, None)
  <2>1. reads' = {[r EXCEPT !.turn = r.turn /\ r.kind = "operation"] : r \in reads} \cup {x}
    BY <1>1 DEF Workspace!Close, Workspace!LoadCases
  <2>2. reads' = S \cup {x} BY <2>1
  <2>3. x.kind = "list" BY DEF Workspace!ListOf
  <2>4. ASSUME NEW q \in reads
        PROVE  (F[q] = q \/ \E b \in BOOLEAN : ~b /\ F[q] = [q EXCEPT !.turn = b]) /\ (F[q].turn => q.kind # "list")
    <3> DEFINE b == q.turn /\ q.kind = "operation"
               w == [q EXCEPT !.turn = b]
    <3>1. F[q] = w OBVIOUS
    <3>2. Lists(q) \/ Details(q) \/ WorkOperations(q) BY DEF WorkspaceInv, Wires
    <3>3. CASE ~b
      <4>1. b \in BOOLEAN OBVIOUS
      <4>2. w.turn = b
        <5> HIDE DEF b
        <5> QED BY <3>2, TurnedSame
      <4>3. F[q] = [q EXCEPT !.turn = b] OBVIOUS
      <4> HIDE DEF b, w, F
      <4> QED BY <3>1, <3>3, <4>1, <4>2, <4>3
    <3>4. CASE b
      <4>1. PICK t, c : q = [kind |-> "operation", turn |-> t, case |-> c] BY <3>2, <3>4 DEF Lists, Details, WorkOperations
      <4>2. t \in BOOLEAN /\ t BY <3>4, <4>1 DEF WorkspaceInv, Wires
      <4>3. t = b BY <3>4, <4>1, <4>2
      <4>4. w = [kind |-> "operation", turn |-> b, case |-> c] BY <4>1
      <4> HIDE DEF b, w
      <4>5. w = q BY <4>1, <4>3, <4>4
      <4> QED BY <3>1, <4>1, <4>5
    <3> QED BY <3>3, <3>4
  <2> HIDE DEF F, x
  <2>9. S = {F[q] : q \in reads} /\ \A q \in reads : F[q] = q \/ \E b \in BOOLEAN : ~b /\ F[q] = [q EXCEPT !.turn = b]
    BY <2>4
  <2> HIDE DEF S
  <2>5. /\ HeldBy(S, busy) /\ OneOfAKind(S)
        /\ \A r \in S : r.turn => \E q \in reads : r = q /\ F[q] = q
    BY <2>9, OvertakenKept
  <2>6. \A r \in S : r.turn => r.kind # x.kind BY <2>3, <2>4, <2>5
  <2>7. Reading(x) /\ ~Holds(x) BY <2>3 DEF Reading, Holds
  <2>8. HeldBy(reads', busy) /\ OneOfAKind(reads') BY <2>2, <2>5, <2>6, <2>7, RequestMade
  <2> QED BY <1>0, <2>8 DEF SpaceKept
<1>2. CASE ~(v = "cases" /\ ~Workspace!ListShown)
  <2>1. reads' = Workspace!Superseded("detail") BY <1>2 DEF Workspace!Close
  <2> QED BY <1>0, <2>1, SupersededKept DEF SpaceKept
<1> QED BY <1>1, <1>2

LEMMA SpaceUserKept ==
  ASSUME Workspace!WorkspaceAssumption, WorkspaceInv, SpaceKept,
         Workspace!RefreshList \/ Workspace!LoadMore \/ Workspace!ReloadCase \/ Workspace!ReadAgain \/ Workspace!Operate
           \/ (\E f \in Filters : Workspace!ChooseFilter(f)) \/ (\E c \in Listed : Workspace!OpenCase(c))
           \/ \E v \in {"cases", "accounts"} : Workspace!Close(v)
  PROVE  SpaceKept'
<1>1. CASE Workspace!RefreshList \/ Workspace!LoadMore \/ \E f \in Filters : Workspace!ChooseFilter(f)
  <2>1. \E f, cursor : Workspace!LoadCases(f, cursor, Workspace!Superseded("list")) /\ UNCHANGED <<busy, nextCursor, selectedId>>
    BY <1>1 DEF Workspace!RefreshList, Workspace!LoadMore, Workspace!ChooseFilter, Workspace!list, Workspace!detail
  <2> QED BY <2>1, LoadsCasesKept
<1>2. CASE Workspace!ReloadCase \/ \E c \in Listed : Workspace!OpenCase(c)
  <2>1. \E c \in Listed : Workspace!LoadCase(c, FALSE) /\ UNCHANGED <<busy, nextCursor>>
    BY <1>2 DEF Workspace!ReloadCase, Workspace!OpenCase, Workspace!list, SpaceKept
  <2> QED BY <2>1, LoadsCaseKept
<1>3. CASE Workspace!ReadAgain
  <2>1. CASE selectedId # None
    <3>1. selectedId \in Listed /\ Workspace!LoadCase(selectedId, FALSE) /\ UNCHANGED <<busy, nextCursor>>
      BY <1>3, <2>1 DEF Workspace!ReadAgain, Workspace!list, SpaceKept
    <3> QED BY <3>1, LoadsCaseKept
  <2>2. CASE selectedId = None
    <3>1. Workspace!LoadCases(status, None, Workspace!Superseded("list")) /\ UNCHANGED <<busy, nextCursor, selectedId>>
      BY <1>3, <2>2 DEF Workspace!ReadAgain, Workspace!list, Workspace!detail
    <3> QED BY <3>1, LoadsCasesKept
  <2> QED BY <2>1, <2>2
<1>4. CASE Workspace!Operate
  <2> DEFINE o == [kind |-> "operation", turn |-> TRUE, case |-> selectedId]
  <2>1. reads' = reads \cup {o} /\ busy' = TRUE /\ ~busy /\ bundle # None /\ UNCHANGED <<nextCursor, selectedId>>
    BY <1>4 DEF Workspace!Operate, Workspace!Enabled, Workspace!list, Workspace!detail
  <2>2. selectedId \in Listed BY <2>1 DEF SpaceKept, WorkspaceInv, Workspace!BundleIsSelected
  <2>3. o.kind = "operation" /\ o.case \in Listed BY <2>2
  <2> HIDE DEF o
  <2>4. Holds(o) /\ Reading(o) BY <2>3 DEF Holds, Reading
  <2>5. HeldBy(reads', busy') BY <2>1, <2>4 DEF SpaceKept, HeldBy
  <2>6. OneOfAKind(reads') BY <2>1, <2>3 DEF SpaceKept, OneOfAKind
  <2> QED BY <2>1, <2>5, <2>6 DEF SpaceKept
<1> QED BY <1>1, <1>2, <1>3, <1>4, ClosesKept

LEMMA WorkspaceCardinality == \A S : Workspace!Cardinality(S) = Cardinality(S)
BY DEF Workspace!Cardinality, Cardinality
LEMMA WorkspaceFinite == \A S : Workspace!IsFiniteSet(S) = IsFiniteSet(S)
BY DEF Workspace!IsFiniteSet, IsFiniteSet

\* A set of numbers that is not empty has a least one.
LEMMA LeastListed ==
  ASSUME NEW S, S \subseteq Nat, S # {} PROVE \E x \in S : \A y \in S : x <= y
<1> DEFINE R == {ss \in Nat \X Nat : ss[1] < ss[2]}
<1>1. IsWellFoundedOn(R, Nat) BY NatLessThanWellFounded, Zenon DEF OpToRel
<1>2. \E x \in S : \A y \in S : ~ (<<y, x>> \in R) BY <1>1, WFMin, Zenon
<1>3. \A x, y \in Nat : <<y, x>> \in R <=> y < x OBVIOUS
<1>4. PICK x \in S : \A y \in S : ~ (<<y, x>> \in R) BY <1>2
<1> HIDE DEF R
<1>5. ASSUME NEW y \in S PROVE x <= y
  <2>1. ~ (y < x) /\ x \in Nat /\ y \in Nat BY <1>3, <1>4
  <2> QED BY <2>1
<1> QED BY <1>5

\* A page of the list that is not all of it has a last case, where the list goes on.
LEMMA CursorListed ==
  ASSUME Workspace!WorkspaceAssumption, NEW rows, rows \subseteq Listed PROVE Workspace!CursorOf(rows) \in Listed \cup {None}
<1> DEFINE below(c) == {d \in rows : d < c}
           P == Workspace!PageOf(rows)
<1>0. rows \subseteq Nat /\ IsFiniteSet(rows)
  BY WorkspaceFinite, FS_Subset DEF Workspace!WorkspaceAssumption
<1>1. PageSize \in Nat \ {0} BY DEF Workspace!WorkspaceAssumption
<1>2. \A c : IsFiniteSet(below(c)) /\ Cardinality(below(c)) \in Nat
  <2>1. \A c : below(c) \in SUBSET rows OBVIOUS
  <2> HIDE DEF below
  <2> QED BY <1>0, <2>1, FS_Subset, FS_CardinalityType
<1>3. P = {c \in rows : Cardinality(below(c)) < PageSize} BY WorkspaceCardinality DEF Workspace!PageOf
<1> SUFFICES ASSUME ~(Cardinality(rows) <= PageSize) PROVE Workspace!CursorOf(rows) \in Listed
  BY WorkspaceCardinality DEF Workspace!CursorOf
<1>4. rows # {} BY <1>1, FS_EmptySet
<1>5. PICK first \in rows : \A y \in rows : first <= y BY <1>0, <1>4, LeastListed
<1>6. below(first) = {}
  <2>1. \A d \in rows : ~(d < first) BY <1>0, <1>5
  <2> QED BY <2>1
<1>7. first \in P
  <2> HIDE DEF below
  <2>1. Cardinality(below(first)) = 0 BY <1>6, FS_EmptySet
  <2>2. Cardinality(below(first)) < PageSize BY <1>1, <2>1
  <2> QED BY <1>3, <2>2
<1> DEFINE Left == {PageSize - Cardinality(below(c)) : c \in P}
<1>8. Left \subseteq Nat /\ Left # {}
  <2> HIDE DEF below, P
  <2> QED BY <1>1, <1>2, <1>3, <1>7
<1>9. PICK x \in Left : \A y \in Left : x <= y
  <2> HIDE DEF Left
  <2> QED BY <1>8, LeastListed
<1>10. PICK last \in P : x = PageSize - Cardinality(below(last)) OBVIOUS
<1>11. ASSUME NEW d \in P PROVE d <= last
  <2>0. d \in Nat /\ last \in Nat /\ last \in rows /\ d \in rows BY <1>0, <1>3
  <2>1. SUFFICES ASSUME last < d PROVE FALSE BY <2>0
  <2>2. below(last) \cup {last} \in SUBSET below(d) /\ last \notin below(last)
    <3>1. \A e \in rows : e < last => e < d BY <1>0, <2>0, <2>1
    <3>2. ~(last < last) BY <2>0
    <3> QED BY <2>0, <2>1, <3>1, <3>2
  <2>3. PageSize - Cardinality(below(d)) \in Left OBVIOUS
  <2>4. PageSize - Cardinality(below(last)) <= PageSize - Cardinality(below(d)) BY <1>9, <1>10, <2>3
  <2> HIDE DEF below, P, Left
  <2>5. Cardinality(below(last) \cup {last}) = Cardinality(below(last)) + 1 BY <1>2, <2>2, FS_AddElement
  <2>6. Cardinality(below(last) \cup {last}) <= Cardinality(below(d)) BY <1>2, <2>2, FS_Subset
  <2> QED BY <1>1, <1>2, <2>4, <2>5, <2>6
<1> HIDE DEF P
<1>12. (CHOOSE c \in P : \A d \in P : d <= c) \in P BY <1>10, <1>11
<1>13. P \subseteq Listed BY <1>3
<1> QED BY <1>12, <1>13, WorkspaceCardinality DEF P, Workspace!CursorOf

LEMMA SpaceAnswersKept ==
  ASSUME Workspace!WorkspaceAssumption, WorkspaceInv, SpaceKept, NEW r \in reads,
         \/ Workspace!ListArrives(r) \/ Workspace!ListFails(r) \/ Workspace!DetailArrives(r) \/ Workspace!DetailFails(r)
         \/ Workspace!OperationDone(r) \/ Workspace!OperationFails(r)
  PROVE  SpaceKept'
<1>1. Reading(r) /\ busy \in BOOLEAN BY DEF SpaceKept, HeldBy
<1>2. CASE Workspace!ListArrives(r) \/ Workspace!ListFails(r)
  <2>1. ~Holds(r) /\ reads' = reads \ {r} /\ UNCHANGED <<busy, selectedId>>
    BY <1>2 DEF Workspace!ListArrives, Workspace!ListFails, Workspace!detail, Holds
  <2>2. nextCursor' \in Listed \cup {None}
    <3>1. CASE UNCHANGED nextCursor BY <3>1 DEF SpaceKept
    <3>2. CASE ~UNCHANGED nextCursor
      <4>1. nextCursor' = Workspace!CursorOf(Workspace!After(r.status, r.cursor))
        BY <1>2, <3>2 DEF Workspace!ListArrives, Workspace!ListFails, Workspace!list
      <4>2. Lists(r) BY <1>2 DEF Workspace!ListArrives, Workspace!ListFails, WorkspaceInv, Wires, Details, WorkOperations
      <4>3. Workspace!After(r.status, r.cursor) \subseteq Listed
        BY <4>2 DEF Lists, Workspace!After, Workspace!WorkspaceAssumption
      <4> QED BY <4>1, <4>3, CursorListed
    <3> QED BY <3>1, <3>2
  <2> QED BY <2>1, <2>2, RequestOver DEF SpaceKept
<1>3. CASE Workspace!DetailArrives(r) \/ Workspace!DetailFails(r)
  <2>1. /\ r.kind = "detail" /\ reads' = reads \ {r} /\ busy' = (busy /\ ~r.reload)
        /\ UNCHANGED <<nextCursor, selectedId>>
    BY <1>3 DEF Workspace!DetailArrives, Workspace!DetailFails, Workspace!detail, Workspace!list, Workspace!BusyAfter
  <2>2. r.reload \in BOOLEAN BY <1>1, <2>1 DEF Reading
  <2>3. busy' = IF Holds(r) THEN FALSE ELSE busy BY <1>1, <2>1, <2>2 DEF Holds
  <2> QED BY <2>1, <2>3, RequestOver DEF SpaceKept
<1>4. CASE Workspace!OperationFails(r)
  <2>1. Holds(r) /\ reads' = reads \ {r} /\ busy' = FALSE /\ UNCHANGED <<nextCursor, selectedId>>
    BY <1>4 DEF Workspace!OperationFails, Workspace!detail, Workspace!list, Holds
  <2> QED BY <2>1, RequestOver DEF SpaceKept
<1>5. CASE Workspace!OperationDone(r)
  <2> DEFINE x == Workspace!DetailOf(r.case, TRUE)
             S == Workspace!Superseded("detail")
  <2>1. /\ r.kind = "operation" /\ selectedId' = r.case /\ reads' = (S \ {r}) \cup {x} /\ UNCHANGED <<busy, nextCursor>>
    BY <1>5 DEF Workspace!OperationDone, Workspace!list
  <2>2. r.case \in Listed BY <1>1, <2>1 DEF Reading
  <2>3. x.kind = "detail" /\ x.reload = TRUE /\ x.case = r.case BY DEF Workspace!DetailOf
  <2>4. r \in S BY <2>1 DEF Workspace!Superseded
  <2>5. HeldBy(S, busy) /\ OneOfAKind(S) /\ \A s \in S : s.turn => s.kind # "detail" BY SupersededKept
  <2> HIDE DEF x, S
  <2>6. Holds(r) /\ Holds(x) /\ Reading(x) BY <2>1, <2>2, <2>3 DEF Holds, Reading
  <2>7. HeldBy(reads', busy) BY <2>1, <2>4, <2>5, <2>6 DEF HeldBy
  <2>8. OneOfAKind(reads') BY <2>1, <2>3, <2>5 DEF OneOfAKind
  <2> QED BY <2>1, <2>2, <2>7, <2>8 DEF SpaceKept
<1> QED BY <1>2, <1>3, <1>4, <1>5

LEMMA SpaceKeptStep ==
  ASSUME Workspace!WorkspaceAssumption, WorkspaceInv, SpaceKept, [Workspace!Next]_workspaceVars PROVE SpaceKept'
<1>1. CASE UNCHANGED workspaceVars BY <1>1 DEF workspaceVars, SpaceKept, HeldBy, OneOfAKind
<1>2. CASE Workspace!Answer BY <1>2, SpaceAnswersKept DEF Workspace!Answer
<1> QED BY <1>1, <1>2, SpaceUserKept DEF Workspace!Next

LEMMA SpaceTyped == ASSUME WorkspaceInv, SpaceKept PROVE Workspace!WorkspaceTypeOK
<1> DEFINE L == {r \in reads : r.kind # "operation" /\ r.turn}
<1>1. \A r \in L : r.kind \in {"list", "detail"} BY DEF SpaceKept, HeldBy, Reading
<1>2. \A r, s \in L : r.kind = s.kind => r = s BY DEF SpaceKept, OneOfAKind
<1>3. \E a, b : L \subseteq {a, b}
  <2>1. PICK a : \A r \in L : r.kind = "list" => r = a BY <1>2
  <2>2. PICK b : \A r \in L : r.kind = "detail" => r = b BY <1>2
  <2> HIDE DEF L
  <2> QED BY <1>1, <2>1, <2>2
<1> HIDE DEF L
<1>4. Cardinality(L) <= 2
  <2>1. PICK a, b : L \subseteq {a, b} BY <1>3
  <2>2. IsFiniteSet({a}) /\ Cardinality({a}) = 1 BY FS_Singleton
  <2>3. IsFiniteSet({a} \cup {b}) /\ Cardinality({a} \cup {b}) <= 2
    <3>1. Cardinality({a} \cup {b}) = Cardinality({a}) \/ Cardinality({a} \cup {b}) = Cardinality({a}) + 1
      BY <2>2, FS_AddElement
    <3> QED BY <2>2, <3>1, FS_AddElement
  <2>4. L \in SUBSET ({a} \cup {b}) BY <2>1
  <2> QED BY <2>3, <2>4, FS_Subset, FS_CardinalityType
<1>5. Workspace!Cardinality({r \in reads : r.kind # "operation" /\ r.turn}) <= 2 BY <1>4, WorkspaceCardinality DEF L
<1>6. busy = \E r \in reads : r.kind = "operation" \/ (r.kind = "detail" /\ r.reload)
  BY DEF SpaceKept, HeldBy, Holds
<1>7. bundle # None => selectedId # None BY DEF WorkspaceInv, Workspace!BundleIsSelected
<1> QED BY <1>5, <1>6, <1>7 DEF WorkspaceInv, SpaceKept, Workspace!WorkspaceTypeOK

---------------------------------------------------------------------------
(* Review and decision.                                                    *)

\* What was read is older than what is there, or the same; what is confirmed is what the form and the
\* page say, and what was sent names the versions the page shows.

ReviewTypes ==
  /\ version \in Nat
  /\ item \in Review!ItemRows
  /\ draft \in [Criteria -> Review!Contents]
  /\ shown # None => shown \in Review!Bundles

\* What was read is what the case was, and what it still is while the versions agree.
Past(bundle1, v, i) ==
  /\ bundle1.version <= v
  /\ bundle1.version = v => bundle1.item = i
  /\ \A c \in Criteria : /\ bundle1.item[c].version <= i[c].version
                         /\ bundle1.item[c].version = i[c].version => bundle1.item[c] = i[c]
Older == shown # None => Past(shown, version, item)

\* What is confirmed is what the form and the page say; the key is the same for the same body.
ReviewForm ==
  /\ deciding = [outcome |-> deciding.outcome, evidence |-> deciding.evidence, confirmed |-> deciding.confirmed]
  /\ deciding.confirmed # None => deciding.confirmed = [body |-> Review!Body, item |-> shown.item]
  /\ kept.series \subseteq {kept.key}

\* What was sent names the versions the page shows.
ReviewSent ==
  sent # None =>
    /\ shown # None
    /\ \/ /\ sent.kind = "save" /\ sent.criterion \in Criteria /\ sent.content \in Review!Contents
          /\ sent.etag = shown.item[sent.criterion].version
       \/ /\ sent.kind = "decide" /\ sent.etag = shown.version /\ sent.series = {sent.key}
          /\ sent.confirmed = [body |-> sent.body, item |-> shown.item]

ReviewInv == ReviewTypes /\ Older /\ ReviewForm /\ ReviewSent /\ Review!DecidedAsConfirmed

LEMMA ReviewInit == ASSUME Review!PanelsAssumption PROVE Review!Init => ReviewInv
BY DEF Review!Init, ReviewInv, ReviewTypes, Review!ItemRows, Review!Contents, Review!Results, Review!Row, Review!Pending,
   Review!EmptyForm, Review!NothingKept, Older, ReviewForm,
       ReviewSent, Review!DecidedAsConfirmed

\* The case changes: the versions that changed are above those the page shows.
LEMMA Updates ==
  ASSUME ReviewInv, NEW c \in Criteria, NEW content \in Review!Contents, Review!UpdateReview(c, content),
         Review!ReviewAllowed(content)
  PROVE  /\ version' \in Nat /\ item' \in Review!ItemRows /\ Review!DecidedAsConfirmed'
         /\ shown # None => Past(shown, version', item')
         /\ \A d \in Criteria \ {c} : item'[d] = item[d]
<1> USE DEF ReviewInv, ReviewTypes, Review!Bundles
<1> DEFINE row1 == Review!Row(content, item[c].version + 1)
<1>0. item[c].version \in Nat BY DEF Review!ItemRows
<1>1. row1 \in [result : Review!Results, reason : BOOLEAN, evidence : SUBSET Sources, version : Nat]
      /\ row1.version = item[c].version + 1
  BY <1>0 DEF Review!Row, Review!Contents
<1> HIDE DEF row1
<1>2. item' = [item EXCEPT ![c] = row1] /\ version' = version + 1 /\ UNCHANGED decision
  BY DEF Review!UpdateReview, row1
<1>3. item' \in Review!ItemRows /\ item'[c] = row1 /\ \A d \in Criteria \ {c} : item'[d] = item[d]
  BY <1>1, <1>2 DEF Review!ItemRows
<1>5. ASSUME shown # None PROVE Past(shown, version', item')
  <2>1. shown.version \in Nat /\ \A d \in Criteria : shown.item[d].version \in Nat BY <1>5 DEF Review!ItemRows
  <2>2. Past(shown, version, item) BY <1>5 DEF Older
  <2>3. shown.version <= version' /\ shown.version # version' BY <1>2, <2>1, <2>2 DEF Past
  <2>4. ASSUME NEW d \in Criteria
        PROVE  /\ shown.item[d].version <= item'[d].version
               /\ shown.item[d].version = item'[d].version => shown.item[d] = item'[d]
    <3>1. CASE d = c BY <1>0, <1>1, <1>3, <2>1, <2>2, <3>1 DEF Past
    <3>2. CASE d # c BY <1>3, <2>2, <3>2 DEF Past
    <3> QED BY <3>1, <3>2
  <2> QED BY <2>3, <2>4 DEF Past
<1>6. Review!DecidedAsConfirmed' BY <1>2 DEF Review!ReviewAllowed, Review!DecidedAsConfirmed
<1> QED BY <1>2, <1>3, <1>5, <1>6

LEMMA Decides ==
  ASSUME ReviewInv, NEW body1, NEW key, NEW confirmed, Review!DecideCase(body1, key, confirmed),
         confirmed # None => confirmed = [body |-> body1, item |-> item]
  PROVE  /\ version' \in Nat /\ UNCHANGED item /\ Review!DecidedAsConfirmed'
         /\ shown # None => Past(shown, version', item')
<1>1. version' = version + 1 /\ UNCHANGED item /\ decision' = [body |-> body1, key |-> key, confirmed |-> confirmed]
  BY DEF Review!DecideCase
<1>2. ASSUME shown # None PROVE Past(shown, version', item')
  <2>1. shown.version \in Nat BY <1>2 DEF ReviewInv, ReviewTypes, Review!Bundles
  <2> QED BY <1>1, <1>2, <2>1 DEF ReviewInv, ReviewTypes, Older, Past
<1> QED BY <1>1, <1>2 DEF Review!DecidedAsConfirmed, ReviewInv, ReviewTypes

\* The server does what was sent and is accepted.
LEMMA Applies ==
  ASSUME ReviewInv, sent # None, Review!Accepted(sent), Review!Apply(sent)
  PROVE  /\ version' \in Nat /\ item' \in Review!ItemRows /\ Review!DecidedAsConfirmed' /\ Past(shown, version', item')
         /\ \A c \in Criteria : item'[c] # item[c] => shown.item[c] = item[c]
<1>0. shown # None BY DEF ReviewInv, ReviewSent
<1>1. CASE sent.kind = "save"
  <2> DEFINE c == sent.criterion
  <2>1. c \in Criteria /\ sent.content \in Review!Contents /\ Review!UpdateReview(c, sent.content)
        /\ Review!ReviewAllowed(sent.content)
        /\ sent.etag = item[c].version /\ sent.etag = shown.item[c].version
    BY <1>1 DEF Review!Apply, Review!Accepted, Review!CheckVersion, ReviewInv, ReviewSent
  <2> HIDE DEF c
  <2>2. shown.item[c] = item[c] BY <1>0, <2>1 DEF ReviewInv, Older, Past
  <2> QED BY <1>0, <2>1, <2>2, Updates
<1>2. CASE sent.kind # "save" /\ Review!Replayed(sent)
  BY <1>0, <1>2 DEF Review!Apply, Review!server, ReviewInv, ReviewTypes, Older, Review!DecidedAsConfirmed
<1>3. CASE sent.kind # "save" /\ ~Review!Replayed(sent)
  <2>1. Review!DecideCase(sent.body, sent.key, sent.confirmed) /\ sent.etag = version
    BY <1>3 DEF Review!Apply, Review!Accepted, Review!CheckVersion
  <2>2. sent.confirmed = [body |-> sent.body, item |-> item]
    BY <1>0, <1>3, <2>1 DEF ReviewInv, ReviewSent, Older, Past
  <2> QED BY <1>0, <2>1, <2>2, Decides DEF ReviewInv, ReviewTypes
<1> QED BY <1>1, <1>2, <1>3

LEMMA ReviewServed ==
  ASSUME ReviewInv, Review!OperationDone \/ Review!OperationRefused \/ Review!OperationLost
  PROVE  ReviewInv' /\ Review!NothingOverwrittenStep
<1>1. CASE Review!OperationRefused \/ (Review!OperationLost /\ UNCHANGED Review!server)
  <2>1. sent' = None /\ UNCHANGED <<Review!server, shown, Review!panels>>
    BY <1>1 DEF Review!OperationRefused, Review!OperationLost
  <2> QED
    BY <2>1 DEF Review!server, Review!panels, ReviewInv, ReviewTypes, Older, ReviewForm, Review!Body, ReviewSent,
       Review!DecidedAsConfirmed,
                       Review!NothingOverwrittenStep
<1>2. CASE Review!OperationLost /\ ~UNCHANGED Review!server
  <2>1. sent # None /\ Review!Accepted(sent) /\ Review!Apply(sent) /\ sent' = None
        /\ UNCHANGED <<shown, Review!panels>>
    BY <1>2 DEF Review!OperationLost
  <2>2. /\ version' \in Nat /\ item' \in Review!ItemRows /\ Past(shown, version', item') /\ Review!DecidedAsConfirmed'
        /\ \A c \in Criteria : item'[c] # item[c] => shown.item[c] = item[c]
    BY <2>1, Applies
  <2>3. Older' BY <2>1, <2>2 DEF Older
  <2> QED
    BY <2>1, <2>2, <2>3 DEF Review!panels, ReviewInv, ReviewTypes, ReviewForm, Review!Body, ReviewSent,
       Review!NothingOverwrittenStep
<1>3. CASE Review!OperationDone
  <2>1. sent # None /\ Review!Accepted(sent) /\ Review!Apply(sent) /\ sent' = None /\ shown' = None
        /\ Review!Unmounted
    BY <1>3 DEF Review!OperationDone
  <2>2. /\ version' \in Nat /\ item' \in Review!ItemRows /\ Review!DecidedAsConfirmed'
        /\ \A c \in Criteria : item'[c] # item[c] => shown.item[c] = item[c]
    BY <2>1, Applies
  <2>3. Review!Pending \in Review!Contents BY DEF Review!Pending, Review!Contents, Review!Results
  <2>4. draft' \in [Criteria -> Review!Contents] BY <2>1, <2>3 DEF Review!Unmounted
  <2>5. ReviewForm' BY <2>1 DEF Review!Unmounted, ReviewForm, Review!EmptyForm, Review!NothingKept
  <2> QED BY <2>1, <2>2, <2>4, <2>5 DEF ReviewInv, ReviewTypes, Older, ReviewSent, Review!NothingOverwrittenStep
<1> QED BY <1>1, <1>2, <1>3

\* A panel that is mounted holds what the page was given.
LEMMA Mounts1 ==
  ASSUME NEW bundle1, bundle1.item \in Review!ItemRows, Review!Mounted(bundle1)
  PROVE  draft' \in [Criteria -> Review!Contents] /\ ReviewForm'
<1>1. \A c \in Criteria : Review!ContentOf(bundle1.item[c]) \in Review!Contents
  BY DEF Review!ContentOf, Review!Contents, Review!ItemRows
<1> QED BY <1>1 DEF Review!Mounted, ReviewForm, Review!EmptyForm, Review!NothingKept

LEMMA ReviewPage ==
  ASSUME ReviewInv,
         \/ Review!Reload \/ Review!CaseArrives \/ (\E t \in {"documents", "reviews", "decision"} : Review!ShowTab(t))
         \/ (\E c \in Criteria : Review!EditItem(c) \/ Review!SaveItem(c)) \/ Review!EditForm \/ Review!Confirm \/ Review!Decide
         \/ UNCHANGED reviewVars
  PROVE  ReviewInv' /\ Review!NothingOverwrittenStep
<1>0. UNCHANGED Review!server => Review!NothingOverwrittenStep BY DEF Review!server, Review!NothingOverwrittenStep
<1> USE DEF ReviewInv, ReviewTypes, Review!server, Review!Bundles
<1>1. CASE Review!Reload
  <2>1. Review!Pending \in Review!Contents BY DEF Review!Pending, Review!Contents, Review!Results
  <2>2. draft' \in [Criteria -> Review!Contents] /\ ReviewForm'
    BY <1>1, <2>1 DEF Review!Reload, Review!Unmounted, ReviewForm, Review!EmptyForm, Review!NothingKept
  <2> QED BY <1>0, <1>1, <2>2 DEF Review!Reload, Older, ReviewSent, Review!DecidedAsConfirmed
<1>2. CASE Review!CaseArrives
  <2>1. shown' = [version |-> version, item |-> item, decided |-> decision # None] /\ Review!Mounted(shown')
        /\ sent' = None
        /\ UNCHANGED Review!server
    BY <1>2 DEF Review!CaseArrives
  <2>2. shown' \in Review!Bundles BY <2>1 DEF Review!Bundles
  <2>3. draft' \in [Criteria -> Review!Contents] /\ ReviewForm' BY <2>1, <2>2, Mounts1
  <2>4. \A c \in Criteria : item[c].version \in Nat BY DEF Review!ItemRows
  <2>5. Older' BY <2>1, <2>4 DEF Older, Past
  <2> QED BY <1>0, <2>1, <2>2, <2>3, <2>5 DEF ReviewSent, Review!DecidedAsConfirmed
<1>3. ASSUME NEW t, Review!ShowTab(t) PROVE ReviewInv' /\ Review!NothingOverwrittenStep
  <2>1. Review!Mounted(shown) /\ UNCHANGED <<Review!server, shown, sent>> /\ shown.item \in Review!ItemRows
    BY <1>3 DEF Review!ShowTab, Review!Working
  <2>2. draft' \in [Criteria -> Review!Contents] /\ ReviewForm' BY <2>1, Mounts1
  <2> QED BY <1>0, <2>1, <2>2 DEF Older, ReviewSent, Review!DecidedAsConfirmed
<1>4. ASSUME NEW c \in Criteria, Review!EditItem(c) PROVE ReviewInv' /\ Review!NothingOverwrittenStep
  <2>1. draft[c] \in Review!Contents OBVIOUS
  <2>2. UNCHANGED <<Review!server, shown, reviewTab, deciding, kept, sent>> BY <1>4 DEF Review!EditItem
  <2>3. draft' \in [Criteria -> Review!Contents]
    <3>1. ASSUME NEW r \in Review!Results PROVE [draft[c] EXCEPT !.result = r] \in Review!Contents
      BY <2>1 DEF Review!Contents
    <3>2. [draft[c] EXCEPT !.reason = ~draft[c].reason] \in Review!Contents BY <2>1 DEF Review!Contents
    <3>3. ASSUME NEW e \in SUBSET Sources PROVE [draft[c] EXCEPT !.evidence = e] \in Review!Contents
      BY <2>1 DEF Review!Contents
    <3>4. \A s \in Sources : draft[c].evidence \cup {s} \in SUBSET Sources /\ draft[c].evidence \ {s} \in SUBSET Sources
      BY <2>1 DEF Review!Contents
    <3>5. \E v \in Review!Contents : draft' = [draft EXCEPT ![c] = v]
      BY <1>4, <3>1, <3>2, <3>3, <3>4 DEF Review!EditItem
    <3> QED BY <3>5
  <2> QED BY <1>0, <2>2, <2>3 DEF Older, ReviewForm, Review!Body, ReviewSent, Review!DecidedAsConfirmed
<1>5. ASSUME NEW c \in Criteria, Review!SaveItem(c) PROVE ReviewInv' /\ Review!NothingOverwrittenStep
  <2>1. /\ shown # None /\ UNCHANGED <<Review!server, shown, Review!panels>>
        /\ sent' = [kind |-> "save", criterion |-> c, etag |-> shown.item[c].version, content |-> draft[c]]
    BY <1>5 DEF Review!SaveItem, Review!CanEdit, Review!Working
  <2>2. ReviewSent' BY <2>1 DEF ReviewSent, Review!panels
  <2> QED BY <1>0, <2>1, <2>2 DEF Older, ReviewForm, Review!Body, Review!DecidedAsConfirmed, Review!panels
<1>6. CASE Review!EditForm
  <2>1. UNCHANGED <<Review!server, shown, reviewTab, draft, kept, sent>> BY <1>6 DEF Review!EditForm
  <2>2. \E o, e : deciding' = [outcome |-> o, evidence |-> e, confirmed |-> None]
    <3>1. PICK o, e, d : deciding = [outcome |-> o, evidence |-> e, confirmed |-> d] BY DEF ReviewForm
    <3> QED BY <1>6, <3>1 DEF Review!EditForm, Review!Change
  <2>3. ReviewForm' BY <2>1, <2>2 DEF ReviewForm
  <2> QED BY <1>0, <2>1, <2>3 DEF Older, ReviewSent, Review!DecidedAsConfirmed
<1>7. CASE Review!Confirm
  <2>1. /\ deciding' = [deciding EXCEPT !.confirmed = [body |-> Review!Body, item |-> shown.item]]
        /\ UNCHANGED <<Review!server, shown, reviewTab, draft, kept, sent>>
    BY <1>7 DEF Review!Confirm
  <2>2. deciding'.outcome = deciding.outcome /\ deciding'.evidence = deciding.evidence
        /\ deciding'.confirmed = [body |-> Review!Body, item |-> shown.item]
    BY <2>1
  <2> QED BY <1>0, <2>1, <2>2 DEF Older, ReviewForm, Review!Body, ReviewSent, Review!DecidedAsConfirmed
<1>8. CASE Review!Decide
  <2>1. /\ shown # None /\ deciding.confirmed # None /\ UNCHANGED <<Review!server, shown, reviewTab, draft, deciding>>
        /\ sent' = [kind |-> "decide", etag |-> shown.version, body |-> Review!Body, key |-> Review!KeyFor(Review!Body),
                    confirmed |-> deciding.confirmed, series |-> Review!Series]
        /\ kept' = [body |-> Review!Body, key |-> Review!KeyFor(Review!Body), series |-> Review!Series]
    BY <1>8 DEF Review!Decide, Review!CanDecide, Review!Working
  <2>2. Review!Series = {Review!KeyFor(Review!Body)} BY DEF Review!Series, Review!KeyFor, ReviewForm
  <2>3. ReviewSent' BY <2>1, <2>2 DEF ReviewSent, ReviewForm
  <2>4. ReviewForm' BY <2>1, <2>2 DEF ReviewForm, Review!Body
  <2> QED BY <1>0, <2>1, <2>3, <2>4 DEF Older, Review!DecidedAsConfirmed
<1>9. CASE UNCHANGED reviewVars
  BY <1>0, <1>9 DEF reviewVars, Older, ReviewForm, Review!Body, ReviewSent, Review!DecidedAsConfirmed
<1> QED BY <1>1, <1>2, <1>3, <1>4, <1>5, <1>6, <1>7, <1>8, <1>9

LEMMA ReviewColleague == ASSUME ReviewInv, Review!Colleague PROVE ReviewInv' /\ Review!NothingOverwrittenStep
<1>1. UNCHANGED <<shown, reviewTab, draft, deciding, kept, sent>> BY DEF Review!Colleague, Review!panels
<1>2. version' \in Nat /\ item' \in Review!ItemRows /\ Review!DecidedAsConfirmed' /\ (shown # None => Past(shown, version', item'))
  <2>1. ASSUME NEW c \in Criteria, NEW r \in Review!Results, NEW s \in Sources,
               Review!ReviewAllowed([result |-> r, reason |-> TRUE, evidence |-> {s}]),
               Review!UpdateReview(c, [result |-> r, reason |-> TRUE, evidence |-> {s}])
        PROVE  version' \in Nat /\ item' \in Review!ItemRows /\ Review!DecidedAsConfirmed' /\ (shown # None => Past(shown, version', item'))
    <3>1. [result |-> r, reason |-> TRUE, evidence |-> {s}] \in Review!Contents BY DEF Review!Contents
    <3> QED BY <2>1, <3>1, Updates
  <2>2. ASSUME NEW o \in Review!Outcomes, NEW s \in Sources,
               Review!DecideCase([outcome |-> o, evidence |-> {s}], 0, None)
        PROVE  version' \in Nat /\ item' \in Review!ItemRows /\ Review!DecidedAsConfirmed' /\ (shown # None => Past(shown, version', item'))
    BY <2>2, Decides DEF ReviewInv, ReviewTypes
  <2> QED BY <2>1, <2>2 DEF Review!Colleague
<1>3. Review!NothingOverwrittenStep BY <1>1 DEF Review!NothingOverwrittenStep
<1>4. ReviewSent' BY <1>1 DEF ReviewSent, ReviewInv
<1> QED BY <1>1, <1>2, <1>3, <1>4 DEF ReviewInv, ReviewTypes, Older, ReviewForm, Review!Body

LEMMA ReviewStep == ASSUME ReviewInv, [Review!Next]_reviewVars PROVE ReviewInv' /\ Review!NothingOverwrittenStep
BY ReviewServed, ReviewPage, ReviewColleague DEF Review!Next

LEMMA ReviewPromises == ReviewInv => Review!DecidedAsConfirmed /\ Review!RetryIsRecognised
BY DEF ReviewInv, ReviewSent, Review!RetryIsRecognised, Review!Accepted, Review!Replayed

\* What a panel shows when nothing was typed into it.
AsRead(c) == IF shown = None THEN Review!Pending ELSE Review!ContentOf(shown.item[c])

\* What else the review keeps: no item is newer than the case, and an editor that says something of its own
\* is on the page.
ReviewKept ==
  /\ \A c \in Criteria : item[c].version <= version
  /\ deciding.outcome \in Review!Outcomes /\ deciding.evidence \subseteq Sources
  /\ \A c \in Criteria : draft[c] # AsRead(c) => shown # None /\ reviewTab = "reviews"
  /\ deciding # Review!EmptyForm \/ kept # Review!NothingKept => shown # None /\ reviewTab = "decision"
  /\ kept.key \in kept.series \cup {0}

LEMMA ReviewKeptInit == ASSUME Review!PanelsAssumption PROVE Review!Init => ReviewKept
BY DEF Review!Init, Review!Row, Review!Pending, Review!EmptyForm, Review!NothingKept, Review!Outcomes, AsRead, ReviewKept

LEMMA UpdatesNewest ==
  ASSUME ReviewInv, ReviewKept, NEW c \in Criteria, NEW content, Review!UpdateReview(c, content)
  PROVE  \A d \in Criteria : item'[d].version <= version'
<1>0. version \in Nat /\ \A d \in Criteria : item[d].version \in Nat BY DEF ReviewInv, ReviewTypes, Review!ItemRows
<1> DEFINE row1 == Review!Row(content, item[c].version + 1)
<1>1. row1.version = item[c].version + 1 BY DEF Review!Row
<1>2. item' = [item EXCEPT ![c] = row1] /\ version' = version + 1 BY DEF Review!UpdateReview
<1> HIDE DEF row1
<1>3. item'[c] = row1 /\ \A d \in Criteria \ {c} : item'[d] = item[d]
  BY <1>2 DEF ReviewInv, ReviewTypes, Review!ItemRows
<1> QED BY <1>0, <1>1, <1>2, <1>3 DEF ReviewKept

LEMMA DecidesNewest ==
  ASSUME ReviewInv, ReviewKept, NEW body1, NEW key, NEW confirmed, Review!DecideCase(body1, key, confirmed)
  PROVE  \A d \in Criteria : item'[d].version <= version'
<1>0. version \in Nat /\ \A d \in Criteria : item[d].version \in Nat BY DEF ReviewInv, ReviewTypes, Review!ItemRows
<1> QED BY <1>0 DEF Review!DecideCase, ReviewKept

LEMMA AppliesNewest ==
  ASSUME ReviewInv, ReviewKept, sent # None, Review!Apply(sent)
  PROVE  \A d \in Criteria : item'[d].version <= version'
<1>1. CASE sent.kind = "save"
  <2>1. sent.criterion \in Criteria /\ Review!UpdateReview(sent.criterion, sent.content)
    BY <1>1 DEF Review!Apply, ReviewInv, ReviewSent
  <2> QED BY <2>1, UpdatesNewest
<1>2. CASE sent.kind # "save" /\ Review!Replayed(sent) BY <1>2 DEF Review!Apply, Review!server, ReviewKept
<1>3. CASE sent.kind # "save" /\ ~Review!Replayed(sent)
  <2>1. Review!DecideCase(sent.body, sent.key, sent.confirmed) BY <1>3 DEF Review!Apply
  <2> QED BY <2>1, DecidesNewest
<1> QED BY <1>1, <1>2, <1>3

\* The panels are as they were, or just mounted, or gone.
LEMMA PanelsStay ==
  ASSUME ReviewKept, \A d \in Criteria : item'[d].version <= version', UNCHANGED <<shown, reviewTab, draft, deciding, kept>>
  PROVE  ReviewKept'
BY DEF ReviewKept, AsRead

LEMMA PanelsMounted ==
  ASSUME NEW bundle1, bundle1 # None, Review!Mounted(bundle1), shown' = bundle1,
         \A d \in Criteria : item'[d].version <= version'
  PROVE  ReviewKept'
BY DEF ReviewKept, AsRead, Review!Mounted, Review!EmptyForm, Review!NothingKept, Review!Outcomes

LEMMA PanelsGone ==
  ASSUME Review!Unmounted, shown' = None, \A d \in Criteria : item'[d].version <= version'
  PROVE  ReviewKept'
BY DEF ReviewKept, AsRead, Review!Unmounted, Review!EmptyForm, Review!NothingKept, Review!Outcomes

\* The form of the decision is edited while the tab shows it.
LEMMA FormEdited ==
  ASSUME ReviewInv, ReviewKept, Review!EditForm \/ Review!Confirm
  PROVE  deciding'.outcome \in Review!Outcomes /\ deciding'.evidence \subseteq Sources
<1>1. PICK o, e, d : deciding = [outcome |-> o, evidence |-> e, confirmed |-> d] BY DEF ReviewInv, ReviewForm
<1>2. o \in Review!Outcomes /\ e \subseteq Sources BY <1>1 DEF ReviewKept
<1>3. CASE Review!Confirm BY <1>1, <1>2, <1>3 DEF Review!Confirm
<1>4. CASE Review!EditForm
  <2>1. Review!ReviewEvidence \subseteq Sources
    <3>1. \A c \in Criteria : shown.item[c].evidence \subseteq Sources
      BY <1>4 DEF Review!EditForm, Review!CanDecide, Review!Working, ReviewInv, ReviewTypes, Review!Bundles, Review!ItemRows
    <3> QED BY <3>1 DEF Review!ReviewEvidence
  <2>2. \A s \in Sources : e \cup {s} \in SUBSET Sources /\ e \ {s} \in SUBSET Sources BY <1>2
  <2>3. deciding.outcome = o /\ deciding.evidence = e BY <1>1
  <2>4. CASE \E p \in Review!Outcomes : Review!Change([deciding EXCEPT !.outcome = p])
    <3>1. PICK p \in Review!Outcomes : Review!Change([deciding EXCEPT !.outcome = p]) BY <2>4
    <3>2. deciding' = [outcome |-> p, evidence |-> e, confirmed |-> None] BY <1>1, <3>1 DEF Review!Change
    <3> QED BY <1>2, <3>2
  <2>5. CASE \E q \in SUBSET Sources : Review!Change([deciding EXCEPT !.evidence = q])
    <3>1. PICK q \in SUBSET Sources : Review!Change([deciding EXCEPT !.evidence = q]) BY <2>5
    <3>2. deciding' = [outcome |-> o, evidence |-> q, confirmed |-> None] BY <1>1, <3>1 DEF Review!Change
    <3> QED BY <1>2, <3>2
  <2>6. \/ \E p \in Review!Outcomes : Review!Change([deciding EXCEPT !.outcome = p])
        \/ \E q \in SUBSET Sources : Review!Change([deciding EXCEPT !.evidence = q])
    <3>1. \/ \E p \in Review!Outcomes : Review!Change([deciding EXCEPT !.outcome = p])
          \/ Review!Change([deciding EXCEPT !.evidence = Review!ReviewEvidence])
          \/ \E s \in Sources : Review!Change([deciding EXCEPT !.evidence = e \cup {s}])
          \/ \E s \in Sources : Review!Change([deciding EXCEPT !.evidence = e \ {s}])
      BY <1>4, <2>3 DEF Review!EditForm
    <3> QED BY <2>1, <2>2, <3>1
  <2> QED BY <2>4, <2>5, <2>6
<1> QED BY <1>3, <1>4

LEMMA ReviewKeptStep ==
  ASSUME Review!PanelsAssumption, ReviewInv, ReviewKept, [Review!Next]_reviewVars PROVE ReviewKept'
<1>0. UNCHANGED Review!server => \A d \in Criteria : item'[d].version <= version' BY DEF Review!server, ReviewKept
<1>1. CASE Review!Colleague
  <2>1. UNCHANGED <<shown, reviewTab, draft, deciding, kept>> BY <1>1 DEF Review!Colleague, Review!panels
  <2>2. \A d \in Criteria : item'[d].version <= version'
    BY <1>1, UpdatesNewest, DecidesNewest DEF Review!Colleague
  <2> QED BY <2>1, <2>2, PanelsStay
<1>2. CASE Review!Reload BY <1>0, <1>2, PanelsGone DEF Review!Reload
<1>3. CASE Review!CaseArrives
  <2>1. shown' = [version |-> version, item |-> item, decided |-> decision # None] /\ Review!Mounted(shown')
        /\ UNCHANGED Review!server
    BY <1>3 DEF Review!CaseArrives
  <2>2. shown' \in Review!Bundles BY <2>1 DEF Review!Bundles, ReviewInv, ReviewTypes
  <2>3. shown' # None BY <2>2 DEF Review!PanelsAssumption
  <2> QED BY <1>0, <2>1, <2>3, PanelsMounted
<1>4. ASSUME NEW t, Review!ShowTab(t) PROVE ReviewKept'
  <2>1. shown # None /\ Review!Mounted(shown) /\ UNCHANGED <<Review!server, shown>>
    BY <1>4 DEF Review!ShowTab, Review!Working
  <2> QED BY <1>0, <2>1, PanelsMounted
<1>5. ASSUME NEW c \in Criteria, Review!EditItem(c) PROVE ReviewKept'
  <2>1. shown # None /\ reviewTab = "reviews" /\ UNCHANGED <<Review!server, shown, reviewTab, deciding, kept>>
    BY <1>5 DEF Review!EditItem, Review!CanEdit, Review!Working
  <2> QED BY <1>0, <2>1 DEF ReviewKept, AsRead
<1>6. CASE (\E c \in Criteria : Review!SaveItem(c)) \/ Review!OperationRefused
  <2>1. UNCHANGED <<Review!server, shown, reviewTab, draft, deciding, kept>>
    BY <1>6 DEF Review!SaveItem, Review!OperationRefused, Review!panels
  <2> QED BY <1>0, <2>1, PanelsStay
<1>7. CASE Review!EditForm \/ Review!Confirm
  <2>1. shown # None /\ reviewTab = "decision" /\ UNCHANGED <<Review!server, shown, reviewTab, draft, kept>>
    BY <1>7 DEF Review!EditForm, Review!Confirm, Review!CanDecide, Review!Working
  <2>2. deciding'.outcome \in Review!Outcomes /\ deciding'.evidence \subseteq Sources BY <1>7, FormEdited
  <2> QED BY <1>0, <2>1, <2>2 DEF ReviewKept, AsRead
<1>8. CASE Review!Decide
  <2>1. /\ shown # None /\ reviewTab = "decision" /\ UNCHANGED <<Review!server, shown, reviewTab, draft, deciding>>
        /\ kept' = [body |-> Review!Body, key |-> Review!KeyFor(Review!Body), series |-> Review!Series]
    BY <1>8 DEF Review!Decide, Review!CanDecide, Review!Working
  <2>2. Review!KeyFor(Review!Body) \in Review!Series BY DEF Review!Series
  <2>3. kept'.key \in kept'.series BY <2>1, <2>2
  <2> QED BY <1>0, <2>1, <2>3 DEF ReviewKept, AsRead
<1>9. CASE Review!OperationDone
  <2>1. sent # None /\ Review!Apply(sent) /\ shown' = None /\ Review!Unmounted BY <1>9 DEF Review!OperationDone
  <2> QED BY <2>1, AppliesNewest, PanelsGone
<1>10. CASE Review!OperationLost
  <2>1. sent # None /\ UNCHANGED <<shown, reviewTab, draft, deciding, kept>> /\ (UNCHANGED Review!server \/ Review!Apply(sent))
    BY <1>10 DEF Review!OperationLost, Review!panels
  <2> QED BY <1>0, <2>1, AppliesNewest, PanelsStay
<1>11. CASE UNCHANGED reviewVars BY <1>11, PanelsStay, <1>0 DEF reviewVars, Review!server
<1> QED BY <1>1, <1>2, <1>3, <1>4, <1>5, <1>6, <1>7, <1>8, <1>9, <1>10, <1>11 DEF Review!Next

LEMMA ReviewTyped == ASSUME ReviewInv, ReviewKept PROVE Review!PanelsTypeOK
<1>1. \A c \in Criteria : Review!ContentOf(item[c]) \in Review!Contents
  BY DEF ReviewInv, ReviewTypes, Review!ItemRows, Review!ContentOf, Review!Contents
<1>2. Review!Body \in Review!Bodies BY DEF ReviewKept, Review!Body, Review!Bodies
<1> QED BY <1>1, <1>2 DEF ReviewInv, ReviewTypes, ReviewKept, AsRead, Review!PanelsTypeOK

---------------------------------------------------------------------------
(* Supplements.                                                            *)

\* No two tasks have one key; the form remembers one key, under which nothing was reported yet and at
\* most its own task was made.

\* The part's cardinality is that of the theorems about finite sets.
LEMMA PanelsCardinality == \A S : Panels!Cardinality(S) = Cardinality(S)
BY DEF Panels!Cardinality, Cardinality

TaskTypes ==
  /\ taskRow \in [Tasks -> Panels!TaskRows \cup {None}]
  /\ taskCards \in [Tasks -> Actions \cup {None}]
  /\ body # None => body \in TaskBodies
  /\ \A t \in Tasks : taskCards[t] # None => bundleTasks # None /\ bundleTasks[t] # None

\* What was read is what the task was, and what staff see of it holds while the versions agree.
SameTask(old, new) ==
  /\ new \in Panels!TaskRows /\ old.version <= new.version
  /\ old.version = new.version => /\ old.status = new.status /\ old.revision = new.revision
                                  /\ Len(old.submissions) = Len(new.submissions)
OlderTask == bundleTasks # None => \A t \in Tasks : bundleTasks[t] # None => bundleTasks[t] \in Panels!TaskRows /\ SameTask(bundleTasks[t], taskRow[t])

KeysAreOwn == \A t, u \in Panels!Created : taskRow[t].key = taskRow[u].key => t = u

\* The form remembers one key: nothing was reported under it, and at most its own task has it.
TaskForm ==
  /\ bodyKept.series \subseteq {bodyKept.key}
  /\ bodyKept.body # None => /\ bodyKept.body \in TaskBodies /\ bodyKept.key \in (1..MaxKey) \ toldKeys
                             /\ \A t \in Panels!Created : taskRow[t].key = bodyKept.key => taskRow[t].body = bodyKept.body

TaskSent ==
  operation # None =>
    /\ bundleTasks # None
    /\ \/ /\ operation.kind = "create" /\ operation.body = bodyKept.body /\ operation.key = bodyKept.key /\ operation.body # None
       \/ /\ operation.kind = "act" /\ operation.task \in Tasks /\ bundleTasks[operation.task] # None
          /\ operation.etag = bundleTasks[operation.task].version

TaskInv == TaskTypes /\ OlderTask /\ KeysAreOwn /\ TaskForm /\ TaskSent

TaskSteps == Panels!EveryReportIsATaskStep /\ Panels!NothingActedOnUnseenStep

LEMMA NoneIsNoTask == ASSUME Panels!TaskPanelsAssumption PROVE None \notin Panels!TaskRows
BY DEF Panels!TaskPanelsAssumption

LEMMA TaskInit == ASSUME Panels!TaskPanelsAssumption PROVE Panels!Init => TaskInv
BY DEF Panels!Init, TaskInv, TaskTypes, OlderTask, KeysAreOwn, Panels!Created, TaskForm, TaskSent,
   Panels!NothingKept, Panels!ClosedCards

\* What may be done to a task leaves a task, which is another version of it.
LEMMA ActedRow ==
  ASSUME NEW row1 \in Panels!TaskRows, NEW a
  PROVE  /\ Panels!Acted(row1, a) \in Panels!TaskRows /\ Panels!Acted(row1, a).version = row1.version + 1
         /\ Panels!Acted(row1, a).key = row1.key /\ Panels!Acted(row1, a).body = row1.body
<1> DEFINE st == CASE a = "accept" -> "ACCEPTED" [] a = "cancel" -> "CANCELLED"
                   [] a = "reopen" -> "REOPENED" [] OTHER -> row1.status
           rv == IF a \in {"reopen", "revise"} THEN row1.revision + 1 ELSE row1.revision
<1>1. st \in Panels!Statuses BY DEF Panels!TaskRows, Panels!Statuses
<1>2. rv \in Nat BY DEF Panels!TaskRows
<1>3. Panels!Acted(row1, a) = [row1 EXCEPT !.version = row1.version + 1, !.status = st, !.revision = rv]
  BY DEF Panels!Acted
<1> HIDE DEF st, rv
<1>4. row1 = [body |-> row1.body, key |-> row1.key, status |-> row1.status, revision |-> row1.revision,
              version |-> row1.version, submissions |-> row1.submissions]
  BY DEF Panels!TaskRows
<1>5. Panels!Acted(row1, a) = [body |-> row1.body, key |-> row1.key, status |-> st, revision |-> rv,
                               version |-> row1.version + 1, submissions |-> row1.submissions]
  BY <1>3, <1>4
<1> QED BY <1>1, <1>2, <1>5 DEF Panels!TaskRows

LEMMA AnsweredRow ==
  ASSUME NEW row1 \in Panels!TaskRows, NEW new,
         new = [row1 EXCEPT !.status = "SUBMITTED", !.version = row1.version + 1,
                           !.submissions = Append(row1.submissions, [revision |-> row1.revision, clean |-> FALSE])]
  PROVE  new \in Panels!TaskRows /\ new.version = row1.version + 1 /\ new.key = row1.key /\ new.body = row1.body
<1>1. Append(row1.submissions, [revision |-> row1.revision, clean |-> FALSE]) \in Seq(Panels!Answers)
  BY DEF Panels!TaskRows, Panels!Answers
<1> DEFINE z == Append(row1.submissions, [revision |-> row1.revision, clean |-> FALSE])
<1>2. new = [row1 EXCEPT !.status = "SUBMITTED", !.version = row1.version + 1, !.submissions = z] OBVIOUS
<1> HIDE DEF z
<1>3. row1 = [body |-> row1.body, key |-> row1.key, status |-> row1.status, revision |-> row1.revision,
              version |-> row1.version, submissions |-> row1.submissions]
  BY DEF Panels!TaskRows
<1>4. new = [body |-> row1.body, key |-> row1.key, status |-> "SUBMITTED", revision |-> row1.revision,
             version |-> row1.version + 1, submissions |-> z]
  BY <1>2, <1>3
<1>5. z \in Seq(Panels!Answers) BY <1>1 DEF z
<1> QED BY <1>4, <1>5 DEF Panels!TaskRows, Panels!Statuses

LEMMA ScannedRow ==
  ASSUME NEW row1 \in Panels!TaskRows, row1.submissions # <<>>, NEW new,
         new = [row1 EXCEPT !.submissions[Len(row1.submissions)].clean = TRUE]
  PROVE  /\ new \in Panels!TaskRows /\ new.version = row1.version /\ new.key = row1.key /\ new.body = row1.body
         /\ new.status = row1.status /\ new.revision = row1.revision
         /\ Len(new.submissions) = Len(row1.submissions)
<1> DEFINE s == row1.submissions
           n == Len(row1.submissions)
           a == [s[n] EXCEPT !.clean = TRUE]
           z == [s EXCEPT ![n] = a]
<1>0. s \in Seq(Panels!Answers) /\ n \in 1..Len(s) BY DEF Panels!TaskRows
<1>1. s[n] \in Panels!Answers BY <1>0
<1>2. a \in Panels!Answers BY <1>1 DEF Panels!Answers
<1>3. new = [row1 EXCEPT !.submissions = z] OBVIOUS
<1> HIDE DEF a
<1>4. z \in Seq(Panels!Answers) /\ Len(z) = Len(s) BY <1>0, <1>2
<1> HIDE DEF z, s, n
<1>5. new.submissions = z /\ new.version = row1.version /\ new.key = row1.key /\ new.body = row1.body
      /\ new.status = row1.status /\ new.revision = row1.revision /\ new \in Panels!TaskRows
  BY <1>3, <1>4 DEF Panels!TaskRows
<1> QED BY <1>4, <1>5 DEF s

\* A change of one task leaves everything else of the invariant.
LEMMA OneTaskChanges ==
  ASSUME TaskInv, NEW t \in Panels!Created, NEW new \in Panels!TaskRows, taskRow' = [taskRow EXCEPT ![t] = new],
         SameTask(taskRow[t], new), new.key = taskRow[t].key, new.body = taskRow[t].body
  PROVE  /\ taskRow' \in [Tasks -> Panels!TaskRows \cup {None}] /\ KeysAreOwn'
         /\ bundleTasks # None => \A u \in Tasks : bundleTasks[u] # None => bundleTasks[u] \in Panels!TaskRows /\ SameTask(bundleTasks[u], taskRow'[u])
         /\ bodyKept.body # None => \A u \in Panels!Created' : taskRow'[u].key = bodyKept.key => taskRow'[u].body = bodyKept.body
         /\ \A u \in Tasks \ {t} : taskRow'[u] = taskRow[u]
<1>1. t \in Tasks /\ taskRow[t] \in Panels!TaskRows /\ taskRow \in [Tasks -> Panels!TaskRows \cup {None}]
  BY DEF TaskInv, TaskTypes, Panels!Created
<1>2. taskRow'[t] = new /\ (\A u \in Tasks \ {t} : taskRow'[u] = taskRow[u]) /\ taskRow' \in [Tasks -> Panels!TaskRows \cup {None}]
  BY <1>1
<1>3. \A u \in Panels!Created' : u \in Panels!Created /\ taskRow'[u].key = taskRow[u].key /\ taskRow'[u].body = taskRow[u].body
  BY <1>2 DEF Panels!Created
<1>4. KeysAreOwn' BY <1>3 DEF TaskInv, KeysAreOwn
<1>5. ASSUME bundleTasks # None,
             NEW u \in Tasks, bundleTasks[u] # None PROVE bundleTasks[u] \in Panels!TaskRows /\ SameTask(bundleTasks[u], taskRow'[u])
  <2>1. bundleTasks[u] \in Panels!TaskRows /\ SameTask(bundleTasks[u], taskRow[u]) BY <1>5 DEF TaskInv, OlderTask
  <2>2. CASE u = t
    <3>1. bundleTasks[u].version \in Nat /\ taskRow[t].version \in Nat /\ new.version \in Nat
      BY <1>1, <2>1 DEF Panels!TaskRows
    <3> QED BY <1>2, <2>1, <2>2, <3>1 DEF SameTask
  <2> QED BY <1>2, <2>1, <2>2
<1>6. bodyKept.body # None => \A u \in Panels!Created' : taskRow'[u].key = bodyKept.key => taskRow'[u].body = bodyKept.body
  BY <1>3 DEF TaskInv, TaskForm
<1> QED BY <1>2, <1>4, <1>5, <1>6

LEMMA ActChanges ==
  ASSUME TaskInv, NEW t \in Panels!Created, NEW a, taskRow' = [taskRow EXCEPT ![t] = Panels!Acted(@, a)]
  PROVE  /\ taskRow' \in [Tasks -> Panels!TaskRows \cup {None}] /\ KeysAreOwn'
         /\ bundleTasks # None => \A u \in Tasks : bundleTasks[u] # None => bundleTasks[u] \in Panels!TaskRows /\ SameTask(bundleTasks[u], taskRow'[u])
         /\ bodyKept.body # None => \A u \in Panels!Created' : taskRow'[u].key = bodyKept.key => taskRow'[u].body = bodyKept.body
         /\ \A u \in Tasks \ {t} : taskRow'[u] = taskRow[u]
<1>1. t \in Tasks /\ taskRow[t] \in Panels!TaskRows BY DEF TaskInv, TaskTypes, Panels!Created
<1> DEFINE new == Panels!Acted(taskRow[t], a)
<1>2. new \in Panels!TaskRows /\ new.version = taskRow[t].version + 1 /\ new.key = taskRow[t].key
      /\ new.body = taskRow[t].body
  BY <1>1, ActedRow
<1>3. taskRow' = [taskRow EXCEPT ![t] = new] OBVIOUS
<1> HIDE DEF new
<1>4. SameTask(taskRow[t], new) BY <1>1, <1>2 DEF SameTask, Panels!TaskRows
<1> QED BY <1>2, <1>3, <1>4, OneTaskChanges

LEMMA TaskOthers == ASSUME TaskInv, Panels!Others PROVE TaskInv' /\ TaskSteps
<1>0. UNCHANGED <<bundleTasks, body, bodyKept, taskCards, operation, toldKeys>> BY DEF Panels!Others, Panels!panels
<1>1. PICK t \in Panels!Created :
          \/ /\ taskRow' = [taskRow EXCEPT ![t].status = "SUBMITTED", ![t].version = @ + 1,
                  ![t].submissions = Append(@, [revision |-> taskRow[t].revision, clean |-> FALSE])]
          \/ /\ taskRow[t].submissions # <<>>
             /\ taskRow' = [taskRow EXCEPT ![t].submissions[Len(taskRow[t].submissions)].clean = TRUE]
          \/ \E a \in Actions : taskRow' = [taskRow EXCEPT ![t] = Panels!Acted(@, a)]
  BY DEF Panels!Others
<1>2. t \in Tasks /\ taskRow[t] \in Panels!TaskRows /\ taskRow \in [Tasks -> Panels!TaskRows \cup {None}]
  BY DEF TaskInv, TaskTypes, Panels!Created
<1>3. /\ taskRow' \in [Tasks -> Panels!TaskRows \cup {None}] /\ KeysAreOwn'
      /\ bundleTasks # None => \A u \in Tasks : bundleTasks[u] # None => bundleTasks[u] \in Panels!TaskRows /\ SameTask(bundleTasks[u], taskRow'[u])
      /\ bodyKept.body # None => \A u \in Panels!Created' : taskRow'[u].key = bodyKept.key => taskRow'[u].body = bodyKept.body
  <2>1. CASE taskRow' = [taskRow EXCEPT ![t].status = "SUBMITTED", ![t].version = @ + 1,
                           ![t].submissions = Append(@, [revision |-> taskRow[t].revision, clean |-> FALSE])]
    <3> DEFINE new == [taskRow[t] EXCEPT !.status = "SUBMITTED", !.version = taskRow[t].version + 1,
                         !.submissions = Append(taskRow[t].submissions, [revision |-> taskRow[t].revision, clean |-> FALSE])]
    <3>1. taskRow' = [taskRow EXCEPT ![t] = new] BY <1>2, <2>1
    <3>2. new \in Panels!TaskRows /\ new.version = taskRow[t].version + 1 /\ new.key = taskRow[t].key
          /\ new.body = taskRow[t].body
      BY <1>2, AnsweredRow
    <3> HIDE DEF new
    <3>3. SameTask(taskRow[t], new) BY <1>2, <3>2 DEF SameTask, Panels!TaskRows
    <3> QED BY <3>1, <3>2, <3>3, OneTaskChanges
  <2>2. CASE /\ taskRow[t].submissions # <<>>
             /\ taskRow' = [taskRow EXCEPT ![t].submissions[Len(taskRow[t].submissions)].clean = TRUE]
    <3> DEFINE new == [taskRow[t] EXCEPT !.submissions[Len(taskRow[t].submissions)].clean = TRUE]
    <3>1. taskRow' = [taskRow EXCEPT ![t] = new] BY <1>2, <2>2
    <3>2. /\ new \in Panels!TaskRows /\ new.version = taskRow[t].version /\ new.key = taskRow[t].key /\ new.body = taskRow[t].body
          /\ new.status = taskRow[t].status /\ new.revision = taskRow[t].revision
          /\ Len(new.submissions) = Len(taskRow[t].submissions)
      BY <1>2, <2>2, ScannedRow
    <3> HIDE DEF new
    <3>3. SameTask(taskRow[t], new) BY <1>2, <3>2 DEF SameTask, Panels!TaskRows
    <3> QED BY <3>1, <3>2, <3>3, OneTaskChanges
  <2>3. CASE \E a \in Actions : taskRow' = [taskRow EXCEPT ![t] = Panels!Acted(@, a)]
    <3>1. PICK a \in Actions : taskRow' = [taskRow EXCEPT ![t] = Panels!Acted(@, a)] BY <2>3
    <3> QED BY <3>1, ActChanges
  <2> QED BY <1>1, <2>1, <2>2, <2>3
<1>4. TaskTypes' /\ OlderTask' BY <1>0, <1>3 DEF TaskInv, TaskTypes, OlderTask
<1>5. TaskForm' /\ TaskSent' BY <1>0, <1>3 DEF TaskInv, TaskForm, TaskSent
<1>6. TaskSteps
  BY <1>0 DEF TaskSteps, Panels!EveryReportIsATaskStep, Panels!NothingActedOnUnseenStep, TaskInv, TaskSent
<1> QED BY <1>3, <1>4, <1>5, <1>6 DEF TaskInv

LEMMA KeyIsNew ==
  ASSUME Panels!Unused # {}
  PROVE  Panels!NewKey \in (1..MaxKey) \ toldKeys /\ \A t \in Panels!Created : taskRow[t].key # Panels!NewKey
BY DEF Panels!Unused, Panels!NewKey

LEMMA TaskPage ==
  ASSUME TaskInv,
         \/ Panels!Reload \/ Panels!CaseArrives
         \/ \E b \in TaskBodies : Panels!FillForm(b)
         \/ Panels!CreateTask
         \/ \E t \in Tasks : Panels!CancelAction(t) \/ Panels!Act(t) \/ \E a \in Actions : Panels!ChooseAction(t, a)
         \/ UNCHANGED taskVars
  PROVE  TaskInv' /\ TaskSteps
<1> USE DEF TaskInv, TaskTypes
<1>0. UNCHANGED taskRow /\ (operation = None \/ UNCHANGED bundleTasks)
      => TaskSteps /\ KeysAreOwn' /\ UNCHANGED Panels!Created
  BY DEF TaskSteps, Panels!EveryReportIsATaskStep, Panels!NothingActedOnUnseenStep, TaskSent, KeysAreOwn,
     Panels!Created
<1>1. CASE Panels!Reload
  BY <1>0, <1>1 DEF Panels!Reload, Panels!Unmounted, OlderTask, TaskForm, TaskSent, Panels!NothingKept,
     Panels!ClosedCards
<1>2. CASE Panels!CaseArrives
  <2>1. \A t \in Tasks : taskRow[t] # None => taskRow[t] \in Panels!TaskRows /\ SameTask(taskRow[t], taskRow[t])
    BY DEF SameTask, Panels!TaskRows
  <2> QED BY <1>0, <1>2, <2>1 DEF Panels!CaseArrives, Panels!panels, OlderTask, TaskForm, TaskSent
<1>3. ASSUME NEW b \in TaskBodies, Panels!FillForm(b) PROVE TaskInv' /\ TaskSteps
  BY <1>0, <1>3 DEF Panels!FillForm, Panels!Working, OlderTask, TaskForm, TaskSent
<1>4. CASE Panels!CreateTask
  <2>1. /\ body # None /\ Panels!Unused # {} /\ operation = None /\ bundleTasks # None
        /\ bodyKept' = [body |-> body, key |-> Panels!Key, series |-> Panels!Series]
        /\ operation' = [kind |-> "create", body |-> body, key |-> Panels!Key]
        /\ UNCHANGED <<taskRow, bundleTasks, body, taskCards, toldKeys>>
    BY <1>4 DEF Panels!CreateTask, Panels!Working
  <2>2. Panels!Series \subseteq {Panels!Key} BY DEF Panels!Series, Panels!Key, TaskForm
  <2>3. /\ Panels!Key \in (1..MaxKey) \ toldKeys
        /\ \A t \in Panels!Created : taskRow[t].key = Panels!Key => taskRow[t].body = body
    <3>1. CASE bodyKept.body = body BY <2>1, <3>1 DEF Panels!Key, TaskForm
    <3>2. CASE bodyKept.body # body BY <2>1, <3>2, KeyIsNew DEF Panels!Key
    <3> QED BY <3>1, <3>2
  <2>4. TaskForm' BY <1>0, <2>1, <2>2, <2>3 DEF TaskForm
  <2>5. TaskSent' BY <2>1 DEF TaskSent
  <2> QED BY <1>0, <2>1, <2>4, <2>5 DEF OlderTask
<1>5. ASSUME NEW t \in Tasks, Panels!CancelAction(t) \/ (\E a \in Actions : Panels!ChooseAction(t, a))
      PROVE  TaskInv' /\ TaskSteps
  <2>1. UNCHANGED <<taskRow, bundleTasks, body, bodyKept, operation, toldKeys>>
        /\ taskCards' \in [Tasks -> Actions \cup {None}]
        /\ \A u \in Tasks : taskCards'[u] # None => bundleTasks # None /\ bundleTasks[u] # None
    BY <1>5 DEF Panels!CancelAction, Panels!ChooseAction, Panels!Working
  <2> QED BY <1>0, <2>1 DEF OlderTask, TaskForm, TaskSent
<1>6. ASSUME NEW t \in Tasks, Panels!Act(t)
      PROVE  TaskInv' /\ TaskSteps
  BY <1>0, <1>6 DEF Panels!Act, Panels!Working, Panels!panels, OlderTask, TaskForm, TaskSent
<1>7. CASE UNCHANGED taskVars BY <1>0, <1>7 DEF taskVars, OlderTask, TaskForm, TaskSent
<1> QED BY <1>1, <1>2, <1>3, <1>4, <1>5, <1>6, <1>7

\* The server does what was sent and is accepted: the form's task is new and the only one
\* of its key; of what it acts on, staff saw the version that it has.
LEMMA TaskApplies ==
  ASSUME Panels!TaskPanelsAssumption, TaskInv, operation # None, Panels!Accepted(operation), Panels!Apply(operation)
  PROVE  /\ taskRow' \in [Tasks -> Panels!TaskRows \cup {None}] /\ KeysAreOwn'
         /\ \A u \in Tasks : bundleTasks[u] # None => bundleTasks[u] \in Panels!TaskRows /\ SameTask(bundleTasks[u], taskRow'[u])
         /\ bodyKept.body # None => \A u \in Panels!Created' : taskRow'[u].key = bodyKept.key => taskRow'[u].body = bodyKept.body
         /\ operation.kind = "create" => \E t \in Tasks : taskRow'[t] # None /\ taskRow'[t].key = operation.key /\ taskRow'[t].body = operation.body
         /\ operation.kind = "act" => SameTask(bundleTasks[operation.task], taskRow[operation.task]) /\ bundleTasks[operation.task].version = taskRow[operation.task].version
<1> USE DEF TaskInv, TaskTypes
<1>0. bundleTasks # None BY DEF TaskSent
<1>1. CASE operation.kind = "act"
  <2> DEFINE t == operation.task
  <2>1. /\ t \in Tasks /\ bundleTasks[t] # None /\ bundleTasks[t].version = taskRow[t].version
        /\ taskRow' = [taskRow EXCEPT ![t] = Panels!Acted(@, operation.action)]
    BY <1>1 DEF TaskSent, Panels!Accepted, Panels!Apply, Panels!CheckVersion
  <2>2. SameTask(bundleTasks[t], taskRow[t]) BY <1>0, <2>1 DEF OlderTask
  <2> HIDE DEF t
  <2> DEFINE new == Panels!Acted(taskRow[t], operation.action)
  <2>3. taskRow[t] \in Panels!TaskRows BY <2>2 DEF SameTask
  <2>4. taskRow'[t] = new /\ new \in Panels!TaskRows /\ new.version = taskRow[t].version + 1
        /\ new.key = taskRow[t].key
        /\ new.body = taskRow[t].body
    BY <2>1, <2>3, ActedRow
  <2>5. CASE t \in Panels!Created
    BY <1>0, <1>1, <2>1, <2>2, <2>5, ActChanges DEF t
  <2>6. CASE t \notin Panels!Created
    BY <2>1, <2>6, NoneIsNoTask, <2>3 DEF Panels!Created
  <2> QED BY <2>5, <2>6
<1>2. CASE operation.kind # "act" /\ Panels!Replayed(operation)
  <2>1. UNCHANGED taskRow /\ operation.kind = "create" /\ operation.body = bodyKept.body
        /\ operation.key = bodyKept.key /\ bodyKept.body # None
    BY <1>2 DEF Panels!Apply, TaskSent
  <2>2. PICK t \in Panels!Created : taskRow[t].key = operation.key BY <1>2 DEF Panels!Replayed
  <2>3. taskRow[t].body = operation.body BY <2>1, <2>2 DEF TaskForm
  <2>4. \E u \in Tasks : taskRow'[u] # None /\ taskRow'[u].key = operation.key /\ taskRow'[u].body = operation.body
    BY <2>1, <2>2, <2>3 DEF Panels!Created
  <2> QED BY <1>0, <2>1, <2>4 DEF OlderTask, KeysAreOwn, TaskForm, Panels!Created
<1>3. CASE operation.kind # "act" /\ ~Panels!Replayed(operation)
  <2> DEFINE t == CHOOSE t \in Tasks : taskRow[t] = None
             new == Panels!NewTask(operation.body, operation.key)
  <2>1. /\ operation.kind = "create" /\ operation.body = bodyKept.body /\ operation.key = bodyKept.key /\ bodyKept.body # None
        /\ Panels!Created # Tasks /\ taskRow' = [taskRow EXCEPT ![t] = new]
        /\ \A u \in Panels!Created : taskRow[u].key # operation.key
    BY <1>3 DEF Panels!Apply, TaskSent, Panels!Accepted, Panels!Replayed
  <2>2. t \in Tasks /\ taskRow[t] = None BY <2>1 DEF Panels!Created
  <2>3. new \in Panels!TaskRows /\ new # None /\ new.key = operation.key /\ new.body = operation.body
    <3>1. operation.body \in TaskBodies /\ operation.key \in 1..MaxKey BY <2>1 DEF TaskForm
    <3>2. <<>> \in Seq(Panels!Answers) OBVIOUS
    <3>3. new = [body |-> operation.body, key |-> operation.key, status |-> "OPEN", revision |-> 1, version |-> 1,
                 submissions |-> <<>>]
      BY DEF Panels!NewTask
    <3> HIDE DEF new
    <3>4. new \in Panels!TaskRows /\ new.key = operation.key /\ new.body = operation.body
      BY <3>1, <3>2, <3>3 DEF Panels!TaskRows, Panels!Statuses
    <3> QED BY <3>4, NoneIsNoTask
  <2> HIDE DEF t, new
  <2>4. taskRow'[t] = new /\ taskRow' \in [Tasks -> Panels!TaskRows \cup {None}] /\ \A u \in Tasks \ {t} : taskRow'[u] = taskRow[u]
    BY <2>1, <2>2, <2>3
  <2>5. Panels!Created' = Panels!Created \cup {t} /\ t \notin Panels!Created BY <2>2, <2>3, <2>4 DEF Panels!Created
  <2>6. KeysAreOwn' BY <2>1, <2>3, <2>4, <2>5 DEF KeysAreOwn, Panels!Created
  <2>7. ASSUME NEW u \in Tasks, bundleTasks[u] # None PROVE bundleTasks[u] \in Panels!TaskRows /\ SameTask(bundleTasks[u], taskRow'[u])
    <3>1. bundleTasks[u] \in Panels!TaskRows /\ SameTask(bundleTasks[u], taskRow[u]) BY <1>0, <2>7 DEF OlderTask
    <3>2. u # t BY <3>1, <2>2, NoneIsNoTask DEF SameTask
    <3> QED BY <2>4, <3>1, <3>2
  <2>8. \A u \in Panels!Created' : taskRow'[u].key = bodyKept.key => taskRow'[u].body = bodyKept.body
    BY <2>1, <2>3, <2>4, <2>5 DEF Panels!Created
  <2> QED BY <2>1, <2>2, <2>3, <2>4, <2>6, <2>7, <2>8
<1> QED BY <1>1, <1>2, <1>3

LEMMA TaskServed ==
  ASSUME Panels!TaskPanelsAssumption, TaskInv, Panels!OperationDone \/ Panels!OperationRefused \/ Panels!OperationLost
  PROVE  TaskInv' /\ TaskSteps
<1> USE DEF TaskInv, TaskTypes
<1>0. operation # None /\ bundleTasks # None
  BY DEF Panels!OperationDone, Panels!OperationRefused, Panels!OperationLost, TaskSent
<1>1. CASE Panels!OperationRefused \/ (Panels!OperationLost /\ UNCHANGED taskRow)
  <2>1. operation' = None /\ UNCHANGED <<taskRow, bundleTasks, body, bodyKept, taskCards, toldKeys>>
    BY <1>1 DEF Panels!OperationRefused, Panels!OperationLost, Panels!panels
  <2> QED
    BY <1>0, <2>1 DEF OlderTask, KeysAreOwn, Panels!Created, TaskForm, TaskSent, TaskSteps,
       Panels!EveryReportIsATaskStep,
                            Panels!NothingActedOnUnseenStep
<1>2. CASE Panels!OperationLost /\ ~UNCHANGED taskRow
  <2>1. Panels!Accepted(operation) /\ Panels!Apply(operation) /\ operation' = None
        /\ UNCHANGED <<bundleTasks, body, bodyKept, taskCards, toldKeys>>
    BY <1>2 DEF Panels!OperationLost, Panels!panels
  <2>2. /\ taskRow' \in [Tasks -> Panels!TaskRows \cup {None}] /\ KeysAreOwn'
        /\ \A u \in Tasks : bundleTasks[u] # None => bundleTasks[u] \in Panels!TaskRows /\ SameTask(bundleTasks[u], taskRow'[u])
        /\ bodyKept.body # None => \A u \in Panels!Created' : taskRow'[u].key = bodyKept.key => taskRow'[u].body = bodyKept.body
        /\ operation.kind = "act" => SameTask(bundleTasks[operation.task], taskRow[operation.task]) /\ bundleTasks[operation.task].version = taskRow[operation.task].version
    BY <1>0, <2>1, TaskApplies
  <2>3. TaskSteps
    BY <1>0, <2>1, <2>2 DEF TaskSteps, Panels!EveryReportIsATaskStep, Panels!NothingActedOnUnseenStep, SameTask
  <2> QED BY <2>1, <2>2, <2>3 DEF OlderTask, TaskForm, TaskSent
<1>3. CASE Panels!OperationDone
  <2>1. /\ Panels!Accepted(operation) /\ Panels!Apply(operation) /\ operation' = None /\ bundleTasks' = None /\ Panels!Unmounted
        /\ toldKeys' = IF operation.kind = "create" THEN toldKeys \cup {operation.key} ELSE toldKeys
    BY <1>3 DEF Panels!OperationDone
  <2>2. /\ taskRow' \in [Tasks -> Panels!TaskRows \cup {None}] /\ KeysAreOwn'
        /\ operation.kind = "create" => \E t \in Tasks : taskRow'[t] # None /\ taskRow'[t].key = operation.key /\ taskRow'[t].body = operation.body
        /\ operation.kind = "act" => SameTask(bundleTasks[operation.task], taskRow[operation.task]) /\ bundleTasks[operation.task].version = taskRow[operation.task].version
    BY <1>0, <2>1, TaskApplies
  <2>3. operation.kind = "create" => operation.key \notin toldKeys BY <1>0 DEF TaskSent, TaskForm
  <2>4. TaskSteps
    BY <1>0, <2>1, <2>2, <2>3 DEF TaskSteps, Panels!EveryReportIsATaskStep, Panels!NothingActedOnUnseenStep,
       SameTask
  <2>5. TaskForm' /\ TaskTypes' /\ TaskSent' /\ OlderTask'
    BY <2>1, <2>2 DEF Panels!Unmounted, TaskForm, Panels!NothingKept, Panels!ClosedCards, TaskSent, OlderTask
  <2> QED BY <2>2, <2>4, <2>5
<1> QED BY <1>1, <1>2, <1>3

LEMMA TaskStep == ASSUME Panels!TaskPanelsAssumption, TaskInv, [Panels!Next]_taskVars PROVE TaskInv' /\ TaskSteps
BY TaskOthers, TaskPage, TaskServed DEF Panels!Next

LEMMA TaskPromises == ASSUME Panels!TaskPanelsAssumption, TaskInv PROVE Panels!OneTaskPerForm
<1> DEFINE S == {t \in Panels!Created : taskRow[t].key \in bodyKept.series}
<1>1. \A t, u \in S : t = u BY DEF TaskInv, TaskForm, KeysAreOwn
<1> HIDE DEF S
<1>2. S = {} \/ \E t : S = {t} BY <1>1
<1>3. Cardinality(S) <= 1
  <2>1. CASE S = {} BY <2>1, FS_EmptySet
  <2>2. CASE S # {}
    <3>1. PICK t : S = {t} BY <1>2, <2>2
    <3>2. Cardinality({t}) = 1 BY FS_Singleton
    <3> QED BY <3>1, <3>2
  <2> QED BY <2>1, <2>2
<1> QED BY <1>3, PanelsCardinality DEF Panels!OneTaskPerForm, S

\* What else the panels keep: a card is open for what the task on the page allows, a form only beside a page,
\* and the key that is kept is of the series.
PanelsKept ==
  /\ \A t \in Tasks : taskCards[t] # None => Panels!Allowed(bundleTasks[t], taskCards[t])
  /\ body # None => bundleTasks # None
  /\ bodyKept.key \in bodyKept.series \cup {0}

LEMMA PanelsKeptInit == Panels!Init => PanelsKept
BY DEF Panels!Init, Panels!ClosedCards, Panels!NothingKept, PanelsKept

LEMMA UnmountedKept == ASSUME Panels!Unmounted PROVE PanelsKept'
BY DEF Panels!Unmounted, Panels!ClosedCards, Panels!NothingKept, PanelsKept

LEMMA PanelsKeptStep == ASSUME TaskInv, PanelsKept, [Panels!Next]_taskVars PROVE PanelsKept'
<1>1. CASE Panels!Others \/ Panels!OperationRefused \/ Panels!OperationLost \/ UNCHANGED taskVars
  <2>1. UNCHANGED <<bundleTasks, body, bodyKept, taskCards>>
    BY <1>1 DEF Panels!Others, Panels!OperationRefused, Panels!OperationLost, Panels!panels, taskVars
  <2> QED BY <2>1 DEF PanelsKept, Panels!Allowed, Panels!CurrentIsClean, Panels!HasCurrent
<1>2. CASE Panels!Reload \/ Panels!OperationDone
  BY <1>2, UnmountedKept DEF Panels!Reload, Panels!OperationDone
<1>3. CASE Panels!CaseArrives
  <2>1. (\A t \in Tasks : taskCards[t] = None) /\ body = None /\ UNCHANGED <<body, bodyKept, taskCards>>
    BY <1>3 DEF Panels!CaseArrives, Panels!panels, TaskInv, TaskTypes, PanelsKept
  <2> QED BY <2>1 DEF PanelsKept
<1>4. CASE (\E b \in TaskBodies : Panels!FillForm(b)) \/ \E t \in Tasks : Panels!Act(t)
  <2>1. UNCHANGED <<bundleTasks, bodyKept, taskCards>> /\ bundleTasks # None
    BY <1>4 DEF Panels!FillForm, Panels!Act, Panels!panels, Panels!Working
  <2> QED BY <2>1 DEF PanelsKept, Panels!Allowed, Panels!CurrentIsClean, Panels!HasCurrent
<1>5. CASE Panels!CreateTask
  <2>1. /\ bodyKept' = [body |-> body, key |-> Panels!Key, series |-> Panels!Series]
        /\ UNCHANGED <<bundleTasks, body, taskCards>>
    BY <1>5 DEF Panels!CreateTask
  <2>2. Panels!Key \in Panels!Series BY DEF Panels!Series
  <2>3. bodyKept'.key \in bodyKept'.series BY <2>1, <2>2
  <2> QED BY <2>1, <2>3 DEF PanelsKept, Panels!Allowed, Panels!CurrentIsClean, Panels!HasCurrent
<1>6. ASSUME NEW t \in Tasks, Panels!CancelAction(t) PROVE PanelsKept'
  <2>1. taskCards' = [taskCards EXCEPT ![t] = None] /\ UNCHANGED <<bundleTasks, body, bodyKept>>
    BY <1>6 DEF Panels!CancelAction
  <2>2. \A u \in Tasks : taskCards'[u] = None \/ taskCards'[u] = taskCards[u] BY <2>1 DEF TaskInv, TaskTypes
  <2> QED BY <2>1, <2>2 DEF PanelsKept, Panels!Allowed, Panels!CurrentIsClean, Panels!HasCurrent
<1>7. ASSUME NEW t \in Tasks, NEW a \in Actions, Panels!ChooseAction(t, a) PROVE PanelsKept'
  <2>1. taskCards' = [taskCards EXCEPT ![t] = a] /\ UNCHANGED <<bundleTasks, body, bodyKept>>
        /\ Panels!Allowed(bundleTasks[t], a)
    BY <1>7 DEF Panels!ChooseAction
  <2>2. taskCards'[t] = a /\ \A u \in Tasks \ {t} : taskCards'[u] = taskCards[u] BY <2>1 DEF TaskInv, TaskTypes
  <2> QED BY <2>1, <2>2 DEF PanelsKept, Panels!Allowed, Panels!CurrentIsClean, Panels!HasCurrent
<1> QED BY <1>1, <1>2, <1>3, <1>4, <1>5, <1>6, <1>7 DEF Panels!Next

LEMMA PanelsTyped == ASSUME TaskInv, PanelsKept PROVE Panels!TaskPanelsTypeOK
BY DEF TaskInv, TaskTypes, PanelsKept, Panels!TaskPanelsTypeOK

---------------------------------------------------------------------------
(* Following a case.                                                       *)

\* A card that may repeat an operation shows what the operation says, waits for one answer at most and
\* is locked until it is there.

\* The part's cardinality is that of the theorems about finite sets.
LEMMA TrackingCardinality == \A S : Tracking!Cardinality(S) = Cardinality(S)
BY DEF Tracking!Cardinality, Cardinality

\* What a request that is awaited says.
RequestOK(r) ==
  /\ r.kind \in {"open", "upload", "submit"}
  /\ r.kind = "open" => r.row.case \in Followed
  /\ r.kind = "submit" => /\ r.case \in Followed /\ r.key \in 1..MaxKey /\ r.previous \in {0, r.key}
                          /\ r.content = r.shown
WireOK == IsFiniteSet(trackingReads) /\ Cardinality(trackingReads) <= MaxWaiting /\ \A r \in trackingReads : RequestOK(r)

ReceivedOK(received) ==
  received # None => /\ received.key \in 1..MaxKey /\ received.content = received.shown
                     /\ received.answers = received.seen
RowsOK == /\ task = [c \in Followed |-> task[c]]
          /\ \A c \in Followed : /\ task[c] = [status |-> task[c].status, version |-> task[c].version,
                                               received |-> task[c].received]
                                 /\ ReceivedOK(task[c].received)

\* A card that may repeat an operation shows what the operation says.
CardOK(k) ==
  /\ k = [case |-> k.case, version |-> k.version, mount |-> k.mount, uploaded |-> k.uploaded,
          content |-> k.content, lock |-> k.lock, pending |-> k.pending, operation |-> k.operation]
  /\ k.case \in Followed /\ k.lock \in BOOLEAN /\ k.pending \in BOOLEAN
  /\ k.operation # None => /\ k.pending /\ k.operation.content = k.content
                           /\ k.operation.key \in 1..MaxKey

\* It waits for one answer at most, and is locked until it is there.
WaitsFor(k, requests) ==
  /\ \A r \in requests : r.kind # "open" /\ r.mount = k.mount => k.lock
  /\ \A r \in requests : r.kind = "upload" /\ r.mount = k.mount => k.operation = None
  /\ \A r, s \in requests : r.kind # "open" /\ s.kind # "open" /\ r.mount = k.mount /\ s.mount = k.mount => r = s

PageOK == /\ record # None => record.case \in Followed
          /\ card # None => CardOK(card) /\ WaitsFor(card, trackingReads)

TrackInv == WireOK /\ RowsOK /\ PageOK

LEMMA TrackInit == ASSUME Tracking!TrackingAssumption PROVE Tracking!Init => TrackInv
<1>1. IsFiniteSet({}) /\ Cardinality({}) = 0 BY FS_EmptySet
<1> QED BY <1>1 DEF Tracking!TrackingAssumption, Tracking!Init, TrackInv, WireOK, RowsOK, ReceivedOK, PageOK

\* A mount that nobody owns is left: there are more than requests.
LEMMA MountIsFree ==
  ASSUME Tracking!TrackingAssumption, TrackInv
  PROVE  /\ Tracking!FreeMount \in 1..(MaxWaiting + 1)
         /\ \A r \in trackingReads : r.kind # "open" => r.mount # Tracking!FreeMount
<1> DEFINE M == 1..(MaxWaiting + 1)
           R == {r.mount : r \in trackingReads}
           f == [r \in trackingReads |-> r.mount]
<1>0. MaxWaiting \in Nat BY DEF Tracking!TrackingAssumption
<1>1. IsFiniteSet(R) /\ Cardinality(R) <= Cardinality(trackingReads)
  <2>1. R = {f[r] : r \in trackingReads} OBVIOUS
  <2>2. f \in Surjection(trackingReads, R) BY DEF Surjection
  <2> HIDE DEF f, R
  <2> QED BY <2>2, FS_Surjection DEF TrackInv, WireOK
<1>2. Cardinality(M) = MaxWaiting + 1
  <2>1. MaxWaiting + 1 \in Int /\ 1 \in Int BY <1>0
  <2>2. Cardinality(M) = IF 1 > MaxWaiting + 1 THEN 0 ELSE (MaxWaiting + 1) - 1 + 1 BY <2>1, FS_Interval
  <2> QED BY <1>0, <2>2
<1>3. ~(M \subseteq R)
  <2>1. Cardinality(trackingReads) \in Nat /\ Cardinality(R) \in Nat BY <1>1, FS_CardinalityType DEF TrackInv, WireOK
  <2> HIDE DEF M, R
  <2>2. M \subseteq R => Cardinality(M) <= Cardinality(R) BY <1>1, FS_Subset
  <2> QED BY <1>0, <1>1, <1>2, <2>1, <2>2 DEF TrackInv, WireOK
<1>4. \E m \in M : \A r \in trackingReads : r.kind # "open" => r.mount # m BY <1>3
<1> QED BY <1>4 DEF Tracking!FreeMount

\* The cards that the page makes.
LEMMA CardsMade ==
  ASSUME NEW row1, row1.case \in Followed, NEW m
  PROVE  CardOK(Tracking!NewCard(row1, m)) /\ Tracking!NewCard(row1, m).mount = m
BY DEF Tracking!NewCard, CardOK

LEMMA CardsLocked ==
  ASSUME NEW k, CardOK(k), NEW l \in BOOLEAN, NEW n, n = [k EXCEPT !.lock = l]
  PROVE  CardOK(n) /\ n.mount = k.mount /\ n.lock = l /\ n.operation = k.operation
<1>1. n = [case |-> k.case, version |-> k.version, mount |-> k.mount, uploaded |-> k.uploaded,
           content |-> k.content, lock |-> l, pending |-> k.pending, operation |-> k.operation]
  BY DEF CardOK
<1> QED BY <1>1 DEF CardOK

LEMMA CardsWritten ==
  ASSUME NEW k, CardOK(k), k.operation = None, NEW c, NEW n, n = [k EXCEPT !.content = c]
  PROVE  CardOK(n) /\ n.mount = k.mount /\ n.lock = k.lock /\ n.operation = None
<1>1. n = [case |-> k.case, version |-> k.version, mount |-> k.mount, uploaded |-> k.uploaded,
           content |-> c, lock |-> k.lock, pending |-> k.pending, operation |-> k.operation]
  BY DEF CardOK
<1> QED BY <1>1 DEF CardOK

\* What the requests that are awaited stay within.
LEMMA WireGrows ==
  ASSUME Tracking!TrackingAssumption, TrackInv, Tracking!CanAsk, NEW r, RequestOK(r),
         trackingReads' = trackingReads \cup {r}
  PROVE  WireOK'
<1>0. IsFiniteSet(trackingReads) /\ Cardinality(trackingReads) \in Nat
      /\ Cardinality(trackingReads) < MaxWaiting /\ MaxWaiting \in Nat
  BY FS_CardinalityType, TrackingCardinality DEF TrackInv, WireOK, Tracking!CanAsk, Tracking!TrackingAssumption
<1>1. /\ IsFiniteSet(trackingReads \cup {r})
      /\ Cardinality(trackingReads \cup {r}) = IF r \in trackingReads THEN Cardinality(trackingReads) ELSE Cardinality(trackingReads) + 1
  BY <1>0, FS_AddElement
<1>3. Cardinality(trackingReads') <= MaxWaiting BY <1>0, <1>1
<1>4. \A s \in trackingReads' : RequestOK(s)' BY DEF TrackInv, WireOK, RequestOK
<1> QED BY <1>1, <1>3, <1>4 DEF WireOK

\* A request that ends leaves the others.
LEMMA WireShrinks ==
  ASSUME Tracking!TrackingAssumption, TrackInv, NEW r \in trackingReads, trackingReads' = trackingReads \ {r}
  PROVE  WireOK'
<1>0. IsFiniteSet(trackingReads) /\ Cardinality(trackingReads) \in Nat BY FS_CardinalityType DEF TrackInv, WireOK
<1>1. IsFiniteSet(trackingReads \ {r}) /\ Cardinality(trackingReads \ {r}) <= Cardinality(trackingReads)
  BY <1>0, FS_Subset, FS_RemoveElement
<1>2. Cardinality(trackingReads') <= MaxWaiting
  <2>1. Cardinality(trackingReads \ {r}) = Cardinality(trackingReads) - 1 BY <1>0, FS_RemoveElement
  <2> QED BY <1>0, <2>1 DEF TrackInv, WireOK, Tracking!TrackingAssumption
<1>4. \A s \in trackingReads' : RequestOK(s)' BY DEF TrackInv, WireOK, RequestOK
<1> QED BY <1>1, <1>2, <1>4 DEF WireOK

LEMMA RowSet ==
  ASSUME RowsOK, NEW c \in Followed, NEW st, NEW v, NEW rec, ReceivedOK(rec),
         task' = [task EXCEPT ![c] = [status |-> st, version |-> v, received |-> rec]]
  PROVE  RowsOK'
<1> DEFINE new == [status |-> st, version |-> v, received |-> rec]
<1>1. new = [status |-> new.status, version |-> new.version, received |-> new.received] /\ ReceivedOK(new.received)
  OBVIOUS
<1>2. task' = [task EXCEPT ![c] = new] OBVIOUS
<1> HIDE DEF new
<1>3. task'[c] = new /\ (\A d \in Followed \ {c} : task'[d] = task[d]) /\ task' = [d \in Followed |-> task'[d]]
  BY <1>2 DEF RowsOK
<1>4. ASSUME NEW d \in Followed
      PROVE  /\ task'[d] = [status |-> task'[d].status, version |-> task'[d].version, received |-> task'[d].received]
             /\ ReceivedOK(task'[d].received)
  BY <1>1, <1>3 DEF RowsOK
<1>5. \A d \in Followed : ReceivedOK(task[d].received)' BY <1>4 DEF ReceivedOK
<1> QED BY <1>3, <1>4, <1>5 DEF RowsOK

LEMMA TrackStaff == ASSUME TrackInv, Tracking!Staff PROVE TrackInv'
<1>1. PICK c \in Followed : task' = [task EXCEPT ![c] = [status |-> "OPEN", version |-> @.version + 1, received |-> @.received]]
  BY DEF Tracking!Staff
<1>2. task[c] = [status |-> task[c].status, version |-> task[c].version, received |-> task[c].received]
      /\ ReceivedOK(task[c].received) /\ task = [d \in Followed |-> task[d]]
  BY DEF TrackInv, RowsOK
<1>3. task' = [task EXCEPT ![c] = [status |-> "OPEN", version |-> task[c].version + 1, received |-> task[c].received]]
  BY <1>1, <1>2
<1>5. RowsOK' BY <1>2, <1>3, RowSet DEF TrackInv
<1>6. UNCHANGED <<record, card, trackingReads>> BY DEF Tracking!Staff
<1> QED BY <1>5, <1>6 DEF TrackInv, WireOK, RequestOK, PageOK, CardOK, WaitsFor

\* The page asks.
LEMMA TrackAsks ==
  ASSUME Tracking!TrackingAssumption, TrackInv, NEW c \in Followed, Tracking!CanAsk,
         trackingReads' = Tracking!Asked(c, trackingReads),
         UNCHANGED <<task, record, card>>
  PROVE  TrackInv'
<1> DEFINE r == [kind |-> "open", row |-> Tracking!RowOf(c)]
<1>1. r.kind = "open" /\ r.row.case = c BY DEF Tracking!RowOf
<1>2. trackingReads' = trackingReads \cup {r} BY DEF Tracking!Asked
<1> HIDE DEF r
<1>3. RequestOK(r) BY <1>1 DEF RequestOK
<1>4. WireOK' BY <1>2, <1>3, WireGrows
<1>5. PageOK' BY <1>1, <1>2 DEF TrackInv, PageOK, CardOK, WaitsFor
<1> QED BY <1>4, <1>5 DEF TrackInv, RowsOK, ReceivedOK

LEMMA TrackOpens ==
  ASSUME Tracking!TrackingAssumption, TrackInv, NEW r \in trackingReads,
         Tracking!OpenFails(r) \/ (\E row1 \in {r.row, Tracking!RowOf(r.row.case)} : Tracking!OpenArrives(r, row1))
  PROVE  TrackInv'
<1>1. r.kind = "open" /\ r.row.case \in Followed /\ trackingReads' = trackingReads \ {r} /\ UNCHANGED task
  BY DEF Tracking!OpenFails, Tracking!OpenArrives, TrackInv, WireOK, RequestOK
<1>2. WireOK' BY <1>1, WireShrinks
<1>3. CASE Tracking!OpenFails(r) BY <1>1, <1>2, <1>3 DEF Tracking!OpenFails, TrackInv, PageOK, RowsOK, ReceivedOK
<1>4. ASSUME NEW row1 \in {r.row, Tracking!RowOf(r.row.case)}, Tracking!OpenArrives(r, row1) PROVE TrackInv'
  <2>1. row1.case \in Followed BY <1>1 DEF Tracking!RowOf
  <2>2. record' = row1 /\ card' = Tracking!CardFor(row1) BY <1>4 DEF Tracking!OpenArrives
  <2>3. CASE card' = card /\ card # None
    BY <1>1, <1>2, <2>1, <2>2, <2>3 DEF TrackInv, PageOK, WaitsFor, CardOK, RowsOK, ReceivedOK
  <2>4. CASE card' = Tracking!NewCard(row1, Tracking!FreeMount)
    <3>1. CardOK(card') /\ card'.mount = Tracking!FreeMount BY <2>1, <2>4, CardsMade
    <3>2. \A s \in trackingReads' : s.kind # "open" => s.mount # card'.mount BY <1>1, <3>1, MountIsFree
    <3>3. \A s \in trackingReads' : s.kind = "upload" => s.kind # "open" OBVIOUS
    <3>4. WaitsFor(card', trackingReads') BY <3>2, <3>3 DEF WaitsFor
    <3>5. (CardOK(card) /\ WaitsFor(card, trackingReads))' BY <3>1, <3>4 DEF CardOK, WaitsFor
    <3> QED BY <1>1, <1>2, <2>1, <2>2, <3>5 DEF TrackInv, PageOK, RowsOK, ReceivedOK
  <2> QED BY <2>2, <2>3, <2>4 DEF Tracking!CardFor
<1> QED BY <1>3, <1>4

\* The card is edited, or starts to wait.
LEMMA TrackEdits == ASSUME TrackInv, NEW content, Tracking!Edit(content) PROVE TrackInv'
<1>1. card # None /\ ~card.pending /\ card' = [card EXCEPT !.content = content]
      /\ UNCHANGED <<task, record, trackingReads>>
  BY DEF Tracking!Edit, Tracking!CanEdit
<1>2. CardOK(card) /\ WaitsFor(card, trackingReads) /\ card.operation = None BY <1>1 DEF TrackInv, PageOK, CardOK
<1>3. CardOK(card') /\ card'.mount = card.mount /\ card'.lock = card.lock /\ card'.operation = None
  BY <1>1, <1>2, CardsWritten
<1>4. (CardOK(card) /\ WaitsFor(card, trackingReads))' BY <1>1, <1>2, <1>3 DEF CardOK, WaitsFor
<1> QED BY <1>1, <1>4 DEF TrackInv, PageOK, RowsOK, ReceivedOK, WireOK, RequestOK

LEMMA TrackStarts ==
  ASSUME TrackInv, card # None, ~card.lock, NEW k, CardOK(k), k.mount = card.mount, k.lock, NEW r,
         r.kind = "upload" => k.operation = None, k = card', trackingReads' = trackingReads \cup {r}
  PROVE  (CardOK(card) /\ WaitsFor(card, trackingReads))'
<1>1. \A s \in trackingReads : s.kind # "open" => s.mount # card.mount BY DEF TrackInv, PageOK, WaitsFor
<1>2. \A s \in trackingReads' : s.kind # "open" /\ s.mount = k.mount => s = r BY <1>1
<1>3. \A s \in trackingReads' : s.kind = "upload" => s.kind # "open" OBVIOUS
<1> QED BY <1>2, <1>3 DEF CardOK, WaitsFor

LEMMA TrackUploads == ASSUME Tracking!TrackingAssumption, TrackInv, NEW f, Tracking!Upload(f) PROVE TrackInv'
<1> DEFINE r == [kind |-> "upload", case |-> card.case, mount |-> card.mount, file |-> f]
<1>1. /\ card # None /\ ~card.lock /\ ~card.pending /\ Tracking!CanAsk /\ card' = [card EXCEPT !.lock = TRUE]
      /\ trackingReads' = trackingReads \cup {r} /\ UNCHANGED <<task, record>>
  BY DEF Tracking!Upload, Tracking!CanEdit
<1>2. r.kind = "upload" OBVIOUS
<1> HIDE DEF r
<1>3. CardOK(card) /\ card.operation = None BY <1>1 DEF TrackInv, PageOK, CardOK
<1>4. CardOK(card') /\ card'.mount = card.mount /\ card'.lock /\ card'.operation = None
  <2>1. PICK b \in BOOLEAN : b = TRUE OBVIOUS
  <2>2. card' = [card EXCEPT !.lock = b] BY <1>1, <2>1
  <2>3. CardOK(card') /\ card'.mount = card.mount /\ card'.lock = b /\ card'.operation = card.operation
    BY <1>3, <2>2, CardsLocked
  <2> QED BY <1>3, <2>1, <2>3
<1>5. (CardOK(card) /\ WaitsFor(card, trackingReads))' BY <1>1, <1>4, TrackStarts
<1>6. WireOK' BY <1>1, <1>2, WireGrows DEF RequestOK
<1> QED BY <1>1, <1>5, <1>6 DEF TrackInv, PageOK, RowsOK, ReceivedOK

LEMMA TrackSubmits == ASSUME Tracking!TrackingAssumption, TrackInv, Tracking!SubmitTask PROVE TrackInv'
<1> DEFINE r == [kind |-> "submit", case |-> card.case, mount |-> card.mount,
                 etag |-> card.version, shown |-> card.content,
                 key |-> Tracking!Operation.key, content |-> Tracking!Operation.content,
                 previous |-> IF card.operation = None THEN 0 ELSE card.operation.key]
<1>1. /\ card # None /\ ~card.lock /\ Tracking!CanAsk /\ (card.operation # None \/ Tracking!Unused # {})
      /\ card' = [card EXCEPT !.lock = TRUE, !.pending = TRUE, !.operation = Tracking!Operation]
      /\ trackingReads' = trackingReads \cup {r} /\ UNCHANGED <<task, record>>
  BY DEF Tracking!SubmitTask
<1>2. CardOK(card) BY <1>1 DEF TrackInv, PageOK
<1>3. Tracking!Operation.content = card.content /\ Tracking!Operation.key \in 1..MaxKey
  <2>1. CASE card.operation # None BY <1>2, <2>1 DEF Tracking!Operation, CardOK
  <2>2. CASE card.operation = None
    <3>1. Tracking!NewKey \in Tracking!Unused BY <1>1, <2>2 DEF Tracking!NewKey
    <3> QED BY <2>2, <3>1 DEF Tracking!Operation, Tracking!Unused
  <2> QED BY <2>1, <2>2
<1>4. /\ r.kind = "submit" /\ r.case \in Followed /\ r.key \in 1..MaxKey /\ r.previous \in {0, r.key}
      /\ r.content = r.shown
  BY <1>2, <1>3 DEF CardOK, Tracking!Operation
<1> HIDE DEF r
<1>5. RequestOK(r) BY <1>4 DEF RequestOK
<1>6. CardOK(card') /\ card'.mount = card.mount /\ card'.lock
  <2>1. PICK b \in BOOLEAN : b = TRUE OBVIOUS
  <2>2. card' = [card EXCEPT !.lock = b, !.pending = b, !.operation = Tracking!Operation] BY <1>1, <2>1
  <2> DEFINE o == Tracking!Operation
  <2>3. o # None => b /\ o.content = card.content /\ o.key \in 1..MaxKey BY <1>3, <2>1
  <2>4. card' = [card EXCEPT !.lock = b, !.pending = b, !.operation = o] BY <2>2
  <2> HIDE DEF o
  <2>5. card' = [case |-> card.case, version |-> card.version, mount |-> card.mount, uploaded |-> card.uploaded,
                 content |-> card.content, lock |-> b, pending |-> b, operation |-> o]
    BY <1>2, <2>4 DEF CardOK
  <2>6. CardOK(card') /\ card'.mount = card.mount /\ card'.lock = b BY <1>2, <2>1, <2>3, <2>5 DEF CardOK
  <2> QED BY <2>1, <2>6
<1>7. (CardOK(card) /\ WaitsFor(card, trackingReads))' BY <1>1, <1>4, <1>6, TrackStarts
<1>8. WireOK' BY <1>1, <1>5, WireGrows
<1> QED BY <1>1, <1>7, <1>8 DEF TrackInv, PageOK, RowsOK, ReceivedOK

\* What the card waited for ends: a card that waited is free, another one is as it was.
LEMMA Settles ==
  ASSUME TrackInv, NEW r \in trackingReads, r.kind # "open", NEW then, Tracking!Settled(r, then),
         card # None => CardOK(then) /\ then.mount = card.mount
  PROVE  /\ record' # None => record' \in {record} /\ record'.case \in Followed
         /\ card' # None => CardOK(card') /\ WaitsFor(card', trackingReads \ {r})
<1>1. CASE Tracking!Owns(r)
  <2>1. card # None /\ card.mount = r.mount /\ card' = then /\ UNCHANGED record
    BY <1>1 DEF Tracking!Owns, Tracking!Settled
  <2>2. WaitsFor(card, trackingReads) BY <2>1 DEF TrackInv, PageOK
  <2>3. \A s \in trackingReads \ {r} : s.kind # "open" => s.mount # card.mount BY <2>1, <2>2 DEF WaitsFor
  <2>4. \A s \in trackingReads : s.kind = "upload" => s.kind # "open" OBVIOUS
  <2>5. WaitsFor(then, trackingReads \ {r}) BY <2>1, <2>3, <2>4 DEF WaitsFor
  <2> QED BY <2>1, <2>5 DEF TrackInv, PageOK
<1>2. CASE ~Tracking!Owns(r)
  <2>1. UNCHANGED <<card, record>> BY <1>2 DEF Tracking!Settled
  <2> QED BY <2>1 DEF TrackInv, PageOK, WaitsFor
<1> QED BY <1>1, <1>2

LEMMA CardsFree ==
  ASSUME TrackInv, card # None
  PROVE  /\ CardOK([card EXCEPT !.lock = FALSE]) /\ [card EXCEPT !.lock = FALSE].mount = card.mount
         /\ LET n == [card EXCEPT !.lock = FALSE, !.pending = FALSE, !.operation = None]
            IN  CardOK(n) /\ n.mount = card.mount
<1>1. PICK b \in BOOLEAN : b = FALSE OBVIOUS
<1>2. CardOK(card) BY DEF TrackInv, PageOK
<1>3. \A n : n = [card EXCEPT !.lock = b] => CardOK(n) /\ n.mount = card.mount BY <1>2, CardsLocked
<1>4. ASSUME NEW n, n = [card EXCEPT !.lock = b, !.pending = b, !.operation = None]
      PROVE  CardOK(n) /\ n.mount = card.mount
  <2>1. n = [case |-> card.case, version |-> card.version, mount |-> card.mount, uploaded |-> card.uploaded,
             content |-> card.content, lock |-> b, pending |-> b, operation |-> None]
    BY <1>2, <1>4 DEF CardOK
  <2> QED BY <1>2, <2>1 DEF CardOK
<1> QED BY <1>1, <1>3, <1>4

LEMMA TrackUploaded == ASSUME Tracking!TrackingAssumption, TrackInv, NEW r \in trackingReads, Tracking!UploadEnds(r) PROVE TrackInv'
<1>1. r.kind = "upload" /\ r.kind # "open" /\ trackingReads' = trackingReads \ {r} /\ UNCHANGED task
  BY DEF Tracking!UploadEnds
<1>2. WireOK' BY <1>1, WireShrinks
<1>3. /\ record' # None => record'.case \in Followed
      /\ card' # None => CardOK(card') /\ WaitsFor(card', trackingReads \ {r})
  <2>1. CASE Tracking!Settled(r, [card EXCEPT !.lock = FALSE]) BY <1>1, <2>1, CardsFree, Settles
  <2>2. CASE Tracking!Settled(r, [card EXCEPT !.lock = FALSE, !.uploaded = @ \cup {r.file}, !.content.ids = @ \cup {r.file}])
    <3>1. CASE Tracking!Owns(r)
      <4>1. card # None /\ card.mount = r.mount BY <3>1 DEF Tracking!Owns
      <4>2. CardOK(card) /\ card.operation = None BY <1>1, <4>1 DEF TrackInv, PageOK, WaitsFor
      <4>3. PICK b \in BOOLEAN : b = FALSE OBVIOUS
      <4> DEFINE c == [card.content EXCEPT !.ids = @ \cup {r.file}]
                 u == card.uploaded \cup {r.file}
      <4>4. Tracking!Settled(r, [card EXCEPT !.lock = b, !.uploaded = u, !.content = c]) BY <2>2, <4>3
      <4> HIDE DEF c, u
      <4>5. ASSUME NEW n, n = [card EXCEPT !.lock = b, !.uploaded = u, !.content = c]
            PROVE  CardOK(n) /\ n.mount = card.mount
        <5>1. n = [case |-> card.case, version |-> card.version, mount |-> card.mount, uploaded |-> u,
                   content |-> c, lock |-> b, pending |-> card.pending, operation |-> card.operation]
          BY <4>2, <4>5 DEF CardOK
        <5> QED BY <4>2, <5>1 DEF CardOK
      <4> QED BY <1>1, <4>4, <4>5, Settles
    <3>2. CASE ~Tracking!Owns(r)
      <4>1. Tracking!Settled(r, card) BY <2>2, <3>2 DEF Tracking!Settled
      <4>2. card # None => CardOK(card) /\ card.mount = card.mount BY DEF TrackInv, PageOK
      <4> QED BY <1>1, <4>1, <4>2, Settles
    <3> QED BY <3>1, <3>2
  <2> QED BY <2>1, <2>2 DEF Tracking!UploadEnds
<1>4. PageOK' BY <1>1, <1>3 DEF PageOK, CardOK, WaitsFor
<1> QED BY <1>1, <1>2, <1>4 DEF TrackInv, RowsOK, ReceivedOK

\* What the server receives is what the request says.
LEMMA Receives ==
  ASSUME TrackInv, NEW r \in trackingReads, r.kind = "submit", Tracking!Accepted(r), Tracking!Submit(r)
  PROVE  RowsOK'
<1>1. RowsOK /\ r.case \in Followed /\ r.key \in 1..MaxKey /\ r.content = r.shown BY DEF TrackInv, WireOK, RequestOK
<1>2. CASE Tracking!Replayed(r) BY <1>1, <1>2 DEF Tracking!Submit, RowsOK, ReceivedOK
<1>3. CASE ~Tracking!Replayed(r)
  <2> DEFINE rec == [key |-> r.key, content |-> r.content, shown |-> r.shown,
                     answers |-> task[r.case].version, seen |-> r.etag]
  <2>1. /\ r.etag = task[r.case].version
        /\ task' = [task EXCEPT ![r.case] = [status |-> "SUBMITTED", version |-> @.version + 1, received |-> rec]]
    BY <1>3 DEF Tracking!Accepted, Tracking!CheckVersion, Tracking!Submit
  <2>2. ReceivedOK(rec) BY <1>1, <2>1 DEF ReceivedOK
  <2> HIDE DEF rec
  <2>3. task' = [task EXCEPT ![r.case] = [status |-> "SUBMITTED", version |-> task[r.case].version + 1, received |-> rec]]
    BY <1>1, <2>1
  <2> QED BY <1>1, <2>2, <2>3, RowSet
<1> QED BY <1>2, <1>3

LEMMA TrackSubmitted ==
  ASSUME Tracking!TrackingAssumption, TrackInv, NEW r \in trackingReads,
         Tracking!SubmitSucceeds(r) \/ Tracking!SubmitRefused(r) \/ Tracking!SubmitLost(r)
  PROVE  TrackInv'
<1>1. r.kind = "submit" /\ r.kind # "open" /\ r.case \in Followed
  BY DEF Tracking!SubmitSucceeds, Tracking!SubmitRefused, Tracking!SubmitLost, TrackInv, WireOK, RequestOK
<1>2. RowsOK'
  <2>1. CASE UNCHANGED task BY <2>1 DEF TrackInv, RowsOK, ReceivedOK
  <2>2. CASE ~UNCHANGED task
    BY <1>1, <2>2, Receives DEF Tracking!SubmitSucceeds, Tracking!SubmitRefused, Tracking!SubmitLost
  <2> QED BY <2>1, <2>2
<1>3. /\ record' # None => record'.case \in Followed
      /\ card' # None => CardOK(card') /\ WaitsFor(card', trackingReads \ {r})
  <2>1. Tracking!Settled(r, [card EXCEPT !.lock = FALSE])
        \/ Tracking!Settled(r, [card EXCEPT !.lock = FALSE, !.pending = FALSE, !.operation = None])
    BY DEF Tracking!SubmitSucceeds, Tracking!SubmitRefused, Tracking!SubmitLost, Tracking!Refused
  <2> QED BY <1>1, <2>1, CardsFree, Settles
<1>4. CASE trackingReads' = trackingReads \ {r}
  BY <1>2, <1>3, <1>4, WireShrinks DEF TrackInv, PageOK, CardOK, WaitsFor
<1>5. CASE Tracking!SubmitSucceeds(r)
  <2> DEFINE row1 == [Tracking!RowOf(r.case) EXCEPT !.status = task'[r.case].status, !.version = task'[r.case].version]
             s == [kind |-> "open", row |-> row1]
  <2>1. trackingReads' = (trackingReads \ {r}) \cup {s} BY <1>5 DEF Tracking!SubmitSucceeds
  <2>2. row1.case = r.case BY DEF Tracking!RowOf
  <2> HIDE DEF row1
  <2>3. s.kind = "open" /\ s.row.case \in Followed BY <1>1, <2>2
  <2> HIDE DEF s
  <2>4. WireOK'
    <3>1. IsFiniteSet(trackingReads) /\ Cardinality(trackingReads) \in Nat
          /\ Cardinality(trackingReads) <= MaxWaiting /\ MaxWaiting \in Nat
      BY FS_CardinalityType DEF TrackInv, WireOK, Tracking!TrackingAssumption
    <3>2. IsFiniteSet(trackingReads \ {r}) /\ Cardinality(trackingReads \ {r}) = Cardinality(trackingReads) - 1
      BY <3>1, FS_RemoveElement
    <3>3. IsFiniteSet(trackingReads') /\ Cardinality(trackingReads') <= Cardinality(trackingReads)
      <4>1. /\ IsFiniteSet((trackingReads \ {r}) \cup {s})
            /\ Cardinality((trackingReads \ {r}) \cup {s})
               = IF s \in trackingReads \ {r} THEN Cardinality(trackingReads \ {r}) ELSE Cardinality(trackingReads \ {r}) + 1
        BY <3>2, FS_AddElement
      <4> QED BY <2>1, <3>1, <3>2, <4>1
    <3>4. Cardinality(trackingReads') <= MaxWaiting
      <4>1. Cardinality(trackingReads') \in Nat BY <3>3, FS_CardinalityType
      <4> QED BY <3>1, <3>3, <4>1
    <3>5. \A q \in trackingReads' : RequestOK(q)' BY <2>1, <2>3 DEF TrackInv, WireOK, RequestOK
    <3> QED BY <3>3, <3>4, <3>5 DEF WireOK
  <2>5. PageOK' BY <1>3, <2>1, <2>3 DEF PageOK, CardOK, WaitsFor
  <2> QED BY <1>2, <2>4, <2>5 DEF TrackInv
<1> QED BY <1>4, <1>5 DEF Tracking!SubmitRefused, Tracking!SubmitLost

LEMMA TrackStep == ASSUME Tracking!TrackingAssumption, TrackInv, [Tracking!Next]_trackingVars PROVE TrackInv'
<1>1. CASE UNCHANGED trackingVars
  BY <1>1 DEF trackingVars, TrackInv, WireOK, RequestOK, RowsOK, ReceivedOK, PageOK, CardOK, WaitsFor
<1>2. ASSUME NEW c \in Followed, Tracking!OpenFromList(c) PROVE TrackInv' BY <1>2, TrackAsks DEF Tracking!OpenFromList
<1>3. CASE Tracking!Refresh
  <2>1. record.case \in Followed BY <1>3 DEF Tracking!Refresh, TrackInv, PageOK
  <2> QED BY <1>3, <2>1, TrackAsks DEF Tracking!Refresh
<1>4. CASE Tracking!BackToList
  BY <1>4 DEF Tracking!BackToList, TrackInv, WireOK, RequestOK, RowsOK, ReceivedOK, PageOK
<1> QED BY <1>1, <1>2, <1>3, <1>4, TrackStaff, TrackOpens, TrackEdits, TrackUploads, TrackSubmits, TrackUploaded,
           TrackSubmitted DEF Tracking!Next

LEMMA TrackPromises == TrackInv => Tracking!ReceivedAsShown /\ Tracking!AnswersWhatWasSeen /\ Tracking!RetryIsRecognised
<1>1. TrackInv => Tracking!ReceivedAsShown /\ Tracking!AnswersWhatWasSeen
  BY DEF TrackInv, RowsOK, ReceivedOK, Tracking!ReceivedAsShown, Tracking!AnswersWhatWasSeen
<1>2. TrackInv => Tracking!RetryIsRecognised
  BY DEF TrackInv, RowsOK, ReceivedOK, WireOK, RequestOK, Tracking!RetryIsRecognised, Tracking!Replayed
<1> QED BY <1>1, <1>2

\* What else the page keeps: the rows it may read, and the files that are uploaded, have their form.
TrackRows ==
  /\ \A c \in Followed : task[c].status \in {"OPEN", "SUBMITTED"} /\ task[c].version \in Nat
  /\ files \in [Followed -> SUBSET Files]
TrackWire ==
  \A r \in trackingReads : /\ r.kind = "open" => r.row \in Tracking!Rows
                           /\ r.kind = "upload" => r.case \in Followed /\ r.file \in Files

\* A card is that of the record; it is pending while it has an operation, and locked while it waits.
TrackCard(r, k) ==
  /\ k.case = r.case /\ k.version = r.version /\ k.content.ids \subseteq k.uploaded
  /\ k.pending => k.operation # None
TrackPage ==
  /\ record \in Tracking!Rows \cup {None} /\ card \in Tracking!Cards \cup {None}
  /\ record = None <=> card = None
  /\ card # None => TrackCard(record, card)
  /\ card # None /\ card.lock => \E r \in trackingReads : r.kind # "open" /\ r.mount = card.mount
TrackKept == TrackRows /\ TrackWire /\ TrackPage

LEMMA NothingIsContent == Tracking!Nothing \in Tracking!Contents
BY DEF Tracking!Nothing, Tracking!Contents

LEMMA TrackKeptInit == Tracking!Init => TrackKept
<1> SUFFICES ASSUME Tracking!Init PROVE TrackKept OBVIOUS
<1>1. TrackRows BY DEF Tracking!Init, TrackRows
<1>2. TrackWire BY DEF Tracking!Init, TrackWire
<1>3. TrackPage BY DEF Tracking!Init, TrackPage
<1> QED BY <1>1, <1>2, <1>3 DEF TrackKept

LEMMA RowsRead == ASSUME TrackKept, NEW c \in Followed PROVE Tracking!RowOf(c) \in Tracking!Rows
BY DEF TrackKept, TrackRows, Tracking!RowOf, Tracking!Rows

\* A card with other contents, lock or operation is a card.
LEMMA CardWith ==
  ASSUME NEW k \in Tracking!Cards, NEW u \in SUBSET Files, NEW c \in Tracking!Contents, NEW l \in BOOLEAN,
         NEW p \in BOOLEAN, NEW o \in Tracking!Operations \cup {None}, NEW n,
         n = [k EXCEPT !.uploaded = u, !.content = c, !.lock = l, !.pending = p, !.operation = o]
  PROVE  /\ n \in Tracking!Cards /\ n.case = k.case /\ n.version = k.version /\ n.mount = k.mount
         /\ n.uploaded = u /\ n.content = c /\ n.lock = l /\ n.pending = p /\ n.operation = o
BY DEF Tracking!Cards

LEMMA TrackRowsStep == ASSUME TrackInv, TrackKept, [Tracking!Next]_trackingVars PROVE TrackRows'
<1>0. TrackRows /\ RowsOK /\ task = [c \in Followed |-> task[c]] BY DEF TrackInv, RowsOK, TrackKept
<1>1. CASE UNCHANGED <<task, files>> BY <1>0, <1>1 DEF TrackRows
<1>2. CASE Tracking!Staff
  <2>1. PICK c \in Followed : task' = [task EXCEPT ![c] = [status |-> "OPEN", version |-> @.version + 1, received |-> @.received]]
    BY <1>2 DEF Tracking!Staff
  <2>2. /\ task'[c].status = "OPEN" /\ task'[c].version = task[c].version + 1
        /\ \A d \in Followed \ {c} : task'[d] = task[d]
    BY <1>0, <2>1
  <2> QED BY <1>0, <1>2, <2>2 DEF TrackRows, Tracking!Staff
<1>3. ASSUME NEW r \in trackingReads, Tracking!UploadEnds(r) PROVE TrackRows'
  <2>1. files' = [files EXCEPT ![r.case] = @ \cup {r.file}] /\ UNCHANGED task /\ r.case \in Followed /\ r.file \in Files
    BY <1>3 DEF Tracking!UploadEnds, TrackKept, TrackWire
  <2> QED BY <1>0, <2>1 DEF TrackRows
<1>4. ASSUME NEW r \in trackingReads, r.kind = "submit", Tracking!Submit(r), UNCHANGED files PROVE TrackRows'
  <2>1. CASE Tracking!Replayed(r) BY <1>1, <1>4, <2>1 DEF Tracking!Submit
  <2>2. CASE ~Tracking!Replayed(r)
    <3>1. r.case \in Followed BY <1>4 DEF TrackInv, WireOK, RequestOK
    <3>2. /\ task'[r.case].status = "SUBMITTED" /\ task'[r.case].version = task[r.case].version + 1
          /\ \A d \in Followed \ {r.case} : task'[d] = task[d]
      BY <1>0, <1>4, <2>2, <3>1 DEF Tracking!Submit
    <3> QED BY <1>0, <1>4, <3>2 DEF TrackRows
  <2> QED BY <2>1, <2>2
<1>5. ASSUME NEW r \in trackingReads, Tracking!SubmitSucceeds(r) \/ Tracking!SubmitRefused(r) \/ Tracking!SubmitLost(r)
      PROVE TrackRows'
  <2>1. r.kind = "submit" /\ UNCHANGED files /\ (UNCHANGED task \/ Tracking!Submit(r))
    BY <1>5 DEF Tracking!SubmitSucceeds, Tracking!SubmitRefused, Tracking!SubmitLost
  <2> QED BY <1>1, <1>4, <2>1
<1>6. CASE \/ UNCHANGED trackingVars \/ (\E c \in Followed : Tracking!OpenFromList(c)) \/ Tracking!Refresh \/ Tracking!BackToList
           \/ (\E content \in Tracking!Contents : Tracking!Edit(content)) \/ (\E f \in Files : Tracking!Upload(f))
           \/ Tracking!SubmitTask
           \/ \E r \in trackingReads : Tracking!OpenFails(r) \/ \E row1 \in {r.row, Tracking!RowOf(r.row.case)} : Tracking!OpenArrives(r, row1)
  BY <1>1, <1>6 DEF trackingVars, Tracking!OpenFromList, Tracking!Refresh, Tracking!BackToList, Tracking!Edit, Tracking!Upload,
     Tracking!SubmitTask, Tracking!OpenFails, Tracking!OpenArrives
<1> QED BY <1>2, <1>3, <1>5, <1>6 DEF Tracking!Next

\* A row stays one when its status and version change.
LEMMA RowUpdated ==
  ASSUME NEW q \in Tracking!Rows, NEW st \in {"OPEN", "SUBMITTED"}, NEW v \in Nat
  PROVE  [q EXCEPT !.status = st, !.version = v] \in Tracking!Rows
BY DEF Tracking!Rows

LEMMA TrackWireStep == ASSUME TrackInv, TrackKept, TrackRows', [Tracking!Next]_trackingVars PROVE TrackWire'
<1>0. TrackWire BY DEF TrackKept
<1>1. CASE trackingReads' \subseteq trackingReads BY <1>0, <1>1 DEF TrackWire
<1>2. ASSUME NEW r, trackingReads' \subseteq trackingReads \cup {r},
             r.kind = "open" => r.row \in Tracking!Rows, r.kind = "upload" => r.case \in Followed /\ r.file \in Files
      PROVE TrackWire'
  BY <1>0, <1>2 DEF TrackWire
<1>3. ASSUME NEW c \in Followed, trackingReads' = Tracking!Asked(c, trackingReads) PROVE TrackWire'
  <2>1. PICK r : r = [kind |-> "open", row |-> Tracking!RowOf(c)] OBVIOUS
  <2>2. r.kind = "open" /\ r.row \in Tracking!Rows /\ trackingReads' = trackingReads \cup {r}
    BY <1>3, <2>1, RowsRead DEF Tracking!Asked
  <2> QED BY <1>2, <2>2
<1>4. CASE (\E c \in Followed : Tracking!OpenFromList(c)) \/ Tracking!Refresh
  <2>1. \E c \in Followed : trackingReads' = Tracking!Asked(c, trackingReads)
    BY <1>4 DEF Tracking!OpenFromList, Tracking!Refresh, TrackInv, PageOK
  <2> QED BY <1>3, <2>1
<1>5. ASSUME NEW f \in Files, Tracking!Upload(f) PROVE TrackWire'
  <2>1. PICK r : r = [kind |-> "upload", case |-> card.case, mount |-> card.mount, file |-> f] OBVIOUS
  <2>2. trackingReads' = trackingReads \cup {r} /\ card # None BY <1>5, <2>1 DEF Tracking!Upload, Tracking!CanEdit
  <2>3. r.kind = "upload" /\ r.case \in Followed /\ r.file \in Files BY <2>1, <2>2 DEF TrackInv, PageOK, CardOK
  <2> QED BY <1>2, <2>2, <2>3
<1>6. CASE Tracking!SubmitTask
  <2>1. PICK r : trackingReads' = trackingReads \cup {r} /\ r.kind = "submit"
    <3> DEFINE r == [kind |-> "submit", case |-> card.case, mount |-> card.mount,
                     etag |-> card.version, shown |-> card.content,
                     key |-> Tracking!Operation.key, content |-> Tracking!Operation.content,
                     previous |-> IF card.operation = None THEN 0 ELSE card.operation.key]
    <3>1. trackingReads' = trackingReads \cup {r} BY <1>6 DEF Tracking!SubmitTask
    <3>2. r.kind = "submit" OBVIOUS
    <3> HIDE DEF r
    <3> QED BY <3>1, <3>2
  <2> QED BY <1>2, <2>1
<1>7. ASSUME NEW r \in trackingReads, Tracking!SubmitSucceeds(r) PROVE TrackWire'
  <2>1. r.case \in Followed BY <1>7 DEF Tracking!SubmitSucceeds, TrackInv, WireOK, RequestOK
  <2> DEFINE row1 == [Tracking!RowOf(r.case) EXCEPT !.status = task'[r.case].status, !.version = task'[r.case].version]
  <2>2. PICK s : s = [kind |-> "open", row |-> row1] OBVIOUS
  <2>3. trackingReads' = (trackingReads \ {r}) \cup {s} BY <1>7, <2>2 DEF Tracking!SubmitSucceeds
  <2>4. task'[r.case].status \in {"OPEN", "SUBMITTED"} /\ task'[r.case].version \in Nat BY <2>1 DEF TrackRows
  <2>5. row1 \in Tracking!Rows
    <3>1. PICK q : q = Tracking!RowOf(r.case) OBVIOUS
    <3>2. q \in Tracking!Rows BY <2>1, <3>1, RowsRead
    <3>3. row1 = [q EXCEPT !.status = task'[r.case].status, !.version = task'[r.case].version] BY <3>1
    <3> HIDE DEF row1
    <3> QED BY <2>4, <3>2, <3>3, RowUpdated
  <2> HIDE DEF row1
  <2>6. s.kind = "open" /\ s.row \in Tracking!Rows BY <2>2, <2>5
  <2> QED BY <1>2, <2>3, <2>6
<1>8. CASE \/ UNCHANGED trackingVars \/ Tracking!Staff \/ Tracking!BackToList
           \/ (\E content \in Tracking!Contents : Tracking!Edit(content))
           \/ \E r \in trackingReads : \/ Tracking!OpenFails(r) \/ \E row1 \in {r.row, Tracking!RowOf(r.row.case)} : Tracking!OpenArrives(r, row1)
                                       \/ Tracking!UploadEnds(r) \/ Tracking!SubmitRefused(r) \/ Tracking!SubmitLost(r)
  BY <1>1, <1>8 DEF trackingVars, Tracking!Staff, Tracking!BackToList, Tracking!Edit, Tracking!OpenFails, Tracking!OpenArrives,
     Tracking!UploadEnds, Tracking!SubmitRefused, Tracking!SubmitLost
<1> QED BY <1>4, <1>5, <1>6, <1>7, <1>8 DEF Tracking!Next

\* What the card waited for ends: it is free, or it is another card's answer.
LEMMA SettlesKept ==
  ASSUME TrackInv, TrackKept, NEW r \in trackingReads, r.kind # "open", NEW then, Tracking!Settled(r, then),
         trackingReads \ {r} \subseteq trackingReads',
         card # None /\ Tracking!Owns(r) =>
           then \in Tracking!Cards /\ then # None /\ TrackCard(record, then) /\ ~then.lock
  PROVE  TrackPage'
<1>1. CASE Tracking!Owns(r)
  <2>1. card # None /\ card' = then /\ UNCHANGED record BY <1>1 DEF Tracking!Owns, Tracking!Settled
  <2> QED BY <1>1, <2>1 DEF TrackKept, TrackPage, TrackCard
<1>2. CASE ~Tracking!Owns(r)
  <2>1. UNCHANGED <<record, card>> BY <1>2 DEF Tracking!Settled
  <2>2. card # None => r.mount # card.mount BY <1>2 DEF Tracking!Owns
  <2> QED BY <2>1, <2>2 DEF TrackKept, TrackPage, TrackCard
<1> QED BY <1>1, <1>2

LEMMA FreedKept ==
  ASSUME Tracking!TrackingAssumption, TrackInv, TrackKept, card # None
  PROVE  /\ LET n == [card EXCEPT !.lock = FALSE]
            IN  n \in Tracking!Cards /\ n # None /\ TrackCard(record, n) /\ ~n.lock
         /\ LET n == [card EXCEPT !.lock = FALSE, !.pending = FALSE, !.operation = None]
            IN  n \in Tracking!Cards /\ n # None /\ TrackCard(record, n) /\ ~n.lock
<1>1. card \in Tracking!Cards /\ TrackCard(record, card) BY DEF TrackKept, TrackPage
<1>2. \A n \in Tracking!Cards : n # None BY DEF Tracking!TrackingAssumption
<1>3. LET n == [card EXCEPT !.lock = FALSE]
      IN  n \in Tracking!Cards /\ TrackCard(record, n) /\ ~n.lock
  BY <1>1 DEF Tracking!Cards, TrackCard
<1>4. LET n == [card EXCEPT !.lock = FALSE, !.pending = FALSE, !.operation = None]
      IN  n \in Tracking!Cards /\ TrackCard(record, n) /\ ~n.lock
  BY <1>1 DEF Tracking!Cards, TrackCard
<1> QED BY <1>2, <1>3, <1>4

LEMMA UploadedKept ==
  ASSUME Tracking!TrackingAssumption, TrackInv, TrackKept, NEW r \in trackingReads, Tracking!UploadEnds(r)
  PROVE  TrackPage'
<1>1. r.kind # "open" /\ r.file \in Files /\ trackingReads' = trackingReads \ {r}
  BY DEF Tracking!UploadEnds, TrackKept, TrackWire
<1>2. CASE Tracking!Settled(r, [card EXCEPT !.lock = FALSE]) BY <1>1, <1>2, FreedKept, SettlesKept
<1>3. CASE Tracking!Settled(r, [card EXCEPT !.lock = FALSE, !.uploaded = @ \cup {r.file}, !.content.ids = @ \cup {r.file}])
  <2> DEFINE n == [card EXCEPT !.lock = FALSE, !.uploaded = @ \cup {r.file}, !.content.ids = @ \cup {r.file}]
  <2>1. ASSUME card # None PROVE n \in Tracking!Cards /\ TrackCard(record, n) /\ ~n.lock
    <3>1. card \in Tracking!Cards /\ TrackCard(record, card) BY <2>1 DEF TrackKept, TrackPage
    <3> DEFINE u == card.uploaded \cup {r.file}
               c == [card.content EXCEPT !.ids = @ \cup {r.file}]
    <3>2. u \in SUBSET Files BY <1>1, <3>1 DEF Tracking!Cards
    <3>3. c \in Tracking!Contents /\ c.ids = card.content.ids \cup {r.file} BY <1>1, <3>1 DEF Tracking!Cards, Tracking!Contents
    <3>4. n = [card EXCEPT !.lock = FALSE, !.uploaded = u, !.content = c] OBVIOUS
    <3>5. c.ids \subseteq u BY <3>1, <3>3 DEF TrackCard
    <3> HIDE DEF u, c, n
    <3>6. n \in Tracking!Cards /\ n.case = card.case /\ n.version = card.version /\ n.uploaded = u /\ n.content = c /\ ~n.lock
          /\ n.pending = card.pending /\ n.operation = card.operation
      BY <3>1, <3>2, <3>3, <3>4 DEF Tracking!Cards
    <3> QED BY <3>1, <3>5, <3>6 DEF TrackCard
  <2>2. \A k \in Tracking!Cards : k # None BY DEF Tracking!TrackingAssumption
  <2>3. Tracking!Settled(r, n) BY <1>3
  <2> HIDE DEF n
  <2> QED BY <1>1, <2>1, <2>2, <2>3, SettlesKept
<1> QED BY <1>2, <1>3 DEF Tracking!UploadEnds

LEMMA OpenedKept ==
  ASSUME Tracking!TrackingAssumption, TrackInv, TrackKept, NEW r \in trackingReads,
         NEW row1 \in {r.row, Tracking!RowOf(r.row.case)}, Tracking!OpenArrives(r, row1)
  PROVE  TrackPage'
<1>1. r.kind = "open" /\ record' = row1 /\ card' = Tracking!CardFor(row1) /\ trackingReads' = trackingReads \ {r}
  BY DEF Tracking!OpenArrives
<1>2. row1 \in Tracking!Rows /\ row1 # None
  <2>1. r.row \in Tracking!Rows /\ r.row.case \in Followed BY <1>1 DEF TrackKept, TrackWire, Tracking!Rows
  <2>2. row1 \in Tracking!Rows BY <2>1, RowsRead
  <2> QED BY <2>2 DEF Tracking!TrackingAssumption
<1>3. CASE card # None /\ card.case = row1.case /\ card.version = row1.version
  <2>1. card' = card BY <1>1, <1>3 DEF Tracking!CardFor
  <2> QED BY <1>1, <1>2, <1>3, <2>1 DEF TrackKept, TrackPage, TrackCard
<1>4. CASE ~(card # None /\ card.case = row1.case /\ card.version = row1.version)
  <2>1. card' = Tracking!NewCard(row1, Tracking!FreeMount) BY <1>1, <1>4 DEF Tracking!CardFor
  <2>2. Tracking!FreeMount \in Nat BY MountIsFree DEF Tracking!TrackingAssumption
  <2>3. card' \in Tracking!Cards /\ card'.case = row1.case /\ card'.version = row1.version /\ ~card'.lock /\ ~card'.pending
        /\ card'.content = Tracking!Nothing
    BY <1>2, <2>1, <2>2, NothingIsContent DEF Tracking!NewCard, Tracking!Cards, Tracking!Rows
  <2>4. card' # None BY <2>3 DEF Tracking!TrackingAssumption
  <2>5. TrackCard(record', card') BY <1>1, <2>3 DEF TrackCard, Tracking!Nothing
  <2> QED BY <1>1, <1>2, <2>3, <2>4, <2>5 DEF TrackPage, TrackCard
<1> QED BY <1>3, <1>4

\* The card starts to wait for the request that it sends.
LEMMA StartsKept ==
  ASSUME Tracking!TrackingAssumption, TrackKept, card # None, NEW k \in Tracking!Cards, TrackCard(record, k),
         k.mount = card.mount, card' = k, UNCHANGED record,
         NEW r, trackingReads' = trackingReads \cup {r}, r.kind # "open", r.mount = card.mount
  PROVE  TrackPage'
<1>1. k # None BY DEF Tracking!TrackingAssumption
<1>2. \E s \in trackingReads' : s.kind # "open" /\ s.mount = card'.mount OBVIOUS
<1> QED BY <1>1, <1>2 DEF TrackKept, TrackPage, TrackCard

LEMMA SentKept ==
  ASSUME Tracking!TrackingAssumption, TrackInv, TrackKept, Tracking!SubmitTask
  PROVE  TrackPage'
<1> DEFINE r == [kind |-> "submit", case |-> card.case, mount |-> card.mount,
                 etag |-> card.version, shown |-> card.content,
                 key |-> Tracking!Operation.key, content |-> Tracking!Operation.content,
                 previous |-> IF card.operation = None THEN 0 ELSE card.operation.key]
           o == Tracking!Operation
           n == [card EXCEPT !.lock = TRUE, !.pending = TRUE, !.operation = o]
<1>1. /\ card # None /\ card' = n /\ trackingReads' = trackingReads \cup {r} /\ UNCHANGED record
      /\ (card.operation # None \/ Tracking!Unused # {})
  BY DEF Tracking!SubmitTask
<1>2. r.kind # "open" /\ r.mount = card.mount OBVIOUS
<1>3. card \in Tracking!Cards /\ TrackCard(record, card) BY <1>1 DEF TrackKept, TrackPage
<1>4. o \in Tracking!Operations
  <2>1. CASE card.operation # None BY <1>3, <2>1 DEF Tracking!Operation, Tracking!Cards
  <2>2. CASE card.operation = None
    <3>1. Tracking!NewKey \in Tracking!Unused BY <1>1, <2>2 DEF Tracking!NewKey
    <3>2. Tracking!NewKey \in Nat BY <3>1 DEF Tracking!Unused, Tracking!TrackingAssumption
    <3> QED BY <1>3, <2>2, <3>2 DEF Tracking!Operation, Tracking!Operations, Tracking!Cards
  <2> QED BY <2>1, <2>2
<1>5. o # None BY <1>4 DEF Tracking!TrackingAssumption
<1> HIDE DEF r, o
<1>6. n \in Tracking!Cards /\ TrackCard(record, n) /\ n.mount = card.mount
  BY <1>3, <1>4, <1>5 DEF Tracking!Cards, TrackCard
<1> HIDE DEF n
<1> QED BY <1>1, <1>2, <1>6, StartsKept

LEMMA TrackPageStep ==
  ASSUME Tracking!TrackingAssumption, TrackInv, TrackKept, [Tracking!Next]_trackingVars PROVE TrackPage'
<1>1. CASE UNCHANGED <<record, card>> /\ trackingReads \subseteq trackingReads'
  BY <1>1 DEF TrackKept, TrackPage, TrackCard
<1>2. CASE UNCHANGED trackingVars \/ Tracking!Staff \/ (\E c \in Followed : Tracking!OpenFromList(c)) \/ Tracking!Refresh
  BY <1>1, <1>2 DEF trackingVars, Tracking!Staff, Tracking!OpenFromList, Tracking!Refresh, Tracking!Asked
<1>3. CASE Tracking!BackToList \/ \E r \in trackingReads : Tracking!OpenFails(r)
  BY <1>3 DEF Tracking!BackToList, Tracking!OpenFails, TrackPage
<1>4. ASSUME NEW c \in Tracking!Contents, Tracking!Edit(c) PROVE TrackPage'
  <2>1. card # None /\ ~card.lock /\ c.ids \subseteq card.uploaded /\ card' = [card EXCEPT !.content = c] /\ UNCHANGED record
    BY <1>4 DEF Tracking!Edit, Tracking!CanEdit
  <2>2. card \in Tracking!Cards /\ TrackCard(record, card) BY <2>1 DEF TrackKept, TrackPage
  <2>3. card' \in Tracking!Cards /\ TrackCard(record', card') /\ card'.lock = card.lock
    BY <2>1, <2>2 DEF Tracking!Cards, TrackCard
  <2>4. card' # None BY <2>3 DEF Tracking!TrackingAssumption
  <2> QED BY <2>1, <2>3, <2>4 DEF TrackKept, TrackPage, TrackCard
<1>5. ASSUME NEW f \in Files, Tracking!Upload(f) PROVE TrackPage'
  <2> DEFINE r == [kind |-> "upload", case |-> card.case, mount |-> card.mount, file |-> f]
             n == [card EXCEPT !.lock = TRUE]
  <2>1. card # None /\ card' = n /\ trackingReads' = trackingReads \cup {r} /\ UNCHANGED record
    BY <1>5 DEF Tracking!Upload, Tracking!CanEdit
  <2>2. r.kind # "open" /\ r.mount = card.mount OBVIOUS
  <2>3. card \in Tracking!Cards /\ TrackCard(record, card) BY <2>1 DEF TrackKept, TrackPage
  <2>4. n \in Tracking!Cards /\ TrackCard(record, n) /\ n.mount = card.mount BY <2>3 DEF Tracking!Cards, TrackCard
  <2> HIDE DEF r, n
  <2> QED BY <2>1, <2>2, <2>4, StartsKept
<1>6. ASSUME NEW r \in trackingReads, Tracking!SubmitSucceeds(r) \/ Tracking!SubmitRefused(r) \/ Tracking!SubmitLost(r)
      PROVE TrackPage'
  <2>1. /\ r.kind # "open" /\ trackingReads \ {r} \subseteq trackingReads'
        /\ Tracking!Settled(r, [card EXCEPT !.lock = FALSE])
           \/ Tracking!Settled(r, [card EXCEPT !.lock = FALSE, !.pending = FALSE, !.operation = None])
    BY <1>6 DEF Tracking!SubmitSucceeds, Tracking!SubmitRefused, Tracking!SubmitLost, Tracking!Refused
  <2> QED BY <2>1, FreedKept, SettlesKept
<1> QED BY <1>2, <1>3, <1>4, <1>5, <1>6, SentKept, UploadedKept, OpenedKept DEF Tracking!Next

LEMMA TrackKeptStep ==
  ASSUME Tracking!TrackingAssumption, TrackInv, TrackKept, [Tracking!Next]_trackingVars PROVE TrackKept'
<1>1. TrackRows' BY TrackRowsStep
<1> QED BY <1>1, TrackWireStep, TrackPageStep DEF TrackKept

LEMMA TrackTyped == ASSUME Tracking!TrackingAssumption, TrackInv, TrackKept PROVE Tracking!TrackingTypeOK
<1>1. Cardinality({r \in trackingReads : r.kind # "open"}) <= MaxWaiting
  <2> DEFINE S == {r \in trackingReads : r.kind # "open"}
  <2>1. S \subseteq trackingReads /\ IsFiniteSet(trackingReads) /\ Cardinality(trackingReads) <= MaxWaiting
    BY DEF TrackInv, WireOK
  <2> HIDE DEF S
  <2>2. /\ Cardinality(S) <= Cardinality(trackingReads) /\ Cardinality(S) \in Nat
        /\ Cardinality(trackingReads) \in Nat
    BY <2>1, FS_Subset, FS_CardinalityType
  <2>3. Cardinality(S) <= MaxWaiting BY <2>1, <2>2 DEF Tracking!TrackingAssumption
  <2> QED BY <2>3 DEF S
<1>2. card # None => /\ card.pending <=> card.operation # None
                     /\ card.lock <=> \E r \in trackingReads : r.kind # "open" /\ r.mount = card.mount
  BY DEF TrackInv, PageOK, CardOK, WaitsFor, TrackKept, TrackPage, TrackCard
<1> QED BY <1>1, <1>2, TrackingCardinality DEF TrackKept, TrackPage, TrackCard, Tracking!TrackingTypeOK

---------------------------------------------------------------------------
(* The reader of identity cards.                                           *)

\* One recognition at most has its turn, holds the lock, and reads the picture that is there.

\* The part's cardinality is that of the theorems about finite sets.
LEMMA ReaderCardinality == \A S : Reader!Cardinality(S) = Cardinality(S)
BY DEF Reader!Cardinality, Cardinality

ReaderTypes ==
  /\ side \in [Reader!Sides -> [image : Images \cup {None}, recognized : BOOLEAN]]
  /\ field \in [Reader!Sides -> Images \cup {None, "typed"}]
  /\ job \in [Jobs -> Reader!Reading \cup {None}]
  /\ locked \in BOOLEAN /\ disabled \in BOOLEAN

\* One at most has its turn, and holds the lock; a recognition has its turn until it is given up.
Turns ==
  /\ \A j, k \in Reader!Running : job[j].turn /\ job[k].turn => j = k
  /\ (\E j \in Reader!Running : job[j].turn) => locked /\ ~disabled /\ reviewed = None
  /\ \A j \in Reader!Running : /\ job[j].kind = "text" <=> job[j].worker # "none"
                               /\ job[j].cancelled => ~job[j].turn /\ job[j].worker = "creating"
                               /\ job[j].kind = "text" /\ ~job[j].cancelled => job[j].turn

\* What is being read is the picture that is there; what was reviewed is what is shown.
Reads ==
  /\ \A j \in Reader!Running : job[j].kind = "text" /\ job[j].turn => job[j].image = side[job[j].side].image
  /\ reviewed # None => reviewed = Reader!Shown

ReaderInv == ReaderTypes /\ Turns /\ Reads /\ Reader!CandidatesOfThePicture /\ Reader!HandedAsReviewed

LEMMA ReaderInit == ASSUME Reader!ReaderAssumption PROVE Reader!Init => ReaderInv
<1> SUFFICES ASSUME Reader!Init PROVE ReaderInv OBVIOUS
<1>1. \A s \in Reader!Sides : side[s] = Reader!NoSide /\ field[s] = None BY DEF Reader!Init
<1>2. Reader!Running = {} BY DEF Reader!Init, Reader!Running
<1>3. ReaderTypes BY DEF Reader!Init, ReaderTypes, Reader!NoSide
<1>4. Turns /\ Reads BY <1>2 DEF Reader!Init, Turns, Reads
<1>5. Reader!CandidatesOfThePicture /\ Reader!HandedAsReviewed
  BY <1>1 DEF Reader!Init, Reader!ReaderAssumption, Reader!CandidatesOfThePicture, Reader!HandedAsReviewed
<1> QED BY <1>3, <1>4, <1>5 DEF ReaderInv

\* Work that begins has its turn, for there is no other.
LEMMA Begins ==
  ASSUME ReaderInv, NEW j \in Jobs, NEW w \in Reader!Reading, w.turn, ~w.cancelled, w.kind = "text" <=> w.worker # "none",
         Reader!Begin(j, w), UNCHANGED disabled,
         w.kind = "text" => w.image = side'[w.side].image
  PROVE  /\ job' \in [Jobs -> Reader!Reading \cup {None}] /\ locked' \in BOOLEAN /\ reviewed' = None
         /\ Turns'
         /\ \A k \in Reader!Running' : job'[k].kind = "text" /\ job'[k].turn => job'[k].image = side'[job'[k].side].image
<1> USE DEF ReaderInv, ReaderTypes, Turns
<1>1. ~locked /\ ~disabled /\ job[j] = None /\ locked' = TRUE /\ reviewed' = None
  BY DEF Reader!Begin, Reader!Invalidate
<1>2. \A k \in Reader!Running : ~job[k].turn BY <1>1
<1>3. job' = [k \in Jobs |-> IF k = j THEN w ELSE IF job[k] = None THEN None ELSE [job[k] EXCEPT !.turn = FALSE]]
  BY DEF Reader!Begin
<1>4. \A k \in Jobs : k # j => job'[k] = job[k]
  <2> SUFFICES ASSUME NEW k \in Jobs, k # j PROVE job'[k] = job[k] OBVIOUS
  <2>1. CASE job[k] = None BY <1>3, <2>1
  <2>2. CASE job[k] # None
    <3>1. job[k] \in Reader!Reading /\ ~job[k].turn BY <1>2, <2>2 DEF Reader!Running
    <3> QED BY <1>3, <2>2, <3>1 DEF Reader!Reading
  <2> QED BY <2>1, <2>2
<1>5. job'[j] = w BY <1>3
<1>6. job' \in [Jobs -> Reader!Reading \cup {None}]
  <2>1. \A k \in Jobs : job'[k] \in Reader!Reading \cup {None} BY <1>4, <1>5
  <2> QED BY <1>3, <2>1
<1>7. \A k \in Reader!Running' : k = j \/ (k \in Reader!Running /\ job'[k] = job[k] /\ ~job[k].turn)
  BY <1>2, <1>4 DEF Reader!Running
<1> QED BY <1>1, <1>5, <1>6, <1>7

LEMMA ReaderBegins ==
  ASSUME Reader!ReaderAssumption, ReaderInv, NEW s \in Reader!Sides, NEW i \in Images, NEW j \in Jobs,
         Reader!Load(s, i, j) \/ Reader!Rotate(s, i, j) \/ Reader!Recognize(s, j)
  PROVE  ReaderInv'
<1>1. CASE Reader!Load(s, i, j) \/ Reader!Rotate(s, i, j)
  <2> DEFINE w == Reader!Work("image", s, i, "none")
  <2>1. Reader!Begin(j, w) /\ UNCHANGED <<side, field, disabled, handed>> BY <1>1 DEF Reader!Load, Reader!Rotate
  <2>2. w \in Reader!Reading /\ w.turn /\ ~w.cancelled /\ w.kind = "image" /\ w.worker = "none" BY DEF Reader!Work, Reader!Reading
  <2> HIDE DEF w
  <2> QED
    BY <2>1, <2>2, Begins DEF ReaderInv, ReaderTypes, Reads, Reader!CandidatesOfThePicture, Reader!HandedAsReviewed
<1>2. CASE Reader!Recognize(s, j)
  <2> DEFINE w == Reader!Work("text", s, side[s].image, "creating")
  <2>1. /\ Reader!Begin(j, w) /\ UNCHANGED <<disabled, handed>> /\ side[s].image # None
        /\ side' = [side EXCEPT ![s].recognized = FALSE] /\ field' = [field EXCEPT ![s] = None]
    BY <1>2 DEF Reader!Recognize, Reader!ResetFields
  <2>2. w \in Reader!Reading /\ w.turn /\ ~w.cancelled /\ w.kind = "text" /\ w.worker = "creating"
        /\ w.image = side[s].image /\ w.side = s
    BY <2>1 DEF Reader!Work, Reader!Reading, ReaderInv, ReaderTypes
  <2> HIDE DEF w
  <2>3. side' \in [Reader!Sides -> [image : Images \cup {None}, recognized : BOOLEAN]]
        /\ \A t \in Reader!Sides : side'[t].image = side[t].image /\ (t # s => side'[t] = side[t])
    BY <2>1 DEF ReaderInv, ReaderTypes
  <2> QED BY <2>1, <2>2, <2>3, Begins
    DEF Reader!ReaderAssumption, ReaderInv, ReaderTypes, Reads, Reader!CandidatesOfThePicture, Reader!HandedAsReviewed
<1> QED BY <1>1, <1>2

\* Work that ends leaves the others as they were.
LEMMA Finishes ==
  ASSUME ReaderInv, NEW j \in Jobs, job[j] # None, Reader!Finish(j), UNCHANGED disabled,
         reviewed' \in {reviewed, None}
  PROVE  /\ job' \in [Jobs -> Reader!Reading \cup {None}] /\ locked' \in BOOLEAN /\ Turns'
         /\ \A k \in Reader!Running' : k \in Reader!Running /\ k # j /\ job'[k] = job[k]
<1> USE DEF ReaderInv, ReaderTypes, Turns
<1>1. job' = [job EXCEPT ![j] = None] /\ locked' = (locked /\ ~job[j].turn) BY DEF Reader!Finish
<1>2. job' \in [Jobs -> Reader!Reading \cup {None}] BY <1>1
<1>3. \A k \in Reader!Running' : k \in Reader!Running /\ k # j /\ job'[k] = job[k] BY <1>1 DEF Reader!Running
<1>4. job[j] \in Reader!Reading /\ j \in Reader!Running BY DEF Reader!Running
<1>5. locked' \in BOOLEAN BY <1>1, <1>4 DEF Reader!Reading
<1>6. (\E k \in Reader!Running' : job'[k].turn) => locked' /\ ~disabled /\ reviewed = None
  <2> SUFFICES ASSUME NEW k \in Reader!Running', job'[k].turn PROVE locked' /\ ~disabled /\ reviewed = None OBVIOUS
  <2>1. ~job[j].turn BY <1>3, <1>4
  <2> QED BY <1>1, <1>3, <2>1
<1> QED BY <1>2, <1>3, <1>5, <1>6

LEMMA ReaderEnds ==
  ASSUME Reader!ReaderAssumption, ReaderInv, NEW j \in Jobs,
         Reader!ImageReady(j) \/ Reader!ImageFails(j) \/ Reader!WorkerFails(j) \/ Reader!TextArrives(j)
  PROVE  ReaderInv'
<1>1. job[j] # None /\ Reader!Finish(j) /\ UNCHANGED <<disabled, handed>> /\ j \in Reader!Running
      /\ job[j] \in Reader!Reading
  BY DEF Reader!ImageReady, Reader!ImageFails, Reader!WorkerFails, Reader!TextArrives, Reader!Running, ReaderInv,
     ReaderTypes
<1>2. CASE UNCHANGED <<side, field, reviewed>>
  <2>1. Turns' /\ job' \in [Jobs -> Reader!Reading \cup {None}] /\ locked' \in BOOLEAN
        /\ \A k \in Reader!Running' : k \in Reader!Running /\ k # j /\ job'[k] = job[k] BY <1>1, <1>2, Finishes
  <2> QED BY <1>1, <1>2, <2>1
    DEF ReaderInv, ReaderTypes, Reads, Reader!CandidatesOfThePicture, Reader!HandedAsReviewed, Reader!Shown
<1>3. CASE Reader!ImageReady(j) /\ Reader!Counts(j)
  <2> DEFINE s == job[j].side
  <2>1. /\ side' = [side EXCEPT ![s] = [image |-> job[j].image, recognized |-> FALSE]]
        /\ field' = [field EXCEPT ![s] = None] /\ reviewed' = None
    BY <1>3 DEF Reader!ImageReady, Reader!ResetFields, Reader!Invalidate
  <2>2. job[j].turn BY <1>3 DEF Reader!Counts
  <2>3. Turns' /\ job' \in [Jobs -> Reader!Reading \cup {None}] /\ locked' \in BOOLEAN
        /\ \A k \in Reader!Running' : k \in Reader!Running /\ k # j /\ job'[k] = job[k] BY <1>1, <2>1, Finishes
  <2>4. \A k \in Reader!Running' : ~job'[k].turn BY <1>1, <2>2, <2>3 DEF ReaderInv, Turns
  <2>5. s \in Reader!Sides /\ job[j].image \in Images BY <1>1 DEF Reader!Reading
  <2> HIDE DEF s
  <2> QED BY <1>1, <2>1, <2>3, <2>4, <2>5
    DEF Reader!ReaderAssumption, ReaderInv, ReaderTypes, Reads, Reader!CandidatesOfThePicture, Reader!HandedAsReviewed
<1>4. CASE Reader!TextArrives(j) /\ Reader!Counts(j)
  <2> DEFINE s == job[j].side
  <2>1. PICK o \in {None, job[j].image} : /\ side' = [side EXCEPT ![s].recognized = TRUE]
                                          /\ field' = [field EXCEPT ![s] = o] /\ reviewed' = reviewed
    BY <1>4 DEF Reader!TextArrives
  <2>2. job[j].turn /\ job[j].worker = "running" BY <1>4 DEF Reader!TextArrives, Reader!Counts
  <2>3. Turns' /\ job' \in [Jobs -> Reader!Reading \cup {None}] /\ locked' \in BOOLEAN
        /\ \A k \in Reader!Running' : k \in Reader!Running /\ k # j /\ job'[k] = job[k] BY <1>1, <2>1, Finishes
  <2>4. \A k \in Reader!Running' : ~job'[k].turn BY <1>1, <2>2, <2>3 DEF ReaderInv, Turns
  <2>5. s \in Reader!Sides /\ job[j].image \in Images BY <1>1 DEF Reader!Reading
  <2>6. job[j].image = side[s].image /\ reviewed = None BY <1>1, <2>2 DEF ReaderInv, Turns, Reads
  <2> HIDE DEF s
  <2>7. side' \in [Reader!Sides -> [image : Images \cup {None}, recognized : BOOLEAN]]
        /\ side'[s].recognized /\ side'[s].image = side[s].image /\ \A t \in Reader!Sides \ {s} : side'[t] = side[t]
    BY <2>1, <2>5 DEF ReaderInv, ReaderTypes
  <2> QED BY <1>1, <2>1, <2>3, <2>4, <2>5, <2>6, <2>7
    DEF Reader!ReaderAssumption, ReaderInv, ReaderTypes, Reads, Reader!CandidatesOfThePicture, Reader!HandedAsReviewed
<1> QED BY <1>1, <1>2, <1>3, <1>4 DEF Reader!ImageReady, Reader!ImageFails, Reader!WorkerFails, Reader!TextArrives

\* The worker of a recognition, and its end.
LEMMA ReaderWorkers ==
  ASSUME Reader!ReaderAssumption, ReaderInv, NEW j \in Jobs, Reader!WorkerReady(j) \/ Reader!Interrupt(j)
  PROVE  ReaderInv'
<1>1. job[j] # None /\ UNCHANGED <<side, field, disabled, reviewed, handed>> /\ j \in Reader!Running
      /\ job[j] \in Reader!Reading
  BY DEF Reader!WorkerReady, Reader!Interrupt, Reader!Running, ReaderInv, ReaderTypes
<1> DEFINE w == job'[j]
<1>2. /\ job' \in [Jobs -> Reader!Reading \cup {None}] /\ \A k \in Jobs \ {j} : job'[k] = job[k]
      /\ w # None => /\ w.kind = job[j].kind /\ w.image = job[j].image /\ w.side = job[j].side
                     /\ w.turn => job[j].turn
                     /\ w.worker # "none" /\ w.kind = "text"
                     /\ w.cancelled => ~w.turn /\ w.worker = "creating"
                     /\ ~w.cancelled => w.turn
      /\ locked' \in BOOLEAN
      /\ locked' = locked \/ (locked' = (locked /\ ~job[j].turn) /\ (w # None => ~w.turn))
  <2>1. CASE Reader!WorkerReady(j)
    <3>1. job[j].worker = "creating" /\ job' = Reader!WorkerCreated(j) /\ locked' = locked
      BY <2>1 DEF Reader!WorkerReady
    <3>2. CASE job[j].cancelled
      BY <1>1, <3>1, <3>2 DEF Reader!WorkerCreated, ReaderInv, Turns, ReaderTypes
    <3>3. CASE ~job[j].cancelled
      <4> DEFINE v == [job[j] EXCEPT !.worker = "running"]
      <4>1. v \in Reader!Reading /\ job' = [job EXCEPT ![j] = v]
        BY <1>1, <3>1, <3>3 DEF Reader!WorkerCreated, Reader!Reading, ReaderInv, ReaderTypes
      <4>2. /\ v.kind = job[j].kind /\ v.image = job[j].image /\ v.side = job[j].side
            /\ v.turn = job[j].turn /\ v.worker = "running" /\ v.cancelled = job[j].cancelled
        BY <1>1 DEF Reader!Reading
      <4>3. job[j].kind = "text" /\ job[j].turn BY <1>1, <3>1, <3>3 DEF ReaderInv, Turns
      <4> HIDE DEF v
      <4>4. w = v /\ job' \in [Jobs -> Reader!Reading \cup {None}] /\ \A k \in Jobs \ {j} : job'[k] = job[k]
        BY <4>1 DEF ReaderInv, ReaderTypes
      <4> HIDE DEF w
      <4> QED BY <3>1, <3>3, <4>2, <4>3, <4>4 DEF ReaderInv, ReaderTypes
    <3> QED BY <3>2, <3>3
  <2>2. CASE Reader!Interrupt(j)
    <3>1. job[j].kind = "text" /\ ~job[j].cancelled /\ locked' = (locked /\ ~job[j].turn)
          /\ job' = [job EXCEPT ![j] = Reader!Stopped(job[j])] BY <2>2 DEF Reader!Interrupt
    <3>2. locked' \in BOOLEAN BY <1>1, <3>1 DEF Reader!Reading, ReaderInv, ReaderTypes
    <3>3. CASE job[j].worker = "creating"
      <4> DEFINE v == [job[j] EXCEPT !.cancelled = TRUE, !.turn = FALSE]
      <4>1. v \in Reader!Reading /\ job' = [job EXCEPT ![j] = v] BY <1>1, <3>1, <3>3 DEF Reader!Stopped, Reader!Reading
      <4>2. /\ v.kind = job[j].kind /\ v.image = job[j].image /\ v.side = job[j].side
            /\ ~v.turn /\ v.worker = "creating" /\ v.cancelled
        BY <1>1, <3>3 DEF Reader!Reading
      <4> HIDE DEF v
      <4>4. w = v /\ job' \in [Jobs -> Reader!Reading \cup {None}] /\ \A k \in Jobs \ {j} : job'[k] = job[k]
        BY <4>1 DEF ReaderInv, ReaderTypes
      <4> HIDE DEF w
      <4> QED BY <3>1, <3>2, <4>2, <4>4
    <3>4. CASE job[j].worker # "creating"
      <4>1. job' = [job EXCEPT ![j] = None] BY <3>1, <3>4 DEF Reader!Stopped
      <4>2. w = None /\ job' \in [Jobs -> Reader!Reading \cup {None}] /\ \A k \in Jobs \ {j} : job'[k] = job[k]
        BY <4>1 DEF ReaderInv, ReaderTypes
      <4> QED BY <3>1, <3>2, <4>2
    <3> QED BY <3>3, <3>4
  <2> QED BY <1>1, <2>1, <2>2
<1>3. job'[j] = w OBVIOUS
<1> HIDE DEF w
<1>4. \A k \in Reader!Running' : k \in Reader!Running /\ (k # j => job'[k] = job[k]) BY <1>1, <1>2 DEF Reader!Running
<1>5. Turns'
  <2>1. \A k \in Reader!Running' : job'[k].turn => job[k].turn BY <1>2, <1>3, <1>4 DEF Reader!Running
  <2>2. \A k, l \in Reader!Running' : job'[k].turn /\ job'[l].turn => k = l BY <1>4, <2>1 DEF ReaderInv, Turns
  <2>3. (\E k \in Reader!Running' : job'[k].turn) => locked' /\ ~disabled /\ reviewed = None
    <3> SUFFICES ASSUME NEW k \in Reader!Running', job'[k].turn PROVE locked' /\ ~disabled /\ reviewed = None OBVIOUS
    <3>1. locked /\ ~disabled /\ reviewed = None BY <1>4, <2>1 DEF ReaderInv, Turns
    <3>2. CASE k = j BY <1>2, <1>3, <3>1, <3>2 DEF Reader!Running
    <3>3. CASE k # j
      <4>1. ~job[j].turn BY <1>1, <1>4, <2>1, <3>3 DEF ReaderInv, Turns
      <4> QED BY <1>2, <3>1, <4>1
    <3> QED BY <3>2, <3>3
  <2>4. \A k \in Reader!Running' : /\ job'[k].kind = "text" <=> job'[k].worker # "none"
                                   /\ job'[k].cancelled => ~job'[k].turn /\ job'[k].worker = "creating"
                                   /\ job'[k].kind = "text" /\ ~job'[k].cancelled => job'[k].turn
    BY <1>2, <1>3, <1>4 DEF ReaderInv, Turns, Reader!Running
  <2> QED BY <1>1, <2>2, <2>3, <2>4 DEF Turns
<1>6. Reads' BY <1>1, <1>2, <1>3, <1>4 DEF ReaderInv, Reads, Reader!Shown, Reader!Running
<1> QED BY <1>1, <1>2, <1>5, <1>6 DEF ReaderInv, ReaderTypes, Reader!CandidatesOfThePicture, Reader!HandedAsReviewed

LEMMA ReaderDisabled == ASSUME Reader!ReaderAssumption, ReaderInv, Reader!Disable PROVE ReaderInv'
<1>1. disabled' = TRUE /\ locked' = FALSE /\ UNCHANGED <<side, field, reviewed, handed>> BY DEF Reader!Disable
<1>2. job' = [j \in Jobs |->
        IF job[j] = None THEN None
        ELSE IF job[j].kind = "text" /\ job[j].turn THEN Reader!Stopped(job[j])
        ELSE [job[j] EXCEPT !.turn = FALSE]] BY DEF Reader!Disable
<1>3. ASSUME NEW j \in Jobs
      PROVE  /\ job'[j] \in Reader!Reading \cup {None}
             /\ job'[j] # None => /\ ~job'[j].turn
                                  /\ job'[j].kind = "text" <=> job'[j].worker # "none"
                                  /\ job'[j].cancelled => job'[j].worker = "creating"
                                  /\ job'[j].kind = "text" => job'[j].cancelled
  <2>1. CASE job[j] = None BY <1>2, <2>1
  <2>2. CASE job[j] # None
    <3>1. job[j] \in Reader!Reading /\ j \in Reader!Running BY <2>2 DEF ReaderInv, ReaderTypes, Reader!Running
    <3>2. CASE job[j].kind = "text" /\ job[j].turn
      <4>1. job'[j] = Reader!Stopped(job[j]) BY <1>2, <2>2, <3>2
      <4>2. CASE job[j].worker = "creating"
        <5>1. job'[j] = [job[j] EXCEPT !.cancelled = TRUE, !.turn = FALSE] BY <4>1, <4>2 DEF Reader!Stopped
        <5> QED BY <3>1, <3>2, <4>2, <5>1 DEF Reader!Reading
      <4>3. CASE job[j].worker # "creating" BY <4>1, <4>3 DEF Reader!Stopped
      <4> QED BY <4>2, <4>3
    <3>3. CASE ~(job[j].kind = "text" /\ job[j].turn)
      <4>1. job'[j] = [job[j] EXCEPT !.turn = FALSE] BY <1>2, <2>2, <3>3
      <4>2. job'[j] \in Reader!Reading /\ ~job'[j].turn /\ job'[j].kind = job[j].kind /\ job'[j].worker = job[j].worker
            /\ job'[j].cancelled = job[j].cancelled BY <3>1, <4>1 DEF Reader!Reading
      <4> QED BY <3>1, <3>3, <4>2 DEF ReaderInv, Turns
    <3> QED BY <3>2, <3>3
  <2> QED BY <2>1, <2>2
<1>4. job' \in [Jobs -> Reader!Reading \cup {None}] BY <1>2, <1>3
<1>5. Turns' /\ Reads' BY <1>1, <1>3 DEF Turns, Reads, Reader!Running, ReaderInv, Reader!Shown
<1> QED BY <1>1, <1>4, <1>5 DEF ReaderInv, ReaderTypes, Reader!CandidatesOfThePicture, Reader!HandedAsReviewed

\* Nothing is under way, or what is stays as it is.
LEMMA ReaderUser ==
  ASSUME Reader!ReaderAssumption, ReaderInv, NEW s \in Reader!Sides,
         Reader!Remove(s) \/ Reader!Type(s) \/ Reader!Enable \/ Reader!ApplicantChanges \/ Reader!Review \/ Reader!Confirm \/ UNCHANGED readerVars
  PROVE  ReaderInv'
<1> USE DEF Reader!ReaderAssumption, ReaderInv, ReaderTypes, Turns, Reads, Reader!Running, Reader!CandidatesOfThePicture, Reader!HandedAsReviewed,
            Reader!Immutable, Reader!Shown
<1>1. CASE Reader!Remove(s) BY <1>1 DEF Reader!Remove, Reader!NoSide, Reader!ResetFields, Reader!Invalidate
<1>2. CASE Reader!Type(s) BY <1>2 DEF Reader!Type, Reader!Invalidate
<1>3. CASE Reader!Enable BY <1>3 DEF Reader!Enable
<1>4. CASE Reader!ApplicantChanges BY <1>4 DEF Reader!ApplicantChanges
<1>5. CASE Reader!Review BY <1>5 DEF Reader!Review
<1>6. CASE Reader!Confirm
  <2>1. handed' = (Reader!Shown = reviewed) /\ reviewed = Reader!Shown BY <1>6 DEF Reader!Confirm
  <2>2. UNCHANGED <<side, field, job, locked, disabled, reviewed>> BY <1>6 DEF Reader!Confirm
  <2>3. Reader!HandedAsReviewed' BY <2>1
  <2> QED BY <2>2, <2>3
<1>7. CASE UNCHANGED readerVars BY <1>7 DEF readerVars
<1> QED BY <1>1, <1>2, <1>3, <1>4, <1>5, <1>6, <1>7

LEMMA ReaderStep == ASSUME Reader!ReaderAssumption, ReaderInv, [Reader!Next]_readerVars PROVE ReaderInv'
<1>1. CASE \E s \in Reader!Sides, image \in Images, j \in Jobs : Reader!Load(s, image, j) \/ Reader!Rotate(s, image, j)
  BY <1>1, ReaderBegins
<1>2. ASSUME NEW s \in Reader!Sides, NEW j \in Jobs, Reader!Recognize(s, j) PROVE ReaderInv'
  <2>1. side[s].image \in Images BY <1>2 DEF Reader!Recognize, ReaderInv, ReaderTypes
  <2> QED BY <1>2, <2>1, ReaderBegins
<1>3. CASE \E j \in Jobs : Reader!ImageReady(j) \/ Reader!ImageFails(j) \/ Reader!WorkerFails(j) \/ Reader!TextArrives(j)
  BY <1>3, ReaderEnds
<1>4. CASE \E j \in Jobs : Reader!WorkerReady(j) \/ Reader!Interrupt(j) BY <1>4, ReaderWorkers
<1>5. CASE Reader!Disable BY <1>5, ReaderDisabled
<1>6. CASE \E s \in Reader!Sides : Reader!Remove(s) \/ Reader!Type(s) BY <1>6, ReaderUser
<1>7. CASE Reader!Enable \/ Reader!ApplicantChanges \/ Reader!Review \/ Reader!Confirm \/ UNCHANGED readerVars
  <2>1. "front" \in Reader!Sides BY DEF Reader!Sides
  <2> QED BY <1>7, <2>1, ReaderUser
<1> QED BY <1>1, <1>2, <1>3, <1>4, <1>5, <1>6, <1>7 DEF Reader!Next

LEMMA ReaderPromises == ReaderInv => Reader!CandidatesOfThePicture /\ Reader!HandedAsReviewed /\ Reader!NoStrayWorker
<1> SUFFICES ASSUME ReaderInv PROVE Reader!NoStrayWorker BY DEF ReaderInv
<1> DEFINE L == {j \in Reader!Running : job[j].worker = "running"}
<1>1. \A j \in L : ~job[j].cancelled /\ job[j].turn BY DEF ReaderInv, Turns
<1>2. \A j, k \in L : j = k BY <1>1 DEF ReaderInv, Turns
<1>3. Cardinality(L) <= 1
  <2>1. CASE L = {} BY <2>1, FS_EmptySet
  <2>2. CASE L # {}
    <3>1. PICK j \in L : L = {j} BY <1>2, <2>2
    <3>2. Cardinality({j}) = 1 BY FS_Singleton
    <3> HIDE DEF L
    <3> QED BY <3>1, <3>2
  <2> QED BY <2>1, <2>2
<1> QED BY <1>1, <1>3, ReaderCardinality DEF Reader!NoStrayWorker

\* What else the reader keeps: only work that has its turn holds the lock, and what was recognized is a picture.
ReaderKept ==
  /\ locked => ~disabled /\ \E j \in Reader!Running : job[j].turn
  /\ \A s \in Reader!Sides : side[s].recognized => side[s].image # None

LEMMA ReaderKeptInit == ASSUME Reader!ReaderAssumption PROVE Reader!Init => ReaderKept
BY DEF Reader!Init, Reader!NoSide, ReaderKept

\* One works at most with its turn.
LEMMA OneHasItsTurn ==
  ASSUME ReaderInv PROVE Cardinality({j \in Reader!Running : job[j].turn}) <= 1
<1> DEFINE L == {j \in Reader!Running : job[j].turn}
<1>1. \A j, k \in L : j = k BY DEF ReaderInv, Turns
<1>2. Cardinality(L) <= 1
  <2>1. CASE L = {} BY <2>1, FS_EmptySet
  <2>2. CASE L # {}
    <3>1. PICK j \in L : L = {j} BY <1>1, <2>2
    <3>2. Cardinality({j}) = 1 BY FS_Singleton
    <3> HIDE DEF L
    <3> QED BY <3>1, <3>2
  <2> QED BY <2>1, <2>2
<1> QED BY <1>2

LEMMA BeginsKept ==
  ASSUME Reader!ReaderAssumption, ReaderInv, NEW j \in Jobs, NEW w \in Reader!Reading, w.turn, Reader!Begin(j, w),
         UNCHANGED disabled
  PROVE  locked' => ~disabled' /\ (\E k \in Reader!Running : job[k].turn)'
<1>1. job'[j] = w /\ w # None BY DEF Reader!Begin, Reader!ReaderAssumption
<1>2. j \in Reader!Running' /\ job'[j].turn BY <1>1 DEF Reader!Running
<1> QED BY <1>2 DEF Reader!Begin

\* The lock is freed by the one whose turn it was; any other leaves the holder alone.
LEMMA FreesKept ==
  ASSUME ReaderInv, ReaderKept, NEW j \in Jobs, job[j] # None, locked' = (locked /\ ~job[j].turn),
         \A k \in Jobs \ {j} : job'[k] = job[k], UNCHANGED disabled
  PROVE  locked' => ~disabled' /\ (\E k \in Reader!Running : job[k].turn)'
<1> SUFFICES ASSUME locked' PROVE ~disabled' /\ (\E k \in Reader!Running : job[k].turn)' OBVIOUS
<1>1. locked /\ ~job[j].turn
  <2>1. job[j] \in Reader!Reading BY DEF ReaderInv, ReaderTypes
  <2>2. job[j].turn \in BOOLEAN BY <2>1 DEF Reader!Reading
  <2> QED BY <2>2 DEF ReaderInv, ReaderTypes
<1>2. PICK k \in Reader!Running : job[k].turn BY <1>1 DEF ReaderKept
<1>3. k # j /\ k \in Jobs BY <1>1, <1>2 DEF Reader!Running
<1>4. k \in Reader!Running' /\ job'[k].turn BY <1>2, <1>3 DEF Reader!Running
<1> QED BY <1>1, <1>4 DEF ReaderKept

LEMMA ReaderKeptStep == ASSUME Reader!ReaderAssumption, ReaderInv, ReaderKept, [Reader!Next]_readerVars PROVE ReaderKept'
<1> DEFINE Recognized == \A s \in Reader!Sides : side[s].recognized => side[s].image # None
           Held == locked => ~disabled /\ \E j \in Reader!Running : job[j].turn
<1>0. /\ side \in [Reader!Sides -> [image : Images \cup {None}, recognized : BOOLEAN]]
      /\ Recognized /\ Held
  BY DEF ReaderInv, ReaderTypes, ReaderKept
<1>a. ASSUME Recognized', Held' PROVE ReaderKept' BY <1>a DEF ReaderKept
<1>1. ASSUME NEW s \in Reader!Sides, NEW image \in Images, NEW j \in Jobs, Reader!Load(s, image, j) \/ Reader!Rotate(s, image, j)
      PROVE ReaderKept'
  <2> DEFINE w == Reader!Work("image", s, image, "none")
  <2>1. Reader!Begin(j, w) /\ UNCHANGED <<side, disabled>> BY <1>1 DEF Reader!Load, Reader!Rotate
  <2>2. w \in Reader!Reading /\ w.turn BY DEF Reader!Work, Reader!Reading
  <2> HIDE DEF w
  <2> QED BY <1>0, <1>a, <2>1, <2>2, BeginsKept
<1>2. ASSUME NEW s \in Reader!Sides, NEW j \in Jobs, Reader!Recognize(s, j) PROVE ReaderKept'
  <2> DEFINE w == Reader!Work("text", s, side[s].image, "creating")
  <2>1. Reader!Begin(j, w) /\ UNCHANGED disabled /\ side' = [side EXCEPT ![s].recognized = FALSE] /\ side[s].image \in Images
    BY <1>0, <1>2 DEF Reader!Recognize
  <2>2. w \in Reader!Reading /\ w.turn BY <2>1 DEF Reader!Work, Reader!Reading
  <2> HIDE DEF w
  <2>3. Recognized' BY <1>0, <2>1
  <2> QED BY <1>a, <2>1, <2>2, <2>3, BeginsKept
<1>3. ASSUME NEW s \in Reader!Sides, Reader!Remove(s) \/ Reader!Type(s) PROVE ReaderKept'
  <2>1. UNCHANGED <<job, locked, disabled>> BY <1>3 DEF Reader!Remove, Reader!Type
  <2>2. Recognized' BY <1>0, <1>3 DEF Reader!Remove, Reader!Type, Reader!NoSide
  <2> QED BY <1>0, <1>a, <2>1, <2>2 DEF Reader!Running
<1>4. ASSUME NEW j \in Jobs,
             Reader!ImageReady(j) \/ Reader!ImageFails(j) \/ Reader!WorkerFails(j) \/ Reader!TextArrives(j) \/ Reader!Interrupt(j)
      PROVE ReaderKept'
  <2>1. job[j] # None /\ locked' = (locked /\ ~job[j].turn) /\ (\A k \in Jobs \ {j} : job'[k] = job[k]) /\ UNCHANGED disabled
    BY <1>4 DEF Reader!ImageReady, Reader!ImageFails, Reader!WorkerFails, Reader!TextArrives, Reader!Interrupt, Reader!Finish,
       ReaderInv, ReaderTypes
  <2>2. Held' BY <2>1, FreesKept
  <2>3. job[j] \in Reader!Reading BY <2>1 DEF ReaderInv, ReaderTypes
  <2>4. Recognized'
    <3>1. CASE UNCHANGED side BY <1>0, <3>1
    <3>2. CASE side' = [side EXCEPT ![job[j].side] = [image |-> job[j].image, recognized |-> FALSE]] BY <1>0, <3>2
    <3>3. CASE Reader!TextArrives(j) /\ Reader!Counts(j)
      <4>1. side' = [side EXCEPT ![job[j].side].recognized = TRUE] BY <3>3 DEF Reader!TextArrives
      <4>2. job[j].turn /\ job[j].kind = "text" /\ j \in Reader!Running
        BY <2>1, <3>3 DEF Reader!Counts, Reader!TextArrives, ReaderInv, Turns, Reader!Running
      <4>3. side[job[j].side].image = job[j].image /\ job[j].image \in Images /\ job[j].side \in Reader!Sides
        BY <2>3, <4>2 DEF ReaderInv, Reads, Reader!Reading
      <4> QED BY <1>0, <4>1, <4>3 DEF Reader!ReaderAssumption
    <3> QED BY <1>4, <3>1, <3>2, <3>3
        DEF Reader!ImageReady, Reader!ImageFails, Reader!WorkerFails, Reader!TextArrives, Reader!Interrupt
  <2> QED BY <1>a, <2>2, <2>4
<1>5. ASSUME NEW j \in Jobs, Reader!WorkerReady(j) PROVE ReaderKept'
  <2>1. job[j] # None /\ job[j].worker = "creating" /\ job' = Reader!WorkerCreated(j) /\ UNCHANGED <<side, locked, disabled>>
    BY <1>5 DEF Reader!WorkerReady
  <2>2. \A k \in Jobs \ {j} : job'[k] = job[k] BY <2>1 DEF Reader!WorkerCreated, ReaderInv, ReaderTypes
  <2>3. job[j] \in Reader!Reading /\ j \in Reader!Running BY <2>1 DEF ReaderInv, ReaderTypes, Reader!Running
  <2>4. job[j].turn => job'[j] # None /\ job'[j].turn
    <3> SUFFICES ASSUME job[j].turn PROVE job'[j] # None /\ job'[j].turn OBVIOUS
    <3>1. ~job[j].cancelled BY <2>3 DEF ReaderInv, Turns
    <3> DEFINE v == [job[j] EXCEPT !.worker = "running"]
    <3>2. job' = [job EXCEPT ![j] = v] BY <2>1, <3>1 DEF Reader!WorkerCreated
    <3>3. v \in Reader!Reading /\ v.turn BY <2>3 DEF Reader!Reading
    <3> HIDE DEF v
    <3> QED BY <3>2, <3>3 DEF Reader!ReaderAssumption, ReaderInv, ReaderTypes
  <2>5. Held'
    <3> SUFFICES ASSUME locked' PROVE ~disabled' /\ (\E k \in Reader!Running : job[k].turn)' OBVIOUS
    <3>1. PICK k \in Reader!Running : job[k].turn BY <1>0, <2>1
    <3>2. k \in Reader!Running' /\ job'[k].turn BY <2>2, <2>4, <3>1 DEF Reader!Running
    <3> QED BY <1>0, <2>1, <3>2
  <2> QED BY <1>0, <1>a, <2>1, <2>5
<1>6. CASE Reader!Disable BY <1>6 DEF Reader!Disable, ReaderKept
<1>7. CASE Reader!Enable \/ Reader!ApplicantChanges \/ Reader!Review \/ Reader!Confirm \/ UNCHANGED readerVars
  <2>1. UNCHANGED <<side, job>> /\ (UNCHANGED <<locked, disabled>> \/ (UNCHANGED locked /\ disabled))
    BY <1>7 DEF Reader!Enable, Reader!ApplicantChanges, Reader!Review, Reader!Confirm, readerVars
  <2> QED BY <2>1 DEF ReaderKept, Reader!Running
<1> QED BY <1>1, <1>2, <1>3, <1>4, <1>5, <1>6, <1>7 DEF Reader!Next

LEMMA ReaderTyped == ASSUME ReaderInv, ReaderKept PROVE Reader!ReaderTypeOK
<1>1. Cardinality({j \in Reader!Running : job[j].turn}) <= 1 BY OneHasItsTurn
<1>2. locked <=> \E j \in Reader!Running : job[j].turn BY DEF ReaderInv, Turns, ReaderKept
<1>3. disabled => ~locked BY DEF ReaderKept
<1> QED BY <1>1, <1>2, <1>3, ReaderCardinality DEF ReaderInv, ReaderTypes, ReaderKept, Reader!ReaderTypeOK

---------------------------------------------------------------------------
(* LINE's SDK.                                                             *)

\* The attempt waits for the script that loads, and the promise that is kept is that of the SDK that is
\* initializing or has been initialized.

\* The part's cardinality is that of the theorems about finite sets.
LEMMA LiffCardinality == \A S : Liff!Cardinality(S) = Cardinality(S)
BY DEF Liff!Cardinality, Cardinality

LiffTypes ==
  /\ script \in [Scripts -> {"unused", "loading", "stray", "ran", "failed"}]
  /\ liff \in Scripts \cup {None}
  /\ attempt \in [stage : {"none", "load", "init"}, sdk : Scripts \cup {None}]
  /\ attempt.stage = "init" => attempt.sdk \in Scripts
  /\ pending \in Scripts \cup {None} /\ initialized \in Scripts \cup {None}
  /\ sdk \in [Scripts -> {"fresh", "initializing", "ready", "failed"}]
  /\ calls \in [Scripts -> Nat]

\* The attempt under way waits for the script that loads; the promise that is kept is that of the SDK
\* that is initializing or has been initialized.
Loading == \A s \in Scripts : script[s] = "loading" => Liff!Awaited(s)
Promised == \A s \in Scripts : sdk[s] \in {"initializing", "ready"} => pending = s

LiffInv == LiffTypes /\ Loading /\ Promised /\ Liff!InitializedIsReady

LEMMA LiffInit == ASSUME Liff!LiffAssumption PROVE Liff!Init => LiffInv
BY DEF Liff!LiffAssumption, Liff!Init, Liff!Idle, LiffInv, LiffTypes, Loading, Promised, Liff!InitializedIsReady

\* What is left when an SDK is used: nothing loads, the promise is of the SDK that runs.
LEMMA UsesOneSdk ==
  ASSUME Liff!LiffAssumption, LiffInv, NEW s \in Scripts, NEW who, Liff!UseSdk(who, s)
  PROVE  /\ attempt' \in [stage : {"none", "init"}, sdk : Scripts \cup {None}]
         /\ attempt'.stage = "init" => attempt'.sdk \in Scripts
         /\ pending' \in Scripts \cup {None}
         /\ sdk' \in [Scripts -> {"fresh", "initializing", "ready", "failed"}]
         /\ calls' \in [Scripts -> Nat]
         /\ Promised' /\ Liff!InitOnceStep
         /\ initialized # None => sdk'[initialized] = "ready"
<1> USE DEF Liff!LiffAssumption, LiffInv, LiffTypes, Promised, Liff!InitializedIsReady, Liff!InitOnceStep
<1>1. CASE initialized = s \/ (pending # None /\ sdk[pending] = "ready")
  BY <1>1 DEF Liff!UseSdk, Liff!Ask, Liff!Settle, Liff!Idle
<1>2. CASE ~(initialized = s \/ (pending # None /\ sdk[pending] = "ready"))
  <2>1. attempt' = [stage |-> "init", sdk |-> s] BY <1>2 DEF Liff!UseSdk, Liff!WaitFor
  <2>2. CASE pending # None BY <1>2, <2>1, <2>2 DEF Liff!UseSdk
  <2>3. CASE pending = None
    <3>1. pending' = s /\ sdk' = [sdk EXCEPT ![s] = "initializing"] /\ calls' = [calls EXCEPT ![s] = calls[s] + 1]
      BY <1>2, <2>3 DEF Liff!UseSdk
    <3>2. initialized = None BY <2>3
    <3>3. \A t \in Scripts : sdk[t] \notin {"initializing", "ready"} BY <2>3
    <3> QED BY <2>1, <3>1, <3>2, <3>3
  <2> QED BY <2>2, <2>3
<1> QED BY <1>1, <1>2

LEMMA LiffCalls ==
  ASSUME Liff!LiffAssumption, LiffInv, NEW c \in Callers, Liff!InitLine(c)
  PROVE  LiffInv' /\ Liff!InitOnceStep
<1>1. UNCHANGED <<liff, initialized>> BY DEF Liff!InitLine
<1>2. CASE attempt # Liff!Idle
  BY <1>1, <1>2 DEF Liff!InitLine, LiffInv, LiffTypes, Loading, Liff!Awaited, Promised, Liff!InitializedIsReady,
     Liff!InitOnceStep
<1>3. CASE attempt = Liff!Idle /\ liff # None
  <2>1. Liff!UseSdk({c}, liff) /\ UNCHANGED script /\ liff \in Scripts
    BY <1>3 DEF Liff!InitLine, Liff!Connect, LiffInv, LiffTypes
  <2>2. \A s \in Scripts : script[s] # "loading" BY <1>3 DEF LiffInv, Loading, Liff!Awaited, Liff!Idle
  <2> QED BY <1>1, <2>1, <2>2, UsesOneSdk DEF LiffInv, LiffTypes, Loading, Liff!InitializedIsReady
<1>4. CASE attempt = Liff!Idle /\ liff = None
  <2>1. PICK s \in Scripts : /\ script' = [script EXCEPT ![s] = "loading"]
                             /\ attempt' = [stage |-> "load", sdk |-> s]
                             /\ UNCHANGED <<pending, sdk, calls>>
    BY <1>4 DEF Liff!InitLine, Liff!Connect, Liff!WaitFor
  <2>2. \A t \in Scripts : script[t] # "loading" BY <1>4 DEF LiffInv, Loading, Liff!Awaited, Liff!Idle
  <2> QED
    BY <1>1, <2>1, <2>2 DEF LiffInv, LiffTypes, Loading, Liff!Awaited, Promised, Liff!InitializedIsReady,
       Liff!InitOnceStep
<1> QED BY <1>2, <1>3, <1>4

LEMMA LiffScripts ==
  ASSUME Liff!LiffAssumption, LiffInv, NEW s \in Scripts,
         Liff!ScriptRuns(s) \/ Liff!ScriptFails(s) \/ Liff!ScriptTimeout(s)
  PROVE  LiffInv' /\ Liff!InitOnceStep
<1> USE DEF LiffInv, LiffTypes, Loading, Liff!Awaited, Promised, Liff!InitializedIsReady, Liff!InitOnceStep
<1>1. CASE Liff!ScriptRuns(s)
  <2>1. script' = [script EXCEPT ![s] = "ran"] /\ liff' = s /\ UNCHANGED initialized BY <1>1 DEF Liff!ScriptRuns
  <2>2. CASE Liff!Awaited(s)
    <3>1. Liff!UseSdk(waiting, s) BY <1>1, <2>2 DEF Liff!ScriptRuns
    <3>2. \A t \in Scripts : script'[t] # "loading" BY <2>1, <2>2
    <3> QED BY <2>1, <3>1, <3>2, UsesOneSdk
  <2>3. CASE ~Liff!Awaited(s) BY <1>1, <2>1, <2>3 DEF Liff!ScriptRuns
  <2> QED BY <2>2, <2>3
<1>2. CASE Liff!ScriptFails(s) BY <1>2 DEF Liff!ScriptFails, Liff!Settle, Liff!Idle
<1>3. CASE Liff!ScriptTimeout(s) BY <1>3 DEF Liff!ScriptTimeout, Liff!Settle, Liff!Idle
<1> QED BY <1>1, <1>2, <1>3

LEMMA LiffInits ==
  ASSUME Liff!LiffAssumption, LiffInv, NEW s \in Scripts,
         Liff!InitSucceeds(s) \/ Liff!InitFails(s) \/ Liff!InitTimeout
  PROVE  LiffInv' /\ Liff!InitOnceStep
<1> USE DEF Liff!LiffAssumption, LiffInv, LiffTypes, Loading, Liff!Awaited, Promised, Liff!InitializedIsReady, Liff!InitOnceStep
<1>1. CASE Liff!InitSucceeds(s) BY <1>1 DEF Liff!InitSucceeds, Liff!Captured, Liff!Ask, Liff!Settle, Liff!Idle
<1>2. CASE Liff!InitFails(s)
  <2>1. pending = s /\ initialized # s /\ (initialized # None => pending = initialized)
    BY <1>2 DEF Liff!InitFails
  <2> QED BY <1>2, <2>1 DEF Liff!InitFails, Liff!Forgotten, Liff!Settle, Liff!Idle
<1>3. CASE Liff!InitTimeout BY <1>3 DEF Liff!InitTimeout, Liff!GiveUp, Liff!Settle, Liff!Idle
<1> QED BY <1>1, <1>2, <1>3

LEMMA LiffStep == ASSUME Liff!LiffAssumption, LiffInv, [Liff!Next]_liffVars PROVE LiffInv' /\ Liff!InitOnceStep
<1>1. CASE \E c \in Callers : Liff!InitLine(c) BY <1>1, LiffCalls
<1>2. CASE \E s \in Scripts : Liff!ScriptRuns(s) \/ Liff!ScriptFails(s) \/ Liff!ScriptTimeout(s) BY <1>2, LiffScripts
<1>3. CASE \E s \in Scripts : Liff!InitSucceeds(s) \/ Liff!InitFails(s) BY <1>3, LiffInits
<1>4. CASE Liff!InitTimeout
  <2>1. attempt.sdk \in Scripts BY <1>4 DEF Liff!InitTimeout, Liff!GiveUp, LiffInv, LiffTypes
  <2> QED BY <1>4, <2>1, LiffInits
<1>5. CASE UNCHANGED liffVars
  BY <1>5 DEF liffVars, LiffInv, LiffTypes, Loading, Liff!Awaited, Promised, Liff!InitializedIsReady,
     Liff!InitOnceStep
<1> QED BY <1>1, <1>2, <1>3, <1>4, <1>5 DEF Liff!Next

\* A set whose members are all the same has one at most.
LEMMA OneAtMost == ASSUME NEW L, \A s, t \in L : s = t PROVE Cardinality(L) <= 1
<1>1. CASE L = {} BY <1>1, FS_EmptySet
<1>2. CASE L # {}
  <2>1. PICK s \in L : L = {s} BY <1>2
  <2>2. Cardinality({s}) = 1 BY FS_Singleton
  <2> QED BY <2>1, <2>2
<1> QED BY <1>1, <1>2

LEMMA LiffPromises == LiffInv => Liff!OneScript /\ Liff!OneInitialization /\ Liff!InitializedIsReady
<1> SUFFICES ASSUME LiffInv PROVE Liff!OneScript /\ Liff!OneInitialization BY DEF LiffInv
<1> DEFINE L == {s \in Scripts : script[s] = "loading"}
           I == {s \in Scripts : sdk[s] = "initializing"}
<1>1. \A s, t \in L : s = t BY DEF LiffInv, Loading, Liff!Awaited
<1>2. \A s, t \in I : s = t BY DEF LiffInv, Promised
<1> HIDE DEF L, I
<1>3. Cardinality(L) <= 1 /\ Cardinality(I) <= 1 BY <1>1, <1>2, OneAtMost
<1> QED BY <1>3, LiffCardinality DEF Liff!OneScript, Liff!OneInitialization, L, I

\* What else the connection keeps: callers wait exactly while an attempt is under way, and the attempt waits for
\* a script that loads, or for the promise of an SDK that is initializing.
LiffKept ==
  /\ told \in [Callers -> Liff!Answers \cup {"nothing"}]
  /\ (waiting = {}) <=> (attempt = Liff!Idle)
  /\ attempt.stage = "load" => attempt.sdk \in Scripts /\ script[attempt.sdk] = "loading"
  /\ attempt.stage = "init" => pending # None /\ sdk[pending] = "initializing"
  /\ pending # None => sdk[pending] \in {"initializing", "ready"}

LEMMA LiffKeptInit == ASSUME Liff!LiffAssumption PROVE Liff!Init => LiffKept
BY DEF Liff!Init, Liff!Idle, LiffKept

LEMMA SettleKept ==
  ASSUME NEW who, NEW answer \in Liff!Answers, told \in [Callers -> Liff!Answers \cup {"nothing"}],
         Liff!Settle(who, answer)
  PROVE  /\ told' \in [Callers -> Liff!Answers \cup {"nothing"}] /\ waiting' = {} /\ attempt' = Liff!Idle
         /\ attempt'.stage = "none"
BY DEF Liff!Settle, Liff!Idle

LEMMA UseSdkKept ==
  ASSUME Liff!LiffAssumption, LiffInv, LiffKept, NEW s \in Scripts, NEW who, who # {}, Liff!UseSdk(who, s)
  PROVE  /\ told' \in [Callers -> Liff!Answers \cup {"nothing"}]
         /\ (waiting' = {}) <=> (attempt' = Liff!Idle)
         /\ attempt'.stage # "load"
         /\ attempt'.stage = "init" => pending' # None /\ sdk'[pending'] = "initializing"
         /\ pending' # None => sdk'[pending'] \in {"initializing", "ready"}
<1>1. CASE initialized = s \/ (pending # None /\ sdk[pending] = "ready")
  <2>1. Liff!Ask(who, s) /\ UNCHANGED <<pending, sdk, calls>> BY <1>1 DEF Liff!UseSdk
  <2>2. PICK answer \in Liff!Answers : Liff!Settle(who, answer) BY <2>1 DEF Liff!Ask
  <2> QED BY <2>1, <2>2, SettleKept DEF LiffKept
<1>2. CASE ~(initialized = s \/ (pending # None /\ sdk[pending] = "ready"))
  <2>1. attempt' = [stage |-> "init", sdk |-> s] /\ waiting' = who /\ told' = told
    BY <1>2 DEF Liff!UseSdk, Liff!WaitFor
  <2>2. CASE pending # None BY <1>2, <2>1, <2>2 DEF Liff!UseSdk, LiffKept, Liff!Idle
  <2>3. CASE pending = None
    <3>1. pending' = s /\ sdk' = [sdk EXCEPT ![s] = "initializing"] BY <1>2, <2>3 DEF Liff!UseSdk
    <3>2. s # None /\ sdk'[s] = "initializing" BY <3>1 DEF Liff!LiffAssumption, LiffInv, LiffTypes
    <3> QED BY <2>1, <3>1, <3>2 DEF LiffKept, Liff!Idle
  <2> QED BY <2>2, <2>3
<1> QED BY <1>1, <1>2

LEMMA LiffKeptStep == ASSUME Liff!LiffAssumption, LiffInv, LiffKept, [Liff!Next]_liffVars PROVE LiffKept'
<1>1. ASSUME NEW c \in Callers, Liff!InitLine(c) PROVE LiffKept'
  <2>1. CASE attempt # Liff!Idle
    <3>1. waiting' = waiting \cup {c} /\ UNCHANGED <<script, attempt, told, pending, sdk>>
      BY <1>1, <2>1 DEF Liff!InitLine
    <3> QED BY <2>1, <3>1 DEF LiffKept
  <2>2. CASE attempt = Liff!Idle /\ liff # None
    <3>1. Liff!UseSdk({c}, liff) /\ liff \in Scripts BY <1>1, <2>2 DEF Liff!InitLine, Liff!Connect, LiffInv, LiffTypes
    <3>2. {c} # {} OBVIOUS
    <3> QED BY <3>1, <3>2, UseSdkKept DEF LiffKept
  <2>3. CASE attempt = Liff!Idle /\ liff = None
    <3>1. PICK s \in Scripts : /\ script' = [script EXCEPT ![s] = "loading"] /\ waiting' = {c}
                               /\ attempt' = [stage |-> "load", sdk |-> s]
                               /\ UNCHANGED <<told, pending, sdk>>
      BY <1>1, <2>3 DEF Liff!InitLine, Liff!Connect, Liff!WaitFor
    <3>2. script'[s] = "loading" BY <3>1 DEF LiffInv, LiffTypes
    <3> QED BY <3>1, <3>2 DEF LiffKept, Liff!Idle
  <2> QED BY <2>1, <2>2, <2>3
<1>2. ASSUME NEW s \in Scripts, Liff!ScriptRuns(s) PROVE LiffKept'
  <2>1. script' = [script EXCEPT ![s] = "ran"] BY <1>2 DEF Liff!ScriptRuns
  <2>2. CASE Liff!Awaited(s)
    <3>1. Liff!UseSdk(waiting, s) /\ waiting # {}
      BY <1>2, <2>2 DEF Liff!ScriptRuns, LiffKept, Liff!Awaited, Liff!Idle
    <3> QED BY <3>1, UseSdkKept DEF LiffKept
  <2>3. CASE ~Liff!Awaited(s)
    <3>1. UNCHANGED <<attempt, waiting, told, pending, sdk>> BY <1>2, <2>3 DEF Liff!ScriptRuns
    <3>2. attempt.stage = "load" => attempt.sdk # s BY <2>3 DEF Liff!Awaited, LiffInv, LiffTypes
    <3> QED BY <2>1, <3>1, <3>2 DEF LiffKept
  <2> QED BY <2>2, <2>3
<1>3. ASSUME NEW s \in Scripts, Liff!ScriptFails(s) \/ Liff!ScriptTimeout(s) PROVE LiffKept'
  <2>1. (script' = [script EXCEPT ![s] = "failed"] \/ script' = [script EXCEPT ![s] = "stray"])
        /\ UNCHANGED <<pending, sdk>>
    BY <1>3 DEF Liff!ScriptFails, Liff!ScriptTimeout
  <2>2. CASE Liff!Awaited(s)
    <3>1. Liff!Settle(waiting, "error") /\ "error" \in Liff!Answers
      BY <1>3, <2>2 DEF Liff!ScriptFails, Liff!ScriptTimeout, Liff!Answers
    <3> QED BY <2>1, <3>1, SettleKept DEF LiffKept
  <2>3. CASE ~Liff!Awaited(s)
    <3>1. UNCHANGED <<attempt, waiting, told>> BY <1>3, <2>3 DEF Liff!ScriptFails, Liff!ScriptTimeout
    <3>2. attempt.stage = "load" => attempt.sdk # s BY <2>3 DEF Liff!Awaited, LiffInv, LiffTypes
    <3> QED BY <2>1, <3>1, <3>2 DEF LiffKept, LiffInv, LiffTypes
  <2> QED BY <2>2, <2>3
<1>4. ASSUME NEW s \in Scripts, Liff!InitSucceeds(s) PROVE LiffKept'
  <2>1. sdk' = [sdk EXCEPT ![s] = "ready"] /\ UNCHANGED <<script, pending>> /\ pending = s
    BY <1>4 DEF Liff!InitSucceeds, LiffInv, Promised
  <2>2. CASE attempt.stage = "init"
    <3>1. PICK answer \in Liff!Answers : Liff!Settle(waiting, answer)
      BY <1>4, <2>2 DEF Liff!InitSucceeds, Liff!Ask
    <3> QED BY <2>1, <3>1, SettleKept DEF LiffKept, LiffInv, LiffTypes
  <2>3. CASE attempt.stage # "init"
    BY <1>4, <2>1, <2>3 DEF Liff!InitSucceeds, LiffKept, LiffInv, LiffTypes
  <2> QED BY <2>2, <2>3
<1>5. ASSUME NEW s \in Scripts, Liff!InitFails(s) PROVE LiffKept'
  <2>1. pending' = None /\ UNCHANGED script
    BY <1>5 DEF Liff!InitFails, Liff!Forgotten, LiffInv, Promised
  <2>2. CASE attempt.stage = "init"
    <3>1. Liff!Settle(waiting, "error") /\ "error" \in Liff!Answers BY <1>5, <2>2 DEF Liff!InitFails, Liff!Answers
    <3> QED BY <2>1, <3>1, SettleKept DEF LiffKept
  <2>3. CASE attempt.stage # "init" BY <1>5, <2>1, <2>3 DEF Liff!InitFails, LiffKept
  <2> QED BY <2>2, <2>3
<1>6. CASE Liff!InitTimeout
  <2>1. Liff!Settle(waiting, "error") /\ "error" \in Liff!Answers /\ UNCHANGED <<script, pending, sdk>>
    BY <1>6 DEF Liff!InitTimeout, Liff!GiveUp, Liff!Answers
  <2> QED BY <2>1, SettleKept DEF LiffKept
<1>7. CASE UNCHANGED liffVars BY <1>7 DEF liffVars, LiffKept
<1> QED BY <1>1, <1>2, <1>3, <1>4, <1>5, <1>6, <1>7 DEF Liff!Next

LEMMA LiffTyped == ASSUME LiffInv, LiffKept PROVE Liff!LiffTypeOK
BY DEF LiffInv, LiffTypes, LiffKept, Liff!LiffTypeOK

---------------------------------------------------------------------------
(* The pages together: each behaviour is about one of them.                *)

PagesInv ==
  /\ which \in Parts
  /\ FormInv
  /\ which = "submit" => Draft!FormInv
  /\ which = "session" => SessionInv
  /\ which = "workspace" => WorkspaceInv
  /\ which = "review" => ReviewInv
  /\ which = "tasks" => TaskInv
  /\ which = "tracking" => TrackInv
  /\ which = "reader" => ReaderInv
  /\ which = "liff" => LiffInv

\* A step is one of the page the behaviour is about, and leaves the others alone.
LEMMA StepOfAPart ==
  ASSUME [PagesNext]_allVars
  PROVE  /\ which' = which /\ [Next]_vars
         /\ which = "submit" => [Submitting!Next]_draftVars
         /\ which = "session" => [Browser!Next]_sessionVars
         /\ which = "workspace" => [Workspace!Next]_workspaceVars
         /\ which = "review" => [Review!Next]_reviewVars
         /\ which = "tasks" => [Panels!Next]_taskVars
         /\ which = "tracking" => [Tracking!Next]_trackingVars
         /\ which = "reader" => [Reader!Next]_readerVars
         /\ which = "liff" => [Liff!Next]_liffVars
BY DEF PagesNext, Rest, allVars

\* Whatever a page meets, what it keeps and what it waits for stay sound.
THEOREM PagesInvariant == PagesSpec => []PagesInv
<1>1. PagesInit => PagesInv
  BY PagesAssumption, InitInv, SubmittingInit, SessInit, SpaceInit, ReviewInit, TaskInit, TrackInit, ReaderInit,
     LiffInit DEF PagesInit, PartsInit, PagesInv
<1>2. PagesInv /\ [PagesNext]_allVars => PagesInv'
  BY PagesAssumption, StepOfAPart, NextInv, SubmittingStep, SessStep, SpaceStep, ReviewStep, TaskStep, TrackStep,
     ReaderStep, LiffStep DEF PagesInv
<1> QED BY <1>1, <1>2, PTL DEF PagesSpec

\* What else the pages keep.
PagesKept ==
  /\ which = "session" => SessionKept /\ SessionLater
  /\ which = "workspace" => SpaceKept
  /\ which = "review" => ReviewKept
  /\ which = "tasks" => PanelsKept
  /\ which = "tracking" => TrackKept
  /\ which = "reader" => ReaderKept
  /\ which = "liff" => LiffKept

LEMMA PagesKeep == PagesSpec => []PagesKept
<1>1. PagesInit => PagesKept
  BY PagesAssumption, SessionKeptInit, SessionLaterInit, SpaceKeptInit, ReviewKeptInit, PanelsKeptInit,
     TrackKeptInit, ReaderKeptInit, LiffKeptInit DEF PagesInit, PartsInit, PagesKept
<1>2. PagesInv /\ PagesKept /\ [PagesNext]_allVars => PagesKept'
  BY PagesAssumption, StepOfAPart, SessionKeptStep, SessionLaterStep, SpaceKeptStep, ReviewKeptStep, PanelsKeptStep,
     TrackKeptStep, ReaderKeptStep, LiffKeptStep DEF PagesInv, PagesKept
<1> QED BY <1>1, <1>2, PagesInvariant, PTL DEF PagesSpec

\* Whatever a page meets, what it keeps fits together: the case beside the controls it allows, the session
\* beside its token, a disabled work area beside the one operation it waits for, a lock beside the work that
\* holds it, and callers beside an attempt that will answer them (ApplicationForm.tsx, CitizenApp.tsx,
\* AdminApp.tsx, CaseTracking.tsx, IdentityOCR.tsx, line.ts).
THEOREM PagesStayTyped == PagesSpec => []PagesTypeOK
<1>1. PagesInv /\ PagesKept => PagesTypeOK
  BY PagesAssumption, FormTyped, SubmittingTyped, SessionTyped, SpaceTyped, ReviewTyped, PanelsTyped, TrackTyped,
     ReaderTyped, LiffTyped DEF PagesInv, PagesKept, PagesTypeOK
<1> QED BY <1>1, PagesInvariant, PagesKeep, PTL

\* Whatever two tabs, late answers and repeated clicks do, a page sends what was confirmed on it, and
\* what is sent again is known for the same (ApplicationForm.tsx, AdminApp.tsx, CaseTracking.tsx,
\* IdentityOCR.tsx).
THEOREM PagesSendWhatWasConfirmed == PagesSpec => []SentAsConfirmed
<1>1. PagesInv => SentAsConfirmed
  BY PagesAssumption, SubmittingPromises, ReviewPromises, TaskPromises, TrackPromises, ReaderPromises
     DEF PagesInv, SentAsConfirmed
<1> QED BY <1>1, PagesInvariant, PTL

\* Whichever answer comes late, a page shows what it is about: the chosen case and filter, the picture that is
\* there, an SDK that is ready; the applicant's acts as the account it shows, and the staff's shows nothing that
\* was answered before the login it was mounted with (ApplicationForm.tsx, CitizenApp.tsx, AdminApp.tsx,
\* IdentityOCR.tsx, line.ts).
THEOREM PagesShowTheCurrent == PagesSpec => []ShownIsCurrent
<1>1. WorkspaceInv => Workspace!BundleIsSelected /\ Workspace!ItemsMatchFilter BY DEF WorkspaceInv
<1>2. PagesInv /\ PagesKept => ShownIsCurrent
  BY <1>1, SessionPromises, FormPromises, SubmittingPromises, ReaderPromises, LiffPromises
     DEF PagesInv, PagesKept, ShownIsCurrent
<1> QED BY <1>2, PagesInvariant, PagesKeep, PTL

\* Nothing is replaced but as it was shown: a review item, a task; what is reported created was made;
\* and init is called once on an SDK (AdminApp.tsx, line.ts).
THEOREM PagesActOnWhatWasSeen == PagesSpec => ActedAsSeen
<1>1. PagesInv /\ [PagesNext]_allVars =>
        [ /\ which = "review" => Review!NothingOverwrittenStep
          /\ which = "tasks" => Panels!EveryReportIsATaskStep /\ Panels!NothingActedOnUnseenStep
          /\ which = "liff" => Liff!InitOnceStep ]_allVars
  BY PagesAssumption, StepOfAPart, ReviewStep, TaskStep, LiffStep DEF PagesInv, TaskSteps
<1> QED BY <1>1, PagesInvariant, PTL DEF PagesSpec, ActedAsSeen

\* Beside the other pages the form does what it does alone: what is stored is what was confirmed, and
\* a page leaves for the receipt of its own submission (ApplicationForm.tsx).
THEOREM FormHolds == PagesSpec => []SubmittedAsConfirmed /\ ReceiptIsOwn
<1>1. PagesInit => Init BY DEF PagesInit, PartsInit
<1>2. [PagesNext]_allVars => [Next]_vars BY StepOfAPart
<1>3. PagesSpec => Spec BY <1>1, <1>2, PTL DEF PagesSpec, Spec
<1> QED BY <1>3, SubmissionsAreConfirmed, ReceiptsAreOwn, PTL
=============================================================================

------------------------------- MODULE Logins -------------------------------
(***************************************************************************)
(* What guards a login: the TOTP steps of the staff (StaffMfa), one-time   *)
(* codes by mail, the rate limits, binding LINE, and the inbox of LINE's   *)
(* events.  None of them decides by rows another one writes, so they stand *)
(* side by side: the choice of `which` at the start says which of them a   *)
(* behaviour is about.                                                     *)
(***************************************************************************)
EXTENDS StaffMfa

CONSTANTS
  MaxCodes,                                                     \* codes by mail
  Identities, Window, Allowed, MaxTime,                         \* rate limits
  Accounts, Subjects, Messages, MaxLinks, MaxCalls,             \* LINE
  Senders, Events, Kind, At, Subject, Workers, Limit, MaxBinds  \* the inbox

VARIABLES
  which,
  code, open, mailRequest, mailLock, history,
  now, row, counting, counterLock, passed,
  links, lineChallenge, bind, lineLock, message, calls,
  inbox, link, pass, linkLock

mailVars == <<code, open, mailRequest, mailLock, history>>
limitVars == <<now, row, counting, counterLock, passed>>
lineVars == <<links, lineChallenge, bind, lineLock, message, calls>>
inboxVars == <<inbox, link, pass, linkLock>>

Mail == INSTANCE EmailCodes WITH request <- mailRequest, lock <- mailLock
Limits == INSTANCE RateLimits WITH Limit <- Allowed, request <- counting, lock <- counterLock
Line == INSTANCE LineBinding WITH challenge <- lineChallenge, request <- bind, lock <- lineLock
Inbox == INSTANCE LineInbox WITH Subjects <- Senders, lock <- linkLock

ASSUME LoginsAssumption ==
  Mail!CodesAssumption /\ Limits!LimitsAssumption /\ Line!BindingAssumption /\ Inbox!InboxAssumption

\* The rows of the parts that a behaviour is not about do not exist.
LoginsInit ==
  /\ which \in {"mfa", "mail", "limits", "line", "inbox"}
  /\ Init
  /\ IF which = "mail" THEN Mail!Init
     ELSE code = None /\ open = None /\ mailRequest = None /\ mailLock = None /\ history = None
  /\ IF which = "limits" THEN Limits!Init
     ELSE now = None /\ row = None /\ counting = None /\ counterLock = None /\ passed = None
  /\ IF which = "line" THEN Line!Init
     ELSE links = None /\ lineChallenge = None /\ bind = None /\ lineLock = None /\ message = None /\
          calls = None
  /\ IF which = "inbox" THEN Inbox!Init
     ELSE inbox = None /\ link = None /\ pass = None /\ linkLock = None

Rest(p) ==
  /\ UNCHANGED which
  /\ IF p = "mfa" THEN TRUE ELSE UNCHANGED vars
  /\ IF p = "mail" THEN TRUE ELSE UNCHANGED mailVars
  /\ IF p = "limits" THEN TRUE ELSE UNCHANGED limitVars
  /\ IF p = "line" THEN TRUE ELSE UNCHANGED lineVars
  /\ IF p = "inbox" THEN TRUE ELSE UNCHANGED inboxVars

LoginsNext ==
  \/ which = "mfa" /\ Next /\ Rest("mfa")
  \/ which = "mail" /\ Mail!Next /\ Rest("mail")
  \/ which = "limits" /\ Limits!Next /\ Rest("limits")
  \/ which = "line" /\ Line!Next /\ Rest("line")
  \/ which = "inbox" /\ Inbox!Next /\ Rest("inbox")

allVars == <<which, vars, mailVars, limitVars, lineVars, inboxVars>>
LoginsSpec == LoginsInit /\ [][LoginsNext]_allVars

---------------------------------------------------------------------------
(* The properties of the parts, which state and explain them.              *)

\* The rows of every part are as its code leaves them (each part says how).
LoginsTypeOK ==
  /\ MfaTypeOK
  /\ which = "mail" => Mail!CodesTypeOK
  /\ which = "limits" => Limits!LimitsTypeOK
  /\ which = "line" => Line!BindingTypeOK
  /\ which = "inbox" => Inbox!InboxTypeOK

\* A code sent by mail lets in once, and only the newest; no more guesses are made at it, and no
\* more requests pass a counter in one window, than is permitted, however many come at once; two
\* mails to one identity are a whole window apart; and those who count never wait for each other
\* in a circle (auth.py, auth_limits.py).
TriesAreCounted ==
  /\ which = "mail" => Mail!OnlyTheNewest /\ Mail!GuessesAreCounted /\ Mail!CodeLetsInOnce
  /\ which = "limits" => Limits!PassesWithinLimit /\ Limits!ResendsAreSpaced /\ Limits!NoCircleOfLimits

\* A challenge binds one LINE account once, a message goes to the link it was queued under or to
\* nobody, and a link shows the latest of the events counted for it (auth.py, worker.py).
LinksAreTrue ==
  /\ which = "line" => Line!NeverToAnother /\ Line!BindsOnce
  /\ which = "inbox" => Inbox!ObservedIsLatest

\* An event that was settled is never counted again, redelivered as it may be (line_webhook,
\* process_inbox).
CountedOnce == [][which = "inbox" => Inbox!CountedOnceStep]_inboxVars
=============================================================================

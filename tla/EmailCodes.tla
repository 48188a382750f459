----------------------------- MODULE EmailCodes -----------------------------
(***************************************************************************)
(* One-time codes sent to one address for one purpose (auth.py): asking    *)
(* for a code, which replaces the one before, and handing a code in.       *)
(*                                                                         *)
(* The rate limit is committed first; the earlier codes are replaced and   *)
(* the new row is written in a second transaction; the mail goes out after *)
(* both.  A try locks its row, compares, and commits.  Two requests that   *)
(* ask at once see nothing of each other: only the limit keeps them apart. *)
(***************************************************************************)
EXTENDS Naturals, FiniteSets

CONSTANTS
  MaxCodes,     \* bound: codes ever asked for
  Requests, None,
  MaxAttempts   \* otp_max_attempts

CodesAssumption == MaxCodes \in Nat /\ MaxAttempts \in Nat \ {0} /\ None \notin Requests

Codes == 1..MaxCodes

VARIABLES
  code,     \* code[c]: EmailChallenge, numbered in the order of commit
  open,     \* the limit of one mail per otp_resend_seconds lets a request pass
  request,  \* request[r]: a request under way
  lock,     \* lock[c]: who holds the row
  history   \* history[c]: wrong codes compared, and logins by it

vars == <<code, open, request, lock, history>>

NoCode == [made |-> FALSE, consumed |-> FALSE, attempts |-> 0, expired |-> FALSE, told |-> FALSE, version |-> 1]
Idle == [pc |-> "idle", code |-> 0, version |-> 0, replaced |-> {}]

Init ==
  /\ code = [c \in Codes |-> NoCode]
  /\ open = TRUE
  /\ request = [r \in Requests |-> Idle]
  /\ lock = [c \in Codes |-> None]
  /\ history = [c \in Codes |-> [wrong |-> 0, logins |-> 0]]

Made == {c \in Codes : code[c].made}
Unconsumed == {c \in Made : ~code[c].consumed}
Consumed(c) == [code EXCEPT ![c] = [code[c] EXCEPT !.consumed = TRUE, !.version = code[c].version + 1]]
Unlocked(r) == [c \in Codes |-> IF lock[c] = r THEN None ELSE lock[c]]

---------------------------------------------------------------------------
(* POST /auth/email/challenges, /account/email/change-challenges           *)

\* Slip: two mails may be asked for within the window.
PassAnyway(r) ==
  /\ request[r].pc = "idle"
  /\ request' = [request EXCEPT ![r] = [Idle EXCEPT !.pc = "replace"]]
  /\ UNCHANGED <<code, open, lock, history>>

\* _throttle, committed at once; a request it turns away leaves nothing here.
Pass(r) ==
  /\ request[r].pc = "idle" /\ open
  /\ open' = FALSE
  /\ request' = [request EXCEPT ![r] = [Idle EXCEPT !.pc = "replace"]]
  /\ UNCHANGED <<code, lock, history>>

\* Assumed: a request that passed writes its row before the window ends.
WindowEnds ==
  /\ ~open /\ \A r \in Requests : request[r].pc \notin {"replace", "insert"}
  /\ open' = TRUE
  /\ UNCHANGED <<code, request, lock, history>>

\* The UPDATE over what is committed waits for tries under way.
Replace(r) ==
  /\ request[r].pc = "replace" /\ \A c \in Unconsumed : lock[c] = None
  /\ lock' = [c \in Codes |-> IF c \in Unconsumed THEN r ELSE lock[c]]
  /\ request' = [request EXCEPT ![r] = [Idle EXCEPT !.pc = "insert", !.replaced = Unconsumed]]
  /\ UNCHANGED <<code, open, history>>

\* The bulk update leaves the version column alone.
Insert(r) ==
  /\ request[r].pc = "insert" /\ Cardinality(Made) < MaxCodes
  /\ LET new == Cardinality(Made) + 1 IN
     /\ code' = [c \in Codes |-> IF c \in request[r].replaced THEN [code[c] EXCEPT !.consumed = TRUE]
                                 ELSE IF c = new THEN [code[c] EXCEPT !.made = TRUE] ELSE code[c]]
     /\ request' = [request EXCEPT ![r] = [Idle EXCEPT !.pc = "mail", !.code = new]]
  /\ lock' = Unlocked(r)
  /\ UNCHANGED <<open, history>>

\* Only the answer of a mail that went out tells the number of the code.
MailSent(r) ==
  /\ request[r].pc = "mail"
  /\ code' = [code EXCEPT ![request[r].code].told = TRUE]
  /\ request' = [request EXCEPT ![r] = Idle]
  /\ UNCHANGED <<open, lock, history>>

MailFails(r) ==
  /\ request[r].pc = "mail" /\ lock[request[r].code] = None
  /\ code' = Consumed(request[r].code)
  /\ request' = [request EXCEPT ![r] = Idle]
  /\ UNCHANGED <<open, lock, history>>

---------------------------------------------------------------------------
(* _consume_email and what its callers do with it.                         *)

Expires(c) ==
  /\ c \in Made /\ ~code[c].expired
  /\ code' = [code EXCEPT ![c].expired = TRUE]
  /\ UNCHANGED <<open, request, lock, history>>

\* What is consumed is refused and changes nothing; what is expired is consumed.
Try(r, c) ==
  /\ request[r].pc = "idle" /\ c \in Unconsumed /\ code[c].told /\ lock[c] = None
  /\ IF code[c].expired
     THEN /\ code' = Consumed(c)
          /\ UNCHANGED <<request, lock>>
     ELSE /\ code[c].attempts < MaxAttempts
          /\ request' = [request EXCEPT ![r] = [Idle EXCEPT !.pc = "compare", !.code = c, !.version = code[c].version]]
          /\ lock' = [lock EXCEPT ![c] = r]
          /\ UNCHANGED code
  /\ UNCHANGED <<open, history>>

\* A row that was written since it was read fails the request.
Current(r) == code[request[r].code].version = request[r].version

\* Slip: the last permitted try is not counted.
WrongBelowLimit(r) ==
  LET c == request[r].code IN
  /\ request[r].pc = "compare"
  /\ code' = [code EXCEPT ![c].attempts = IF @ + 1 < MaxAttempts THEN @ + 1 ELSE @, ![c].version = @ + 1]
  /\ history' = [history EXCEPT ![c].wrong = @ + 1]
  /\ request' = [request EXCEPT ![r] = Idle] /\ lock' = Unlocked(r)
  /\ UNCHANGED open

Wrong(r) ==
  LET c == request[r].code IN
  /\ request[r].pc = "compare"
  /\ code' = IF Current(r)
             THEN [code EXCEPT ![c] = [code[c] EXCEPT
                     !.attempts = code[c].attempts + 1, !.version = code[c].version + 1,
                     !.consumed = code[c].consumed \/ code[c].attempts + 1 >= MaxAttempts]]
             ELSE code
  /\ history' = [history EXCEPT ![c].wrong = @ + 1]
  /\ request' = [request EXCEPT ![r] = Idle] /\ lock' = Unlocked(r)
  /\ UNCHANGED open

\* Slip: the code is not marked as used.
RightAndKept(r) ==
  /\ request[r].pc = "compare"
  /\ history' = [history EXCEPT ![request[r].code].logins = @ + 1]
  /\ request' = [request EXCEPT ![r] = Idle] /\ lock' = Unlocked(r)
  /\ UNCHANGED <<code, open>>

\* Login, re-authentication or change of address in the transaction of the try.
Right(r) ==
  LET c == request[r].code IN
  /\ request[r].pc = "compare" /\ Current(r)
  /\ code' = Consumed(c)
  /\ history' = [history EXCEPT ![c].logins = @ + 1]
  /\ request' = [request EXCEPT ![r] = Idle] /\ lock' = Unlocked(r)
  /\ UNCHANGED open

\* The process dies, or the right code is refused for its session or account: rolled back.
RollBack(r) ==
  /\ request[r].pc # "idle"
  /\ request' = [request EXCEPT ![r] = Idle] /\ lock' = Unlocked(r)
  /\ UNCHANGED <<code, open, history>>

Next ==
  \/ WindowEnds
  \/ \E c \in Codes : Expires(c)
  \/ \E r \in Requests :
       \/ Pass(r) \/ Replace(r) \/ Insert(r) \/ MailSent(r) \/ MailFails(r)
       \/ \E c \in Codes : Try(r, c)
       \/ Wrong(r) \/ Right(r) \/ RollBack(r)

Spec == Init /\ [][Next]_vars

---------------------------------------------------------------------------
(* Properties.                                                             *)

\* Rows are within their types; only a request that replaces or compares holds a row.
CodesTypeOK ==
  /\ \A c \in Codes : code[c].attempts \in 0..MaxAttempts /\ (code[c].told => code[c].made)
  /\ \A c \in Codes : lock[c] # None => request[lock[c]].pc \in {"insert", "compare"}
  /\ \A r \in Requests : request[r].pc = "compare" => lock[request[r].code] = r

\* A new code ends the one before (auth_notes.md:27): whatever requests, tries and
\* failing mails do at once, no code but the newest can be handed in.
OnlyTheNewest == \A c \in Unconsumed : c = Cardinality(Made)

\* No code is guessed at more than MaxAttempts times, also by tries sent at once.
GuessesAreCounted == \A c \in Codes : history[c].wrong <= MaxAttempts

\* A code lets in once, and after its last permitted guess not at all.
CodeLetsInOnce ==
  \A c \in Codes : history[c].logins <= 1 /\ (history[c].wrong = MaxAttempts => code[c].consumed)
=============================================================================

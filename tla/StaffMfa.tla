------------------------------ MODULE StaffMfa ------------------------------
(***************************************************************************)
(* The second factor of a staff account (auth.py, auth_crypto.py): each    *)
(* password login makes a challenge; a code of the authenticator belongs   *)
(* to a step of thirty seconds, is taken one step early or late, and never *)
(* again once a step as late as its own has been used.                     *)
(*                                                                         *)
(* A try locks its challenge, then the account, and commits; logins with   *)
(* different challenges meet at the account.  Codes of different steps are *)
(* taken to differ.                                                        *)
(***************************************************************************)
EXTENDS Naturals, FiniteSets

CONSTANTS
  Challenges,   \* challenges that may be made
  Requests, None,
  MaxStep,      \* bound: steps of the clock
  MaxAttempts   \* five

ASSUME MfaAssumption ==
  /\ MaxStep \in Nat /\ MaxAttempts \in Nat
  /\ None \notin Requests /\ "account" \notin Challenges

Wrong == MaxStep + 2
TotpCodes == 0..MaxStep + 1   \* the code of each step, and of the step after the last
Submitted == TotpCodes \cup {Wrong}

VARIABLES
  step,       \* the current step
  last,       \* account: last_totp_step + 1, or 0
  active,     \* account: status
  challenge,  \* challenge[c]: MfaChallenge
  request,    \* request[r]: a try under way
  lock,       \* who holds the challenges and the account
  logins      \* logins so far: challenge and step

vars == <<step, last, active, challenge, request, lock, logins>>

Idle == [pc |-> "idle", challenge |-> None, code |-> 0, seen |-> 0]

Init ==
  /\ step = 0 /\ last = 0 /\ active = TRUE
  /\ challenge = [c \in Challenges |-> [made |-> FALSE, attempts |-> 0, consumed |-> FALSE, expired |-> FALSE, tries |-> 0]]
  /\ request = [r \in Requests |-> Idle]
  /\ lock = [x \in Challenges \cup {"account"} |-> None]
  /\ logins = {}

Unlocked(r) == [x \in DOMAIN lock |-> IF lock[x] = r THEN None ELSE lock[x]]

Tick == step < MaxStep /\ step' = step + 1 /\ UNCHANGED <<last, active, challenge, request, lock, logins>>

ChallengeExpires(c) ==
  /\ challenge[c].made /\ ~challenge[c].expired
  /\ challenge' = [challenge EXCEPT ![c].expired = TRUE]
  /\ UNCHANGED <<step, last, active, request, lock, logins>>

\* change_status by an administrator
Disable ==
  /\ active /\ lock["account"] = None
  /\ active' = FALSE
  /\ UNCHANGED <<step, last, challenge, request, lock, logins>>

\* POST /auth/staff/session with the right password
Password(c) ==
  /\ active /\ ~challenge[c].made
  /\ challenge' = [challenge EXCEPT ![c].made = TRUE]
  /\ UNCHANGED <<step, last, active, request, lock, logins>>

---------------------------------------------------------------------------
(* POST /auth/staff/mfa                                                    *)

Refused(c) == challenge[c].consumed \/ challenge[c].expired \/ challenge[c].attempts >= MaxAttempts

\* Slip: the challenge is read without FOR UPDATE.
ReadChallenge(r, c, k) ==
  /\ request[r].pc = "idle" /\ challenge[c].made /\ ~Refused(c)
  /\ request' = [request EXCEPT ![r] = [pc |-> "account", challenge |-> c, code |-> k, seen |-> 0]]
  /\ UNCHANGED <<step, last, active, challenge, lock, logins>>

\* A refusal changes nothing.
LockChallenge(r, c, k) ==
  /\ request[r].pc = "idle" /\ challenge[c].made /\ lock[c] = None /\ ~Refused(c)
  /\ request' = [request EXCEPT ![r] = [pc |-> "account", challenge |-> c, code |-> k, seen |-> 0]]
  /\ lock' = [lock EXCEPT ![c] = r]
  /\ UNCHANGED <<step, last, active, challenge, logins>>

\* Slip: the account is read without FOR UPDATE, and written without looking at its version.
ReadAccount(r) ==
  /\ request[r].pc = "account" /\ active
  /\ request' = [request EXCEPT ![r].pc = "match", ![r].seen = last]
  /\ UNCHANGED <<step, last, active, challenge, lock, logins>>

LockAccount(r) ==
  /\ request[r].pc = "account" /\ lock["account"] = None
  /\ IF active
     THEN /\ request' = [request EXCEPT ![r].pc = "match", ![r].seen = last]
          /\ lock' = [lock EXCEPT !["account"] = r]
     ELSE request' = [request EXCEPT ![r] = Idle] /\ lock' = Unlocked(r)
  /\ UNCHANGED <<step, last, active, challenge, logins>>

\* Slip: the step that was used last is taken again.
MatchesAgain(r) ==
  LET k == request[r].code IN k # Wrong /\ k <= step + 1 /\ step <= k + 1 /\ k + 1 >= request[r].seen

\* match_totp_step; the account's last step is kept one higher.
Matches(r) ==
  LET k == request[r].code IN k # Wrong /\ k <= step + 1 /\ step <= k + 1 /\ k + 1 > request[r].seen

Matched(r) ==
  /\ request[r].pc = "match" /\ Matches(r)
  /\ last' = request[r].code + 1
  /\ challenge' = [challenge EXCEPT ![request[r].challenge].consumed = TRUE]
  /\ logins' = logins \cup {[challenge |-> request[r].challenge, code |-> request[r].code, by |-> r]}
  /\ request' = [request EXCEPT ![r] = Idle] /\ lock' = Unlocked(r)
  /\ UNCHANGED <<step, active>>

\* Slip: the fifth wrong try is not the last.
UnmatchedOneMore(r) ==
  LET c == request[r].challenge IN
  /\ request[r].pc = "match" /\ ~Matches(r)
  /\ challenge' = [challenge EXCEPT ![c].attempts = IF @ + 1 < MaxAttempts THEN @ + 1 ELSE @, ![c].tries = @ + 1]
  /\ request' = [request EXCEPT ![r] = Idle] /\ lock' = Unlocked(r)
  /\ UNCHANGED <<step, last, active, logins>>

Unmatched(r) ==
  LET c == request[r].challenge IN
  /\ request[r].pc = "match" /\ ~Matches(r)
  /\ challenge' = [challenge EXCEPT ![c].attempts = @ + 1, ![c].consumed = challenge[c].attempts + 1 >= MaxAttempts,
                                    ![c].tries = @ + 1]
  /\ request' = [request EXCEPT ![r] = Idle] /\ lock' = Unlocked(r)
  /\ UNCHANGED <<step, last, active, logins>>

\* The process dies: rolled back.
Die(r) ==
  /\ request[r].pc # "idle"
  /\ request' = [request EXCEPT ![r] = Idle] /\ lock' = Unlocked(r)
  /\ UNCHANGED <<step, last, active, challenge, logins>>

Next ==
  \/ Tick \/ Disable
  \/ \E c \in Challenges : ChallengeExpires(c) \/ Password(c)
  \/ \E r \in Requests :
       \/ \E c \in Challenges, k \in Submitted : LockChallenge(r, c, k)
       \/ LockAccount(r) \/ Matched(r) \/ Unmatched(r) \/ Die(r)

Spec == Init /\ [][Next]_vars

---------------------------------------------------------------------------
(* Properties.                                                             *)

\* Rows are within their types; a try that compares holds its challenge and the account.
MfaTypeOK ==
  /\ last \in 0..MaxStep + 2
  /\ \A c \in Challenges : challenge[c].attempts \in 0..MaxAttempts
  /\ \A r \in Requests : request[r].pc \in {"account", "match"} => lock[request[r].challenge] = r
  /\ \A r \in Requests : request[r].pc = "match" => lock["account"] = r

\* A step that logged in is not used again, by no challenge and no try sent at the
\* same moment ("a step used with success cannot be replayed", auth_notes.md:33).
StepUsedOnce == \A x, y \in logins : x.code = y.code => x = y

\* A challenge logs in once and is tried MaxAttempts times in vain at most.
ChallengeIsSpent ==
  /\ \A x, y \in logins : x.challenge = y.challenge => x = y
  /\ \A c \in Challenges : challenge[c].tries <= MaxAttempts

\* Together: neither a code nor a challenge lets in twice, and guesses end.
LetsInOnce == StepUsedOnce /\ ChallengeIsSpent

\* A disabled account is not logged in to by a try that was under way.
NoLoginWhenDisabled == [][~active => logins' = logins]_vars
=============================================================================

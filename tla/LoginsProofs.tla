---------------------------- MODULE LoginsProofs ----------------------------
(***************************************************************************)
(* What the parts of Logins promise, for any number of requests, accounts, *)
(* codes, steps and events: each part has an invariant of its own, and     *)
(* beside the others, which rest, a part behaves as it does alone.         *)
(***************************************************************************)
EXTENDS Logins, Sequences, FiniteSetTheorems, TLAPS

---------------------------------------------------------------------------
(* The second factor (StaffMfa).  A try that compares holds the account,   *)
(* so the last step it read is the last step; and it holds its challenge,  *)
(* which is neither spent nor out of attempts.  Every login so far used a  *)
(* step before the last one kept.                                          *)

Challenge == [made : BOOLEAN, attempts : Nat, consumed : BOOLEAN, expired : BOOLEAN, tries : Nat]
Login == [challenge : Challenges, code : Nat, by : Requests]

Types ==
  /\ step \in Nat /\ last \in Nat
  /\ challenge \in [Challenges -> Challenge]
  /\ request \in [Requests -> [pc : {"idle", "account", "match"}, challenge : Challenges \cup {None}, code : Nat, seen : Nat]]
  /\ DOMAIN lock = Challenges \cup {"account"}
  /\ logins \subseteq Login

Counted == \A c \in Challenges : challenge[c].tries = challenge[c].attempts /\ challenge[c].attempts <= MaxAttempts

\* What a try under way holds.
Holds ==
  \A r \in Requests :
    /\ request[r].pc # "idle" =>
         /\ request[r].challenge \in Challenges /\ lock[request[r].challenge] = r
         /\ ~challenge[request[r].challenge].consumed
         /\ challenge[request[r].challenge].attempts < MaxAttempts
    /\ request[r].pc = "match" => lock["account"] = r /\ request[r].seen = last

Spent == \A x \in logins : x.code < last /\ challenge[x.challenge].consumed

Once == \A x, y \in logins : (x.code = y.code \/ x.challenge = y.challenge) => x = y

MfaInv == Types /\ Counted /\ Holds /\ Spent /\ Once

LEMMA InitInv == Init => MfaInv
PROOF BY MfaAssumption DEF Init, MfaInv, Types, Counted, Holds, Spent, Once, Challenge, Login, Idle

LEMMA CodesAreNumbers == Submitted \subseteq Nat
PROOF BY MfaAssumption DEF Submitted, TotpCodes, Wrong

\* One field, or three, of a challenge written.
LEMMA Written ==
  ASSUME NEW x \in Challenge, NEW n \in Nat, NEW t \in Nat, NEW b \in BOOLEAN
  PROVE  /\ [x EXCEPT !.made = TRUE] \in Challenge /\ [x EXCEPT !.expired = TRUE] \in Challenge
         /\ [x EXCEPT !.consumed = TRUE] \in Challenge
         /\ [x EXCEPT !.attempts = n, !.consumed = b, !.tries = t] \in Challenge
PROOF BY DEF Challenge

LEMMA RowWritten ==
  ASSUME challenge \in [Challenges -> Challenge], NEW c \in Challenges, NEW y \in Challenge,
         challenge' = [challenge EXCEPT ![c] = y]
  PROVE  /\ challenge' \in [Challenges -> Challenge]
         /\ challenge'[c] = y /\ \A d \in Challenges : d # c => challenge'[d] = challenge[d]
PROOF OBVIOUS

LEMMA InvStep == MfaInv /\ [Next]_vars => MfaInv'
PROOF
  <1> SUFFICES ASSUME MfaInv, [Next]_vars PROVE MfaInv'
    OBVIOUS
  <1> USE MfaAssumption
  <1>a. Types /\ Counted /\ Holds /\ Spent /\ Once
    BY DEF MfaInv
  <1>1. CASE Tick
    BY <1>1, <1>a DEF Tick, MfaInv, Types, Counted, Holds, Spent, Once
  <1>2. CASE Disable
    BY <1>2, <1>a DEF Disable, MfaInv, Types, Counted, Holds, Spent, Once
  <1>3. ASSUME NEW c \in Challenges, ChallengeExpires(c) \/ Password(c) PROVE MfaInv'
    <2>1. /\ challenge' \in [Challenges -> Challenge]
          /\ \A d \in Challenges : /\ challenge'[d].attempts = challenge[d].attempts
                                   /\ challenge'[d].tries = challenge[d].tries
                                   /\ challenge'[d].consumed = challenge[d].consumed
      <3>1. challenge[c] \in Challenge /\ challenge \in [Challenges -> Challenge]
        BY <1>a DEF Types
      <3>2. PICK y \in Challenge : /\ challenge' = [challenge EXCEPT ![c] = y]
                                   /\ y.attempts = challenge[c].attempts /\ y.tries = challenge[c].tries
                                   /\ y.consumed = challenge[c].consumed
        <4>1. CASE ChallengeExpires(c)
          <5>1. challenge' = [challenge EXCEPT ![c] = [challenge[c] EXCEPT !.expired = TRUE]]
            BY <4>1 DEF ChallengeExpires
          <5> DEFINE y == [challenge[c] EXCEPT !.expired = TRUE]
          <5>2. y \in Challenge
            BY <3>1, Written
          <5>3. y.attempts = challenge[c].attempts /\ y.tries = challenge[c].tries /\ y.consumed = challenge[c].consumed
            BY <3>1 DEF Challenge
          <5>4. challenge' = [challenge EXCEPT ![c] = y]
            BY <5>1
          <5> HIDE DEF y
          <5>5. QED
            BY <5>2, <5>3, <5>4
        <4>2. CASE Password(c)
          <5>1. challenge' = [challenge EXCEPT ![c] = [challenge[c] EXCEPT !.made = TRUE]]
            BY <4>2 DEF Password
          <5> DEFINE y == [challenge[c] EXCEPT !.made = TRUE]
          <5>2. y \in Challenge
            BY <3>1, Written
          <5>3. y.attempts = challenge[c].attempts /\ y.tries = challenge[c].tries /\ y.consumed = challenge[c].consumed
            BY <3>1 DEF Challenge
          <5>4. challenge' = [challenge EXCEPT ![c] = y]
            BY <5>1
          <5> HIDE DEF y
          <5>5. QED
            BY <5>2, <5>3, <5>4
        <4>3. QED
          BY <1>3, <4>1, <4>2
      <3>3. QED
        BY <3>1, <3>2, RowWritten
    <2>2. QED
      BY <1>3, <1>a, <2>1 DEF ChallengeExpires, Password, MfaInv, Types, Counted, Holds, Spent, Once, Login
  <1>4. ASSUME NEW r \in Requests, NEW c \in Challenges, NEW k \in Submitted, LockChallenge(r, c, k) PROVE MfaInv'
    <2>1. Types'
      BY <1>4, <1>a, CodesAreNumbers DEF LockChallenge, Types
    <2>2. Holds'
      <3>1. ASSUME NEW q \in Requests, q # r PROVE request'[q] = request[q]
        BY <1>4, <1>a, <3>1 DEF LockChallenge, Types
      <3>2. request'[r] = [pc |-> "account", challenge |-> c, code |-> k, seen |-> 0]
        BY <1>4, <1>a DEF LockChallenge, Types
      <3>3. lock'[c] = r /\ lock[c] = None /\ (\A x \in DOMAIN lock : x # c => lock'[x] = lock[x])
        BY <1>4, <1>a DEF LockChallenge, Types
      <3>4. ~challenge[c].consumed /\ challenge[c].attempts < MaxAttempts
        BY <1>4, <1>a DEF LockChallenge, Refused, Types, Challenge
      <3>5. challenge' = challenge /\ last' = last
        BY <1>4 DEF LockChallenge
      <3>6. QED
        BY <1>a, <3>1, <3>2, <3>3, <3>4, <3>5 DEF Holds, Types
    <2>3. QED
      BY <1>4, <1>a, <2>1, <2>2 DEF LockChallenge, MfaInv, Counted, Spent, Once
  <1>b. ASSUME NEW r \in Requests PROVE Idle \in [pc : {"idle", "account", "match"}, challenge : Challenges \cup {None}, code : Nat, seen : Nat]
    BY DEF Idle
  <1>c. ASSUME NEW r \in Requests, NEW q \in Requests, q # r, lock' = Unlocked(r), request' = [request EXCEPT ![r] = Idle]
        PROVE  /\ request'[q] = request[q] /\ request'[r].pc = "idle"
               /\ request[q].pc # "idle" => lock'[request[q].challenge] = q
               /\ lock["account"] = q => lock'["account"] = q
    BY <1>c, <1>a DEF Unlocked, Idle, Types, Holds
  <1>d. ASSUME NEW r \in Requests, lock' = Unlocked(r), request' = [request EXCEPT ![r] = Idle]
        PROVE  /\ DOMAIN lock' = Challenges \cup {"account"}
               /\ request' \in [Requests -> [pc : {"idle", "account", "match"}, challenge : Challenges \cup {None}, code : Nat, seen : Nat]]
               /\ request'[r].pc = "idle"
    BY <1>d, <1>a, <1>b DEF Unlocked, Types, Idle
  <1>5. ASSUME NEW r \in Requests, LockAccount(r) PROVE MfaInv'
    <2>1. CASE active
      <3>1. /\ request' = [request EXCEPT ![r].pc = "match", ![r].seen = last]
            /\ lock' = [lock EXCEPT !["account"] = r] /\ request[r].pc = "account"
            /\ lock["account"] = None
        BY <1>5, <2>1 DEF LockAccount
      <3>2. Types'
        BY <1>5, <1>a, <3>1 DEF LockAccount, Types
      <3>3. /\ \A q \in Requests : q # r => request'[q] = request[q]
            /\ request'[r].pc = "match" /\ request'[r].seen = last /\ request'[r].challenge = request[r].challenge
        BY <1>a, <3>1 DEF Types
      <3>4. lock'["account"] = r /\ \A x \in Challenges : lock'[x] = lock[x]
        BY <1>a, <3>1 DEF Types
      <3>5. challenge' = challenge /\ last' = last
        BY <1>5 DEF LockAccount
      <3>6. Holds'
        <4>1. ASSUME NEW q \in Requests, q = r
              PROVE  /\ request'[q].challenge \in Challenges /\ lock'[request'[q].challenge] = q
                     /\ ~challenge'[request'[q].challenge].consumed
                     /\ challenge'[request'[q].challenge].attempts < MaxAttempts
                     /\ lock'["account"] = q /\ request'[q].seen = last'
          BY <1>a, <3>1, <3>3, <3>4, <3>5, <4>1 DEF Holds
        <4>2. ASSUME NEW q \in Requests, q # r, request'[q].pc # "idle"
              PROVE  /\ request'[q].challenge \in Challenges /\ lock'[request'[q].challenge] = q
                     /\ ~challenge'[request'[q].challenge].consumed
                     /\ challenge'[request'[q].challenge].attempts < MaxAttempts
                     /\ request'[q].pc # "match"
          <5>1. request'[q] = request[q]
            BY <3>3, <4>2
          <5>2. request[q].pc # "match"
            BY <1>a, <3>1 DEF Holds
          <5>3. QED
            BY <1>a, <3>4, <3>5, <4>2, <5>1, <5>2 DEF Holds
        <4>3. QED
          BY <4>1, <4>2 DEF Holds
      <3>7. QED
        BY <1>5, <1>a, <3>2, <3>6 DEF LockAccount, MfaInv, Counted, Spent, Once
    <2>2. CASE ~active
      <3>1. lock' = Unlocked(r) /\ request' = [request EXCEPT ![r] = Idle]
        BY <1>5, <2>2 DEF LockAccount
      <3>2. Holds'
        BY <1>5, <1>a, <1>c, <1>d, <3>1 DEF LockAccount, Holds
      <3>3. QED
        BY <1>5, <1>a, <1>d, <3>1, <3>2 DEF LockAccount, MfaInv, Types, Counted, Spent, Once
    <2>3. QED
      BY <2>1, <2>2
  <1>6. ASSUME NEW r \in Requests, Matched(r) PROVE MfaInv'
    <2> DEFINE c == request[r].challenge
               k == request[r].code
               new == [challenge |-> c, code |-> k, by |-> r]
    <2>1. /\ lock' = Unlocked(r) /\ request' = [request EXCEPT ![r] = Idle]
          /\ last' = k + 1 /\ logins' = logins \cup {new} /\ step' = step
          /\ challenge' = [challenge EXCEPT ![c].consumed = TRUE]
      BY <1>6 DEF Matched
    <2>2. c \in Challenges /\ k \in Nat /\ ~challenge[c].consumed /\ lock["account"] = r /\ lock[c] = r
      BY <1>6, <1>a DEF Matched, Holds, Types
    <2>3. k >= last
      BY <1>6, <1>a DEF Matched, Matches, Holds, Types
    <2>4. /\ challenge' \in [Challenges -> Challenge]
          /\ \A d \in Challenges : /\ challenge'[d].attempts = challenge[d].attempts
                                   /\ challenge'[d].tries = challenge[d].tries
                                   /\ d # c => challenge'[d].consumed = challenge[d].consumed
          /\ challenge'[c].consumed
      <3>1. challenge[c] \in Challenge /\ challenge \in [Challenges -> Challenge]
        BY <1>a, <2>2 DEF Types
      <3>2. challenge' = [challenge EXCEPT ![c] = [challenge[c] EXCEPT !.consumed = TRUE]]
        BY <2>1
      <3>3. [challenge[c] EXCEPT !.consumed = TRUE] \in Challenge
        BY <3>1, Written
      <3> DEFINE y == [challenge[c] EXCEPT !.consumed = TRUE]
      <3>4. y.consumed /\ y.attempts = challenge[c].attempts /\ y.tries = challenge[c].tries
        BY <3>1 DEF Challenge
      <3> HIDE DEF y
      <3>5. y \in Challenge /\ challenge' = [challenge EXCEPT ![c] = y]
        BY <3>2, <3>3 DEF y
      <3> HIDE DEF c
      <3>6. QED
        BY <2>2, <3>1, <3>4, <3>5, RowWritten
    <2>5. Types'
      <3>1. new \in Login
        BY <2>2 DEF Login
      <3>2. last' \in Nat /\ logins' \subseteq Login /\ step' \in Nat
        BY <1>a, <2>1, <2>2, <3>1 DEF Types
      <3>3. QED
        BY <1>d, <2>1, <2>4, <3>2 DEF Types
    <2>6. Holds'
      <3> SUFFICES ASSUME NEW q \in Requests, request'[q].pc # "idle"
                   PROVE  /\ request'[q].challenge \in Challenges /\ lock'[request'[q].challenge] = q
                          /\ ~challenge'[request'[q].challenge].consumed
                          /\ challenge'[request'[q].challenge].attempts < MaxAttempts
                          /\ request'[q].pc # "match"
        BY DEF Holds
      <3>1. q # r /\ request'[q] = request[q]
        BY <1>c, <1>d, <2>1
      <3>2. lock[request[q].challenge] = q /\ request[q].challenge # c
        BY <1>a, <2>2, <3>1 DEF Holds
      <3>3. request[q].pc # "match"
        BY <1>a, <2>2, <3>1 DEF Holds
      <3>4. lock'[request[q].challenge] = q
        BY <1>c, <2>1, <3>1
      <3>5. /\ request[q].challenge \in Challenges /\ ~challenge[request[q].challenge].consumed
            /\ challenge[request[q].challenge].attempts < MaxAttempts
        BY <1>a, <3>1 DEF Holds
      <3> HIDE DEF c
      <3>6. QED
        BY <2>4, <3>1, <3>2, <3>3, <3>4, <3>5
    <2>7. Spent'
      BY <1>a, <2>1, <2>2, <2>3, <2>4 DEF Spent, Types, Login
    <2>8. Once'
      <3>1. \A x \in logins : x.code # k /\ x.challenge # c
        BY <1>a, <2>2, <2>3 DEF Spent, Types, Login
      <3>2. QED
        BY <1>a, <2>1, <3>1 DEF Once
    <2>9. QED
      BY <1>a, <2>4, <2>5, <2>6, <2>7, <2>8 DEF MfaInv, Counted
  <1>7. ASSUME NEW r \in Requests, Unmatched(r) PROVE MfaInv'
    <2> DEFINE c == request[r].challenge
    <2>1. /\ lock' = Unlocked(r) /\ request' = [request EXCEPT ![r] = Idle]
          /\ last' = last /\ logins' = logins /\ step' = step
          /\ challenge' = [challenge EXCEPT ![c].attempts = @ + 1,
                             ![c].consumed = challenge[c].attempts + 1 >= MaxAttempts, ![c].tries = @ + 1]
      BY <1>7 DEF Unmatched
    <2>2. c \in Challenges /\ lock[c] = r /\ challenge[c].attempts < MaxAttempts /\ ~challenge[c].consumed
      BY <1>7, <1>a DEF Unmatched, Holds, Types
    <2>3. /\ challenge' \in [Challenges -> Challenge]
          /\ \A d \in Challenges : d # c => challenge'[d] = challenge[d]
          /\ challenge'[c].attempts = challenge[c].attempts + 1
          /\ challenge'[c].tries = challenge[c].tries + 1
      <3>1. (challenge[c].attempts + 1 >= MaxAttempts) \in BOOLEAN /\ challenge[c].attempts + 1 \in Nat
            /\ challenge[c].tries + 1 \in Nat /\ challenge \in [Challenges -> Challenge]
        BY <1>a, <2>2 DEF Types, Challenge
      <3>2. QED
        <4> DEFINE y == [challenge[c] EXCEPT !.attempts = challenge[c].attempts + 1,
                           !.consumed = challenge[c].attempts + 1 >= MaxAttempts, !.tries = challenge[c].tries + 1]
        <4>0. challenge[c] \in Challenge
          BY <2>2, <3>1
        <4>1. y \in Challenge
          BY <4>0, <3>1, Written
        <4>2. y.attempts = challenge[c].attempts + 1 /\ y.tries = challenge[c].tries + 1
          BY <4>0 DEF Challenge
        <4>3. challenge' = [challenge EXCEPT ![c] = y]
          BY <2>1
        <4> HIDE DEF y, c
        <4>4. QED
          BY <2>2, <3>1, <4>1, <4>2, <4>3, RowWritten
    <2>4. Types'
      BY <1>a, <1>d, <2>1, <2>3 DEF Types
    <2>5. Holds'
      <3> SUFFICES ASSUME NEW q \in Requests, request'[q].pc # "idle"
                   PROVE  /\ request'[q].challenge \in Challenges /\ lock'[request'[q].challenge] = q
                          /\ ~challenge'[request'[q].challenge].consumed
                          /\ challenge'[request'[q].challenge].attempts < MaxAttempts
                          /\ request'[q].pc = "match" => lock'["account"] = q /\ request'[q].seen = last'
        BY DEF Holds
      <3>1. q # r /\ request'[q] = request[q]
        BY <1>c, <1>d, <2>1
      <3>2. lock[request[q].challenge] = q /\ request[q].challenge # c
        BY <1>a, <2>2, <3>1 DEF Holds
      <3>3. QED
        <4>1. lock'[request[q].challenge] = q
          BY <1>c, <2>1, <3>1
        <4>2. /\ request[q].challenge \in Challenges /\ ~challenge[request[q].challenge].consumed
              /\ challenge[request[q].challenge].attempts < MaxAttempts
              /\ request[q].pc = "match" => lock["account"] = q /\ request[q].seen = last
          BY <1>a, <3>1 DEF Holds
        <4>3. lock["account"] = q => lock'["account"] = q
          BY <1>c, <2>1, <3>1
        <4> HIDE DEF c
        <4>4. QED
          BY <2>1, <2>3, <3>1, <3>2, <4>1, <4>2, <4>3
    <2>6. Counted'
      BY <1>a, <2>2, <2>3 DEF Counted, Types, Challenge
    <2>7. Spent' /\ Once'
      BY <1>a, <2>1, <2>2, <2>3 DEF Spent, Once, Types, Login
    <2>8. QED
      BY <2>4, <2>5, <2>6, <2>7 DEF MfaInv
  <1>8. ASSUME NEW r \in Requests, Die(r) PROVE MfaInv'
    <2>1. lock' = Unlocked(r) /\ request' = [request EXCEPT ![r] = Idle]
      BY <1>8 DEF Die
    <2>2. Holds'
      <3>1. challenge' = challenge /\ last' = last
        BY <1>8 DEF Die
      <3>2. ASSUME NEW q \in Requests, q # r
            PROVE  /\ request'[q] = request[q]
                   /\ request[q].pc # "idle" => lock'[request[q].challenge] = q
                   /\ lock["account"] = q => lock'["account"] = q
        BY <1>c, <2>1, <3>2
      <3>3. request'[r].pc = "idle"
        BY <1>d, <2>1
      <3>4. QED
        BY <1>a, <3>1, <3>2, <3>3 DEF Holds
    <2>3. QED
      BY <1>8, <1>a, <1>d, <2>1, <2>2 DEF Die, MfaInv, Types, Counted, Spent, Once
  <1>9. CASE UNCHANGED vars
    BY <1>9, <1>a DEF vars, MfaInv, Types, Counted, Holds, Spent, Once
  <1>10. QED
    BY <1>1, <1>2, <1>3, <1>4, <1>5, <1>6, <1>7, <1>8, <1>9 DEF Next

THEOREM MfaInvariant == Spec => []MfaInv
PROOF BY InitInv, InvStep, PTL DEF Spec

\* However many logins are tried at once, a code of the authenticator logs in once.
THEOREM StepsAreUsedOnce == Spec => []StepUsedOnce
PROOF
  <1>1. MfaInv => StepUsedOnce
    BY DEF MfaInv, Once, StepUsedOnce
  <1>2. QED
    BY MfaInvariant, <1>1, PTL

\* A challenge logs in once, and no more than MaxAttempts wrong codes are tried on it.
THEOREM ChallengesAreSpent == Spec => []ChallengeIsSpent
PROOF
  <1>1. MfaInv => ChallengeIsSpent
    BY DEF MfaInv, Once, Counted, ChallengeIsSpent
  <1>2. QED
    BY MfaInvariant, <1>1, PTL

\* Neither a code nor a challenge lets in twice, and the guesses at a challenge end.
THEOREM LoginsHappenOnce == Spec => []LetsInOnce
PROOF BY StepsAreUsedOnce, ChallengesAreSpent, PTL DEF LetsInOnce

\* A try that compares found the account active, and its lock keeps it so.
StillActive == \A r \in Requests : request[r].pc = "match" => active

LEMMA StillActiveStep == MfaInv /\ StillActive /\ [Next]_vars => StillActive'
PROOF
  <1> SUFFICES ASSUME MfaInv, StillActive, [Next]_vars PROVE StillActive'
    OBVIOUS
  <1>a. Types /\ Holds
    BY DEF MfaInv
  <1>b. ASSUME NEW r \in Requests, request' = [request EXCEPT ![r] = Idle], active' = active PROVE StillActive'
    BY <1>a, <1>b DEF StillActive, Types, Idle
  <1>1. CASE Tick
    BY <1>1 DEF Tick, StillActive
  <1>2. CASE Disable
    BY <1>2, <1>a, MfaAssumption DEF Disable, StillActive, Holds
  <1>3. ASSUME NEW c \in Challenges, ChallengeExpires(c) \/ Password(c) PROVE StillActive'
    BY <1>3 DEF ChallengeExpires, Password, StillActive
  <1>4. ASSUME NEW r \in Requests, NEW c \in Challenges, NEW k \in Submitted, LockChallenge(r, c, k) PROVE StillActive'
    BY <1>4, <1>a DEF LockChallenge, StillActive, Types
  <1>5. ASSUME NEW r \in Requests, LockAccount(r) PROVE StillActive'
    <2>1. CASE active
      BY <1>5, <2>1 DEF LockAccount, StillActive
    <2>2. CASE ~active
      BY <1>5, <2>2, <1>b DEF LockAccount
    <2>3. QED
      BY <2>1, <2>2
  <1>6. ASSUME NEW r \in Requests, Matched(r) \/ Unmatched(r) \/ Die(r) PROVE StillActive'
    BY <1>6, <1>b DEF Matched, Unmatched, Die
  <1>7. CASE UNCHANGED vars
    BY <1>7 DEF vars, StillActive
  <1>8. QED
    BY <1>1, <1>2, <1>3, <1>4, <1>5, <1>6, <1>7 DEF Next

\* A try that began before its account was disabled does not log in to it afterwards.
THEOREM DisabledStaysOut == Spec => NoLoginWhenDisabled
PROOF
  <1>1. Init => StillActive
    BY DEF Init, StillActive, Idle
  <1>2. Spec => [](MfaInv /\ StillActive)
    BY <1>1, InitInv, InvStep, StillActiveStep, PTL DEF Spec
  <1>3. StillActive /\ [Next]_vars => [~active => logins' = logins]_vars
    <2> SUFFICES ASSUME StillActive, [Next]_vars, ~active PROVE logins' = logins
      OBVIOUS
    <2>1. ASSUME NEW r \in Requests, Matched(r) PROVE FALSE
      BY <2>1 DEF Matched, StillActive
    <2>2. QED
      BY <2>1 DEF Next, vars, Tick, Disable, ChallengeExpires, Password, LockChallenge, LockAccount, Unmatched, Die
  <1>4. QED
    BY <1>2, <1>3, PTL DEF NoLoginWhenDisabled, Spec

\* A code handed in is one there is, so the last step kept is at most that of the last code.
MfaKept ==
  /\ last <= MaxStep + 2
  /\ \A r \in Requests : request[r].pc # "idle" => request[r].code \in Submitted

LEMMA MfaTyped == MfaInv /\ MfaKept => MfaTypeOK
<1> SUFFICES ASSUME MfaInv, MfaKept PROVE MfaTypeOK
  OBVIOUS
<1>1. last \in 0..MaxStep + 2 BY MfaAssumption DEF MfaInv, Types, MfaKept
<1>2. \A c \in Challenges : challenge[c].attempts \in 0..MaxAttempts
  BY MfaAssumption DEF MfaInv, Types, Counted, Challenge
<1>3. \A r \in Requests : /\ request[r].pc \in {"account", "match"} => lock[request[r].challenge] = r
                          /\ request[r].pc = "match" => lock["account"] = r
  BY DEF MfaInv, Holds
<1> QED BY <1>1, <1>2, <1>3 DEF MfaTypeOK

LEMMA MfaKeptInit == Init => MfaKept
BY MfaAssumption DEF Init, MfaKept, Idle

LEMMA MfaKeptNext == ASSUME MfaInv, MfaKept, [Next]_vars PROVE MfaKept'
<1>a. DOMAIN request = Requests /\ last \in Nat BY DEF MfaInv, Types
<1>b. Idle.pc = "idle" BY DEF Idle
<1>c. ASSUME NEW r \in Requests, request' = [request EXCEPT ![r] = Idle], last' <= MaxStep + 2 PROVE MfaKept'
  BY <1>a, <1>b, <1>c DEF MfaKept
<1>1. CASE Tick \/ Disable \/ (\E c \in Challenges : ChallengeExpires(c) \/ Password(c)) \/ UNCHANGED vars
  <2>1. UNCHANGED <<last, request>> BY <1>1 DEF Tick, Disable, ChallengeExpires, Password, vars
  <2> QED BY <2>1 DEF MfaKept
<1>2. ASSUME NEW r \in Requests, NEW c \in Challenges, NEW k \in Submitted, LockChallenge(r, c, k) PROVE MfaKept'
  <2>1. /\ last' = last /\ request'[r].code = k /\ \A q \in Requests : q # r => request'[q] = request[q]
    BY <1>2, <1>a DEF LockChallenge
  <2> QED BY <2>1 DEF MfaKept
<1>3. ASSUME NEW r \in Requests, LockAccount(r) PROVE MfaKept'
  <2>1. CASE active
    <3>1. /\ last' = last /\ request[r].pc = "account" /\ \A q \in Requests : q # r => request'[q] = request[q]
          /\ request'[r].code = request[r].code
      BY <1>3, <1>a, <2>1 DEF LockAccount, MfaInv, Types
    <3> QED BY <3>1 DEF MfaKept
  <2>2. CASE ~active BY <1>3, <1>c, <2>2 DEF LockAccount, MfaKept
  <2> QED BY <2>1, <2>2
<1>4. ASSUME NEW r \in Requests, Matched(r) PROVE MfaKept'
  <2>1. request[r].code \in Submitted /\ request[r].code # Wrong BY <1>4 DEF Matched, Matches, MfaKept
  <2>2. last' = request[r].code + 1 /\ request' = [request EXCEPT ![r] = Idle] BY <1>4 DEF Matched
  <2>3. last' <= MaxStep + 2 BY <2>1, <2>2, MfaAssumption DEF Submitted, TotpCodes
  <2> QED BY <2>2, <2>3, <1>c
<1>5. ASSUME NEW r \in Requests, Unmatched(r) \/ Die(r) PROVE MfaKept'
  BY <1>5, <1>c DEF Unmatched, Die, MfaKept
<1> QED BY <1>1, <1>2, <1>3, <1>4, <1>5 DEF Next

---------------------------------------------------------------------------
(* One-time codes by mail.                                                 *)

\* The codes made are the first so many, and at most the newest is not consumed; one request at a
\* time is between the limit and its row; who compares holds the row it compares with.
\* The part's cardinality is that of the theorems about finite sets.
LEMMA MailCardinality == \A S : Mail!Cardinality(S) = Cardinality(S)
BY DEF Mail!Cardinality, Cardinality

MailCode == [made : BOOLEAN, consumed : BOOLEAN, attempts : Nat, expired : BOOLEAN, told : BOOLEAN, version : Nat]
CodeRequest == [pc : {"idle", "replace", "insert", "mail", "compare"}, code : Nat, version : Nat, replaced : SUBSET Mail!Codes]

CodeTypes ==
  /\ code \in [Mail!Codes -> MailCode] /\ open \in BOOLEAN
  /\ mailRequest \in [Requests -> CodeRequest]
  /\ mailLock \in [Mail!Codes -> Requests \cup {None}]
  /\ history \in [Mail!Codes -> [wrong : Nat, logins : Nat]]

\* The codes made are the first so many.
InOrder == \E n \in 0..MaxCodes : Mail!Made = 1..n

\* One request at a time has passed the limit and not written its row.
OneAsks ==
  \A q, r \in Requests :
    mailRequest[r].pc \in {"replace", "insert"} => ~open /\ (mailRequest[q].pc \in {"replace", "insert"} => q = r)

\* What a request that replaces and one that compares hold, and what stays so.
Replacing ==
  \A r \in Requests : mailRequest[r].pc = "insert" =>
    Mail!Unconsumed \subseteq mailRequest[r].replaced /\ mailRequest[r].replaced \subseteq Mail!Made /\
    \A c \in mailRequest[r].replaced : mailLock[c] = r

Comparing ==
  \A r \in Requests : mailRequest[r].pc = "compare" =>
    /\ mailRequest[r].code \in Mail!Unconsumed /\ mailLock[mailRequest[r].code] = r /\ Mail!Current(r)
    /\ code[mailRequest[r].code].attempts < MaxAttempts

Mailing == \A r \in Requests : mailRequest[r].pc = "mail" => mailRequest[r].code \in Mail!Made

\* Every guess is in the row, and every login and the last guess spend it.
CodeCounted ==
  \A c \in Mail!Codes :
    /\ history[c].wrong = code[c].attempts /\ code[c].attempts <= MaxAttempts
    /\ (code[c].attempts = MaxAttempts => code[c].consumed)
    /\ history[c].logins <= 1 /\ (history[c].logins # 0 => code[c].consumed)

MailInv ==
  /\ CodeTypes /\ InOrder /\ OneAsks /\ Replacing /\ Comparing /\ Mailing /\ CodeCounted
  /\ Mail!OnlyTheNewest

LEMMA MailInit == ASSUME Mail!CodesAssumption PROVE Mail!Init => MailInv
<1> SUFFICES ASSUME Mail!Init PROVE MailInv OBVIOUS
<1> USE Mail!CodesAssumption DEF Mail!CodesAssumption
<1>1. CodeTypes
  BY DEF Mail!Init, CodeTypes, MailCode, CodeRequest, Mail!NoCode, Mail!Idle
<1>2. Mail!Made = {} BY DEF Mail!Init, Mail!Made, Mail!NoCode
<1>3. InOrder
  <2>1. 0 \in 0..MaxCodes /\ 1..0 = {} OBVIOUS
  <2> QED BY <2>1, <1>2 DEF InOrder
<1>4. OneAsks /\ Replacing /\ Comparing /\ Mailing
  BY DEF Mail!Init, OneAsks, Replacing, Comparing, Mailing, Mail!Idle
<1>5. CodeCounted /\ Mail!OnlyTheNewest
  BY <1>2 DEF Mail!Init, CodeCounted, Mail!NoCode, Mail!OnlyTheNewest, Mail!Unconsumed
<1> QED BY <1>1, <1>3, <1>4, <1>5 DEF MailInv

\* How many codes there are.
LEMMA CountOfCodes ==
  ASSUME Mail!CodesAssumption, NEW n \in Nat, Mail!Made = 1..n
  PROVE  Cardinality(Mail!Made) = n
<1>1. Cardinality(1..n) = n BY FS_Interval
<1> QED BY <1>1

\* The codes made stay where no row of one is made.
LEMMA MadeStays ==
  ASSUME code' \in [Mail!Codes -> MailCode], \A d \in Mail!Codes : code'[d].made = code[d].made,
         \A d \in Mail!Codes : code[d].consumed => code'[d].consumed
  PROVE  /\ Mail!Made' = Mail!Made /\ Mail!Unconsumed' \subseteq Mail!Unconsumed
         /\ (InOrder => InOrder') /\ (Mail!OnlyTheNewest => Mail!OnlyTheNewest')
<1>1. Mail!Made' = Mail!Made BY DEF Mail!Made
<1>2. Mail!Unconsumed' \subseteq Mail!Unconsumed BY <1>1 DEF Mail!Unconsumed, Mail!Made
<1> QED BY <1>1, <1>2 DEF InOrder, Mail!OnlyTheNewest

\* The fields of a row that is written.
LEMMA CodeSpent ==
  ASSUME NEW x \in MailCode, NEW n \in Nat
  PROVE  LET y == [x EXCEPT !.consumed = TRUE, !.version = n] IN
         /\ y \in MailCode /\ y.consumed /\ y.version = n
         /\ y.made = x.made /\ y.attempts = x.attempts /\ y.expired = x.expired /\ y.told = x.told
BY DEF MailCode

LEMMA CodeWritten ==
  ASSUME CodeTypes, NEW c \in Mail!Codes
  PROVE  /\ Mail!Consumed(c) \in [Mail!Codes -> MailCode]
         /\ \A d \in Mail!Codes \ {c} : Mail!Consumed(c)[d] = code[d]
         /\ LET x == Mail!Consumed(c)[c] IN
              /\ x.made = code[c].made /\ x.attempts = code[c].attempts /\ x.expired = code[c].expired
              /\ x.told = code[c].told /\ x.consumed /\ x.version = code[c].version + 1
<1>1. PICK x \in MailCode : x = code[c] BY DEF CodeTypes
<1>2. PICK n \in Nat : n = x.version + 1 BY DEF MailCode
<1> DEFINE y == [x EXCEPT !.consumed = TRUE, !.version = n]
<1>3. /\ y \in MailCode /\ y.consumed /\ y.version = x.version + 1
      /\ y.made = x.made /\ y.attempts = x.attempts /\ y.expired = x.expired /\ y.told = x.told
  BY <1>2, CodeSpent
<1>4. Mail!Consumed(c) = [code EXCEPT ![c] = y] BY <1>1, <1>2 DEF Mail!Consumed
<1> HIDE DEF y
<1>5. code \in [Mail!Codes -> MailCode] BY DEF CodeTypes
<1> QED BY <1>1, <1>3, <1>4, <1>5

LEMMA AskWritten ==
  ASSUME CodeTypes, NEW r \in Requests, NEW x \in CodeRequest, mailRequest' = [mailRequest EXCEPT ![r] = x]
  PROVE  /\ mailRequest' \in [Requests -> CodeRequest] /\ mailRequest'[r] = x
         /\ \A q \in Requests : q # r => mailRequest'[q] = mailRequest[q]
BY DEF CodeTypes

LEMMA IdleIsRequest == Mail!Idle \in CodeRequest /\ Mail!Idle.pc = "idle"
BY DEF Mail!Idle, CodeRequest, Mail!Codes

LEMMA UnlockedLocks ==
  ASSUME Mail!CodesAssumption, CodeTypes, NEW r \in Requests
  PROVE  /\ Mail!Unlocked(r) \in [Mail!Codes -> Requests \cup {None}]
         /\ \A c \in Mail!Codes : \A q \in Requests : q # r => (Mail!Unlocked(r)[c] = q <=> mailLock[c] = q)
BY DEF CodeTypes, Mail!Unlocked, Mail!CodesAssumption

\* One window ends, one code runs out: nothing anybody holds changes.
LEMMA MailClock ==
  ASSUME Mail!CodesAssumption, MailInv, Mail!WindowEnds \/ \E c \in Mail!Codes : Mail!Expires(c)
  PROVE  MailInv'
<1>1. CASE Mail!WindowEnds
  <2>1. UNCHANGED <<code, mailRequest, mailLock, history>> /\ open' \in BOOLEAN BY <1>1 DEF Mail!WindowEnds
  <2>2. Mail!Made' = Mail!Made /\ Mail!Unconsumed' = Mail!Unconsumed BY <2>1 DEF Mail!Made, Mail!Unconsumed
  <2>3. CodeTypes' BY <2>1 DEF MailInv, CodeTypes
  <2>4. OneAsks' BY <1>1 DEF Mail!WindowEnds, OneAsks
  <2>5. InOrder' /\ Replacing' /\ Comparing' /\ Mailing' /\ CodeCounted' /\ Mail!OnlyTheNewest'
    BY <2>1, <2>2 DEF MailInv, InOrder, Replacing, Comparing, Mailing, CodeCounted, Mail!OnlyTheNewest, Mail!Current
  <2> QED BY <2>3, <2>4, <2>5 DEF MailInv
<1>2. ASSUME NEW c \in Mail!Codes, Mail!Expires(c) PROVE MailInv'
  <2>1. code \in [Mail!Codes -> MailCode] BY DEF MailInv, CodeTypes
  <2>2. PICK x \in MailCode : x = code[c] BY <2>1
  <2> DEFINE y == [x EXCEPT !.expired = TRUE]
  <2>3. /\ y \in MailCode /\ y.consumed = x.consumed /\ y.version = x.version
        /\ y.made = x.made /\ y.attempts = x.attempts
    BY DEF MailCode
  <2>4. code' = [code EXCEPT ![c] = y] BY <1>2, <2>2 DEF Mail!Expires
  <2> HIDE DEF y
  <2>5. /\ code' \in [Mail!Codes -> MailCode]
        /\ \A d \in Mail!Codes : /\ code'[d].consumed = code[d].consumed /\ code'[d].version = code[d].version
                           /\ code'[d].made = code[d].made /\ code'[d].attempts = code[d].attempts
    BY <2>1, <2>2, <2>3, <2>4
  <2>6. UNCHANGED <<open, mailRequest, mailLock, history>> BY <1>2 DEF Mail!Expires
  <2>7. Mail!Made' = Mail!Made /\ Mail!Unconsumed' = Mail!Unconsumed BY <2>5 DEF Mail!Made, Mail!Unconsumed
  <2>8. CodeTypes' BY <2>5, <2>6 DEF MailInv, CodeTypes
  <2>9. Comparing'
    BY <2>5, <2>6, <2>7 DEF MailInv, Comparing, Mail!Current, Mail!Unconsumed, Mail!Made
  <2>10. InOrder' /\ OneAsks' /\ Replacing' /\ Mailing' /\ CodeCounted' /\ Mail!OnlyTheNewest'
    BY <2>5, <2>6, <2>7 DEF MailInv, InOrder, OneAsks, Replacing, Mailing, CodeCounted, Mail!OnlyTheNewest
  <2> QED BY <2>8, <2>9, <2>10 DEF MailInv
<1> QED BY <1>1, <1>2

\* The rows stay: a request passes the limit, locks, or ends.
LEMMA MailPass ==
  ASSUME Mail!CodesAssumption, MailInv, NEW r \in Requests, Mail!Pass(r)
  PROVE  MailInv'
<1> DEFINE x == [Mail!Idle EXCEPT !.pc = "replace"]
<1>1. x \in CodeRequest /\ x.pc = "replace" BY DEF Mail!Idle, CodeRequest, Mail!Codes
<1>2. mailRequest' = [mailRequest EXCEPT ![r] = x] BY DEF Mail!Pass
<1> HIDE DEF x
<1>3. /\ mailRequest' \in [Requests -> CodeRequest] /\ mailRequest'[r].pc = "replace"
      /\ \A q \in Requests : q # r => mailRequest'[q] = mailRequest[q]
  BY <1>1, <1>2, AskWritten DEF MailInv
<1>4. UNCHANGED <<code, mailLock, history>> /\ open = TRUE /\ open' = FALSE BY DEF Mail!Pass, MailInv, CodeTypes
<1>5. Mail!Made' = Mail!Made /\ Mail!Unconsumed' = Mail!Unconsumed BY <1>4 DEF Mail!Made, Mail!Unconsumed
<1>6. CodeTypes' BY <1>3, <1>4 DEF MailInv, CodeTypes
<1>7. OneAsks' BY <1>3, <1>4 DEF MailInv, OneAsks
<1>8. Replacing' /\ Comparing' /\ Mailing'
  BY <1>3, <1>4, <1>5 DEF MailInv, Replacing, Comparing, Mailing, Mail!Current
<1>9. InOrder' /\ CodeCounted' /\ Mail!OnlyTheNewest'
  BY <1>4, <1>5 DEF MailInv, InOrder, CodeCounted, Mail!OnlyTheNewest
<1> QED BY <1>6, <1>7, <1>8, <1>9 DEF MailInv

LEMMA MailReplace ==
  ASSUME Mail!CodesAssumption, MailInv, NEW r \in Requests, Mail!Replace(r)
  PROVE  MailInv'
<1> DEFINE x == [Mail!Idle EXCEPT !.pc = "insert", !.replaced = Mail!Unconsumed]
<1>1. x \in CodeRequest /\ x.pc = "insert" /\ x.replaced = Mail!Unconsumed
  BY DEF Mail!Idle, CodeRequest, Mail!Codes, Mail!Unconsumed, Mail!Made
<1>2. mailRequest' = [mailRequest EXCEPT ![r] = x] BY DEF Mail!Replace
<1> HIDE DEF x
<1>3. /\ mailRequest' \in [Requests -> CodeRequest] /\ mailRequest'[r] = x
      /\ \A q \in Requests : q # r => mailRequest'[q] = mailRequest[q]
  BY <1>1, <1>2, AskWritten DEF MailInv
<1>4. UNCHANGED <<code, open, history>> /\ mailRequest[r].pc = "replace" BY DEF Mail!Replace
<1>5. Mail!Made' = Mail!Made /\ Mail!Unconsumed' = Mail!Unconsumed BY <1>4 DEF Mail!Made, Mail!Unconsumed
<1>6. /\ mailLock' \in [Mail!Codes -> Requests \cup {None}]
      /\ \A c \in Mail!Codes : IF c \in Mail!Unconsumed THEN mailLock'[c] = r /\ mailLock[c] = None ELSE mailLock'[c] = mailLock[c]
  BY DEF MailInv, CodeTypes, Mail!Replace
<1>7. CodeTypes' BY <1>3, <1>4, <1>6 DEF MailInv, CodeTypes
<1>8. OneAsks'
  <2> SUFFICES ASSUME NEW q \in Requests, NEW p \in Requests, mailRequest'[p].pc \in {"replace", "insert"}
               PROVE ~open' /\ (mailRequest'[q].pc \in {"replace", "insert"} => q = p)
    BY DEF OneAsks
  <2>1. /\ mailRequest[p].pc \in {"replace", "insert"}
        /\ mailRequest'[q].pc \in {"replace", "insert"} => mailRequest[q].pc \in {"replace", "insert"}
    BY <1>3, <1>4
  <2> QED BY <2>1, <1>4 DEF MailInv, OneAsks
<1>9. Replacing'
  <2> SUFFICES ASSUME NEW q \in Requests, mailRequest'[q].pc = "insert"
               PROVE Mail!Unconsumed' \subseteq mailRequest'[q].replaced /\ mailRequest'[q].replaced \subseteq Mail!Made' /\
                     \A c \in mailRequest'[q].replaced : mailLock'[c] = q
    BY DEF Replacing
  <2>1. q = r BY <1>3, <1>4 DEF MailInv, OneAsks
  <2> QED BY <2>1, <1>1, <1>3, <1>5, <1>6 DEF Mail!Unconsumed, Mail!Made
<1>10. Comparing'
  <2> SUFFICES ASSUME NEW q \in Requests, mailRequest'[q].pc = "compare"
               PROVE /\ mailRequest'[q].code \in Mail!Unconsumed' /\ mailLock'[mailRequest'[q].code] = q /\ Mail!Current(q)'
                     /\ code'[mailRequest'[q].code].attempts < MaxAttempts
    BY DEF Comparing
  <2>1. q # r /\ mailRequest'[q] = mailRequest[q] BY <1>1, <1>3
  <2>2. /\ mailRequest[q].code \in Mail!Unconsumed /\ mailLock[mailRequest[q].code] = q /\ Mail!Current(q)
        /\ code[mailRequest[q].code].attempts < MaxAttempts
    BY <2>1 DEF MailInv, Comparing
  <2>3. FALSE BY <2>2, <1>6, Mail!CodesAssumption DEF Mail!CodesAssumption, Mail!Unconsumed, Mail!Made
  <2> QED BY <2>3
<1>11. Mailing' BY <1>1, <1>3, <1>5 DEF MailInv, Mailing
<1>12. InOrder' /\ CodeCounted' /\ Mail!OnlyTheNewest'
  BY <1>4, <1>5 DEF MailInv, InOrder, CodeCounted, Mail!OnlyTheNewest
<1> QED BY <1>7, <1>8, <1>9, <1>10, <1>11, <1>12 DEF MailInv

LEMMA MailRollBack ==
  ASSUME Mail!CodesAssumption, MailInv, NEW r \in Requests, Mail!RollBack(r)
  PROVE  MailInv'
<1>1. /\ mailRequest' \in [Requests -> CodeRequest] /\ mailRequest'[r].pc = "idle"
      /\ \A q \in Requests : q # r => mailRequest'[q] = mailRequest[q]
  BY IdleIsRequest, AskWritten DEF MailInv, Mail!RollBack
<1>2. UNCHANGED <<code, open, history>> /\ mailLock' = Mail!Unlocked(r) BY DEF Mail!RollBack
<1>3. /\ mailLock' \in [Mail!Codes -> Requests \cup {None}]
      /\ \A c \in Mail!Codes : \A q \in Requests : q # r => (mailLock'[c] = q <=> mailLock[c] = q)
  BY <1>2, UnlockedLocks DEF MailInv
<1>4. Mail!Made' = Mail!Made /\ Mail!Unconsumed' = Mail!Unconsumed BY <1>2 DEF Mail!Made, Mail!Unconsumed
<1>5. CodeTypes' BY <1>1, <1>2, <1>3 DEF MailInv, CodeTypes
<1>6. OneAsks' BY <1>1, <1>2 DEF MailInv, OneAsks
<1>7. Replacing' BY <1>1, <1>3, <1>4 DEF MailInv, Replacing, Mail!Made
<1>8. Comparing' BY <1>1, <1>2, <1>3, <1>4 DEF MailInv, Comparing, Mail!Current, Mail!Unconsumed, Mail!Made
<1>9. Mailing' BY <1>1, <1>4 DEF MailInv, Mailing
<1>10. InOrder' /\ CodeCounted' /\ Mail!OnlyTheNewest'
  BY <1>2, <1>4 DEF MailInv, InOrder, CodeCounted, Mail!OnlyTheNewest
<1> QED BY <1>5, <1>6, <1>7, <1>8, <1>9, <1>10 DEF MailInv

LEMMA MailInsert ==
  ASSUME Mail!CodesAssumption, MailInv, NEW r \in Requests, Mail!Insert(r)
  PROVE  MailInv'
<1> DEFINE x == [Mail!Idle EXCEPT !.pc = "mail", !.code = Cardinality(Mail!Made) + 1]
<1>1. PICK n \in 0..MaxCodes : Mail!Made = 1..n BY DEF MailInv, InOrder
<1>2. n \in Nat /\ Cardinality(Mail!Made) = n /\ n < MaxCodes /\ n + 1 \in Mail!Codes
  <2>1. n \in Nat BY DEF Mail!CodesAssumption
  <2>2. Cardinality(Mail!Made) = n BY <2>1, <1>1, CountOfCodes
  <2>3. n < MaxCodes BY <2>2, MailCardinality DEF Mail!Insert
  <2>4. n + 1 \in Mail!Codes BY <2>1, <2>3 DEF Mail!CodesAssumption, Mail!Codes
  <2> QED BY <2>1, <2>2, <2>3, <2>4
<1>3. x \in CodeRequest /\ x.pc = "mail" /\ x.code = n + 1
  <2>1. PICK m \in Nat : m = Cardinality(Mail!Made) + 1 /\ m = n + 1 BY <1>2
  <2>2. x = [Mail!Idle EXCEPT !.pc = "mail", !.code = m] BY <2>1
  <2> QED BY <2>1, <2>2 DEF Mail!Idle, CodeRequest, Mail!Codes
<1>4. mailRequest' = [mailRequest EXCEPT ![r] = x] BY MailCardinality DEF Mail!Insert
<1> HIDE DEF x
<1>5. /\ mailRequest' \in [Requests -> CodeRequest] /\ mailRequest'[r] = x
      /\ \A q \in Requests : q # r => mailRequest'[q] = mailRequest[q]
  BY <1>3, <1>4, AskWritten DEF MailInv
<1>6. UNCHANGED <<open, history>> /\ mailLock' = Mail!Unlocked(r) /\ mailRequest[r].pc = "insert" BY DEF Mail!Insert
<1>7. /\ mailLock' \in [Mail!Codes -> Requests \cup {None}]
      /\ \A c \in Mail!Codes : \A q \in Requests : q # r => (mailLock'[c] = q <=> mailLock[c] = q)
  BY <1>6, UnlockedLocks DEF MailInv
<1>8. /\ Mail!Unconsumed \subseteq mailRequest[r].replaced /\ mailRequest[r].replaced \subseteq Mail!Made
      /\ \A c \in mailRequest[r].replaced : mailLock[c] = r
  BY <1>6 DEF MailInv, Replacing
<1>9. code \in [Mail!Codes -> MailCode] /\ DOMAIN code' = Mail!Codes BY DEF MailInv, CodeTypes, Mail!Insert
<1>10. \A c \in Mail!Codes : /\ code'[c] \in MailCode
                         /\ code'[c].attempts = code[c].attempts /\ code'[c].version = code[c].version
                         /\ code'[c].made = (code[c].made \/ c = n + 1)
                         /\ code'[c].consumed = (code[c].consumed \/ c \in mailRequest[r].replaced)
  <2> TAKE c \in Mail!Codes
  <2>1. PICK y \in MailCode : y = code[c] BY <1>9
  <2> DEFINE z == [y EXCEPT !.consumed = TRUE]
             t == [y EXCEPT !.made = TRUE]
  <2>2. z \in MailCode /\ z.attempts = y.attempts /\ z.version = y.version /\ z.made = y.made /\ z.consumed
    BY DEF MailCode
  <2>3. t \in MailCode /\ t.attempts = y.attempts /\ t.version = y.version /\ t.made /\ t.consumed = y.consumed
    BY DEF MailCode
  <2>4. code'[c] = IF c \in mailRequest[r].replaced THEN z ELSE IF c = n + 1 THEN t ELSE y
    BY <1>2, <2>1, MailCardinality DEF Mail!Insert
  <2> HIDE DEF z, t
  <2>5. n + 1 \notin mailRequest[r].replaced BY <1>1, <1>2, <1>8
  <2>6. y.made \in BOOLEAN /\ y.consumed \in BOOLEAN BY DEF MailCode
  <2>7. CASE c \in mailRequest[r].replaced BY <2>1, <2>2, <2>4, <2>5, <2>6, <2>7
  <2>8. CASE c \notin mailRequest[r].replaced /\ c = n + 1 BY <2>1, <2>3, <2>4, <2>6, <2>8
  <2>9. CASE c \notin mailRequest[r].replaced /\ c # n + 1 BY <2>1, <2>4, <2>6, <2>9
  <2> QED BY <2>7, <2>8, <2>9
<1>11. code' \in [Mail!Codes -> MailCode]
  <2>1. \E f : code' = [c \in Mail!Codes |-> f[c]] BY DEF Mail!Insert
  <2> QED BY <1>10, <2>1
<1>12. Mail!Made' = 1..(n + 1)
  <2>1. Mail!Made' = {c \in Mail!Codes : code[c].made \/ c = n + 1} BY <1>10 DEF Mail!Made
  <2>2. Mail!Made' = Mail!Made \cup {n + 1} BY <2>1, <1>2 DEF Mail!Made
  <2> QED BY <2>2, <1>1, <1>2
<1>13. Mail!Unconsumed' = {n + 1} \/ Mail!Unconsumed' = {}
  <2>1. \A c \in Mail!Codes : c \in Mail!Unconsumed' => c = n + 1
    BY <1>8, <1>10, <1>12 DEF Mail!Unconsumed, Mail!Made
  <2> QED BY <2>1 DEF Mail!Unconsumed, Mail!Made
<1>14. Cardinality(Mail!Made') = n + 1
  BY <1>12, <1>2, FS_Interval
<1>15. CodeTypes' BY <1>5, <1>6, <1>7, <1>11 DEF MailInv, CodeTypes
<1>16. InOrder' BY <1>2, <1>12 DEF InOrder, Mail!Codes, Mail!CodesAssumption
<1>17. OneAsks' BY <1>3, <1>5, <1>6 DEF MailInv, OneAsks
<1>18. Replacing'
  <2>1. \A q \in Requests : mailRequest'[q].pc # "insert" BY <1>3, <1>5, <1>6 DEF MailInv, OneAsks
  <2> QED BY <2>1 DEF Replacing
<1>19. Comparing'
  <2> SUFFICES ASSUME NEW q \in Requests, mailRequest'[q].pc = "compare"
               PROVE /\ mailRequest'[q].code \in Mail!Unconsumed' /\ mailLock'[mailRequest'[q].code] = q /\ Mail!Current(q)'
                     /\ code'[mailRequest'[q].code].attempts < MaxAttempts
    BY DEF Comparing
  <2>1. q # r /\ mailRequest'[q] = mailRequest[q] BY <1>3, <1>5
  <2>2. /\ mailRequest[q].code \in Mail!Unconsumed /\ mailLock[mailRequest[q].code] = q
    BY <2>1 DEF MailInv, Comparing
  <2> QED BY <2>1, <2>2, <1>8
<1>20. Mailing' BY <1>3, <1>5, <1>12, <1>1, <1>2 DEF MailInv, Mailing
<1>21. CodeCounted' BY <1>6, <1>10 DEF MailInv, CodeCounted
<1>22. Mail!OnlyTheNewest' BY <1>13, <1>14, MailCardinality DEF Mail!OnlyTheNewest
<1> QED BY <1>15, <1>16, <1>17, <1>18, <1>19, <1>20, <1>21, <1>22 DEF MailInv

\* Of what a write to one row keeps.
LEMMA RowKept ==
  ASSUME Mail!CodesAssumption, MailInv, NEW c \in Mail!Codes, NEW y \in MailCode, code' = [code EXCEPT ![c] = y],
         y.made = code[c].made, code[c].consumed => y.consumed
  PROVE  /\ code' \in [Mail!Codes -> MailCode] /\ code'[c] = y /\ (\A d \in Mail!Codes \ {c} : code'[d] = code[d])
         /\ Mail!Made' = Mail!Made /\ Mail!Unconsumed' \subseteq Mail!Unconsumed /\ Mail!Unconsumed \ {c} \subseteq Mail!Unconsumed'
         /\ InOrder' /\ Mail!OnlyTheNewest'
<1>1. code \in [Mail!Codes -> MailCode] BY DEF MailInv, CodeTypes
<1>2. code' \in [Mail!Codes -> MailCode] /\ code'[c] = y /\ (\A d \in Mail!Codes \ {c} : code'[d] = code[d]) BY <1>1
<1>3. /\ \A d \in Mail!Codes : code'[d].made = code[d].made
      /\ \A d \in Mail!Codes : code[d].consumed => code'[d].consumed
  BY <1>2
<1>4. /\ Mail!Made' = Mail!Made /\ Mail!Unconsumed' \subseteq Mail!Unconsumed /\ InOrder' /\ Mail!OnlyTheNewest'
  BY <1>2, <1>3, MadeStays DEF MailInv
<1>5. Mail!Unconsumed \ {c} \subseteq Mail!Unconsumed' BY <1>2, <1>4 DEF Mail!Unconsumed, Mail!Made
<1> QED BY <1>2, <1>4, <1>5

LEMMA MailAnswered ==
  ASSUME Mail!CodesAssumption, MailInv, NEW r \in Requests, Mail!MailSent(r) \/ Mail!MailFails(r)
  PROVE  MailInv'
<1> DEFINE c == mailRequest[r].code
<1>1. mailRequest[r].pc = "mail" /\ c \in Mail!Made /\ c \in Mail!Codes BY DEF Mail!MailSent, Mail!MailFails, MailInv, Mailing, Mail!Made
<1>2. /\ mailRequest' \in [Requests -> CodeRequest] /\ mailRequest'[r].pc = "idle"
      /\ \A q \in Requests : q # r => mailRequest'[q] = mailRequest[q]
  BY IdleIsRequest, AskWritten DEF MailInv, Mail!MailSent, Mail!MailFails
<1>3. UNCHANGED <<open, mailLock, history>> BY DEF Mail!MailSent, Mail!MailFails
<1>4. code \in [Mail!Codes -> MailCode] BY DEF MailInv, CodeTypes
<1>5. OneAsks' BY <1>2, <1>3 DEF MailInv, OneAsks
<1>6. CASE Mail!MailSent(r)
  <2>1. PICK x \in MailCode : x = code[c] BY <1>1, <1>4
  <2> DEFINE y == [x EXCEPT !.told = TRUE]
  <2>2. /\ y \in MailCode /\ y.consumed = x.consumed /\ y.version = x.version
        /\ y.made = x.made /\ y.attempts = x.attempts
    BY DEF MailCode
  <2>3. code' = [code EXCEPT ![c] = y] BY <1>6, <2>1 DEF Mail!MailSent
  <2> HIDE DEF y
  <2>4. /\ code' \in [Mail!Codes -> MailCode] /\ code'[c] = y /\ (\A d \in Mail!Codes \ {c} : code'[d] = code[d])
        /\ Mail!Made' = Mail!Made /\ InOrder' /\ Mail!OnlyTheNewest'
    BY <1>1, <2>1, <2>2, <2>3, RowKept
  <2>5. Mail!Unconsumed' = Mail!Unconsumed BY <2>1, <2>2, <2>4 DEF Mail!Unconsumed, Mail!Made
  <2>6. CodeTypes' BY <1>2, <1>3, <2>4 DEF MailInv, CodeTypes
  <2>7. Replacing' /\ Mailing' BY <1>2, <1>3, <2>4, <2>5 DEF MailInv, Replacing, Mailing
  <2>8. Comparing'
    <3> SUFFICES ASSUME NEW q \in Requests, mailRequest'[q].pc = "compare"
                 PROVE /\ mailRequest'[q].code \in Mail!Unconsumed' /\ mailLock'[mailRequest'[q].code] = q /\ Mail!Current(q)'
                       /\ code'[mailRequest'[q].code].attempts < MaxAttempts
      BY DEF Comparing
    <3>1. q # r /\ mailRequest'[q] = mailRequest[q] BY <1>2
    <3>2. /\ mailRequest[q].code \in Mail!Unconsumed /\ mailLock[mailRequest[q].code] = q /\ Mail!Current(q)
          /\ code[mailRequest[q].code].attempts < MaxAttempts /\ mailRequest[q].code \in Mail!Codes
      BY <3>1 DEF MailInv, Comparing, Mail!Unconsumed, Mail!Made
    <3> QED BY <3>1, <3>2, <1>3, <2>1, <2>2, <2>4, <2>5 DEF Mail!Current
  <2>9. CodeCounted' BY <1>3, <2>1, <2>2, <2>4 DEF MailInv, CodeCounted
  <2> QED BY <1>5, <2>4, <2>6, <2>7, <2>8, <2>9 DEF MailInv
<1>7. CASE Mail!MailFails(r)
  <2>1. mailLock[c] = None /\ code' = Mail!Consumed(c) BY <1>7 DEF Mail!MailFails
  <2>2. /\ code'[c].made = code[c].made /\ code'[c].attempts = code[c].attempts /\ code'[c].consumed
        /\ code' \in [Mail!Codes -> MailCode] /\ (\A d \in Mail!Codes \ {c} : code'[d] = code[d])
    BY <1>1, <2>1, CodeWritten DEF MailInv
  <2>3. Mail!Made' = Mail!Made /\ Mail!Unconsumed' \subseteq Mail!Unconsumed /\ InOrder' /\ Mail!OnlyTheNewest'
    BY <2>2, MadeStays DEF MailInv
  <2>4. CodeTypes' BY <1>2, <1>3, <2>2 DEF MailInv, CodeTypes
  <2>5. Replacing' /\ Mailing' BY <1>2, <1>3, <2>3 DEF MailInv, Replacing, Mailing
  <2>6. Comparing'
    <3> SUFFICES ASSUME NEW q \in Requests, mailRequest'[q].pc = "compare"
                 PROVE /\ mailRequest'[q].code \in Mail!Unconsumed' /\ mailLock'[mailRequest'[q].code] = q /\ Mail!Current(q)'
                       /\ code'[mailRequest'[q].code].attempts < MaxAttempts
      BY DEF Comparing
    <3>1. q # r /\ mailRequest'[q] = mailRequest[q] BY <1>2
    <3>2. /\ mailRequest[q].code \in Mail!Unconsumed /\ mailLock[mailRequest[q].code] = q /\ Mail!Current(q)
          /\ code[mailRequest[q].code].attempts < MaxAttempts /\ mailRequest[q].code \in Mail!Codes
      BY <3>1 DEF MailInv, Comparing, Mail!Unconsumed, Mail!Made
    <3>3. mailRequest[q].code # c BY <3>2, <2>1, Mail!CodesAssumption DEF Mail!CodesAssumption
    <3>4. mailRequest[q].code \in Mail!Unconsumed' BY <3>2, <3>3, <2>2, <2>3 DEF Mail!Unconsumed, Mail!Made
    <3> QED BY <3>1, <3>2, <3>3, <3>4, <1>3, <2>2 DEF Mail!Current
  <2>7. CodeCounted' BY <1>3, <2>2 DEF MailInv, CodeCounted
  <2> QED BY <1>5, <2>3, <2>4, <2>5, <2>6, <2>7 DEF MailInv
<1> QED BY <1>6, <1>7

LEMMA MailTry ==
  ASSUME Mail!CodesAssumption, MailInv, NEW r \in Requests, NEW c \in Mail!Codes, Mail!Try(r, c)
  PROVE  MailInv'
<1>1. /\ mailRequest[r].pc = "idle" /\ c \in Mail!Unconsumed /\ mailLock[c] = None /\ UNCHANGED <<open, history>>
  BY DEF Mail!Try
<1>2. code \in [Mail!Codes -> MailCode] BY DEF MailInv, CodeTypes
<1>3. CASE code[c].expired
  <2>1. code' = Mail!Consumed(c) /\ UNCHANGED <<mailRequest, mailLock>> BY <1>3 DEF Mail!Try
  <2>2. /\ code'[c].made = code[c].made /\ code'[c].attempts = code[c].attempts /\ code'[c].consumed
        /\ code' \in [Mail!Codes -> MailCode] /\ (\A d \in Mail!Codes \ {c} : code'[d] = code[d])
    BY <2>1, CodeWritten DEF MailInv
  <2>3. Mail!Made' = Mail!Made /\ Mail!Unconsumed' \subseteq Mail!Unconsumed /\ InOrder' /\ Mail!OnlyTheNewest'
    BY <2>2, MadeStays DEF MailInv
  <2>4. CodeTypes' BY <1>1, <2>1, <2>2 DEF MailInv, CodeTypes
  <2>5. OneAsks' /\ Replacing' /\ Mailing'
    BY <1>1, <2>1, <2>3 DEF MailInv, OneAsks, Replacing, Mailing
  <2>6. Comparing'
    <3> SUFFICES ASSUME NEW q \in Requests, mailRequest'[q].pc = "compare"
                 PROVE /\ mailRequest'[q].code \in Mail!Unconsumed' /\ mailLock'[mailRequest'[q].code] = q /\ Mail!Current(q)'
                       /\ code'[mailRequest'[q].code].attempts < MaxAttempts
      BY DEF Comparing
    <3>2. /\ mailRequest[q].code \in Mail!Unconsumed /\ mailLock[mailRequest[q].code] = q /\ Mail!Current(q)
          /\ code[mailRequest[q].code].attempts < MaxAttempts /\ mailRequest[q].code \in Mail!Codes
      BY <2>1 DEF MailInv, Comparing, Mail!Unconsumed, Mail!Made
    <3>3. mailRequest[q].code # c BY <3>2, <1>1, Mail!CodesAssumption DEF Mail!CodesAssumption
    <3>4. mailRequest[q].code \in Mail!Unconsumed' BY <3>2, <3>3, <2>2, <2>3 DEF Mail!Unconsumed, Mail!Made
    <3> QED BY <3>2, <3>3, <3>4, <2>1, <2>2 DEF Mail!Current
  <2>7. CodeCounted' BY <1>1, <2>2 DEF MailInv, CodeCounted
  <2> QED BY <2>3, <2>4, <2>5, <2>6, <2>7 DEF MailInv
<1>4. CASE ~code[c].expired
  <2> DEFINE x == [Mail!Idle EXCEPT !.pc = "compare", !.code = c, !.version = code[c].version]
  <2>1. x \in CodeRequest /\ x.pc = "compare" /\ x.code = c /\ x.version = code[c].version
    <3>1. PICK v \in Nat : v = code[c].version BY <1>2 DEF MailCode
    <3>2. x = [Mail!Idle EXCEPT !.pc = "compare", !.code = c, !.version = v] BY <3>1
    <3>3. c \in Nat BY DEF Mail!Codes
    <3> QED BY <3>1, <3>2, <3>3 DEF Mail!Idle, CodeRequest, Mail!Codes
  <2>2. mailRequest' = [mailRequest EXCEPT ![r] = x] BY <1>4 DEF Mail!Try
  <2> HIDE DEF x
  <2>3. /\ mailRequest' \in [Requests -> CodeRequest] /\ mailRequest'[r] = x
        /\ \A q \in Requests : q # r => mailRequest'[q] = mailRequest[q]
    BY <2>1, <2>2, AskWritten DEF MailInv
  <2>4. UNCHANGED code /\ mailLock' = [mailLock EXCEPT ![c] = r] /\ code[c].attempts < MaxAttempts
    BY <1>4 DEF Mail!Try
  <2>5. /\ mailLock' \in [Mail!Codes -> Requests \cup {None}] /\ mailLock'[c] = r
        /\ \A d \in Mail!Codes \ {c} : mailLock'[d] = mailLock[d]
    BY <2>4 DEF MailInv, CodeTypes
  <2>6. Mail!Made' = Mail!Made /\ Mail!Unconsumed' = Mail!Unconsumed BY <2>4 DEF Mail!Made, Mail!Unconsumed
  <2>7. CodeTypes' BY <1>1, <2>3, <2>4, <2>5 DEF MailInv, CodeTypes
  <2>8. OneAsks' BY <1>1, <2>1, <2>3 DEF MailInv, OneAsks
  <2>9. Replacing'
    <3> SUFFICES ASSUME NEW q \in Requests, mailRequest'[q].pc = "insert"
                 PROVE Mail!Unconsumed' \subseteq mailRequest'[q].replaced /\ mailRequest'[q].replaced \subseteq Mail!Made' /\
                       \A d \in mailRequest'[q].replaced : mailLock'[d] = q
      BY DEF Replacing
    <3>1. q # r /\ mailRequest'[q] = mailRequest[q] BY <2>1, <2>3
    <3>2. Mail!Unconsumed \subseteq mailRequest[q].replaced /\ mailRequest[q].replaced \subseteq Mail!Made /\
          \A d \in mailRequest[q].replaced : mailLock[d] = q
      BY <3>1 DEF MailInv, Replacing
    <3>3. FALSE BY <3>2, <1>1, Mail!CodesAssumption DEF Mail!CodesAssumption
    <3> QED BY <3>3
  <2>10. Comparing'
    <3> SUFFICES ASSUME NEW q \in Requests, mailRequest'[q].pc = "compare"
                 PROVE /\ mailRequest'[q].code \in Mail!Unconsumed' /\ mailLock'[mailRequest'[q].code] = q /\ Mail!Current(q)'
                       /\ code'[mailRequest'[q].code].attempts < MaxAttempts
      BY DEF Comparing
    <3>1. CASE q = r BY <3>1, <2>1, <2>3, <2>4, <2>5, <2>6, <1>1 DEF Mail!Current
    <3>2. CASE q # r
      <4>1. mailRequest'[q] = mailRequest[q] BY <3>2, <2>3
      <4>2. /\ mailRequest[q].code \in Mail!Unconsumed /\ mailLock[mailRequest[q].code] = q /\ Mail!Current(q)
            /\ code[mailRequest[q].code].attempts < MaxAttempts /\ mailRequest[q].code \in Mail!Codes
        BY <4>1 DEF MailInv, Comparing, Mail!Unconsumed, Mail!Made
      <4>3. mailRequest[q].code # c BY <4>2, <1>1, Mail!CodesAssumption DEF Mail!CodesAssumption
      <4> QED BY <4>1, <4>2, <4>3, <2>4, <2>5, <2>6 DEF Mail!Current
    <3> QED BY <3>1, <3>2
  <2>11. Mailing' BY <2>1, <2>3, <2>6 DEF MailInv, Mailing
  <2>12. InOrder' /\ CodeCounted' /\ Mail!OnlyTheNewest'
    BY <1>1, <2>4, <2>6 DEF MailInv, InOrder, CodeCounted, Mail!OnlyTheNewest
  <2> QED BY <2>7, <2>8, <2>9, <2>10, <2>11, <2>12 DEF MailInv
<1> QED BY <1>3, <1>4

\* A comparison ends: its row is written, by it alone.
LEMMA MailCompared ==
  ASSUME Mail!CodesAssumption, MailInv, NEW r \in Requests, Mail!Wrong(r) \/ Mail!Right(r)
  PROVE  MailInv'
<1> DEFINE c == mailRequest[r].code
<1>1. /\ mailRequest[r].pc = "compare" /\ c \in Mail!Unconsumed /\ c \in Mail!Codes /\ mailLock[c] = r /\ Mail!Current(r)
      /\ code[c].attempts < MaxAttempts /\ ~code[c].consumed
  BY DEF MailInv, Comparing, Mail!Wrong, Mail!Right, Mail!Unconsumed, Mail!Made
<1>2. /\ mailRequest' \in [Requests -> CodeRequest] /\ mailRequest'[r].pc = "idle"
      /\ \A q \in Requests : q # r => mailRequest'[q] = mailRequest[q]
  BY IdleIsRequest, AskWritten DEF MailInv, Mail!Wrong, Mail!Right
<1>3. UNCHANGED open /\ mailLock' = Mail!Unlocked(r) BY DEF Mail!Wrong, Mail!Right
<1>4. /\ mailLock' \in [Mail!Codes -> Requests \cup {None}]
      /\ \A d \in Mail!Codes : \A q \in Requests : q # r => (mailLock'[d] = q <=> mailLock[d] = q)
  BY <1>3, UnlockedLocks DEF MailInv
<1>5. code \in [Mail!Codes -> MailCode] /\ history \in [Mail!Codes -> [wrong : Nat, logins : Nat]] BY DEF MailInv, CodeTypes
<1>6. PICK x \in MailCode : x = code[c] BY <1>1, <1>5
<1>7. PICK h \in [wrong : Nat, logins : Nat] : h = history[c] BY <1>1, <1>5
<1>8. h.wrong = x.attempts /\ h.logins = 0 /\ x.attempts < MaxAttempts /\ ~x.consumed
  BY <1>1, <1>6, <1>7 DEF MailInv, CodeCounted
<1>9. \E y \in MailCode, g \in [wrong : Nat, logins : Nat] :
        /\ code' = [code EXCEPT ![c] = y] /\ history' = [history EXCEPT ![c] = g]
        /\ y.made = x.made /\ g.wrong = y.attempts /\ y.attempts <= MaxAttempts
        /\ (y.attempts = MaxAttempts => y.consumed) /\ g.logins <= 1 /\ (g.logins # 0 => y.consumed)
  <2>1. CASE Mail!Wrong(r)
    <3>1. PICK n \in Nat, v \in Nat : n = x.attempts + 1 /\ v = x.version + 1 BY DEF MailCode
    <3>2. PICK b \in BOOLEAN : b = (x.consumed \/ n >= MaxAttempts) OBVIOUS
    <3> DEFINE y == [x EXCEPT !.attempts = n, !.version = v, !.consumed = b]
               g == [h EXCEPT !.wrong = h.wrong + 1]
    <3>3. y \in MailCode /\ y.made = x.made /\ y.attempts = n /\ y.consumed = b BY <3>1 DEF MailCode
    <3>4. g \in [wrong : Nat, logins : Nat] /\ g.wrong = h.wrong + 1 /\ g.logins = h.logins OBVIOUS
    <3>5. code' = [code EXCEPT ![c] = y] BY <2>1, <1>1, <1>6, <3>1, <3>2 DEF Mail!Wrong
    <3>6. history' = [history EXCEPT ![c] = g] BY <2>1, <1>7 DEF Mail!Wrong
    <3> HIDE DEF y, g
    <3>7. /\ g.wrong = y.attempts /\ y.attempts <= MaxAttempts /\ g.logins <= 1 /\ g.logins = 0
          /\ (y.attempts = MaxAttempts => b)
      BY <3>1, <3>2, <3>3, <3>4, <1>8, Mail!CodesAssumption DEF Mail!CodesAssumption, MailCode
    <3> QED BY <3>3, <3>4, <3>5, <3>6, <3>7
  <2>2. CASE Mail!Right(r)
    <3>1. PICK v \in Nat : v = x.version + 1 BY DEF MailCode
    <3> DEFINE y == [x EXCEPT !.consumed = TRUE, !.version = v]
               g == [h EXCEPT !.logins = h.logins + 1]
    <3>3. y \in MailCode /\ y.made = x.made /\ y.attempts = x.attempts /\ y.consumed BY CodeSpent
    <3>4. g \in [wrong : Nat, logins : Nat] /\ g.wrong = h.wrong /\ g.logins = h.logins + 1 OBVIOUS
    <3>5. code' = [code EXCEPT ![c] = y] BY <2>2, <1>6, <3>1 DEF Mail!Right, Mail!Consumed
    <3>6. history' = [history EXCEPT ![c] = g] BY <2>2, <1>7 DEF Mail!Right
    <3> HIDE DEF y, g
    <3>7. g.wrong = y.attempts /\ y.attempts <= MaxAttempts /\ g.logins <= 1
      BY <3>3, <3>4, <1>8, Mail!CodesAssumption DEF Mail!CodesAssumption, MailCode
    <3> QED BY <3>3, <3>4, <3>5, <3>6, <3>7
  <2> QED BY <2>1, <2>2
<1>10. PICK y \in MailCode, g \in [wrong : Nat, logins : Nat] :
        /\ code' = [code EXCEPT ![c] = y] /\ history' = [history EXCEPT ![c] = g]
        /\ y.made = x.made /\ g.wrong = y.attempts /\ y.attempts <= MaxAttempts
        /\ (y.attempts = MaxAttempts => y.consumed) /\ g.logins <= 1 /\ (g.logins # 0 => y.consumed)
  BY <1>9
<1>11. /\ code' \in [Mail!Codes -> MailCode] /\ code'[c] = y /\ (\A d \in Mail!Codes \ {c} : code'[d] = code[d])
       /\ Mail!Made' = Mail!Made /\ Mail!Unconsumed' \subseteq Mail!Unconsumed /\ Mail!Unconsumed \ {c} \subseteq Mail!Unconsumed'
       /\ InOrder' /\ Mail!OnlyTheNewest'
  BY <1>1, <1>6, <1>10, RowKept
<1>12. /\ history' \in [Mail!Codes -> [wrong : Nat, logins : Nat]] /\ history'[c] = g
       /\ (\A d \in Mail!Codes \ {c} : history'[d] = history[d])
  BY <1>1, <1>5, <1>10
<1>13. CodeTypes' BY <1>2, <1>3, <1>4, <1>11, <1>12 DEF MailInv, CodeTypes
<1>14. OneAsks' BY <1>2, <1>3 DEF MailInv, OneAsks
<1>15. Replacing'
  <2> SUFFICES ASSUME NEW q \in Requests, mailRequest'[q].pc = "insert"
               PROVE Mail!Unconsumed' \subseteq mailRequest'[q].replaced /\ mailRequest'[q].replaced \subseteq Mail!Made' /\
                     \A d \in mailRequest'[q].replaced : mailLock'[d] = q
    BY DEF Replacing
  <2>1. q # r /\ mailRequest'[q] = mailRequest[q] BY <1>2
  <2>2. Mail!Unconsumed \subseteq mailRequest[q].replaced /\ mailRequest[q].replaced \subseteq Mail!Made /\
        \A d \in mailRequest[q].replaced : mailLock[d] = q
    BY <2>1 DEF MailInv, Replacing
  <2> QED BY <2>1, <2>2, <1>4, <1>11 DEF Mail!Made
<1>16. Comparing'
  <2> SUFFICES ASSUME NEW q \in Requests, mailRequest'[q].pc = "compare"
               PROVE /\ mailRequest'[q].code \in Mail!Unconsumed' /\ mailLock'[mailRequest'[q].code] = q /\ Mail!Current(q)'
                     /\ code'[mailRequest'[q].code].attempts < MaxAttempts
    BY DEF Comparing
  <2>1. q # r /\ mailRequest'[q] = mailRequest[q] BY <1>2
  <2>2. /\ mailRequest[q].code \in Mail!Unconsumed /\ mailLock[mailRequest[q].code] = q /\ Mail!Current(q)
        /\ code[mailRequest[q].code].attempts < MaxAttempts /\ mailRequest[q].code \in Mail!Codes
    BY <2>1 DEF MailInv, Comparing, Mail!Unconsumed, Mail!Made
  <2>3. mailRequest[q].code # c BY <2>1, <2>2, <1>1
  <2> QED BY <2>1, <2>2, <2>3, <1>4, <1>11 DEF Mail!Current
<1>17. Mailing' BY <1>2, <1>11 DEF MailInv, Mailing
<1>18. CodeCounted' BY <1>1, <1>10, <1>11, <1>12 DEF MailInv, CodeCounted
<1> QED BY <1>11, <1>13, <1>14, <1>15, <1>16, <1>17, <1>18 DEF MailInv

LEMMA MailStep == ASSUME Mail!CodesAssumption PROVE MailInv /\ [Mail!Next]_mailVars => MailInv'
<1> SUFFICES ASSUME MailInv, [Mail!Next]_mailVars PROVE MailInv' OBVIOUS
<1>1. CASE UNCHANGED mailVars
  <2>1. UNCHANGED <<code, open, mailRequest, mailLock, history>> BY <1>1 DEF mailVars
  <2>2. Mail!Made' = Mail!Made /\ Mail!Unconsumed' = Mail!Unconsumed BY <2>1 DEF Mail!Made, Mail!Unconsumed
  <2> QED BY <2>1, <2>2 DEF MailInv, CodeTypes, InOrder, OneAsks, Replacing, Comparing, Mailing, CodeCounted,
                            Mail!OnlyTheNewest, Mail!Current
<1>2. CASE Mail!WindowEnds \/ \E c \in Mail!Codes : Mail!Expires(c) BY <1>2, MailClock
<1>3. ASSUME NEW r \in Requests, Mail!Pass(r) \/ Mail!Replace(r) \/ Mail!Insert(r) \/ Mail!MailSent(r) \/ Mail!MailFails(r)
      PROVE MailInv'
  BY <1>3, MailPass, MailReplace, MailInsert, MailAnswered
<1>4. ASSUME NEW r \in Requests, NEW c \in Mail!Codes, Mail!Try(r, c) PROVE MailInv' BY <1>4, MailTry
<1>5. ASSUME NEW r \in Requests, Mail!Wrong(r) \/ Mail!Right(r) \/ Mail!RollBack(r) PROVE MailInv'
  BY <1>5, MailCompared, MailRollBack
<1> QED BY <1>1, <1>2, <1>3, <1>4, <1>5 DEF Mail!Next

LEMMA MailPromises ==
  ASSUME Mail!CodesAssumption PROVE MailInv => Mail!OnlyTheNewest /\ Mail!GuessesAreCounted /\ Mail!CodeLetsInOnce
<1> SUFFICES ASSUME MailInv PROVE Mail!OnlyTheNewest /\ Mail!GuessesAreCounted /\ Mail!CodeLetsInOnce OBVIOUS
<1>1. Mail!GuessesAreCounted BY DEF MailInv, CodeCounted, Mail!GuessesAreCounted
<1>2. Mail!CodeLetsInOnce BY DEF MailInv, CodeCounted, Mail!CodeLetsInOnce
<1> QED BY <1>1, <1>2 DEF MailInv

\* A code is told once it is made; who holds a row writes it, or compares with it.
MailKept ==
  /\ \A c \in Mail!Codes : code[c].told => code[c].made
  /\ \A c \in Mail!Codes : mailLock[c] # None => mailRequest[mailLock[c]].pc \in {"insert", "compare"}

LEMMA MailTyped == ASSUME Mail!CodesAssumption, MailInv, MailKept PROVE Mail!CodesTypeOK
<1>1. \A c \in Mail!Codes : code[c].attempts \in 0..MaxAttempts
  BY Mail!CodesAssumption DEF MailInv, CodeTypes, CodeCounted, MailCode, Mail!CodesAssumption
<1>2. \A r \in Requests : mailRequest[r].pc = "compare" => mailLock[mailRequest[r].code] = r
  BY DEF MailInv, Comparing
<1> QED BY <1>1, <1>2 DEF MailKept, Mail!CodesTypeOK

LEMMA MailKeptInit == Mail!Init => MailKept
BY DEF Mail!Init, MailKept, Mail!NoCode

\* Where no code is told and what was made stays so.
LEMMA ToldStays ==
  ASSUME MailKept, \A c \in Mail!Codes : code'[c].told = code[c].told /\ (code[c].made => code'[c].made)
  PROVE  \A c \in Mail!Codes : code'[c].told => code'[c].made
BY DEF MailKept

\* A request goes on, and holds what it held, or ends and holds nothing.
LEMMA MailLocks ==
  ASSUME Mail!CodesAssumption, MailInv, MailKept, NEW r \in Requests, NEW x, mailRequest' = [mailRequest EXCEPT ![r] = x],
         \A c \in Mail!Codes : mailLock'[c] \in {None, mailLock[c], r},
         x.pc \in {"insert", "compare"} \/ \A c \in Mail!Codes : mailLock'[c] # r
  PROVE  \A c \in Mail!Codes : mailLock'[c] # None => mailRequest'[mailLock'[c]].pc \in {"insert", "compare"}
<1> SUFFICES ASSUME NEW c \in Mail!Codes, mailLock'[c] # None
             PROVE mailRequest'[mailLock'[c]].pc \in {"insert", "compare"}
  OBVIOUS
<1>1. DOMAIN mailRequest = Requests /\ mailLock[c] \in Requests \cup {None} BY DEF MailInv, CodeTypes
<1>2. CASE mailLock'[c] = r BY <1>1, <1>2
<1>3. CASE mailLock'[c] # r
  <2>1. mailLock'[c] = mailLock[c] /\ mailLock[c] \in Requests BY <1>1, <1>3
  <2>2. mailRequest'[mailLock[c]] = mailRequest[mailLock[c]] BY <1>1, <1>3, <2>1
  <2> QED BY <2>1, <2>2 DEF MailKept
<1> QED BY <1>2, <1>3

LEMMA MailKeptNext == ASSUME Mail!CodesAssumption, MailInv, MailKept, [Mail!Next]_mailVars PROVE MailKept'
<1>a. /\ code \in [Mail!Codes -> MailCode] /\ DOMAIN mailRequest = Requests
      /\ mailLock \in [Mail!Codes -> Requests \cup {None}] /\ None \notin Requests
  BY Mail!CodesAssumption DEF MailInv, CodeTypes, Mail!CodesAssumption
<1>i. Mail!Idle.pc = "idle" BY DEF Mail!Idle
<1>u. ASSUME NEW r \in Requests PROVE \A c \in Mail!Codes : Mail!Unlocked(r)[c] \in {None, mailLock[c]} /\ Mail!Unlocked(r)[c] # r
  BY <1>a DEF Mail!Unlocked
\* A request that holds no row when it begins or ends.
<1>n. ASSUME NEW r \in Requests, mailRequest[r].pc \in {"idle", "replace", "mail"} PROVE \A c \in Mail!Codes : mailLock[c] # r
  BY <1>a, <1>n DEF MailKept
<1>w. ASSUME NEW c \in Mail!Codes PROVE
        \A d \in Mail!Codes : Mail!Consumed(c)[d].told = code[d].told /\ Mail!Consumed(c)[d].made = code[d].made
  <2>1. PICK z : z = Mail!Consumed(c) OBVIOUS
  <2>2. /\ \A d \in Mail!Codes \ {c} : z[d] = code[d]
        /\ z[c].told = code[c].told /\ z[c].made = code[c].made
    BY <2>1, <1>w, CodeWritten DEF MailInv
  <2> QED BY <2>1, <2>2
<1>1. CASE Mail!WindowEnds \/ UNCHANGED mailVars
  BY <1>1 DEF Mail!WindowEnds, mailVars, MailKept
<1>2. ASSUME NEW c \in Mail!Codes, Mail!Expires(c) PROVE MailKept'
  <2>1. \A d \in Mail!Codes : code'[d].told = code[d].told /\ code'[d].made = code[d].made
    BY <1>2, <1>a DEF Mail!Expires, MailCode
  <2> QED BY <1>2, <2>1 DEF Mail!Expires, MailKept
<1>3. ASSUME NEW r \in Requests, Mail!Pass(r) PROVE MailKept'
  BY <1>3, <1>n, MailLocks DEF Mail!Pass, MailKept
<1>4. ASSUME NEW r \in Requests, Mail!Replace(r) PROVE MailKept'
  <2>1. PICK x : x = [Mail!Idle EXCEPT !.pc = "insert", !.replaced = Mail!Unconsumed] OBVIOUS
  <2>2. x.pc = "insert" BY <2>1 DEF Mail!Idle
  <2>3. mailRequest' = [mailRequest EXCEPT ![r] = x] /\ UNCHANGED code BY <1>4, <2>1 DEF Mail!Replace
  <2>4. \A c \in Mail!Codes : mailLock'[c] \in {None, mailLock[c], r} BY <1>4 DEF Mail!Replace
  <2> QED BY <2>2, <2>3, <2>4, MailLocks DEF MailKept
<1>5. ASSUME NEW r \in Requests, Mail!Insert(r) PROVE MailKept'
  <2>1. \A c \in Mail!Codes : code'[c].told = code[c].told /\ (code[c].made => code'[c].made)
    <3> TAKE c \in Mail!Codes
    <3>1. code[c] \in MailCode BY <1>a
    <3>2. \/ code'[c] = [code[c] EXCEPT !.consumed = TRUE] \/ code'[c] = [code[c] EXCEPT !.made = TRUE]
          \/ code'[c] = code[c]
      BY <1>5 DEF Mail!Insert
    <3> QED BY <3>1, <3>2 DEF MailCode
  <2>2. \A c \in Mail!Codes : code'[c].told => code'[c].made BY <2>1, ToldStays
  <2>3. PICK x : mailRequest' = [mailRequest EXCEPT ![r] = x] BY <1>5 DEF Mail!Insert
  <2>4. mailLock' = Mail!Unlocked(r) BY <1>5 DEF Mail!Insert
  <2> QED BY <1>u, <2>2, <2>3, <2>4, MailLocks DEF MailKept
<1>6. ASSUME NEW r \in Requests, Mail!MailSent(r) PROVE MailKept'
  <2>1. PICK c : c = mailRequest[r].code OBVIOUS
  <2>2. c \in Mail!Codes /\ code[c].made BY <1>6, <2>1 DEF Mail!MailSent, MailInv, Mailing, Mail!Made
  <2>3. /\ \A d \in Mail!Codes : d # c => code'[d] = code[d]
        /\ code'[c].made = code[c].made
    BY <1>6, <1>a, <2>1, <2>2 DEF Mail!MailSent, MailCode
  <2>4. \A d \in Mail!Codes : code'[d].told => code'[d].made BY <2>2, <2>3 DEF MailKept
  <2> QED BY <1>6, <1>n, <2>4, MailLocks DEF Mail!MailSent, MailKept
<1>7. ASSUME NEW r \in Requests, Mail!MailFails(r) PROVE MailKept'
  <2>1. mailRequest[r].code \in Mail!Codes /\ code' = Mail!Consumed(mailRequest[r].code)
    BY <1>7 DEF Mail!MailFails, MailInv, Mailing, Mail!Made
  <2>2. \A d \in Mail!Codes : code'[d].told => code'[d].made BY <1>w, <2>1, ToldStays
  <2> QED BY <1>7, <1>n, <2>2, MailLocks DEF Mail!MailFails, MailKept
<1>8. ASSUME NEW r \in Requests, NEW c \in Mail!Codes, Mail!Try(r, c) PROVE MailKept'
  <2>1. CASE code[c].expired
    <3>1. code' = Mail!Consumed(c) /\ UNCHANGED <<mailRequest, mailLock>> BY <1>8, <2>1 DEF Mail!Try
    <3>2. \A d \in Mail!Codes : code'[d].told => code'[d].made BY <1>w, <3>1, ToldStays
    <3> QED BY <3>1, <3>2 DEF MailKept
  <2>2. CASE ~code[c].expired
    <3>1. PICK x : x = [Mail!Idle EXCEPT !.pc = "compare", !.code = c, !.version = code[c].version] OBVIOUS
    <3>2. x.pc = "compare" BY <3>1 DEF Mail!Idle
    <3>3. /\ mailRequest' = [mailRequest EXCEPT ![r] = x] /\ mailLock' = [mailLock EXCEPT ![c] = r] /\ UNCHANGED code
      BY <1>8, <2>2, <3>1 DEF Mail!Try
    <3>4. \A d \in Mail!Codes : mailLock'[d] \in {None, mailLock[d], r} BY <1>a, <3>3
    <3> QED BY <3>2, <3>3, <3>4, MailLocks DEF MailKept
  <2> QED BY <2>1, <2>2
<1>9. ASSUME NEW r \in Requests, Mail!Wrong(r) \/ Mail!Right(r) \/ Mail!RollBack(r) PROVE MailKept'
  <2>1. mailRequest' = [mailRequest EXCEPT ![r] = Mail!Idle] /\ mailLock' = Mail!Unlocked(r)
    BY <1>9 DEF Mail!Wrong, Mail!Right, Mail!RollBack
  <2>2. \A d \in Mail!Codes : code'[d].told = code[d].told /\ code'[d].made = code[d].made
    <3>1. CASE UNCHANGED code BY <3>1
    <3>2. CASE Mail!Right(r)
      <4>1. mailRequest[r].code \in Mail!Codes /\ code' = Mail!Consumed(mailRequest[r].code)
        BY <3>2 DEF Mail!Right, MailInv, Comparing, Mail!Unconsumed, Mail!Made
      <4> QED BY <1>w, <4>1
    <3>3. CASE Mail!Wrong(r) /\ ~UNCHANGED code
      <4>1. PICK c \in Mail!Codes : c = mailRequest[r].code
        BY <3>3 DEF Mail!Wrong, MailInv, Comparing, Mail!Unconsumed, Mail!Made
      <4>2. PICK y : y = [code[c] EXCEPT !.attempts = code[c].attempts + 1, !.version = code[c].version + 1,
                            !.consumed = code[c].consumed \/ code[c].attempts + 1 >= MaxAttempts]
        OBVIOUS
      <4>3. code' = [code EXCEPT ![c] = y] BY <3>3, <4>1, <4>2 DEF Mail!Wrong
      <4>4. y.told = code[c].told /\ y.made = code[c].made BY <1>a, <4>2 DEF MailCode
      <4> QED BY <1>a, <4>3, <4>4
    <3> QED BY <1>9, <3>1, <3>2, <3>3 DEF Mail!RollBack
  <2>3. \A d \in Mail!Codes : code'[d].told => code'[d].made BY <2>2, ToldStays
  <2> QED BY <1>u, <2>1, <2>3, MailLocks DEF MailKept
<1> QED BY <1>1, <1>2, <1>3, <1>4, <1>5, <1>6, <1>7, <1>8, <1>9 DEF Mail!Next

---------------------------------------------------------------------------
(* The rate limits.                                                        *)

\* A request holds the rows it has counted itself in, in the order of the rules, and a row counts at
\* least those it let pass in its window.
\* The part's cardinality is that of the theorems about finite sets.
LEMMA LimitsCardinality == \A S : Limits!Cardinality(S) = Cardinality(S)
BY DEF Limits!Cardinality, Cardinality

Counter == [counter : Nat, until : Nat]
Counts == UNION {[S -> Counter] : S \in SUBSET Limits!Keys}
Counting == [pc : {"idle", "count"}, identity : Identities \cup {None}, at : Nat, left : Seq(Limits!Keys), counted : Counts]
LetPass == [n : Nat, identity : Identities, at : Nat, windows : SUBSET (Limits!Keys \X Nat)]

LimitTypes ==
  /\ now \in Nat /\ row \in [Limits!Keys -> Counter]
  /\ counting \in [Requests -> Counting]
  /\ counterLock \in [Limits!Keys -> Requests \cup {None}]
  /\ IsFiniteSet(passed) /\ passed \subseteq LetPass

\* What has been counted is a beginning of the rules, in their order.
AtStage(q) ==
  LET i == counting[q].identity
      counted == DOMAIN counting[q].counted
  IN /\ i \in Identities
     /\ \/ counting[q].left = <<i, "address", "global">> /\ counted = {}
        \/ counting[q].left = <<"address", "global">> /\ counted = {i}
        \/ counting[q].left = <<"global">> /\ counted = {i, "address"}
        \/ counting[q].left = <<>> /\ counted = {i, "address", "global"}

InStages ==
  \A q \in Requests :
    IF counting[q].pc = "count" THEN AtStage(q) ELSE DOMAIN counting[q].counted = {}

\* Who has counted itself in a row holds it, and knows what will be in it.
HoldsCounted ==
  \A q \in Requests, k \in Limits!Keys :
    /\ counterLock[k] = q <=> k \in DOMAIN counting[q].counted
    /\ k \in DOMAIN counting[q].counted => counting[q].counted[k] = Limits!Counted(q, k)

PassedIn(k, u) == {p \in passed : <<k, u>> \in p.windows}

\* A row counts at least those it let pass in its window; no later window has begun.
RowsCount ==
  \A k \in Limits!Keys :
    /\ row[k].counter <= Allowed[k] + 1
    /\ row[k].counter = 0 => row[k].until = 0
    /\ Cardinality(PassedIn(k, row[k].until)) <= row[k].counter
    /\ \A p \in passed, u \in Nat : <<k, u>> \in p.windows => u <= row[k].until

WithinLimit == \A k \in Limits!Keys, u \in Nat : Cardinality(PassedIn(k, u)) <= Allowed[k]

\* Where one is let pass at a time, its window is not over before a whole window has passed.
Spaced ==
  \A p \in passed : Allowed[p.identity] = 1 => p.at + Window[p.identity] <= row[p.identity].until

LimitsInv == LimitTypes /\ InStages /\ HoldsCounted /\ RowsCount /\ WithinLimit /\ Spaced /\ Limits!ResendsAreSpaced

LEMMA Emptiness == DOMAIN <<>> = {} /\ <<>> \in Counts
<1>1. DOMAIN <<>> = {} OBVIOUS
<1>2. <<>> \in [{} -> Counter] OBVIOUS
<1> QED BY <1>1, <1>2 DEF Counts

LEMMA IdleCounts == Limits!Idle \in Counting /\ Limits!Idle.pc = "idle" /\ DOMAIN Limits!Idle.counted = {}
<1>1. <<>> \in Seq(Limits!Keys) OBVIOUS
<1> QED BY <1>1, Emptiness DEF Limits!Idle, Counting

LEMMA LimitsInit == ASSUME Limits!LimitsAssumption PROVE Limits!Init => LimitsInv
<1> SUFFICES ASSUME Limits!Init PROVE LimitsInv OBVIOUS
<1>1. LimitTypes BY IdleCounts, FS_EmptySet DEF Limits!Init, LimitTypes, Counter, LetPass
<1>2. InStages BY IdleCounts DEF Limits!Init, InStages
<1>3. HoldsCounted BY IdleCounts, Limits!LimitsAssumption DEF Limits!Init, HoldsCounted, Limits!LimitsAssumption
<1>4. \A k \in Limits!Keys, u \in Nat : PassedIn(k, u) = {} BY DEF Limits!Init, PassedIn
<1>5. RowsCount
  <2>1. passed = {} /\ \A k \in Limits!Keys : row[k].counter = 0 /\ row[k].until = 0 BY DEF Limits!Init
  <2>2. \A k \in Limits!Keys : 0 <= Allowed[k] + 1 BY Limits!LimitsAssumption DEF Limits!LimitsAssumption
  <2>3. \A k \in Limits!Keys : Cardinality(PassedIn(k, row[k].until)) = 0 BY <1>4, <2>1, FS_EmptySet
  <2> QED BY <2>1, <2>2, <2>3 DEF RowsCount
<1>6. WithinLimit
  <2>1. \A k \in Limits!Keys, u \in Nat : Cardinality(PassedIn(k, u)) = 0 BY <1>4, FS_EmptySet
  <2>2. \A k \in Limits!Keys : 0 <= Allowed[k] BY Limits!LimitsAssumption DEF Limits!LimitsAssumption
  <2> QED BY <2>1, <2>2 DEF WithinLimit
<1>7. Spaced /\ Limits!ResendsAreSpaced BY DEF Limits!Init, Spaced, Limits!ResendsAreSpaced
<1> QED BY <1>1, <1>2, <1>3, <1>5, <1>6, <1>7 DEF LimitsInv

LEMMA LimitsArrive ==
  ASSUME Limits!LimitsAssumption, LimitsInv, NEW q \in Requests, NEW i \in Identities, Limits!Arrive(q, i)
  PROVE  LimitsInv'
<1> DEFINE x == [Limits!Idle EXCEPT !.pc = "count", !.identity = i, !.at = now, !.left = Limits!Rules(i)]
<1>1. /\ x.pc = "count" /\ x.identity = i /\ x.left = <<i, "address", "global">> /\ x.counted = <<>>
      /\ x \in Counting
  <2>1. <<i, "address", "global">> \in Seq(Limits!Keys) BY DEF Limits!Keys
  <2>2. now \in Nat BY DEF LimitsInv, LimitTypes
  <2> QED BY <2>1, <2>2, Emptiness DEF Limits!Idle, Counting, Limits!Rules
<1>2. counting' = [counting EXCEPT ![q] = x] /\ UNCHANGED <<now, row, counterLock, passed>> /\ counting[q].pc = "idle"
  BY DEF Limits!Arrive
<1> HIDE DEF x
<1>3. counting \in [Requests -> Counting] BY DEF LimitsInv, LimitTypes
<1>4. counting' \in [Requests -> Counting] /\ counting'[q] = x /\ \A r \in Requests : r # q => counting'[r] = counting[r]
  BY <1>1, <1>2, <1>3
<1>5. LimitTypes' BY <1>2, <1>4 DEF LimitsInv, LimitTypes
<1>6. DOMAIN x.counted = {} /\ DOMAIN counting[q].counted = {} BY <1>1, <1>2, Emptiness DEF LimitsInv, InStages
<1>7. InStages'
  <2>1. ASSUME NEW r \in Requests, r # q
        PROVE IF counting'[r].pc = "count" THEN AtStage(r)' ELSE DOMAIN counting'[r].counted = {}
    BY <1>4, <2>1 DEF LimitsInv, InStages, AtStage
  <2>2. AtStage(q)' BY <1>1, <1>4, <1>6 DEF AtStage
  <2> QED BY <2>1, <2>2, <1>1, <1>4 DEF InStages
<1>8. HoldsCounted'
  <2> SUFFICES ASSUME NEW r \in Requests, NEW k \in Limits!Keys
               PROVE /\ counterLock'[k] = r <=> k \in DOMAIN counting'[r].counted
                     /\ k \in DOMAIN counting'[r].counted => counting'[r].counted[k] = Limits!Counted(r, k)'
    BY DEF HoldsCounted
  <2>1. CASE r = q BY <2>1, <1>2, <1>4, <1>6 DEF LimitsInv, HoldsCounted
  <2>2. CASE r # q BY <2>2, <1>2, <1>4 DEF LimitsInv, HoldsCounted, Limits!Counted, Limits!PlusOne
  <2> QED BY <2>1, <2>2
<1>9. RowsCount' /\ WithinLimit' /\ Spaced' /\ Limits!ResendsAreSpaced'
  BY <1>2 DEF LimitsInv, RowsCount, WithinLimit, Spaced, Limits!ResendsAreSpaced, PassedIn
<1> QED BY <1>5, <1>7, <1>8, <1>9 DEF LimitsInv

\* Whoever ends gives its rows back.
LEMMA EndsGivesBack ==
  ASSUME Limits!LimitsAssumption, LimitsInv, NEW q \in Requests, Limits!Ends(q)
  PROVE  /\ counting' \in [Requests -> Counting] /\ counterLock' \in [Limits!Keys -> Requests \cup {None}]
         /\ counting'[q].pc = "idle" /\ DOMAIN counting'[q].counted = {}
         /\ \A r \in Requests : r # q => counting'[r] = counting[r]
         /\ \A k \in Limits!Keys : counterLock'[k] # q /\ \A r \in Requests : r # q => (counterLock'[k] = r <=> counterLock[k] = r)
         /\ InStages'
<1>1. counting \in [Requests -> Counting] /\ counterLock \in [Limits!Keys -> Requests \cup {None}] BY DEF LimitsInv, LimitTypes
<1>2. /\ counting' = [counting EXCEPT ![q] = Limits!Idle]
      /\ counterLock' = [k \in Limits!Keys |-> IF counterLock[k] = q THEN None ELSE counterLock[k]]
  BY DEF Limits!Ends
<1>3. /\ counting' \in [Requests -> Counting] /\ counting'[q] = Limits!Idle
      /\ \A r \in Requests : r # q => counting'[r] = counting[r]
  BY <1>1, <1>2, IdleCounts
<1>4. /\ counterLock' \in [Limits!Keys -> Requests \cup {None}]
      /\ \A k \in Limits!Keys : counterLock'[k] # q /\ \A r \in Requests : r # q => (counterLock'[k] = r <=> counterLock[k] = r)
  BY <1>1, <1>2, Limits!LimitsAssumption DEF Limits!LimitsAssumption
<1>5. InStages'
  <2> SUFFICES ASSUME NEW r \in Requests
               PROVE IF counting'[r].pc = "count" THEN AtStage(r)' ELSE DOMAIN counting'[r].counted = {}
    BY DEF InStages
  <2>1. CASE r = q BY <2>1, <1>3, IdleCounts
  <2>2. CASE r # q BY <2>2, <1>3 DEF LimitsInv, InStages, AtStage
  <2> QED BY <2>1, <2>2
<1> QED BY <1>3, <1>4, <1>5, IdleCounts

LEMMA LimitsDie ==
  ASSUME Limits!LimitsAssumption, LimitsInv, NEW q \in Requests, Limits!Die(q)
  PROVE  LimitsInv'
<1>1. Limits!Ends(q) /\ UNCHANGED <<now, row, passed>> BY DEF Limits!Die
<1>2. LimitTypes' BY <1>1, EndsGivesBack DEF LimitsInv, LimitTypes
<1>3. InStages' BY <1>1, EndsGivesBack
<1>4. HoldsCounted'
  <2> SUFFICES ASSUME NEW r \in Requests, NEW k \in Limits!Keys
               PROVE /\ counterLock'[k] = r <=> k \in DOMAIN counting'[r].counted
                     /\ k \in DOMAIN counting'[r].counted => counting'[r].counted[k] = Limits!Counted(r, k)'
    BY DEF HoldsCounted
  <2>1. CASE r = q BY <2>1, <1>1, EndsGivesBack
  <2>2. CASE r # q
    <3>1. counting'[r] = counting[r] /\ (counterLock'[k] = r <=> counterLock[k] = r) BY <2>2, <1>1, EndsGivesBack
    <3> QED BY <3>1, <1>1 DEF LimitsInv, HoldsCounted, Limits!Counted, Limits!PlusOne
  <2> QED BY <2>1, <2>2
<1>5. RowsCount' /\ WithinLimit' /\ Spaced' /\ Limits!ResendsAreSpaced'
  BY <1>1 DEF LimitsInv, RowsCount, WithinLimit, Spaced, Limits!ResendsAreSpaced, PassedIn
<1> QED BY <1>2, <1>3, <1>4, <1>5 DEF LimitsInv

LEMMA LimitsTick ==
  ASSUME Limits!LimitsAssumption, LimitsInv, Limits!Tick PROVE LimitsInv'
<1>1. UNCHANGED <<row, counting, counterLock, passed>> /\ now' \in Nat BY DEF Limits!Tick, LimitsInv, LimitTypes
<1>2. LimitTypes' BY <1>1 DEF LimitsInv, LimitTypes
<1>3. InStages' BY <1>1 DEF LimitsInv, InStages, AtStage
<1>4. HoldsCounted' BY <1>1 DEF LimitsInv, HoldsCounted, Limits!Counted, Limits!PlusOne
<1>5. RowsCount' BY <1>1 DEF LimitsInv, RowsCount, PassedIn
<1>6. WithinLimit' BY <1>1 DEF LimitsInv, WithinLimit, PassedIn
<1>7. Spaced' /\ Limits!ResendsAreSpaced' BY <1>1 DEF LimitsInv, Spaced, Limits!ResendsAreSpaced
<1> QED BY <1>2, <1>3, <1>4, <1>5, <1>6, <1>7 DEF LimitsInv

\* What the upsert makes of a row.
LEMMA CountedRow ==
  ASSUME Limits!LimitsAssumption, LimitTypes, NEW q \in Requests, NEW k \in Limits!Keys
  PROVE  /\ Limits!Counted(q, k) \in Counter
         /\ row[k].counter \in Nat /\ row[k].until \in Nat /\ counting[q].at \in Nat
         /\ Window[k] \in Nat \ {0} /\ Allowed[k] \in Nat \ {0}
         /\ \/ /\ row[k].until <= counting[q].at
               /\ Limits!Counted(q, k).counter = 1 /\ Limits!Counted(q, k).until = counting[q].at + Window[k]
            \/ /\ row[k].until > counting[q].at /\ Limits!Counted(q, k).until = row[k].until
               /\ Limits!Counted(q, k).counter = IF row[k].counter > Allowed[k] THEN row[k].counter ELSE row[k].counter + 1
<1>1. PICK x \in Counter : x = row[k] BY DEF LimitTypes
<1>2. PICK n \in Nat : n = counting[q].at BY DEF LimitTypes, Counting
<1>3. PICK w \in Nat \ {0} : w = Window[k] BY DEF Limits!LimitsAssumption
<1>4. PICK l \in Nat \ {0} : l = Allowed[k] BY DEF Limits!LimitsAssumption
<1>5. x.counter \in Nat /\ x.until \in Nat BY DEF Counter
<1>6. PICK m \in Nat : m = IF x.counter > l THEN x.counter ELSE x.counter + 1 BY <1>5
<1>7. CASE x.until <= n
  <2>1. Limits!Counted(q, k) = [counter |-> 1, until |-> n + w] BY <1>1, <1>2, <1>3, <1>7 DEF Limits!Counted
  <2> QED BY <2>1, <1>1, <1>2, <1>3, <1>4, <1>5, <1>7 DEF Counter
<1>8. CASE ~(x.until <= n)
  <2>1. Limits!Counted(q, k) = [x EXCEPT !.counter = m] BY <1>1, <1>2, <1>4, <1>6, <1>8 DEF Limits!Counted, Limits!PlusOne
  <2>2. x.until > n BY <1>5, <1>8
  <2> QED BY <2>1, <2>2, <1>1, <1>2, <1>3, <1>4, <1>5, <1>6 DEF Counter
<1> QED BY <1>7, <1>8

\* A count added to the others.
LEMMA PutCount ==
  ASSUME NEW f \in Counts, NEW k \in Limits!Keys, NEW v \in Counter
  PROVE  /\ Limits!Put(f, k, v) \in Counts /\ DOMAIN Limits!Put(f, k, v) = DOMAIN f \cup {k} /\ Limits!Put(f, k, v)[k] = v
         /\ \A j \in DOMAIN f : j # k => Limits!Put(f, k, v)[j] = f[j]
<1>1. PICK S \in SUBSET Limits!Keys : f \in [S -> Counter] BY DEF Counts
<1>2. Limits!Put(f, k, v) \in [S \cup {k} -> Counter] BY <1>1 DEF Limits!Put
<1>3. S \cup {k} \in SUBSET Limits!Keys OBVIOUS
<1> QED BY <1>1, <1>2, <1>3 DEF Limits!Put, Counts

LEMMA LimitsUpsert ==
  ASSUME Limits!LimitsAssumption, LimitsInv, NEW q \in Requests, Limits!Upsert(q)
  PROVE  LimitsInv'
<1> DEFINE k == Head(counting[q].left)
           i == counting[q].identity
<1>1. /\ counting[q].pc = "count" /\ counting[q].left # <<>> /\ counterLock[k] = None /\ counterLock' = [counterLock EXCEPT ![k] = q]
      /\ Limits!Count(q, k) /\ UNCHANGED <<now, row, passed>>
  BY DEF Limits!Upsert
<1>2. counting \in [Requests -> Counting] /\ counterLock \in [Limits!Keys -> Requests \cup {None}] BY DEF LimitsInv, LimitTypes
<1>3. AtStage(q) BY <1>1 DEF LimitsInv, InStages
<1>4. PICK x \in Counting : x = counting[q] BY <1>2
<1>5. PICK l \in Seq(Limits!Keys) :
        /\ l = Tail(x.left) /\ k \in Limits!Keys
        /\ \/ k = i /\ l = <<"address", "global">> /\ DOMAIN x.counted = {}
           \/ k = "address" /\ l = <<"global">> /\ DOMAIN x.counted = {i}
           \/ k = "global" /\ l = <<>> /\ DOMAIN x.counted = {i, "address"}
  <2>1. i \in Identities /\ x.left # <<>> BY <1>1, <1>3, <1>4 DEF AtStage
  <2>2. CASE x.left = <<i, "address", "global">> /\ DOMAIN x.counted = {}
    <3>1. k = i /\ Tail(x.left) = <<"address", "global">> BY <2>2, <1>4
    <3>2. <<"address", "global">> \in Seq(Limits!Keys) BY DEF Limits!Keys
    <3> QED BY <3>1, <3>2, <2>1, <2>2 DEF Limits!Keys
  <2>3. CASE x.left = <<"address", "global">> /\ DOMAIN x.counted = {i}
    <3>1. k = "address" /\ Tail(x.left) = <<"global">> BY <2>3, <1>4
    <3>2. <<"global">> \in Seq(Limits!Keys) BY DEF Limits!Keys
    <3> QED BY <3>1, <3>2, <2>1, <2>3 DEF Limits!Keys
  <2>4. CASE x.left = <<"global">> /\ DOMAIN x.counted = {i, "address"}
    <3>1. k = "global" /\ Tail(x.left) = <<>> BY <2>4, <1>4
    <3>2. <<>> \in Seq(Limits!Keys) OBVIOUS
    <3> QED BY <3>1, <3>2, <2>1, <2>4 DEF Limits!Keys
  <2> QED BY <1>3, <1>4, <2>1, <2>2, <2>3, <2>4 DEF AtStage
<1>6. PICK v \in Counter : v = Limits!Counted(q, k) BY <1>5, CountedRow DEF LimitsInv
<1>7. PICK g \in Counts : g = x.counted BY DEF Counting
<1> DEFINE f == Limits!Put(g, k, v)
<1>8. /\ f \in Counts /\ DOMAIN f = DOMAIN x.counted \cup {k} /\ f[k] = v
      /\ \A j \in DOMAIN x.counted : j # k => f[j] = x.counted[j]
  <2>1. PICK j \in Limits!Keys : j = k BY <1>5
  <2>2. /\ Limits!Put(g, j, v) \in Counts /\ DOMAIN Limits!Put(g, j, v) = DOMAIN g \cup {j} /\ Limits!Put(g, j, v)[j] = v
        /\ \A o \in DOMAIN g : o # j => Limits!Put(g, j, v)[o] = g[o]
    BY PutCount
  <2> QED BY <2>1, <2>2, <1>7
<1> HIDE DEF f
<1> DEFINE y == [x EXCEPT !.counted = f, !.left = l]
<1>9. /\ y \in Counting /\ y.counted = f /\ y.left = l /\ y.pc = x.pc /\ y.identity = x.identity /\ y.at = x.at
  <2>1. PICK h \in Counts : h = f BY <1>8
  <2>2. PICK z \in Seq(Limits!Keys) : z = l BY <1>5
  <2>3. PICK w \in Counting : w = x BY <1>4
  <2>4. /\ [w EXCEPT !.counted = h, !.left = z] \in Counting
        /\ [w EXCEPT !.counted = h, !.left = z].counted = h
        /\ [w EXCEPT !.counted = h, !.left = z].left = z
        /\ [w EXCEPT !.counted = h, !.left = z].pc = w.pc
        /\ [w EXCEPT !.counted = h, !.left = z].identity = w.identity
        /\ [w EXCEPT !.counted = h, !.left = z].at = w.at
    BY DEF Counting
  <2> QED BY <2>1, <2>2, <2>3, <2>4
<1>10. counting' = [counting EXCEPT ![q] = y] BY <1>1, <1>4, <1>5, <1>6, <1>7 DEF Limits!Count, f
<1> HIDE DEF y, k
<1>11. /\ counting' \in [Requests -> Counting] /\ counting'[q] = y
       /\ \A r \in Requests : r # q => counting'[r] = counting[r]
  BY <1>2, <1>9, <1>10
<1>12. /\ counterLock' \in [Limits!Keys -> Requests \cup {None}] /\ counterLock'[k] = q /\ \A j \in Limits!Keys : j # k => counterLock'[j] = counterLock[j]
  BY <1>1, <1>2, <1>5
<1>13. LimitTypes' BY <1>1, <1>11, <1>12 DEF LimitsInv, LimitTypes
<1>14. InStages'
  <2> SUFFICES ASSUME NEW r \in Requests
               PROVE IF counting'[r].pc = "count" THEN AtStage(r)' ELSE DOMAIN counting'[r].counted = {}
    BY DEF InStages
  <2>1. CASE r # q BY <2>1, <1>11 DEF LimitsInv, InStages, AtStage
  <2>2. CASE r = q
    <3>1. counting'[r].pc = "count" /\ i \in Identities /\ counting'[r].identity = i /\ counting'[r].left = l
          /\ DOMAIN counting'[r].counted = DOMAIN x.counted \cup {k}
      BY <2>2, <1>1, <1>3, <1>4, <1>8, <1>9, <1>11 DEF AtStage
    <3>2. AtStage(r)' BY <3>1, <1>5 DEF AtStage
    <3> QED BY <3>1, <3>2
  <2> QED BY <2>1, <2>2
<1>15. HoldsCounted'
  <2> SUFFICES ASSUME NEW r \in Requests, NEW j \in Limits!Keys
               PROVE /\ counterLock'[j] = r <=> j \in DOMAIN counting'[r].counted
                     /\ j \in DOMAIN counting'[r].counted => counting'[r].counted[j] = Limits!Counted(r, j)'
    BY DEF HoldsCounted
  <2>1. /\ counterLock[j] = r <=> j \in DOMAIN counting[r].counted
        /\ j \in DOMAIN counting[r].counted => counting[r].counted[j] = Limits!Counted(r, j)
    BY DEF LimitsInv, HoldsCounted
  <2>2. counting'[r].at = counting[r].at BY <1>4, <1>9, <1>11
  <2>3. Limits!Counted(r, j)' = Limits!Counted(r, j) BY <2>2, <1>1 DEF Limits!Counted, Limits!PlusOne
  <2>4. CASE r = q /\ j = k BY <2>3, <2>4, <1>6, <1>8, <1>9, <1>11, <1>12
  <2>5. CASE r = q /\ j # k BY <2>1, <2>3, <2>5, <1>4, <1>8, <1>9, <1>11, <1>12
  <2>6. CASE r # q
    <3>1. counting'[r] = counting[r] BY <2>6, <1>11
    <3>2. counterLock'[j] = r <=> counterLock[j] = r BY <2>6, <1>1, <1>12, Limits!LimitsAssumption DEF Limits!LimitsAssumption
    <3> QED BY <3>1, <3>2, <2>1, <2>3
  <2> QED BY <2>4, <2>5, <2>6
<1>16. RowsCount' /\ WithinLimit' /\ Spaced' /\ Limits!ResendsAreSpaced'
  BY <1>1 DEF LimitsInv, RowsCount, WithinLimit, Spaced, Limits!ResendsAreSpaced, PassedIn
<1> QED BY <1>13, <1>14, <1>15, <1>16 DEF LimitsInv

\* One more in a finite set.
LEMMA OneMore ==
  ASSUME NEW S, NEW T, NEW x, IsFiniteSet(S), T \subseteq S \cup {x}
  PROVE  IsFiniteSet(T) /\ Cardinality(T) \in Nat /\ Cardinality(S) \in Nat /\ Cardinality(T) <= Cardinality(S) + 1
<1>1. IsFiniteSet(S \cup {x}) /\ Cardinality(S \cup {x}) <= Cardinality(S) + 1 /\ Cardinality(S) \in Nat
  BY FS_AddElement, FS_CardinalityType
<1>2. IsFiniteSet(T) /\ Cardinality(T) <= Cardinality(S \cup {x}) BY <1>1, FS_Subset
<1>3. Cardinality(T) \in Nat /\ Cardinality(S \cup {x}) \in Nat BY <1>1, <1>2, FS_CardinalityType
<1> QED BY <1>1, <1>2, <1>3

LEMMA InFinite ==
  ASSUME LimitTypes, NEW k \in Limits!Keys, NEW u PROVE IsFiniteSet(PassedIn(k, u)) /\ Cardinality(PassedIn(k, u)) \in Nat
<1>1. PassedIn(k, u) \subseteq passed /\ IsFiniteSet(passed) BY DEF PassedIn, LimitTypes
<1>2. IsFiniteSet(PassedIn(k, u)) BY <1>1, FS_Subset
<1> QED BY <1>2, FS_CardinalityType

LEMMA LimitsCommit ==
  ASSUME Limits!LimitsAssumption, LimitsInv, NEW q \in Requests, Limits!Commit(q)
  PROVE  LimitsInv'
<1> DEFINE i == counting[q].identity
           at == counting[q].at
           D == {i, "address", "global"}
           p == [n |-> Cardinality(passed), identity |-> i, at |-> at,
                 windows |-> {<<k, counting[q].counted[k].until>> : k \in DOMAIN counting[q].counted}]
           After(k, u) == {x \in passed' : <<k, u>> \in x.windows}
<1>1. /\ counting[q].pc = "count" /\ counting[q].left = <<>> /\ Limits!Ends(q) /\ UNCHANGED now
      /\ row' = [k \in Limits!Keys |-> IF k \in DOMAIN counting[q].counted THEN counting[q].counted[k] ELSE row[k]]
      /\ passed' = IF Limits!Refused(q) THEN passed ELSE passed \cup {p}
  BY LimitsCardinality DEF Limits!Commit
<1>2. i \in Identities /\ i \in Limits!Keys /\ D \subseteq Limits!Keys /\ DOMAIN counting[q].counted = D
  BY <1>1 DEF LimitsInv, InStages, AtStage, Limits!Keys
<1>3. /\ counting' \in [Requests -> Counting] /\ counterLock' \in [Limits!Keys -> Requests \cup {None}]
      /\ counting'[q].pc = "idle" /\ DOMAIN counting'[q].counted = {}
      /\ \A r \in Requests : r # q => counting'[r] = counting[r]
      /\ \A k \in Limits!Keys : counterLock'[k] # q /\ \A r \in Requests : r # q => (counterLock'[k] = r <=> counterLock[k] = r)
      /\ InStages'
  BY <1>1, EndsGivesBack
<1>4. LimitTypes BY DEF LimitsInv
<1>5. at \in Nat /\ IsFiniteSet(passed) /\ passed \subseteq LetPass BY <1>2, <1>4, CountedRow DEF LimitTypes
<1>6. \A k \in D : counting[q].counted[k] = Limits!Counted(q, k) /\ counterLock[k] = q BY <1>2 DEF LimitsInv, HoldsCounted
<1>7. \A k \in Limits!Keys : row'[k] = IF k \in D THEN Limits!Counted(q, k) ELSE row[k] BY <1>1, <1>2, <1>6
<1>8. \A k \in Limits!Keys : Limits!Counted(q, k) \in Counter BY <1>4, CountedRow
<1>9. row' \in [Limits!Keys -> Counter]
  <2>1. row \in [Limits!Keys -> Counter] BY <1>4 DEF LimitTypes
  <2>2. \A k \in Limits!Keys : row'[k] \in Counter BY <2>1, <1>7, <1>8
  <2>3. row' = [k \in Limits!Keys |-> row'[k]] BY <1>1
  <2> QED BY <2>2, <2>3
<1>10. p \in LetPass /\ p.identity = i /\ p.at = at /\ \A k \in Limits!Keys, u \in Nat : <<k, u>> \in p.windows <=> k \in D /\ u = Limits!Counted(q, k).until
  <2>1. \A k \in Limits!Keys : Limits!Counted(q, k).until \in Nat BY <1>8 DEF Counter
  <2>2. p.windows = {<<k, Limits!Counted(q, k).until>> : k \in D} BY <1>2, <1>6
  <2>3. p.windows \subseteq Limits!Keys \X Nat BY <2>1, <2>2, <1>2
  <2>4. Cardinality(passed) \in Nat BY <1>5, FS_CardinalityType
  <2>5. p \in LetPass BY <2>3, <2>4, <1>2, <1>5 DEF LetPass
  <2>6. \A k \in Limits!Keys, u \in Nat : <<k, u>> \in p.windows <=> k \in D /\ u = Limits!Counted(q, k).until
    BY <2>2
  <2> QED BY <2>5, <2>6
<1> HIDE DEF p
<1>11. passed' \subseteq passed \cup {p} /\ IsFiniteSet(passed') /\ passed' \subseteq LetPass
  BY <1>1, <1>5, <1>10, FS_AddElement
<1>12. LimitTypes' BY <1>1, <1>3, <1>4, <1>9, <1>11 DEF LimitTypes
<1>13. HoldsCounted'
  <2> SUFFICES ASSUME NEW r \in Requests, NEW j \in Limits!Keys
               PROVE /\ counterLock'[j] = r <=> j \in DOMAIN counting'[r].counted
                     /\ j \in DOMAIN counting'[r].counted => counting'[r].counted[j] = Limits!Counted(r, j)'
    BY DEF HoldsCounted
  <2>1. CASE r = q BY <2>1, <1>3
  <2>2. CASE r # q
    <3>1. counting'[r] = counting[r] /\ (counterLock'[j] = r <=> counterLock[j] = r) BY <2>2, <1>3
    <3>2. /\ counterLock[j] = r <=> j \in DOMAIN counting[r].counted
          /\ j \in DOMAIN counting[r].counted => counting[r].counted[j] = Limits!Counted(r, j)
      BY DEF LimitsInv, HoldsCounted
    <3>3. ASSUME counterLock[j] = r PROVE Limits!Counted(r, j)' = Limits!Counted(r, j)
      <4>1. row'[j] = row[j] BY <3>3, <2>2, <1>6, <1>7
      <4> QED BY <4>1, <3>1 DEF Limits!Counted, Limits!PlusOne
    <3> QED BY <3>1, <3>2, <3>3
  <2> QED BY <2>1, <2>2
<1>14. \A k \in Limits!Keys, u \in Nat : After(k, u) \subseteq PassedIn(k, u) \cup {p}
  BY <1>11 DEF PassedIn
<1>24. Limits!Refused(q) => \A k \in Limits!Keys, u \in Nat : After(k, u) = PassedIn(k, u)
  BY <1>1 DEF PassedIn
<1>25. \A k \in Limits!Keys, u \in Nat : k \notin D \/ u # Limits!Counted(q, k).until => After(k, u) = PassedIn(k, u)
  <2> SUFFICES ASSUME NEW k \in Limits!Keys, NEW u \in Nat, k \notin D \/ u # Limits!Counted(q, k).until
               PROVE After(k, u) = PassedIn(k, u)
    OBVIOUS
  <2>1. <<k, u>> \notin p.windows BY <1>10
  <2> QED BY <2>1, <1>1 DEF PassedIn
<1> HIDE DEF After
<1>15. ~Limits!Refused(q) => \A k \in D : Limits!Counted(q, k).counter <= Allowed[k]
  <2> SUFFICES ASSUME ~Limits!Refused(q), NEW k \in D PROVE Limits!Counted(q, k).counter <= Allowed[k] OBVIOUS
  <2>1. ~(Limits!Counted(q, k).counter > Allowed[k]) BY <1>2, <1>6 DEF Limits!Refused
  <2>2. Limits!Counted(q, k).counter \in Nat /\ Allowed[k] \in Nat BY <1>2, <1>4, <1>8, CountedRow DEF Counter
  <2> QED BY <2>1, <2>2
<1>16. \A k \in D : row[k].until <= Limits!Counted(q, k).until /\ row[k].until \in Nat /\ Limits!Counted(q, k).until \in Nat
  <2> SUFFICES ASSUME NEW k \in D
               PROVE row[k].until <= Limits!Counted(q, k).until /\ row[k].until \in Nat /\ Limits!Counted(q, k).until \in Nat
    OBVIOUS
  <2> QED BY <1>2, <1>4, CountedRow DEF Counter
<1>17. \A k \in D : Cardinality(After(k, Limits!Counted(q, k).until)) <= Limits!Counted(q, k).counter
  <2> SUFFICES ASSUME NEW k \in D PROVE Cardinality(After(k, Limits!Counted(q, k).until)) <= Limits!Counted(q, k).counter OBVIOUS
  <2> DEFINE u == Limits!Counted(q, k).until
             S == PassedIn(k, u)
             T == After(k, u)
  <2>1. k \in Limits!Keys /\ u \in Nat BY <1>2, <1>16
  <2>2. T \subseteq S \cup {p} /\ (Limits!Refused(q) => T = S) BY <2>1, <1>14, <1>24
  <2>3. IsFiniteSet(S) BY <2>1, <1>4, InFinite
  <2> HIDE DEF S, T
  <2>8. T \subseteq S \cup {p} BY <2>2
  <2>9. S = PassedIn(k, u) /\ T = After(k, u) BY DEF S, T
  <2>4. Cardinality(T) \in Nat /\ Cardinality(S) \in Nat /\ Cardinality(T) <= Cardinality(S) + 1
    BY <2>3, <2>8, OneMore
  <2>5. CASE row[k].until <= at /\ Limits!Counted(q, k).counter = 1 /\ u = at + Window[k]
    <3>1. u > row[k].until BY <2>1, <2>5, <1>4, CountedRow
    <3>4. \A x \in passed, o \in Nat : <<k, o>> \in x.windows => o <= row[k].until
      BY <2>1 DEF LimitsInv, RowsCount
    <3>5. row[k].until \in Nat /\ ~(u <= row[k].until) BY <2>1, <3>1, <1>16
    <3>2. S = {} BY <2>1, <3>4, <3>5 DEF PassedIn, S
    <3>3. Cardinality(S) = 0 BY <3>2, FS_EmptySet
    <3> QED BY <3>3, <2>4, <2>5, <2>9
  <2>6. CASE /\ u = row[k].until
             /\ Limits!Counted(q, k).counter = IF row[k].counter > Allowed[k] THEN row[k].counter ELSE row[k].counter + 1
    <3>1. Cardinality(S) <= row[k].counter BY <2>1, <2>6, <2>9 DEF LimitsInv, RowsCount
    <3>2. row[k].counter \in Nat /\ Allowed[k] \in Nat BY <2>1, <1>4, CountedRow
    <3>3. CASE Limits!Refused(q) BY <3>1, <3>2, <3>3, <2>2, <2>4, <2>6, <2>9
    <3>4. CASE ~Limits!Refused(q)
      <4>1. Limits!Counted(q, k).counter <= Allowed[k] BY <3>4, <1>15
      <4>2. Limits!Counted(q, k).counter = row[k].counter + 1 BY <4>1, <3>2, <2>6
      <4> QED BY <4>2, <3>1, <3>2, <2>4, <2>9
    <3> QED BY <3>3, <3>4
  <2> HIDE DEF u
  <2>7. u = Limits!Counted(q, k).until BY DEF u
  <2> QED BY <2>1, <2>5, <2>6, <2>7, <1>4, CountedRow
<1>18. RowsCount'
  <2> SUFFICES ASSUME NEW k \in Limits!Keys
               PROVE /\ row'[k].counter <= Allowed[k] + 1
                     /\ row'[k].counter = 0 => row'[k].until = 0
                     /\ Cardinality(After(k, row'[k].until)) <= row'[k].counter
                     /\ \A x \in passed', u \in Nat : <<k, u>> \in x.windows => u <= row'[k].until
    BY DEF RowsCount, PassedIn, After
  <2>1. /\ row[k].counter <= Allowed[k] + 1
        /\ row[k].counter = 0 => row[k].until = 0
        /\ Cardinality(PassedIn(k, row[k].until)) <= row[k].counter
        /\ \A x \in passed, u \in Nat : <<k, u>> \in x.windows => u <= row[k].until
    BY DEF LimitsInv, RowsCount
  <2>2. row[k].until \in Nat /\ row[k].counter \in Nat /\ Allowed[k] \in Nat \ {0} BY <1>4, CountedRow
  <2>3. CASE k \notin D
    <3>1. row'[k] = row[k] BY <2>3, <1>7
    <3>2. After(k, row'[k].until) = PassedIn(k, row[k].until) BY <2>3, <2>2, <3>1, <1>25
    <3>3. \A x \in passed', u \in Nat : <<k, u>> \in x.windows => u <= row[k].until BY <2>1, <2>3, <1>10, <1>11
    <3> QED BY <2>1, <3>1, <3>2, <3>3
  <2>4. CASE k \in D
    <3>1. row'[k] = Limits!Counted(q, k) BY <2>4, <1>7
    <3>2. Limits!Counted(q, k).counter <= Allowed[k] + 1 /\ Limits!Counted(q, k).counter # 0
      BY <2>1, <2>2, <1>4, CountedRow
    <3>3. Cardinality(After(k, row'[k].until)) <= row'[k].counter BY <2>4, <3>1, <1>17
    <3>4. \A x \in passed', u \in Nat : <<k, u>> \in x.windows => u <= row'[k].until
      BY <2>1, <2>2, <2>4, <3>1, <1>10, <1>11, <1>16
    <3> QED BY <3>1, <3>2, <3>3, <3>4
  <2> QED BY <2>3, <2>4
<1>19. WithinLimit'
  <2> SUFFICES ASSUME NEW k \in Limits!Keys, NEW u \in Nat PROVE Cardinality(After(k, u)) <= Allowed[k]
    BY DEF WithinLimit, PassedIn, After
  <2>1. Cardinality(PassedIn(k, u)) <= Allowed[k] BY DEF LimitsInv, WithinLimit
  <2>2. CASE k \notin D \/ u # Limits!Counted(q, k).until BY <2>1, <2>2, <1>25
  <2>4. CASE Limits!Refused(q) BY <2>1, <2>4, <1>24
  <2>3. CASE k \in D /\ u = Limits!Counted(q, k).until /\ ~Limits!Refused(q)
    <3>1. Cardinality(After(k, u)) <= Limits!Counted(q, k).counter BY <2>3, <1>17
    <3>2. Limits!Counted(q, k).counter <= Allowed[k] BY <2>3, <1>15
    <3>3. Cardinality(After(k, u)) \in Nat
      <4>1. After(k, u) \subseteq passed' BY DEF After
      <4>2. IsFiniteSet(After(k, u)) BY <4>1, <1>11, FS_Subset
      <4> QED BY <4>2, FS_CardinalityType
    <3>4. Limits!Counted(q, k).counter \in Nat /\ Allowed[k] \in Nat BY <1>4, <1>8, CountedRow DEF Counter
    <3> QED BY <3>1, <3>2, <3>3, <3>4
  <2> QED BY <2>2, <2>3, <2>4
<1>20. ~Limits!Refused(q) /\ Allowed[i] = 1 => row[i].until <= at /\ row'[i].until = at + Window[i]
  <2> SUFFICES ASSUME ~Limits!Refused(q), Allowed[i] = 1 PROVE row[i].until <= at /\ row'[i].until = at + Window[i]
    OBVIOUS
  <2>1. Limits!Counted(q, i).counter <= 1 /\ row'[i] = Limits!Counted(q, i) BY <1>2, <1>7, <1>15
  <2>2. row[i].counter = 0 => row[i].until = 0 BY <1>2 DEF LimitsInv, RowsCount
  <2> QED BY <2>1, <2>2, <1>2, <1>4, <1>5, CountedRow
<1>21. \A k \in Limits!Keys : row[k].until <= row'[k].until /\ row[k].until \in Nat /\ row'[k].until \in Nat
  <2> SUFFICES ASSUME NEW k \in Limits!Keys
               PROVE row[k].until <= row'[k].until /\ row[k].until \in Nat /\ row'[k].until \in Nat
    OBVIOUS
  <2>1. row[k].until \in Nat BY <1>4, CountedRow
  <2> QED BY <2>1, <1>7, <1>16
<1>22. Spaced'
  <2> SUFFICES ASSUME NEW x \in passed', Allowed[x.identity] = 1
               PROVE x.at + Window[x.identity] <= row'[x.identity].until
    BY DEF Spaced
  <2>1. CASE x \in passed
    <3>1. x.at + Window[x.identity] <= row[x.identity].until BY <2>1 DEF LimitsInv, Spaced
    <3>2. x.at \in Nat /\ x.identity \in Limits!Keys BY <2>1, <1>5 DEF LetPass, Limits!Keys
    <3>3. Window[x.identity] \in Nat BY <3>2, Limits!LimitsAssumption DEF Limits!LimitsAssumption
    <3> QED BY <3>1, <3>2, <3>3, <1>21
  <2>2. CASE x \notin passed
    <3>1. x = p /\ ~Limits!Refused(q) BY <2>2, <1>1
    <3>2. Window[i] \in Nat BY <1>2, Limits!LimitsAssumption DEF Limits!LimitsAssumption
    <3> QED BY <3>1, <3>2, <1>5, <1>10, <1>20
  <2> QED BY <2>1, <2>2
<1>23. Limits!ResendsAreSpaced'
  <2> SUFFICES ASSUME NEW x \in passed', NEW y \in passed', x # y, x.identity = y.identity,
                      Allowed[x.identity] = 1, x.at <= y.at
               PROVE x.at + Window[x.identity] <= y.at
    BY DEF Limits!ResendsAreSpaced
  <2>1. x \in LetPass /\ y \in LetPass BY <1>11
  <2>2. x.at \in Nat /\ y.at \in Nat /\ x.identity \in Limits!Keys BY <2>1 DEF LetPass, Limits!Keys
  <2>3. Window[x.identity] \in Nat \ {0} BY <2>2, Limits!LimitsAssumption DEF Limits!LimitsAssumption
  <2>4. CASE x \in passed /\ y \in passed BY <2>4 DEF LimitsInv, Limits!ResendsAreSpaced
  <2>5. CASE x \in passed /\ y \notin passed
    <3>1. y = p /\ ~Limits!Refused(q) BY <2>5, <1>1
    <3>2. x.at + Window[i] <= row[i].until BY <2>5, <3>1, <1>10 DEF LimitsInv, Spaced
    <3>3. row[i].until <= y.at BY <3>1, <1>10, <1>20
    <3> QED BY <3>1, <3>2, <3>3, <2>2, <2>3, <1>2, <1>10, <1>21
  <2>6. CASE x \notin passed /\ y \in passed
    <3>1. x = p /\ ~Limits!Refused(q) BY <2>6, <1>1
    <3>2. y.at + Window[i] <= row[i].until BY <2>6, <3>1, <1>10 DEF LimitsInv, Spaced
    <3>3. row[i].until <= x.at BY <3>1, <1>10, <1>20
    <3>4. FALSE BY <3>1, <3>2, <3>3, <2>2, <2>3, <1>2, <1>10, <1>21
    <3> QED BY <3>4
  <2>7. CASE x \notin passed /\ y \notin passed BY <2>7, <1>1
  <2> QED BY <2>4, <2>5, <2>6, <2>7
<1> QED BY <1>3, <1>12, <1>13, <1>18, <1>19, <1>22, <1>23 DEF LimitsInv

LEMMA LimitsStep ==
  ASSUME Limits!LimitsAssumption, LimitsInv, [Limits!Next]_limitVars
  PROVE  LimitsInv'
<1>1. ASSUME NEW q \in Requests, NEW i \in Identities, Limits!Arrive(q, i) PROVE LimitsInv' BY <1>1, LimitsArrive
<1>2. ASSUME NEW q \in Requests, Limits!Upsert(q) PROVE LimitsInv' BY <1>2, LimitsUpsert
<1>3. ASSUME NEW q \in Requests, Limits!Commit(q) PROVE LimitsInv' BY <1>3, LimitsCommit
<1>4. ASSUME NEW q \in Requests, Limits!Die(q) PROVE LimitsInv' BY <1>4, LimitsDie
<1>5. CASE Limits!Tick BY <1>5, LimitsTick
<1>6. CASE UNCHANGED limitVars
  <2>1. UNCHANGED <<now, row, counting, counterLock, passed>> BY <1>6 DEF limitVars
  <2>2. LimitTypes' /\ InStages' BY <2>1 DEF LimitsInv, LimitTypes, InStages, AtStage
  <2>3. HoldsCounted' BY <2>1 DEF LimitsInv, HoldsCounted, Limits!Counted, Limits!PlusOne
  <2>4. RowsCount' /\ WithinLimit' /\ Spaced' /\ Limits!ResendsAreSpaced'
    BY <2>1 DEF LimitsInv, RowsCount, WithinLimit, Spaced, Limits!ResendsAreSpaced, PassedIn
  <2> QED BY <2>2, <2>3, <2>4 DEF LimitsInv
<1> QED BY <1>1, <1>2, <1>3, <1>4, <1>5, <1>6 DEF Limits!Next

\* No circle: of those under way, whoever is furthest has its next row.
LEMMA NoCircle == ASSUME Limits!LimitsAssumption, LimitsInv PROVE Limits!NoCircleOfLimits
<1> SUFFICES ASSUME NEW q \in Requests, counting[q].pc = "count",
                    \A r \in Requests : counting[r].pc = "count" => counting[r].left # <<>> /\ counterLock[Head(counting[r].left)] # None
             PROVE FALSE
  BY DEF Limits!NoCircleOfLimits
<1>1. \A r \in Requests : counting[r].pc = "count" => AtStage(r) BY DEF LimitsInv, InStages
<1>2. \A k \in Limits!Keys : counterLock[k] \in Requests \cup {None} BY DEF LimitsInv, LimitTypes
<1>3. \A r \in Requests, k \in Limits!Keys : counterLock[k] = r => k \in DOMAIN counting[r].counted
  BY DEF LimitsInv, HoldsCounted
<1>4. \A r \in Requests, k \in Limits!Keys : counterLock[k] = r => counting[r].pc = "count"
  BY <1>3 DEF LimitsInv, InStages
<1>5. "address" \in Limits!Keys /\ "global" \in Limits!Keys /\ \A i \in Identities : i \in Limits!Keys /\ i # "address" /\ i # "global"
  BY Limits!LimitsAssumption DEF Limits!LimitsAssumption, Limits!Keys
<1>6. ASSUME NEW r \in Requests, counting[r].pc = "count", counting[r].left = <<"global">> PROVE FALSE
  <2>1. Head(counting[r].left) = "global" BY <1>6
  <2>2. PICK o \in Requests : o = counterLock["global"] BY <2>1, <1>2, <1>5, <1>6
  <2>3. "global" \in DOMAIN counting[o].counted /\ counting[o].pc = "count" BY <2>2, <1>3, <1>4, <1>5
  <2>4. counting[o].left # <<>> BY <2>3
  <2> QED BY <2>3, <2>4, <1>1, <1>5 DEF AtStage
<1>7. ASSUME NEW r \in Requests, counting[r].pc = "count", counting[r].left = <<"address", "global">> PROVE FALSE
  <2>1. Head(counting[r].left) = "address" BY <1>7
  <2>2. PICK o \in Requests : o = counterLock["address"] BY <2>1, <1>2, <1>5, <1>7
  <2>3. "address" \in DOMAIN counting[o].counted /\ counting[o].pc = "count" BY <2>2, <1>3, <1>4, <1>5
  <2>4. counting[o].left # <<>> /\ counting[o].left # <<"global">> BY <2>2, <2>3, <1>6
  <2> QED BY <2>3, <2>4, <1>1, <1>5 DEF AtStage
<1>8. ASSUME NEW r \in Requests, counting[r].pc = "count", NEW i \in Identities,
             counting[r].left = <<i, "address", "global">>
      PROVE FALSE
  <2>1. Head(counting[r].left) = i BY <1>8
  <2>2. PICK o \in Requests : o = counterLock[i] BY <2>1, <1>2, <1>5, <1>8
  <2>3. i \in DOMAIN counting[o].counted /\ counting[o].pc = "count" BY <2>2, <1>3, <1>4, <1>5
  <2>4. counting[o].left # <<>> /\ counting[o].left # <<"global">> /\ counting[o].left # <<"address", "global">>
    BY <2>2, <2>3, <1>6, <1>7
  <2> QED BY <2>3, <2>4, <1>1, <1>5 DEF AtStage
<1> QED BY <1>1, <1>6, <1>7, <1>8 DEF AtStage

LEMMA LimitsPromises == ASSUME Limits!LimitsAssumption, LimitsInv PROVE Limits!PassesWithinLimit /\ Limits!ResendsAreSpaced /\ Limits!NoCircleOfLimits
<1>1. Limits!PassesWithinLimit
  <2> SUFFICES ASSUME NEW k \in Limits!Keys, NEW u \in 1..MaxTime + Window[k]
               PROVE Cardinality({p \in passed : <<k, u>> \in p.windows}) <= Allowed[k]
    BY LimitsCardinality DEF Limits!PassesWithinLimit
  <2>1. u \in Nat BY Limits!LimitsAssumption DEF Limits!LimitsAssumption
  <2> QED BY <2>1, LimitsCardinality DEF LimitsInv, WithinLimit, PassedIn
<1> QED BY <1>1, NoCircle DEF LimitsInv

\* A window is counted from a time there has been.
LimitsKept ==
  /\ now <= MaxTime /\ \A q \in Requests : counting[q].at <= MaxTime
  /\ \A k \in Limits!Keys : row[k].until <= MaxTime + Window[k]

LEMMA LimitsTyped == ASSUME Limits!LimitsAssumption, LimitsInv, LimitsKept PROVE Limits!LimitsTypeOK
<1>1. \A k \in Limits!Keys : row[k].counter \in Nat /\ row[k].until \in Nat /\ row[k].counter <= Allowed[k] + 1
  BY DEF LimitsInv, LimitTypes, Counter, RowsCount
<1>2. MaxTime \in Nat /\ \A k \in Limits!Keys : Allowed[k] \in Nat /\ Window[k] \in Nat
  BY Limits!LimitsAssumption DEF Limits!LimitsAssumption
<1>3. \A k \in Limits!Keys : row[k].counter \in 0..Allowed[k] + 1 /\ row[k].until \in 0..MaxTime + Window[k]
  BY <1>1, <1>2 DEF LimitsKept
<1> QED BY <1>3 DEF LimitsInv, HoldsCounted, Limits!LimitsTypeOK

LEMMA LimitsKeptInit == ASSUME Limits!LimitsAssumption PROVE Limits!Init => LimitsKept
BY Limits!LimitsAssumption DEF Limits!Init, LimitsKept, Limits!LimitsAssumption, Limits!Idle

LEMMA LimitsKeptNext == ASSUME Limits!LimitsAssumption, LimitsInv, LimitsKept, [Limits!Next]_limitVars PROVE LimitsKept'
<1>a. counting \in [Requests -> Counting] /\ LimitTypes BY DEF LimitsInv, LimitTypes
<1>b. MaxTime \in Nat /\ \A k \in Limits!Keys : Window[k] \in Nat
  BY Limits!LimitsAssumption DEF Limits!LimitsAssumption
<1>c. ASSUME NEW q \in Requests, NEW x, counting' = [counting EXCEPT ![q] = x], x.at <= MaxTime,
             now' = now, \A k \in Limits!Keys : row'[k].until <= MaxTime + Window[k]
      PROVE LimitsKept'
  BY <1>a, <1>c DEF LimitsKept
<1>1. ASSUME NEW q \in Requests, NEW i \in Identities, Limits!Arrive(q, i) PROVE LimitsKept'
  <2>1. PICK x : x = [Limits!Idle EXCEPT !.pc = "count", !.identity = i, !.at = now, !.left = Limits!Rules(i)]
    OBVIOUS
  <2>2. x.at = now BY <2>1 DEF Limits!Idle
  <2>3. counting' = [counting EXCEPT ![q] = x] /\ UNCHANGED <<now, row>> BY <1>1, <2>1 DEF Limits!Arrive
  <2> QED BY <1>c, <2>2, <2>3 DEF LimitsKept
<1>2. ASSUME NEW q \in Requests, Limits!Upsert(q) PROVE LimitsKept'
  <2>1. PICK f, l : counting' = [counting EXCEPT ![q] = [counting[q] EXCEPT !.counted = f, !.left = l]]
    BY <1>2 DEF Limits!Upsert, Limits!Count
  <2>2. PICK x : x = [counting[q] EXCEPT !.counted = f, !.left = l] OBVIOUS
  <2>3. x.at = counting[q].at BY <1>a, <2>2 DEF Counting
  <2>4. counting' = [counting EXCEPT ![q] = x] /\ UNCHANGED <<now, row>> BY <1>2, <2>1, <2>2 DEF Limits!Upsert
  <2> QED BY <1>c, <2>3, <2>4 DEF LimitsKept
<1>3. ASSUME NEW q \in Requests, Limits!Commit(q) PROVE LimitsKept'
  <2>1. counting' = [counting EXCEPT ![q] = Limits!Idle] /\ now' = now BY <1>3 DEF Limits!Commit, Limits!Ends
  <2>2. Limits!Idle.at <= MaxTime BY <1>b DEF Limits!Idle
  <2>3. ASSUME NEW k \in Limits!Keys PROVE row'[k].until <= MaxTime + Window[k]
    <3>1. CASE k \in DOMAIN counting[q].counted
      <4>1. row'[k] = Limits!Counted(q, k) BY <1>3, <3>1 DEF Limits!Commit, LimitsInv, HoldsCounted
      <4>2. counting[q].at \in Nat /\ counting[q].at <= MaxTime BY <1>a DEF LimitsKept, Counting
      <4>3. PICK y : y = Limits!Counted(q, k) OBVIOUS
      <4>4. y.until = counting[q].at + Window[k] \/ y.until = row[k].until BY <1>a, <4>3, CountedRow
      <4> QED BY <1>b, <4>1, <4>2, <4>3, <4>4 DEF LimitsKept
    <3>2. CASE k \notin DOMAIN counting[q].counted
      BY <1>3, <3>2 DEF Limits!Commit, LimitsKept
    <3> QED BY <3>1, <3>2
  <2> QED BY <1>c, <2>1, <2>2, <2>3
<1>4. ASSUME NEW q \in Requests, Limits!Die(q) PROVE LimitsKept'
  <2>1. Limits!Idle.at <= MaxTime BY <1>b DEF Limits!Idle
  <2> QED BY <1>4, <1>c, <2>1 DEF Limits!Die, Limits!Ends, LimitsKept
<1>5. CASE Limits!Tick
  <2>1. now' <= MaxTime BY <1>5, <1>a, <1>b DEF Limits!Tick, LimitTypes
  <2> QED BY <1>5, <2>1 DEF Limits!Tick, LimitsKept
<1>6. CASE UNCHANGED limitVars BY <1>6 DEF limitVars, LimitsKept
<1> QED BY <1>1, <1>2, <1>3, <1>4, <1>5, <1>6 DEF Limits!Next

---------------------------------------------------------------------------
(* Binding LINE, and messages.                                             *)

\* An account's links were made with different versions, a bind that found no link keeps others out,
\* and a message's version is that of the link it was queued under.
\* The part's cardinality is that of the theorems about finite sets.
LEMMA LineCardinality == \A S : Line!Cardinality(S) = Cardinality(S)
BY DEF Line!Cardinality, Cardinality

LinkRow == [id : Nat, account : Accounts, subject : Subjects, version : Nat, revoked : BOOLEAN, challenge : Challenges]
LineChallenge == [account : Accounts \cup {None}, consumed : BOOLEAN]
Binding == [pc : {"idle", "challenge", "account", "insert"}, challenge : Challenges \cup {None},
            subject : Subjects \cup {None}, version : Nat]
LineMessage == [status : {"none", "queued", "processing", "skipped", "settled"}, account : Accounts \cup {None},
            version : Nat, link : Nat \cup {None}, to : Subjects \cup {None}, checked : Nat \cup {None}]

LineTypes ==
  /\ IsFiniteSet(links) /\ links \subseteq LinkRow
  /\ lineChallenge \in [Challenges -> LineChallenge]
  /\ bind \in [Requests -> Binding]
  /\ lineLock \in [Accounts \cup Challenges -> Requests \cup {None}]
  /\ message \in [Messages -> LineMessage]

\* The version a link was made with: unlinking adds one.
Born(l) == IF l.revoked THEN l.version - 1 ELSE l.version

Numbered ==
  /\ \A l \in links : l.id <= Cardinality(links) /\ Born(l) \in Nat
  /\ \A l, k \in links : l.id = k.id => l = k
  /\ \A l, k \in links : l.account = k.account /\ Born(l) = Born(k) => l = k

\* The versions of an account's links have a greatest.
Greatest ==
  \A a \in Accounts : \E v \in {0} \cup {l.version : l \in {x \in links : x.account = a}} :
    \A l \in links : l.account = a => l.version <= v

\* Of whom a bind has found no link, nobody makes one before its commit.
Serving(r) ==
  /\ bind[r].pc # "idle" =>
       /\ bind[r].challenge \in Challenges /\ bind[r].subject \in Subjects
       /\ Line!Of(r) \in Accounts
  /\ bind[r].pc \in {"account", "insert"} =>
       lineLock[bind[r].challenge] = r /\ ~lineChallenge[bind[r].challenge].consumed
  /\ bind[r].pc = "insert" =>
       /\ lineLock[Line!Of(r)] = r /\ bind[r].version > 0
       /\ \A l \in links : l.account = Line!Of(r) => l.revoked /\ l.version < bind[r].version
Binders == \A r \in Requests : Serving(r)

LinkSpent == \A l \in links : lineChallenge[l.challenge].consumed

\* Every message knows the link it was queued under.
Origin(m, k) ==
  /\ k.id = message[m].link /\ k.account = message[m].account /\ Born(k) = message[m].version
  /\ message[m].status = "processing" => message[m].checked = k.id /\ message[m].to = k.subject
Queued == \A m \in Messages : message[m].status # "none" => \E k \in links : Origin(m, k)

Called ==
  \A x \in calls : x.message \in Messages /\ message[x.message].status # "none"

LineInv == LineTypes /\ Numbered /\ Greatest /\ Binders /\ LinkSpent /\ Queued /\ Called /\ Line!NeverToAnother /\ Line!BindsOnce
LEMMA LineInit == ASSUME Line!BindingAssumption PROVE Line!Init => LineInv
<1> SUFFICES ASSUME Line!Init PROVE LineInv OBVIOUS
<1>1. Line!Idle \in Binding /\ Line!Idle.pc = "idle" BY DEF Line!Idle, Binding
<1>2. LineTypes BY <1>1, FS_EmptySet DEF Line!Init, LineTypes, LineChallenge, LineMessage
<1>3. Numbered /\ LinkSpent /\ Line!BindsOnce BY DEF Line!Init, Numbered, LinkSpent, Line!BindsOnce
<1>4. Greatest BY DEF Line!Init, Greatest
<1>5. Binders BY <1>1 DEF Line!Init, Binders, Serving
<1>6. Queued /\ Called /\ Line!NeverToAnother BY DEF Line!Init, Queued, Called, Line!NeverToAnother
<1> QED BY <1>2, <1>3, <1>4, <1>5, <1>6 DEF LineInv

\* What does not touch links and messages leaves what is said of them alone.
LEMMA LinksStand ==
  ASSUME LineInv, UNCHANGED <<links, message, calls>>
  PROVE  Numbered' /\ Greatest' /\ Queued' /\ Called' /\ Line!NeverToAnother' /\ Line!BindsOnce'
<1>1. Numbered' /\ Line!BindsOnce' BY DEF LineInv, Numbered, Line!BindsOnce, Born
<1>2. Greatest' BY DEF LineInv, Greatest
<1>3. Queued' BY DEF LineInv, Queued, Origin, Born
<1>4. Called' /\ Line!NeverToAnother' BY DEF LineInv, Called, Line!NeverToAnother
<1> QED BY <1>1, <1>2, <1>3, <1>4

\* What does not touch binds, challenges, locks and links leaves the binds alone.
LEMMA BindersStand ==
  ASSUME LineInv, UNCHANGED <<links, lineChallenge, bind, lineLock>>
  PROVE  Numbered' /\ Greatest' /\ Binders' /\ LinkSpent' /\ Line!BindsOnce'
<1>1. Numbered' /\ Line!BindsOnce' /\ LinkSpent' BY DEF LineInv, Numbered, Line!BindsOnce, Born, LinkSpent
<1>2. Greatest' BY DEF LineInv, Greatest
<1>3. Binders' BY DEF LineInv, Binders, Serving, Line!Of
<1> QED BY <1>1, <1>2, <1>3

LEMMA LineAsked ==
  ASSUME Line!BindingAssumption, LineInv, NEW c \in Challenges, NEW a \in Accounts, Line!Challenge(c, a)
  PROVE  LineInv'
<1>1. /\ lineChallenge[c].account = None /\ lineChallenge' = [lineChallenge EXCEPT ![c] = [lineChallenge[c] EXCEPT !.account = a]]
      /\ UNCHANGED <<links, bind, lineLock, message, calls>>
  BY DEF Line!Challenge
<1>2. LineTypes BY DEF LineInv
<1>3. PICK x \in LineChallenge : x = lineChallenge[c] BY <1>2 DEF LineTypes
<1> DEFINE y == [x EXCEPT !.account = a]
<1>4. y \in LineChallenge /\ y.consumed = x.consumed /\ lineChallenge' = [lineChallenge EXCEPT ![c] = y] BY <1>1, <1>3 DEF LineChallenge
<1> HIDE DEF y
<1>5. lineChallenge' \in [Challenges -> LineChallenge] /\ lineChallenge'[c] = y /\ \A d \in Challenges : d # c => lineChallenge'[d] = lineChallenge[d]
  BY <1>2, <1>4 DEF LineTypes
<1>6. LineTypes' BY <1>1, <1>2, <1>5 DEF LineTypes
<1>7. \A d \in Challenges : lineChallenge'[d].consumed = lineChallenge[d].consumed BY <1>3, <1>4, <1>5
<1>8. \A l \in links : l.challenge \in Challenges BY <1>2 DEF LineTypes, LinkRow
<1>9. LinkSpent' BY <1>1, <1>7, <1>8 DEF LineInv, LinkSpent
<1>10. Binders'
  <2> SUFFICES ASSUME NEW r \in Requests PROVE Serving(r)' BY DEF Binders
  <2>1. Serving(r) BY DEF LineInv, Binders
  <2>2. CASE bind[r].pc = "idle" BY <1>1, <2>2 DEF Serving
  <2>3. CASE bind[r].pc # "idle"
    <3>1. bind[r].challenge \in Challenges /\ Line!Of(r) \in Accounts BY <2>1, <2>3 DEF Serving
    <3>2. bind[r].challenge # c BY <1>1, <3>1, Line!BindingAssumption DEF Line!Of, Line!BindingAssumption
    <3>3. Line!Of(r)' = Line!Of(r) BY <1>1, <1>5, <3>1, <3>2 DEF Line!Of
    <3> QED BY <2>1, <3>1, <3>3, <1>1, <1>7 DEF Serving
  <2> QED BY <2>2, <2>3
<1> QED BY <1>1, <1>6, <1>9, <1>10, LinksStand DEF LineInv

LEMMA LineBindStart ==
  ASSUME Line!BindingAssumption, LineInv, NEW r \in Requests, NEW c \in Challenges, NEW s \in Subjects, Line!BindStart(r, c, s)
  PROVE  LineInv'
<1> DEFINE x == [Line!Idle EXCEPT !.pc = "challenge", !.challenge = c, !.subject = s]
<1>1. /\ bind[r].pc = "idle" /\ lineChallenge[c].account # None /\ bind' = [bind EXCEPT ![r] = x]
      /\ UNCHANGED <<links, lineChallenge, lineLock, message, calls>>
  BY DEF Line!BindStart
<1>2. x \in Binding /\ x.pc = "challenge" /\ x.challenge = c /\ x.subject = s BY DEF Line!Idle, Binding
<1> HIDE DEF x
<1>3. LineTypes BY DEF LineInv
<1>4. bind' \in [Requests -> Binding] /\ bind'[r] = x /\ \A q \in Requests : q # r => bind'[q] = bind[q]
  BY <1>1, <1>2, <1>3 DEF LineTypes
<1>5. LineTypes' BY <1>1, <1>3, <1>4 DEF LineTypes
<1>6. LinkSpent' BY <1>1 DEF LineInv, LinkSpent
<1>7. lineChallenge[c].account \in Accounts BY <1>1, <1>3 DEF LineTypes, LineChallenge
<1>8. Binders'
  <2> SUFFICES ASSUME NEW q \in Requests PROVE Serving(q)' BY DEF Binders
  <2>1. CASE q = r BY <2>1, <1>1, <1>2, <1>4, <1>7 DEF Serving, Line!Of
  <2>2. CASE q # r BY <2>2, <1>1, <1>4 DEF LineInv, Binders, Serving, Line!Of
  <2> QED BY <2>1, <2>2
<1> QED BY <1>1, <1>5, <1>6, <1>8, LinksStand DEF LineInv

\* A bind that ends gives its rows back; the others keep theirs.
LEMMA BindEnds ==
  ASSUME Line!BindingAssumption, LineTypes, NEW r \in Requests, bind' = [bind EXCEPT ![r] = Line!Idle]
  PROVE  /\ bind' \in [Requests -> Binding] /\ bind'[r].pc = "idle"
         /\ \A q \in Requests : q # r => bind'[q] = bind[q]
         /\ Line!Unlocked(r) \in [Accounts \cup Challenges -> Requests \cup {None}]
         /\ \A q \in Requests, z \in Accounts \cup Challenges : q # r /\ lineLock[z] = q => Line!Unlocked(r)[z] = q
<1>1. Line!Idle \in Binding /\ Line!Idle.pc = "idle" BY DEF Line!Idle, Binding
<1> QED BY <1>1 DEF LineTypes, Line!Unlocked

LEMMA LineLockChallenge ==
  ASSUME Line!BindingAssumption, LineInv, NEW r \in Requests, Line!LockChallenge(r)
  PROVE  LineInv'
<1>1. LineTypes /\ Serving(r) BY DEF LineInv, Binders
<1>2. /\ bind[r].pc = "challenge" /\ lineLock[bind[r].challenge] = None
      /\ UNCHANGED <<links, lineChallenge, message, calls>>
  BY DEF Line!LockChallenge
<1>3. bind[r].challenge \in Challenges /\ bind[r].subject \in Subjects /\ Line!Of(r) \in Accounts
  BY <1>1, <1>2 DEF Serving
<1>4. LinkSpent' BY <1>2 DEF LineInv, LinkSpent
<1>5. CASE lineChallenge[bind[r].challenge].consumed
  <2>1. bind' = [bind EXCEPT ![r] = Line!Idle] /\ UNCHANGED lineLock BY <1>5 DEF Line!LockChallenge
  <2>2. /\ bind' \in [Requests -> Binding] /\ bind'[r].pc = "idle"
        /\ \A q \in Requests : q # r => bind'[q] = bind[q]
    BY <1>1, <2>1, BindEnds
  <2>3. LineTypes' BY <1>1, <1>2, <2>1, <2>2 DEF LineTypes
  <2>4. Binders'
    <3> SUFFICES ASSUME NEW q \in Requests PROVE Serving(q)' BY DEF Binders
    <3>1. CASE q = r BY <3>1, <2>2 DEF Serving
    <3>2. CASE q # r BY <3>2, <1>2, <2>1, <2>2 DEF LineInv, Binders, Serving, Line!Of
    <3> QED BY <3>1, <3>2
  <2> QED BY <1>2, <1>4, <2>3, <2>4, LinksStand DEF LineInv
<1>6. CASE ~lineChallenge[bind[r].challenge].consumed
  <2>1. PICK x \in Binding : x = bind[r] BY <1>1 DEF LineTypes
  <2> DEFINE y == [x EXCEPT !.pc = "account"]
  <2>2. y \in Binding /\ y.pc = "account" /\ y.challenge = x.challenge /\ y.subject = x.subject BY DEF Binding
  <2>3. bind' = [bind EXCEPT ![r] = y] /\ lineLock' = [lineLock EXCEPT ![x.challenge] = r]
    BY <1>6, <2>1 DEF Line!LockChallenge
  <2> HIDE DEF y
  <2>4. bind' \in [Requests -> Binding] /\ bind'[r] = y /\ \A q \in Requests : q # r => bind'[q] = bind[q]
    BY <1>1, <2>2, <2>3 DEF LineTypes
  <2>5. /\ lineLock' \in [Accounts \cup Challenges -> Requests \cup {None}] /\ lineLock'[x.challenge] = r
        /\ \A z \in Accounts \cup Challenges : lineLock[z] # None => lineLock'[z] = lineLock[z]
    BY <1>1, <1>2, <1>3, <2>1, <2>3 DEF LineTypes
  <2>6. LineTypes' BY <1>1, <1>2, <2>4, <2>5 DEF LineTypes
  <2>7. Binders'
    <3> SUFFICES ASSUME NEW q \in Requests PROVE Serving(q)' BY DEF Binders
    <3>1. CASE q = r BY <3>1, <1>2, <1>3, <1>6, <2>1, <2>2, <2>4, <2>5 DEF Serving, Line!Of
    <3>2. CASE q # r
      <4>1. Serving(q) BY DEF LineInv, Binders
      <4>2. bind'[q] = bind[q] /\ Line!Of(q)' = Line!Of(q) BY <3>2, <1>2, <2>4 DEF Line!Of
      <4>3. \A z \in Accounts \cup Challenges : lineLock[z] = q => lineLock'[z] = q
        BY <2>5, Line!BindingAssumption, <1>1 DEF Line!BindingAssumption, LineTypes
      <4>4. bind[q].pc # "idle" => bind[q].challenge \in Challenges /\ Line!Of(q) \in Accounts BY <4>1 DEF Serving
      <4> QED BY <4>1, <4>2, <4>3, <4>4, <1>2 DEF Serving
    <3> QED BY <3>1, <3>2
  <2> QED BY <1>2, <1>4, <2>6, <2>7, LinksStand DEF LineInv
<1> QED BY <1>5, <1>6
\* The next version is above all versions of the account.
LEMMA NextAbove ==
  ASSUME LineTypes, Greatest, NEW a \in Accounts
  PROVE  Line!NextVersion(a) \in Nat /\ Line!NextVersion(a) > 0 /\ \A l \in links : l.account = a => l.version < Line!NextVersion(a)
<1> DEFINE S == {0} \cup {l.version : l \in {x \in links : x.account = a}}
<1>1. S \subseteq Nat BY DEF LineTypes, LinkRow
<1>2. PICK v \in S : \A l \in links : l.account = a => l.version <= v BY DEF Greatest
<1>3. \A w \in S : v >= w BY <1>1, <1>2
<1>4. Line!Max(S) \in S /\ \A w \in S : Line!Max(S) >= w BY <1>2, <1>3 DEF Line!Max
<1>5. \A l \in links : l.account = a => l.version \in S OBVIOUS
<1>6. Line!NextVersion(a) = Line!Max(S) + 1 BY DEF Line!NextVersion
<1> HIDE DEF S
<1>7. PICK n \in Nat : n = Line!Max(S) BY <1>1, <1>4
<1>8. \A l \in links : l.account = a => l.version \in Nat /\ n >= l.version BY <1>1, <1>4, <1>5, <1>7
<1>9. Line!NextVersion(a) = n + 1 BY <1>6, <1>7
<1>10. \A l \in links : l.account = a => l.version < n + 1 BY <1>8
<1> QED BY <1>9, <1>10

LEMMA LineLockAccount ==
  ASSUME Line!BindingAssumption, LineInv, NEW r \in Requests, Line!LockAccount(r)
  PROVE  LineInv'
<1>1. LineTypes /\ Serving(r) BY DEF LineInv, Binders
<1>2. /\ bind[r].pc = "account" /\ lineLock[Line!Of(r)] = None
      /\ UNCHANGED <<links, lineChallenge, message, calls>>
  BY DEF Line!LockAccount
<1>3. bind[r].challenge \in Challenges /\ bind[r].subject \in Subjects /\ Line!Of(r) \in Accounts
  BY <1>1, <1>2 DEF Serving
<1>4. LinkSpent' BY <1>2 DEF LineInv, LinkSpent
<1>5. CASE Line!Conflict(r)
  <2>1. bind' = [bind EXCEPT ![r] = Line!Idle] /\ lineLock' = Line!Unlocked(r) BY <1>5 DEF Line!LockAccount
  <2>2. /\ bind' \in [Requests -> Binding] /\ bind'[r].pc = "idle"
        /\ \A q \in Requests : q # r => bind'[q] = bind[q]
        /\ lineLock' \in [Accounts \cup Challenges -> Requests \cup {None}]
        /\ \A q \in Requests, z \in Accounts \cup Challenges : q # r /\ lineLock[z] = q => lineLock'[z] = q
    BY <1>1, <2>1, BindEnds
  <2>3. LineTypes' BY <1>1, <1>2, <2>2 DEF LineTypes
  <2>4. Binders'
    <3> SUFFICES ASSUME NEW q \in Requests PROVE Serving(q)' BY DEF Binders
    <3>1. CASE q = r BY <3>1, <2>2 DEF Serving
    <3>2. CASE q # r
      <4>1. Serving(q) BY DEF LineInv, Binders
      <4>2. bind'[q] = bind[q] /\ Line!Of(q)' = Line!Of(q) BY <3>2, <1>2, <2>2 DEF Line!Of
      <4>3. bind[q].pc # "idle" => bind[q].challenge \in Challenges /\ Line!Of(q) \in Accounts BY <4>1 DEF Serving
      <4> QED BY <3>2, <4>1, <4>2, <4>3, <1>2, <2>2 DEF Serving
    <3> QED BY <3>1, <3>2
  <2> QED BY <1>2, <1>4, <2>3, <2>4, LinksStand DEF LineInv
<1>6. CASE ~Line!Conflict(r)
  <2>1. PICK x \in Binding : x = bind[r] BY <1>1 DEF LineTypes
  <2>2. PICK a \in Accounts : a = Line!Of(r) BY <1>3
  <2>3. PICK n \in Nat : n = Line!NextVersion(a) /\ n > 0 /\ \A l \in links : l.account = a => l.version < n
    BY <1>1, NextAbove DEF LineInv
  <2> DEFINE y == [x EXCEPT !.pc = "insert", !.version = n]
  <2>4. y \in Binding /\ y.pc = "insert" /\ y.challenge = x.challenge /\ y.subject = x.subject /\ y.version = n
    BY DEF Binding
  <2>5. bind' = [bind EXCEPT ![r] = y] /\ lineLock' = [lineLock EXCEPT ![a] = r]
    BY <1>6, <2>1, <2>2, <2>3 DEF Line!LockAccount
  <2> HIDE DEF y
  <2>6. bind' \in [Requests -> Binding] /\ bind'[r] = y /\ \A q \in Requests : q # r => bind'[q] = bind[q]
    BY <1>1, <2>4, <2>5 DEF LineTypes
  <2>7. /\ lineLock' \in [Accounts \cup Challenges -> Requests \cup {None}] /\ lineLock'[a] = r
        /\ \A z \in Accounts \cup Challenges : lineLock[z] # None => lineLock'[z] = lineLock[z]
    BY <1>1, <1>2, <2>2, <2>5 DEF LineTypes
  <2>8. LineTypes' BY <1>1, <1>2, <2>6, <2>7 DEF LineTypes
  <2>9. \A l \in links : l.account = a => l.revoked
    BY <1>1, <1>6, <2>2 DEF Line!Conflict, Line!Active, LineTypes, LinkRow
  <2>10. Binders'
    <3> SUFFICES ASSUME NEW q \in Requests PROVE Serving(q)' BY DEF Binders
    <3>1. CASE q = r
      <4>1. Line!Of(r)' = a /\ bind'[r].challenge = bind[r].challenge BY <1>2, <2>1, <2>2, <2>4, <2>6 DEF Line!Of
      <4>2. lineLock[bind[r].challenge] = r /\ ~lineChallenge[bind[r].challenge].consumed BY <1>1, <1>2 DEF Serving
      <4>3. lineLock'[bind[r].challenge] = r BY <4>2, <1>3, <2>7, Line!BindingAssumption DEF Line!BindingAssumption
      <4> QED BY <3>1, <4>1, <4>2, <4>3, <1>2, <1>3, <2>1, <2>3, <2>4, <2>6, <2>7, <2>9 DEF Serving
    <3>2. CASE q # r
      <4>1. Serving(q) BY DEF LineInv, Binders
      <4>2. bind'[q] = bind[q] /\ Line!Of(q)' = Line!Of(q) BY <3>2, <1>2, <2>6 DEF Line!Of
      <4>3. \A z \in Accounts \cup Challenges : lineLock[z] = q => lineLock'[z] = q
        BY <2>7, Line!BindingAssumption, <1>1 DEF Line!BindingAssumption, LineTypes
      <4>4. bind[q].pc # "idle" => bind[q].challenge \in Challenges /\ Line!Of(q) \in Accounts BY <4>1 DEF Serving
      <4> QED BY <4>1, <4>2, <4>3, <4>4, <1>2 DEF Serving
    <3> QED BY <3>1, <3>2
  <2> QED BY <1>2, <1>4, <2>8, <2>10, LinksStand DEF LineInv
<1> QED BY <1>5, <1>6

LEMMA LineInsert ==
  ASSUME Line!BindingAssumption, LineInv, NEW r \in Requests, Line!BindInsert(r)
  PROVE  LineInv'
<1>1. LineTypes /\ Serving(r) BY DEF LineInv, Binders
<1>2. /\ bind[r].pc = "insert" /\ bind' = [bind EXCEPT ![r] = Line!Idle] /\ lineLock' = Line!Unlocked(r)
      /\ UNCHANGED <<message, calls>>
  BY DEF Line!BindInsert
<1>3. /\ bind' \in [Requests -> Binding] /\ bind'[r].pc = "idle"
      /\ \A q \in Requests : q # r => bind'[q] = bind[q]
      /\ lineLock' \in [Accounts \cup Challenges -> Requests \cup {None}]
      /\ \A q \in Requests, z \in Accounts \cup Challenges : q # r /\ lineLock[z] = q => lineLock'[z] = q
  BY <1>1, <1>2, BindEnds
<1>4. CASE Line!Conflict(r)
  <2>1. UNCHANGED <<links, lineChallenge>> BY <1>4 DEF Line!BindInsert
  <2>2. LineTypes' BY <1>1, <1>2, <1>3, <2>1 DEF LineTypes
  <2>3. LinkSpent' BY <2>1 DEF LineInv, LinkSpent
  <2>4. Binders'
    <3> SUFFICES ASSUME NEW q \in Requests PROVE Serving(q)' BY DEF Binders
    <3>1. CASE q = r BY <3>1, <1>3 DEF Serving
    <3>2. CASE q # r
      <4>1. Serving(q) BY DEF LineInv, Binders
      <4>2. bind'[q] = bind[q] /\ Line!Of(q)' = Line!Of(q) BY <3>2, <1>3, <2>1 DEF Line!Of
      <4>3. bind[q].pc # "idle" => bind[q].challenge \in Challenges /\ Line!Of(q) \in Accounts BY <4>1 DEF Serving
      <4> QED BY <3>2, <4>1, <4>2, <4>3, <1>3, <2>1 DEF Serving
    <3> QED BY <3>1, <3>2
  <2> QED BY <1>2, <2>1, <2>2, <2>3, <2>4, LinksStand DEF LineInv
<1>5. CASE ~Line!Conflict(r)
  <2>1. PICK a \in Accounts : a = Line!Of(r) BY <1>1, <1>2 DEF Serving
  <2>2. PICK c \in Challenges : c = bind[r].challenge BY <1>1, <1>2 DEF Serving
  <2>3. PICK s \in Subjects : s = bind[r].subject BY <1>1, <1>2 DEF Serving
  <2>4. PICK v \in Nat : v = bind[r].version /\ v > 0 BY <1>1, <1>2 DEF Serving, LineTypes, Binding
  <2>5. PICK n \in Nat : n = Cardinality(links) BY <1>1, FS_CardinalityType DEF LineTypes
  <2> DEFINE new == [id |-> n + 1, account |-> a, subject |-> s, version |-> v, revoked |-> FALSE, challenge |-> c]
  <2>6. /\ new \in LinkRow /\ new.id = n + 1 /\ new.account = a /\ new.version = v /\ ~new.revoked /\ new.challenge = c
        /\ Born(new) = v
    BY DEF LinkRow, Born
  <2>7. links' = links \cup {new} BY <1>5, <2>1, <2>2, <2>3, <2>4, <2>5, LineCardinality DEF Line!BindInsert
  <2> HIDE DEF new
  <2>8. PICK x \in LineChallenge : x = lineChallenge[c] BY <1>1 DEF LineTypes
  <2> DEFINE y == [x EXCEPT !.consumed = TRUE]
  <2>9. y \in LineChallenge /\ y.consumed /\ y.account = x.account BY DEF LineChallenge
  <2>10. lineChallenge' = [lineChallenge EXCEPT ![c] = y] BY <1>5, <2>2, <2>8 DEF Line!BindInsert
  <2> HIDE DEF y
  <2>11. /\ lineChallenge' \in [Challenges -> LineChallenge] /\ lineChallenge'[c].consumed
         /\ \A d \in Challenges : lineChallenge'[d].account = lineChallenge[d].account
         /\ \A d \in Challenges : d # c => lineChallenge'[d] = lineChallenge[d]
    BY <1>1, <2>8, <2>9, <2>10 DEF LineTypes
  <2>12. \A l \in links : /\ l.id \in Nat /\ l.id <= n /\ l.version \in Nat /\ l.challenge \in Challenges
                          /\ l.account \in Accounts /\ Born(l) \in Nat /\ l.revoked \in BOOLEAN
    BY <1>1, <2>5 DEF LineInv, LineTypes, LinkRow, Numbered
  <2>13. new \notin links BY <2>5, <2>6, <2>12
  <2>14. IsFiniteSet(links') /\ Cardinality(links') = n + 1
    BY <1>1, <2>5, <2>7, <2>13, FS_AddElement DEF LineTypes
  <2>15. LineTypes' BY <1>1, <1>2, <1>3, <2>6, <2>7, <2>11, <2>14 DEF LineTypes
  <2>16. \A l \in links : l.account = a => l.revoked /\ l.version < v
    BY <1>1, <1>2, <2>1, <2>4 DEF Serving
  <2>17. \A l \in links : l.account = a => Born(l) < v BY <2>12, <2>16 DEF Born
  <2>18. Numbered'
    <3>1. \A l \in links' : l.id <= n + 1 /\ Born(l) \in Nat BY <2>5, <2>6, <2>7, <2>12
    <3>2. \A l, k \in links' : l.id = k.id => l = k BY <2>5, <2>6, <2>7, <2>12 DEF LineInv, Numbered
    <3>3. \A l, k \in links' : l.account = k.account /\ Born(l) = Born(k) => l = k
      <4> SUFFICES ASSUME NEW l \in links', NEW k \in links', l.account = k.account, Born(l) = Born(k) PROVE l = k
        OBVIOUS
      <4>1. CASE l \in links /\ k \in links BY <4>1 DEF LineInv, Numbered
      <4>2. CASE l \in links /\ k = new
        <5>1. l.account = a /\ Born(l) = v /\ Born(l) \in Nat BY <4>2, <2>6, <2>12
        <5>2. Born(l) < v BY <4>2, <5>1, <2>17
        <5> QED BY <5>1, <5>2
      <4>3. CASE k \in links /\ l = new
        <5>1. k.account = a /\ Born(k) = v /\ Born(k) \in Nat BY <4>3, <2>6, <2>12
        <5>2. Born(k) < v BY <4>3, <5>1, <2>17
        <5> QED BY <5>1, <5>2
      <4> QED BY <4>1, <4>2, <4>3, <2>7
    <3>4. \A l : Born(l)' = Born(l) BY DEF Born
    <3> QED BY <3>1, <3>2, <3>3, <2>14 DEF Numbered, Born
  <2>19. Greatest'
    <3> SUFFICES ASSUME NEW b \in Accounts
                 PROVE \E w \in {0} \cup {l.version : l \in {z \in links' : z.account = b}} :
                         \A l \in links' : l.account = b => l.version <= w
      BY DEF Greatest
    <3>1. CASE b = a
      <4>1. v \in {0} \cup {l.version : l \in {z \in links' : z.account = b}} BY <3>1, <2>6, <2>7
      <4>2. \A l \in links' : l.account = b => l.version <= v BY <3>1, <2>6, <2>7, <2>12, <2>16
      <4> QED BY <4>1, <4>2
    <3>2. CASE b # a BY <3>2, <2>6, <2>7 DEF LineInv, Greatest
    <3> QED BY <3>1, <3>2
  <2>20. ~lineChallenge[c].consumed BY <1>1, <1>2, <2>2 DEF Serving
  <2>21. LinkSpent' BY <2>6, <2>7, <2>11, <2>12 DEF LineInv, LinkSpent
  <2>22. Line!BindsOnce'
    <3> SUFFICES ASSUME NEW l \in links', NEW k \in links', l.challenge = k.challenge PROVE l = k BY DEF Line!BindsOnce
    <3>1. \A z \in links : z.challenge # c BY <2>20 DEF LineInv, LinkSpent
    <3> QED BY <3>1, <2>6, <2>7 DEF LineInv, Line!BindsOnce
  <2>23. Binders'
    <3> SUFFICES ASSUME NEW q \in Requests PROVE Serving(q)' BY DEF Binders
    <3>1. CASE q = r BY <3>1, <1>3 DEF Serving
    <3>2. CASE q # r
      <4>1. Serving(q) BY DEF LineInv, Binders
      <4>2. bind'[q] = bind[q] BY <3>2, <1>3
      <4>3. CASE bind[q].pc = "idle" BY <4>2, <4>3 DEF Serving
      <4>4. CASE bind[q].pc # "idle"
        <5>1. bind[q].challenge \in Challenges /\ Line!Of(q) \in Accounts /\ bind[q].subject \in Subjects
          BY <4>1, <4>4 DEF Serving
        <5>2. Line!Of(q)' = Line!Of(q) BY <4>2, <5>1, <2>11 DEF Line!Of
        <5>3. ASSUME bind[q].pc \in {"account", "insert"}
              PROVE lineLock'[bind[q].challenge] = q /\ ~lineChallenge'[bind[q].challenge].consumed
          <6>1. lineLock[bind[q].challenge] = q /\ ~lineChallenge[bind[q].challenge].consumed BY <4>1, <5>3 DEF Serving
          <6>2. lineLock[c] = r BY <1>1, <1>2, <2>2 DEF Serving
          <6>3. bind[q].challenge # c BY <3>2, <6>1, <6>2
          <6> QED BY <3>2, <5>1, <6>1, <6>3, <1>3, <2>11
        <5>4. ASSUME bind[q].pc = "insert"
              PROVE /\ lineLock'[Line!Of(q)] = q /\ bind[q].version > 0
                    /\ \A l \in links' : l.account = Line!Of(q) => l.revoked /\ l.version < bind[q].version
          <6>1. /\ lineLock[Line!Of(q)] = q /\ bind[q].version > 0
                /\ \A l \in links : l.account = Line!Of(q) => l.revoked /\ l.version < bind[q].version
            BY <4>1, <5>4 DEF Serving
          <6>2. lineLock[a] = r BY <1>1, <1>2, <2>1 DEF Serving
          <6>3. Line!Of(q) # a BY <3>2, <6>1, <6>2
          <6>4. lineLock'[Line!Of(q)] = q BY <3>2, <5>1, <6>1, <1>3
          <6> QED BY <6>1, <6>3, <6>4, <2>6, <2>7
        <5> QED BY <4>2, <4>4, <5>1, <5>2, <5>3, <5>4 DEF Serving
      <4> QED BY <4>3, <4>4
    <3> QED BY <3>1, <3>2
  <2>24. Queued'
    <3> SUFFICES ASSUME NEW m \in Messages, message[m].status # "none" PROVE \E k \in links' : Origin(m, k)'
      BY <1>2 DEF Queued
    <3>1. PICK k \in links : Origin(m, k) BY DEF LineInv, Queued
    <3>2. Origin(m, k)' BY <3>1, <1>2 DEF Origin, Born
    <3> QED BY <3>1, <3>2, <2>7
  <2>25. Called' BY <1>2 DEF LineInv, Called
  <2>26. Line!NeverToAnother' BY <1>2, <2>7 DEF LineInv, Line!NeverToAnother
  <2> QED BY <2>15, <2>18, <2>19, <2>21, <2>22, <2>23, <2>24, <2>25, <2>26 DEF LineInv
<1> QED BY <1>4, <1>5
LEMMA LineUnlink ==
  ASSUME Line!BindingAssumption, LineInv, NEW a \in Accounts, Line!Unlink(a)
  PROVE  LineInv'
<1>1. LineTypes BY DEF LineInv
<1>2. PICK l \in Line!Active : l.account = a /\ links' = (links \ {l}) \cup {[l EXCEPT !.revoked = TRUE, !.version = l.version + 1]}
  BY DEF Line!Unlink
<1>3. UNCHANGED <<lineChallenge, bind, lineLock, message, calls>> BY DEF Line!Unlink
<1>4. l \in links /\ l \in LinkRow /\ ~l.revoked BY <1>1, <1>2 DEF Line!Active, LineTypes
<1>5. PICK v \in Nat : v = l.version BY <1>4 DEF LinkRow
<1>22. PICK rec \in LinkRow : rec = l BY <1>4
<1>23. PICK up \in Nat : up = v + 1 BY <1>5
<1> DEFINE k == [rec EXCEPT !.revoked = TRUE, !.version = up]
<1>6. /\ k \in LinkRow /\ k.id = l.id /\ k.account = a /\ k.subject = l.subject /\ k.challenge = l.challenge
      /\ k.revoked /\ k.version = v + 1
  BY <1>2, <1>22, <1>23 DEF LinkRow
<1>7. links' = (links \ {l}) \cup {k} BY <1>2, <1>5, <1>22, <1>23
<1> HIDE DEF k
<1>8. Born(k) = v /\ Born(l) = v BY <1>4, <1>5, <1>6 DEF Born
<1>9. k \notin links BY <1>4, <1>6 DEF LineInv, Numbered
<1>10. PICK n \in Nat : n = Cardinality(links) BY <1>1, FS_CardinalityType DEF LineTypes
<1>11. IsFiniteSet(links') /\ Cardinality(links') = n
  <2>1. IsFiniteSet(links \ {l}) /\ Cardinality(links \ {l}) = n - 1
    BY <1>1, <1>4, <1>10, FS_RemoveElement DEF LineTypes
  <2>2. k \notin links \ {l} BY <1>9
  <2> QED BY <2>1, <2>2, <1>7, <1>10, FS_AddElement
<1>12. LineTypes' BY <1>1, <1>3, <1>6, <1>7, <1>11 DEF LineTypes
<1>13. \A x \in links : /\ x.id <= n /\ Born(x) \in Nat /\ x.version \in Nat
                        /\ x.account \in Accounts /\ x.challenge \in Challenges
  BY <1>1, <1>10 DEF LineInv, LineTypes, LinkRow, Numbered
<1>14. Numbered'
  <2>1. \A x \in links' : x.id <= n /\ Born(x) \in Nat BY <1>4, <1>6, <1>7, <1>8, <1>13
  <2>2. \A x, y \in links' : x.id = y.id => x = y BY <1>4, <1>6, <1>7 DEF LineInv, Numbered
  <2>3. \A x, y \in links' : x.account = y.account /\ Born(x) = Born(y) => x = y
    BY <1>2, <1>4, <1>6, <1>7, <1>8 DEF LineInv, Numbered
  <2>4. \A x : Born(x)' = Born(x) BY DEF Born
  <2> QED BY <2>1, <2>2, <2>3, <2>4, <1>11 DEF Numbered, Born
<1>15. Greatest'
  <2> SUFFICES ASSUME NEW b \in Accounts
               PROVE \E w \in {0} \cup {x.version : x \in {z \in links' : z.account = b}} :
                       \A x \in links' : x.account = b => x.version <= w
    BY DEF Greatest
  <2>1. PICK w \in {0} \cup {x.version : x \in {z \in links : z.account = b}} :
          \A x \in links : x.account = b => x.version <= w
    BY DEF LineInv, Greatest
  <2>2. w \in Nat BY <2>1, <1>13
  <2>3. CASE b # a BY <2>1, <2>3, <1>2, <1>6, <1>7
  <2>4. CASE b = a /\ w <= v
    <3>1. v + 1 \in {x.version : x \in {z \in links' : z.account = b}} BY <2>4, <1>6, <1>7
    <3>2. \A x \in links : x.account = b => x.version <= v + 1 BY <2>1, <2>2, <2>4, <1>5, <1>13
    <3>3. \A x \in links' : x.account = b => x.version <= v + 1 BY <3>2, <1>5, <1>6, <1>7
    <3> QED BY <3>1, <3>3
  <2>5. CASE b = a /\ ~(w <= v)
    <3>1. w \in {0} \cup {x.version : x \in {z \in links' : z.account = b}}
      BY <2>1, <2>2, <2>5, <1>5, <1>7
    <3>2. v + 1 <= w BY <2>2, <2>5, <1>5
    <3>3. \A x \in links' : x.account = b => x.version <= w BY <2>1, <3>2, <1>6, <1>7
    <3> QED BY <3>1, <3>3
  <2> QED BY <2>3, <2>4, <2>5
<1>16. LinkSpent' BY <1>3, <1>4, <1>6, <1>7 DEF LineInv, LinkSpent
<1>17. Line!BindsOnce' BY <1>4, <1>6, <1>7 DEF LineInv, Line!BindsOnce
<1>18. Binders'
  <2> SUFFICES ASSUME NEW q \in Requests PROVE Serving(q)' BY DEF Binders
  <2>1. Serving(q) /\ Line!Of(q)' = Line!Of(q) BY <1>3 DEF LineInv, Binders, Line!Of
  <2>2. bind[q].pc = "insert" => Line!Of(q) # a BY <2>1, <1>2, <1>4 DEF Serving
  <2> QED BY <2>1, <2>2, <1>3, <1>6, <1>7 DEF Serving
<1>19. Queued'
  <2> SUFFICES ASSUME NEW m \in Messages, message[m].status # "none" PROVE \E x \in links' : Origin(m, x)'
    BY <1>3 DEF Queued
  <2>1. PICK x \in links : Origin(m, x) BY DEF LineInv, Queued
  <2>2. CASE x = l
    <3>1. Origin(m, k)' BY <2>1, <2>2, <1>2, <1>3, <1>6, <1>8 DEF Origin, Born
    <3> QED BY <3>1, <1>7
  <2>3. CASE x # l
    <3>1. Origin(m, x)' BY <2>1, <1>3 DEF Origin, Born
    <3> QED BY <2>3, <3>1, <1>7
  <2> QED BY <2>2, <2>3
<1>20. Called' BY <1>3 DEF LineInv, Called
<1>21. Line!NeverToAnother'
  <2> SUFFICES ASSUME NEW x \in calls
               PROVE /\ x.link = message[x.message].link
                     /\ \E y \in links' : y.id = x.link /\ y.subject = x.to /\ y.account = message[x.message].account
    BY <1>3 DEF Line!NeverToAnother
  <2>1. x.link = message[x.message].link BY DEF LineInv, Line!NeverToAnother
  <2>2. PICK y \in links : y.id = x.link /\ y.subject = x.to /\ y.account = message[x.message].account
    BY DEF LineInv, Line!NeverToAnother
  <2>3. CASE y = l BY <2>1, <2>2, <2>3, <1>2, <1>6, <1>7
  <2>4. CASE y # l BY <2>1, <2>2, <2>4, <1>7
  <2> QED BY <2>3, <2>4
<1> QED BY <1>12, <1>14, <1>15, <1>16, <1>17, <1>18, <1>19, <1>20, <1>21 DEF LineInv

LEMMA LineEnqueue ==
  ASSUME Line!BindingAssumption, LineInv, NEW m \in Messages, NEW a \in Accounts, Line!Enqueue(m, a)
  PROVE  LineInv'
<1>1. LineTypes BY DEF LineInv
<1>2. PICK l \in Line!Active :
        /\ l.account = a
        /\ message' = [message EXCEPT ![m] = [message[m] EXCEPT !.status = "queued", !.account = a,
                                                               !.version = l.version, !.link = l.id]]
  BY DEF Line!Enqueue
<1>3. message[m].status = "none" /\ UNCHANGED <<links, lineChallenge, bind, lineLock, calls>> BY DEF Line!Enqueue
<1>4. l \in links /\ l \in LinkRow /\ ~l.revoked BY <1>1, <1>2 DEF Line!Active, LineTypes
<1>5. PICK v \in Nat : v = l.version BY <1>4 DEF LinkRow
<1>6. PICK i \in Nat : i = l.id BY <1>4 DEF LinkRow
<1>7. PICK x \in LineMessage : x = message[m] BY <1>1 DEF LineTypes
<1> DEFINE y == [x EXCEPT !.status = "queued", !.account = a, !.version = v, !.link = i]
<1>8. y \in LineMessage /\ y.status = "queued" /\ y.account = a /\ y.version = v /\ y.link = i BY DEF LineMessage
<1>9. message' = [message EXCEPT ![m] = y] BY <1>2, <1>5, <1>6, <1>7
<1> HIDE DEF y
<1>10. message' \in [Messages -> LineMessage] /\ message'[m] = y /\ \A o \in Messages : o # m => message'[o] = message[o]
  BY <1>1, <1>8, <1>9 DEF LineTypes
<1>11. LineTypes' BY <1>1, <1>3, <1>10 DEF LineTypes
<1>12. Queued'
  <2> SUFFICES ASSUME NEW o \in Messages, message'[o].status # "none" PROVE \E k \in links' : Origin(o, k)'
    BY DEF Queued
  <2>1. CASE o = m
    <3>1. Origin(m, l)' BY <1>2, <1>4, <1>5, <1>6, <1>8, <1>10 DEF Origin, Born
    <3> QED BY <2>1, <3>1, <1>3, <1>4
  <2>2. CASE o # m
    <3>1. message'[o] = message[o] BY <2>2, <1>10
    <3>2. PICK k \in links : Origin(o, k) BY <3>1 DEF LineInv, Queued
    <3>3. Origin(o, k)' BY <3>1, <3>2 DEF Origin, Born
    <3> QED BY <3>3, <1>3
  <2> QED BY <2>1, <2>2
<1>13. \A c \in calls : c.message \in Messages /\ c.message # m BY <1>3 DEF LineInv, Called
<1>14. Called' BY <1>3, <1>10, <1>13 DEF LineInv, Called
<1>15. Line!NeverToAnother' BY <1>3, <1>10, <1>13 DEF LineInv, Line!NeverToAnother
<1> QED BY <1>3, <1>11, <1>12, <1>14, <1>15, BindersStand DEF LineInv

\* The active link with a message's account and version is the one it was queued under.
LEMMA ActiveIsOrigin ==
  ASSUME LineInv, NEW m \in Messages, message[m].status # "none", NEW l \in Line!ActiveLink(m)
  PROVE  l \in links /\ l.id = message[m].link /\ l.account = message[m].account /\ Born(l) = message[m].version
<1>1. l \in links /\ ~l.revoked /\ l.account = message[m].account /\ l.version = message[m].version
  BY DEF Line!ActiveLink, Line!Active
<1>2. PICK k \in links : Origin(m, k) BY DEF LineInv, Queued
<1>3. l = k BY <1>1, <1>2 DEF LineInv, Numbered, Origin, Born
<1> QED BY <1>1, <1>2, <1>3 DEF Origin

\* What becomes of a message alone: it keeps its account, version and link.
LEMMA MessageGoesOn ==
  ASSUME Line!BindingAssumption, LineInv, NEW m \in Messages, message[m].status # "none", NEW y \in LineMessage,
         message' = [message EXCEPT ![m] = y], y.status # "none",
         y.account = message[m].account, y.version = message[m].version, y.link = message[m].link,
         y.status = "processing" => \E k \in links : Origin(m, k) /\ y.checked = k.id /\ y.to = k.subject,
         UNCHANGED <<links, lineChallenge, bind, lineLock>>
  PROVE  LineTypes' /\ Queued' /\ \A o \in Messages : o # m => message'[o] = message[o]
<1>1. LineTypes BY DEF LineInv
<1>2. message' \in [Messages -> LineMessage] /\ message'[m] = y /\ \A o \in Messages : o # m => message'[o] = message[o]
  BY <1>1 DEF LineTypes
<1>3. LineTypes' BY <1>1, <1>2 DEF LineTypes
<1>4. Queued'
  <2> SUFFICES ASSUME NEW o \in Messages, message'[o].status # "none" PROVE \E k \in links' : Origin(o, k)'
    BY DEF Queued
  <2>1. CASE o = m
    <3>1. PICK k \in links : Origin(m, k) /\ (y.status = "processing" => y.checked = k.id /\ y.to = k.subject)
      BY DEF LineInv, Queued
    <3>2. Origin(m, k)' BY <3>1, <1>2 DEF Origin, Born
    <3> QED BY <2>1, <3>2
  <2>2. CASE o # m
    <3>1. message'[o] = message[o] BY <2>2, <1>2
    <3>2. PICK k \in links : Origin(o, k) BY <3>1 DEF LineInv, Queued
    <3>3. Origin(o, k)' BY <3>1, <3>2 DEF Origin, Born
    <3> QED BY <3>3
  <2> QED BY <2>1, <2>2
<1> QED BY <1>2, <1>3, <1>4

LEMMA LineCheck ==
  ASSUME Line!BindingAssumption, LineInv, NEW m \in Messages, Line!Check(m)
  PROVE  LineInv'
<1>1. message[m].status = "queued" /\ UNCHANGED <<links, lineChallenge, bind, lineLock, calls>> BY DEF Line!Check
<1>2. PICK x \in LineMessage : x = message[m] BY DEF LineInv, LineTypes
<1>3. PICK y \in LineMessage :
        /\ message' = [message EXCEPT ![m] = y] /\ y.status # "none"
        /\ y.account = x.account /\ y.version = x.version /\ y.link = x.link
        /\ y.status = "processing" => \E k \in links : Origin(m, k) /\ y.checked = k.id /\ y.to = k.subject
  <2>1. CASE \E l \in Line!ActiveLink(m) : message[m].to \in {None, l.subject}
    <3>1. PICK l \in Line!ActiveLink(m) : message' = [message EXCEPT
              ![m] = [message[m] EXCEPT !.status = "processing", !.to = l.subject, !.checked = l.id]]
      BY <2>1 DEF Line!Check
    <3>2. l \in links /\ l.id = message[m].link /\ l.account = message[m].account /\ Born(l) = message[m].version
      BY <1>1, ActiveIsOrigin
    <3>3. PICK s \in Subjects : s = l.subject BY <3>2 DEF LineInv, LineTypes, LinkRow
    <3>4. PICK i \in Nat : i = l.id BY <3>2 DEF LineInv, LineTypes, LinkRow
    <3> DEFINE y == [x EXCEPT !.status = "processing", !.to = s, !.checked = i]
    <3>5. /\ y \in LineMessage /\ y.status = "processing" /\ y.to = s /\ y.checked = i
          /\ y.account = x.account /\ y.version = x.version /\ y.link = x.link
      BY DEF LineMessage
    <3>6. message' = [message EXCEPT ![m] = y] BY <3>1, <3>3, <3>4, <1>2
    <3> HIDE DEF y
    <3>7. Origin(m, l) BY <3>2, <1>1 DEF Origin
    <3> QED BY <3>2, <3>3, <3>4, <3>5, <3>6, <3>7
  <2>2. CASE ~\E l \in Line!ActiveLink(m) : message[m].to \in {None, l.subject}
    <3> DEFINE y == [x EXCEPT !.status = "skipped"]
    <3>1. y \in LineMessage /\ y.status = "skipped" /\ y.account = x.account /\ y.version = x.version /\ y.link = x.link
      BY DEF LineMessage
    <3>2. message' = [message EXCEPT ![m] = y] BY <2>2, <1>2 DEF Line!Check
    <3> HIDE DEF y
    <3> QED BY <3>1, <3>2
  <2> QED BY <2>1, <2>2
<1>4. LineTypes' /\ Queued' /\ \A o \in Messages : o # m => message'[o] = message[o]
  BY <1>1, <1>2, <1>3, MessageGoesOn
<1>5. message'[m] = y BY <1>3 DEF LineInv, LineTypes
<1>6. Called' BY <1>1, <1>3, <1>4, <1>5 DEF LineInv, Called
<1>7. \A o \in Messages : message'[o].link = message[o].link /\ message'[o].account = message[o].account
  BY <1>2, <1>3, <1>4, <1>5
<1>8. Line!NeverToAnother' BY <1>1, <1>7 DEF LineInv, Called, Line!NeverToAnother
<1> QED BY <1>1, <1>4, <1>6, <1>8, BindersStand DEF LineInv

LEMMA LineCall ==
  ASSUME Line!BindingAssumption, LineInv, NEW m \in Messages, Line!Call(m)
  PROVE  LineInv'
<1> DEFINE new == [message |-> m, link |-> message[m].checked, to |-> message[m].to,
                   n |-> Cardinality({x \in calls : x.message = m})]
<1>1. /\ message[m].status = "processing" /\ calls' = calls \cup {new} /\ UNCHANGED <<links, lineChallenge, bind, lineLock>>
  BY LineCardinality DEF Line!Call
<1>2. new.message = m /\ new.link = message[m].checked /\ new.to = message[m].to OBVIOUS
<1> HIDE DEF new
<1>3. PICK x \in LineMessage : x = message[m] BY DEF LineInv, LineTypes
<1>4. PICK s \in {"queued", "settled"} : message' = [message EXCEPT ![m] = [message[m] EXCEPT !.status = s]]
  BY DEF Line!Call
<1> DEFINE y == [x EXCEPT !.status = s]
<1>5. y \in LineMessage /\ y.status = s /\ y.account = x.account /\ y.version = x.version /\ y.link = x.link
  BY <1>4 DEF LineMessage
<1>6. message' = [message EXCEPT ![m] = y] BY <1>3, <1>4
<1> HIDE DEF y
<1>7. y.status # "none" /\ y.status # "processing" BY <1>4, <1>5
<1>8. LineTypes' /\ Queued' /\ \A o \in Messages : o # m => message'[o] = message[o]
  BY <1>1, <1>3, <1>5, <1>6, <1>7, MessageGoesOn
<1>9. message'[m] = y BY <1>6 DEF LineInv, LineTypes
<1>10. Called' BY <1>1, <1>2, <1>7, <1>8, <1>9 DEF LineInv, Called
<1>11. \A o \in Messages : message'[o].link = message[o].link /\ message'[o].account = message[o].account
  BY <1>3, <1>5, <1>8, <1>9
<1>12. PICK k \in links : Origin(m, k) BY <1>1 DEF LineInv, Queued
<1>13. new.link = k.id /\ new.to = k.subject /\ k.id = message[m].link /\ k.account = message[m].account
  BY <1>1, <1>2, <1>12 DEF Origin
<1>14. Line!NeverToAnother'
  <2> SUFFICES ASSUME NEW c \in calls'
               PROVE /\ c.link = message'[c.message].link
                     /\ \E l \in links : l.id = c.link /\ l.subject = c.to /\ l.account = message'[c.message].account
    BY <1>1 DEF Line!NeverToAnother
  <2>1. CASE c \in calls BY <2>1, <1>11 DEF LineInv, Called, Line!NeverToAnother
  <2>2. CASE c = new BY <2>2, <1>2, <1>11, <1>12, <1>13
  <2> QED BY <2>1, <2>2, <1>1
<1> QED BY <1>1, <1>8, <1>10, <1>14, BindersStand DEF LineInv

LEMMA LineStep ==
  ASSUME Line!BindingAssumption, LineInv, [Line!Next]_lineVars
  PROVE  LineInv'
<1>1. ASSUME NEW c \in Challenges, NEW a \in Accounts, Line!Challenge(c, a) PROVE LineInv' BY <1>1, LineAsked
<1>2. ASSUME NEW r \in Requests, NEW c \in Challenges, NEW s \in Subjects, Line!BindStart(r, c, s) PROVE LineInv'
  BY <1>2, LineBindStart
<1>3. ASSUME NEW r \in Requests, Line!LockChallenge(r) PROVE LineInv' BY <1>3, LineLockChallenge
<1>4. ASSUME NEW r \in Requests, Line!LockAccount(r) PROVE LineInv' BY <1>4, LineLockAccount
<1>5. ASSUME NEW r \in Requests, Line!BindInsert(r) PROVE LineInv' BY <1>5, LineInsert
<1>6. ASSUME NEW a \in Accounts, Line!Unlink(a) PROVE LineInv' BY <1>6, LineUnlink
<1>7. ASSUME NEW m \in Messages, NEW a \in Accounts, Line!Enqueue(m, a) PROVE LineInv' BY <1>7, LineEnqueue
<1>8. ASSUME NEW m \in Messages, Line!Check(m) PROVE LineInv' BY <1>8, LineCheck
<1>9. ASSUME NEW m \in Messages, Line!Call(m) PROVE LineInv' BY <1>9, LineCall
<1>10. CASE UNCHANGED lineVars
  <2>1. UNCHANGED <<links, lineChallenge, bind, lineLock, message, calls>> BY <1>10 DEF lineVars
  <2>2. LineTypes' BY <2>1 DEF LineInv, LineTypes
  <2> QED BY <2>1, <2>2, LinksStand, BindersStand DEF LineInv
<1> QED BY <1>1, <1>2, <1>3, <1>4, <1>5, <1>6, <1>7, <1>8, <1>9, <1>10 DEF Line!Next

\* Each link was made with a version that one of the links before it, unlinked since, had not reached;
\* no two active ones share an account or a LINE account; who holds a row has looked at it.
Reached(l) == l.version >= 1 /\ l.version <= 2 * l.id /\ (~l.revoked => l.version < 2 * l.id)
LineKept ==
  /\ Cardinality(links) <= MaxLinks /\ \A l \in links : Reached(l)
  /\ \A r \in Requests : bind[r].pc = "insert" => bind[r].version <= 2 * Cardinality(links) + 1
  /\ \A l, k \in Line!Active : l # k => l.account # k.account /\ l.subject # k.subject
  /\ \A x \in Accounts \cup Challenges : lineLock[x] # None => bind[lineLock[x]].pc \in {"account", "insert"}

LEMMA LineTyped == ASSUME Line!BindingAssumption, LineInv, LineKept PROVE Line!BindingTypeOK
<1>1. PICK n \in Nat : n = Cardinality(links) BY FS_CardinalityType DEF LineInv, LineTypes
<1>2. MaxLinks \in Nat BY Line!BindingAssumption DEF Line!BindingAssumption
<1>3. \A l \in links : l.account \in Accounts /\ l.subject \in Subjects /\ l.id \in Nat /\ l.version \in Nat
  BY DEF LineInv, LineTypes, LinkRow
<1>4. \A l \in links : l.id <= n BY <1>1 DEF LineInv, Numbered
<1>5. \A l \in links : l.version \in 1..2 * MaxLinks
  <2> TAKE l \in links
  <2>1. l.version >= 1 /\ l.version <= 2 * l.id BY DEF LineKept, Reached
  <2>2. n <= MaxLinks BY <1>1 DEF LineKept
  <2>3. l.version <= 2 * MaxLinks BY <1>2, <1>3, <1>4, <2>1, <2>2
  <2> QED BY <1>2, <1>3, <2>1, <2>3
<1>6. DOMAIN lineLock = Accounts \cup Challenges BY DEF LineInv, LineTypes
<1> QED BY <1>3, <1>5, <1>6 DEF LineKept, Line!BindingTypeOK

LEMMA LineKeptInit == ASSUME Line!BindingAssumption PROVE Line!Init => LineKept
<1> SUFFICES ASSUME Line!Init PROVE LineKept
  OBVIOUS
<1>1. links = {} /\ Cardinality(links) = 0 BY FS_EmptySet DEF Line!Init
<1> QED BY <1>1, Line!BindingAssumption DEF Line!Init, Line!BindingAssumption, Line!Active, Line!Idle, LineKept

LEMMA NextBelow ==
  ASSUME LineInv, LineKept, NEW a \in Accounts, NEW n \in Nat, n = Cardinality(links)
  PROVE  Line!NextVersion(a) <= 2 * n + 1
<1> DEFINE S == {0} \cup {l.version : l \in {x \in links : x.account = a}}
<1>1. S \subseteq Nat BY DEF LineInv, LineTypes, LinkRow
<1>2. PICK v \in S : \A l \in links : l.account = a => l.version <= v BY DEF LineInv, Greatest
<1>3. \A w \in S : v >= w BY <1>1, <1>2
<1>4. Line!Max(S) \in S BY <1>2, <1>3 DEF Line!Max
<1>5. Line!NextVersion(a) = Line!Max(S) + 1 BY DEF Line!NextVersion
<1>6. \A l \in links : l.version <= 2 * n
  <2> TAKE l \in links
  <2>1. l.id \in Nat /\ l.version \in Nat /\ l.id <= n BY DEF LineInv, LineTypes, LinkRow, Numbered
  <2>2. l.version <= 2 * l.id BY DEF LineKept, Reached
  <2> QED BY <2>1, <2>2
<1>7. \A w \in S : w <= 2 * n BY <1>6
<1> HIDE DEF S
<1>8. Line!Max(S) \in Nat /\ Line!Max(S) <= 2 * n BY <1>1, <1>4, <1>7
<1> QED BY <1>5, <1>8

\* A bind goes on and holds what it held and one row more, or ends and holds nothing.
LEMMA BindHolds ==
  ASSUME Line!BindingAssumption, LineInv, LineKept, NEW r \in Requests, NEW q, bind' = [bind EXCEPT ![r] = q],
         \A x \in Accounts \cup Challenges : lineLock'[x] \in {None, lineLock[x], r},
         q.pc \in {"account", "insert"} \/ \A x \in Accounts \cup Challenges : lineLock'[x] # r
  PROVE  \A x \in Accounts \cup Challenges : lineLock'[x] # None => bind'[lineLock'[x]].pc \in {"account", "insert"}
<1> SUFFICES ASSUME NEW x \in Accounts \cup Challenges, lineLock'[x] # None
             PROVE bind'[lineLock'[x]].pc \in {"account", "insert"}
  OBVIOUS
<1>1. DOMAIN bind = Requests /\ lineLock[x] \in Requests \cup {None} BY DEF LineInv, LineTypes
<1>2. CASE lineLock'[x] = r BY <1>1, <1>2
<1>3. CASE lineLock'[x] # r
  <2>1. lineLock'[x] = lineLock[x] /\ lineLock[x] \in Requests BY <1>1, <1>3
  <2>2. bind'[lineLock[x]] = bind[lineLock[x]] BY <1>1, <1>3, <2>1
  <2> QED BY <2>1, <2>2 DEF LineKept
<1> QED BY <1>2, <1>3

LEMMA LineKeptNext == ASSUME Line!BindingAssumption, LineInv, LineKept, [Line!Next]_lineVars PROVE LineKept'
<1>a. /\ bind \in [Requests -> Binding] /\ lineLock \in [Accounts \cup Challenges -> Requests \cup {None}]
      /\ None \notin Requests /\ LineTypes
  BY Line!BindingAssumption DEF LineInv, LineTypes, Line!BindingAssumption
<1>b. PICK n \in Nat : n = Cardinality(links) BY <1>a, FS_CardinalityType DEF LineTypes
<1>i. Line!Idle.pc = "idle" BY DEF Line!Idle
<1>u. ASSUME NEW r \in Requests PROVE
        \A x \in Accounts \cup Challenges : Line!Unlocked(r)[x] \in {None, lineLock[x]} /\ Line!Unlocked(r)[x] # r
  BY <1>a DEF Line!Unlocked
<1>l. ASSUME UNCHANGED links PROVE
        /\ Cardinality(links') <= MaxLinks /\ (\A l \in links' : Reached(l)')
        /\ \A l, k \in Line!Active' : l # k => l.account # k.account /\ l.subject # k.subject
  BY <1>l DEF LineKept, Reached, Line!Active
\* A bind that goes on while no link is written.
<1>g. ASSUME NEW r \in Requests, NEW q, bind' = [bind EXCEPT ![r] = q], UNCHANGED links,
             q.pc = "insert" => q.version <= 2 * n + 1,
             \A x \in Accounts \cup Challenges : lineLock'[x] # None => bind'[lineLock'[x]].pc \in {"account", "insert"}
      PROVE  LineKept'
  BY <1>a, <1>b, <1>l, <1>g DEF LineKept
<1>e. ASSUME NEW r \in Requests, bind' = [bind EXCEPT ![r] = Line!Idle], lineLock' = Line!Unlocked(r)
      PROVE  \A x \in Accounts \cup Challenges : lineLock'[x] # None => bind'[lineLock'[x]].pc \in {"account", "insert"}
  <2>1. PICK q : q = Line!Idle OBVIOUS
  <2>2. \A x \in Accounts \cup Challenges : lineLock'[x] \in {None, lineLock[x]} /\ lineLock'[x] # r BY <1>e, <1>u
  <2>3. \A x \in Accounts \cup Challenges : lineLock'[x] \in {None, lineLock[x], r} BY <2>2
  <2>4. bind' = [bind EXCEPT ![r] = q] BY <1>e, <2>1
  <2> QED BY <2>2, <2>3, <2>4, BindHolds
<1>1. CASE (\E c \in Challenges, a \in Accounts : Line!Challenge(c, a)) \/ UNCHANGED lineVars
           \/ (\E m \in Messages : (\E a \in Accounts : Line!Enqueue(m, a)) \/ Line!Check(m) \/ Line!Call(m))
  <2>1. UNCHANGED <<links, bind, lineLock>>
    BY <1>1 DEF Line!Challenge, Line!Enqueue, Line!Check, Line!Call, lineVars
  <2> QED BY <2>1, <1>l DEF LineKept
<1>2. ASSUME NEW r \in Requests, NEW c \in Challenges, NEW s \in Subjects, Line!BindStart(r, c, s) PROVE LineKept'
  <2>1. PICK q : q = [Line!Idle EXCEPT !.pc = "challenge", !.challenge = c, !.subject = s] OBVIOUS
  <2>2. q.pc = "challenge" BY <2>1 DEF Line!Idle
  <2>3. bind' = [bind EXCEPT ![r] = q] /\ UNCHANGED <<links, lineLock>> /\ bind[r].pc = "idle"
    BY <1>2, <2>1 DEF Line!BindStart
  <2>4. \A x \in Accounts \cup Challenges : lineLock[x] # r BY <1>a, <2>3 DEF LineKept
  <2> QED BY <1>g, <2>2, <2>3, <2>4, BindHolds
<1>3. ASSUME NEW r \in Requests, Line!LockChallenge(r) PROVE LineKept'
  <2>1. bind[r].pc = "challenge" /\ UNCHANGED links BY <1>3 DEF Line!LockChallenge
  <2>2. \A x \in Accounts \cup Challenges : lineLock[x] # r BY <1>a, <2>1 DEF LineKept
  <2>3. CASE lineChallenge[bind[r].challenge].consumed
    <3>1. bind' = [bind EXCEPT ![r] = Line!Idle] /\ UNCHANGED lineLock BY <1>3, <2>3 DEF Line!LockChallenge
    <3> QED BY <1>g, <1>i, <2>1, <2>2, <3>1, BindHolds
  <2>4. CASE ~lineChallenge[bind[r].challenge].consumed
    <3>1. PICK q : q = [bind[r] EXCEPT !.pc = "account"] OBVIOUS
    <3>2. q.pc = "account" BY <1>a, <3>1 DEF Binding
    <3>3. bind' = [bind EXCEPT ![r] = q] /\ lineLock' = [lineLock EXCEPT ![bind[r].challenge] = r]
      BY <1>3, <2>4, <3>1 DEF Line!LockChallenge
    <3>4. \A x \in Accounts \cup Challenges : lineLock'[x] \in {None, lineLock[x], r} BY <1>a, <3>3
    <3> QED BY <1>g, <2>1, <3>2, <3>3, <3>4, BindHolds
  <2> QED BY <2>3, <2>4
<1>4. ASSUME NEW r \in Requests, Line!LockAccount(r) PROVE LineKept'
  <2>1. bind[r].pc = "account" /\ UNCHANGED links BY <1>4 DEF Line!LockAccount
  <2>2. CASE Line!Conflict(r)
    <3>1. bind' = [bind EXCEPT ![r] = Line!Idle] /\ lineLock' = Line!Unlocked(r) BY <1>4, <2>2 DEF Line!LockAccount
    <3> QED BY <1>e, <1>g, <1>i, <2>1, <3>1
  <2>3. CASE ~Line!Conflict(r)
    <3>1. PICK a \in Accounts : a = Line!Of(r) BY <2>1 DEF LineInv, Binders, Serving
    <3>2. PICK q : q = [bind[r] EXCEPT !.pc = "insert", !.version = Line!NextVersion(a)] OBVIOUS
    <3>3. q.pc = "insert" /\ q.version = Line!NextVersion(a) BY <1>a, <3>2 DEF Binding
    <3>4. bind' = [bind EXCEPT ![r] = q] /\ lineLock' = [lineLock EXCEPT ![a] = r]
      BY <1>4, <2>3, <3>1, <3>2 DEF Line!LockAccount
    <3>5. q.version <= 2 * n + 1 BY <1>b, <3>3, NextBelow
    <3>6. \A x \in Accounts \cup Challenges : lineLock'[x] \in {None, lineLock[x], r} BY <1>a, <3>4
    <3> QED BY <1>g, <2>1, <3>3, <3>4, <3>5, <3>6, BindHolds
  <2> QED BY <2>2, <2>3
<1>5. ASSUME NEW r \in Requests, Line!BindInsert(r) PROVE LineKept'
  <2>1. bind[r].pc = "insert" /\ bind' = [bind EXCEPT ![r] = Line!Idle] /\ lineLock' = Line!Unlocked(r)
    BY <1>5 DEF Line!BindInsert
  <2>2. CASE Line!Conflict(r)
    <3>1. UNCHANGED links BY <1>5, <2>2 DEF Line!BindInsert
    <3> QED BY <1>e, <1>g, <1>i, <2>1, <3>1
  <2>3. CASE ~Line!Conflict(r)
    <3>1. PICK new : new = [id |-> n + 1, account |-> Line!Of(r), subject |-> bind[r].subject,
                            version |-> bind[r].version, revoked |-> FALSE, challenge |-> bind[r].challenge]
      OBVIOUS
    <3>2. links' = links \cup {new} /\ n < MaxLinks
      BY <1>5, <1>b, <2>3, <3>1, LineCardinality DEF Line!BindInsert
    <3>3. bind[r].version \in Nat /\ bind[r].version > 0 /\ bind[r].version <= 2 * n + 1
      BY <1>a, <1>b, <2>1 DEF LineInv, Binders, Serving, Binding, LineKept
    <3>4. Reached(new) BY <3>1, <3>3 DEF Reached
    <3>5. new \notin links
      <4>1. \A l \in links : l.id <= n BY <1>b DEF LineInv, Numbered
      <4> QED BY <3>1, <4>1
    <3>6. Cardinality(links') = n + 1 BY <1>a, <1>b, <3>2, <3>5, FS_AddElement DEF LineTypes
    <3>7. Cardinality(links') <= MaxLinks
      BY <3>2, <3>6, Line!BindingAssumption DEF Line!BindingAssumption
    <3>8. \A l \in links' : Reached(l)' BY <3>2, <3>4 DEF LineKept, Reached
    <3>9. \A l \in Line!Active : l.account # new.account /\ l.subject # new.subject
      BY <2>3, <3>1 DEF Line!Conflict
    <3>10. Line!Active' \subseteq Line!Active \cup {new} BY <3>2 DEF Line!Active
    <3>11. \A l, k \in Line!Active' : l # k => l.account # k.account /\ l.subject # k.subject
      BY <3>9, <3>10 DEF LineKept
    <3>12. \A q \in Requests : bind'[q].pc = "insert" => bind'[q].version <= 2 * (n + 1) + 1
      <4> SUFFICES ASSUME NEW q \in Requests, bind'[q].pc = "insert" PROVE bind'[q].version <= 2 * (n + 1) + 1
        OBVIOUS
      <4>1. q # r /\ bind'[q] = bind[q] BY <1>a, <1>i, <2>1
      <4>2. bind[q].version \in Nat /\ bind[q].version <= 2 * n + 1 BY <1>a, <1>b, <4>1 DEF LineKept, Binding
      <4> QED BY <4>1, <4>2
    <3> QED BY <1>e, <2>1, <3>6, <3>7, <3>8, <3>11, <3>12 DEF LineKept
  <2> QED BY <2>2, <2>3
<1>6. ASSUME NEW a \in Accounts, Line!Unlink(a) PROVE LineKept'
  <2>1. PICK l \in Line!Active : links' = (links \ {l}) \cup {[l EXCEPT !.revoked = TRUE, !.version = l.version + 1]}
    BY <1>6 DEF Line!Unlink
  <2>2. l \in links /\ ~l.revoked /\ l \in LinkRow BY <1>a, <2>1 DEF Line!Active, LineTypes
  <2>3. PICK k : k = [l EXCEPT !.revoked = TRUE, !.version = l.version + 1] OBVIOUS
  <2>4. k.id = l.id /\ k.revoked /\ k.version = l.version + 1 BY <2>2, <2>3 DEF LinkRow
  <2>5. l.id \in Nat /\ l.version \in Nat BY <2>2 DEF LinkRow
  <2>6. Reached(k)
    <3>1. l.version >= 1 /\ l.version < 2 * l.id BY <2>2 DEF LineKept, Reached
    <3> QED BY <2>4, <2>5, <3>1 DEF Reached
  <2>7. links' = (links \ {l}) \cup {k} BY <2>1, <2>3
  <2>8. k \notin links BY <2>2, <2>4 DEF LineInv, Numbered
  <2>9. Cardinality(links') = n
    <3>1. IsFiniteSet(links \ {l}) /\ Cardinality(links \ {l}) = n - 1
      BY <1>a, <1>b, <2>2, FS_RemoveElement DEF LineTypes
    <3>2. k \notin links \ {l} BY <2>8
    <3>3. Cardinality(links') = n - 1 + 1 BY <2>7, <3>1, <3>2, FS_AddElement
    <3> QED BY <3>3
  <2>10. Line!Active' \subseteq Line!Active BY <2>4, <2>7 DEF Line!Active
  <2>11. UNCHANGED <<bind, lineLock>> BY <1>6 DEF Line!Unlink
  <2>12. \A x \in links' : Reached(x)' BY <2>6, <2>7 DEF LineKept, Reached
  <2> QED BY <1>b, <2>9, <2>10, <2>11, <2>12 DEF LineKept
<1> QED BY <1>1, <1>2, <1>3, <1>4, <1>5, <1>6 DEF Line!Next

---------------------------------------------------------------------------
(* The inbox of LINE's events.                                             *)

\* A link shows the latest of what was counted for it, and what a pass is about to write of a link that
\* it holds is the latest of that and of what it counts.
Statuses == Inbox!Final \cup {None, "PENDING", "WAITING_ASSOCIATION"}
InboxRow == [status : Statuses, binding : Nat]
InboxLink == [binding : Nat, active : BOOLEAN, observed : {"UNKNOWN", "FOLLOWING", "UNFOLLOWED"}, last : Nat]
Rows == UNION {[S -> InboxRow] : S \in SUBSET Events}
Links == UNION {[S -> InboxLink] : S \in SUBSET Senders}
InboxPass == [batch : SUBSET Events, rows : Rows, links : Links]

InboxTypes ==
  /\ inbox \in [Events -> InboxRow] /\ link \in [Senders -> InboxLink]
  /\ pass \in [Workers -> InboxPass] /\ linkLock \in [Senders -> Workers \cup {None}]

\* l shows the latest of the events S.
Latest(S, l) ==
  /\ S = {} => l.observed = "UNKNOWN" /\ l.last = 0
  /\ S # {} => \E e \in S : At[e] = l.last
  /\ \A e \in S : At[e] <= l.last /\ (At[e] = l.last => l.observed = Inbox!Observed(e))

InboxCounted(s) ==
  {e \in Events : Subject[e] = s /\ inbox[e].status = "PROCESSED" /\ inbox[e].binding = link[s].binding}
PassCounted(w, s) == {e \in Inbox!Done(w) : Subject[e] = s /\ pass[w].rows[e].status = "PROCESSED"}

\* The events that were counted, were counted for a binding there has been.
Bound == \A e \in Events : inbox[e].status = "PROCESSED" => inbox[e].binding <= link[Subject[e]].binding
Shown == \A s \in Senders : link[s].active => Latest(InboxCounted(s), link[s])

\* What a pass will write about a link, it writes of an active one that it has locked.
WritesLatest(w, s) ==
  /\ linkLock[s] = w /\ link[s].active
  /\ pass[w].links[s].active /\ pass[w].links[s].binding = link[s].binding
  /\ Latest(InboxCounted(s) \cup PassCounted(w, s), pass[w].links[s])
Passing(w) ==
  /\ DOMAIN pass[w].rows \subseteq pass[w].batch /\ pass[w].batch \subseteq Inbox!Open
  /\ \A s \in DOMAIN pass[w].links : WritesLatest(w, s)
  /\ \A e \in DOMAIN pass[w].rows : pass[w].rows[e].status = "PROCESSED" =>
       Subject[e] \in DOMAIN pass[w].links /\ pass[w].rows[e].binding = link[Subject[e]].binding
Passes ==
  /\ \A w \in Workers : Passing(w)
  /\ \A v, w \in Workers : v # w => pass[v].batch \cap pass[w].batch = {}

InboxInv == InboxTypes /\ Bound /\ Shown /\ Passes
LEMMA EmptyPass == Inbox!NoPass \in InboxPass /\ Inbox!NoPass.batch = {} /\ DOMAIN Inbox!NoPass.rows = {} /\ DOMAIN Inbox!NoPass.links = {}
<1>1. <<>> \in [{} -> InboxRow] /\ <<>> \in [{} -> InboxLink] OBVIOUS
<1>2. <<>> \in Rows /\ <<>> \in Links BY <1>1 DEF Rows, Links
<1>3. DOMAIN <<>> = {} OBVIOUS
<1> QED BY <1>2, <1>3 DEF Inbox!NoPass, InboxPass

LEMMA InboxInit == ASSUME Inbox!InboxAssumption PROVE Inbox!Init => InboxInv
<1> SUFFICES ASSUME Inbox!Init PROVE InboxInv OBVIOUS
<1>1. InboxTypes BY EmptyPass DEF Inbox!Init, InboxTypes, InboxRow, InboxLink, Statuses
<1>2. \A e \in Events : inbox[e].status # "PROCESSED" BY Inbox!InboxAssumption DEF Inbox!Init, Inbox!InboxAssumption, Inbox!Final
<1>3. Bound BY <1>2 DEF Bound
<1>4. Shown BY DEF Inbox!Init, Shown
<1>5. Passes BY EmptyPass DEF Inbox!Init, Passes, Passing
<1> QED BY <1>1, <1>3, <1>4, <1>5 DEF InboxInv

\* What is shown of the events does not change where the rows of counted events and the link do not.
LEMMA CountsStand ==
  ASSUME NEW s \in Senders, link'[s].binding = link[s].binding,
         \A e \in Events : Subject[e] = s =>
           inbox'[e] = inbox[e] \/ (inbox[e].status # "PROCESSED" /\ inbox'[e].status # "PROCESSED")
  PROVE  InboxCounted(s)' = InboxCounted(s)
BY DEF InboxCounted

LEMMA PassStands ==
  ASSUME InboxTypes, NEW v \in Workers, Passing(v), pass'[v] = pass[v],
         \A s \in Senders : linkLock[s] = v => linkLock'[s] = v,
         \A s \in DOMAIN pass[v].links : link'[s].active = link[s].active /\ link'[s].binding = link[s].binding
                                        /\ InboxCounted(s)' = InboxCounted(s),
         \A e \in pass[v].batch : e \in Inbox!Open'
  PROVE  Passing(v)'
<1>1. DOMAIN pass[v].links \subseteq Senders BY DEF InboxTypes, InboxPass, Links
<1>2. \A s \in DOMAIN pass[v].links : WritesLatest(v, s)'
  <2> SUFFICES ASSUME NEW s \in DOMAIN pass[v].links PROVE WritesLatest(v, s)' OBVIOUS
  <2>1. WritesLatest(v, s) /\ s \in Senders BY <1>1 DEF Passing
  <2>2. PassCounted(v, s)' = PassCounted(v, s) BY DEF PassCounted, Inbox!Done
  <2>3. Latest(InboxCounted(s) \cup PassCounted(v, s), pass[v].links[s]) BY <2>1 DEF WritesLatest
  <2>4. Latest(InboxCounted(s)' \cup PassCounted(v, s)', pass'[v].links[s]) BY <2>2, <2>3
  <2> QED BY <2>1, <2>4 DEF WritesLatest, Latest
<1>3. DOMAIN pass[v].rows \subseteq pass[v].batch BY DEF Passing
<1>4. ASSUME NEW e \in DOMAIN pass[v].rows, pass[v].rows[e].status = "PROCESSED"
      PROVE  Subject[e] \in DOMAIN pass[v].links /\ pass[v].rows[e].binding = link'[Subject[e]].binding
  BY <1>4 DEF Passing
<1> QED BY <1>2, <1>3, <1>4 DEF Passing

LEMMA InboxWebhook ==
  ASSUME Inbox!InboxAssumption, InboxInv, NEW e \in Events, Inbox!Webhook(e)
  PROVE  InboxInv' /\ Inbox!CountedOnceStep
<1>1. InboxTypes BY DEF InboxInv
<1> DEFINE y == [status |-> "PENDING", binding |-> 0]
<1>2. y \in InboxRow /\ y.status = "PENDING" BY DEF InboxRow, Statuses
<1> HIDE DEF y
<1>3. UNCHANGED <<link, pass, linkLock>> BY DEF Inbox!Webhook
<1>4. /\ inbox' \in [Events -> InboxRow] /\ \A d \in Events : d # e => inbox'[d] = inbox[d]
      /\ inbox'[e] = inbox[e] \/ (inbox[e].status = None /\ inbox'[e] = y)
  <2>1. inbox' = IF inbox[e].status = None THEN [inbox EXCEPT ![e] = y] ELSE inbox BY DEF Inbox!Webhook, Inbox!Store, y
  <2> QED BY <2>1, <1>1, <1>2 DEF InboxTypes
<1>5. InboxTypes' BY <1>1, <1>3, <1>4 DEF InboxTypes
<1>6. None # "PROCESSED" /\ None \notin Inbox!Final /\ None # "PENDING" /\ None # "WAITING_ASSOCIATION"
  BY Inbox!InboxAssumption DEF Inbox!InboxAssumption, Inbox!Final
<1>7. \A d \in Events : inbox'[d] = inbox[d] \/ (inbox[d].status # "PROCESSED" /\ inbox'[d].status # "PROCESSED")
  BY <1>2, <1>4, <1>6
<1>8. \A s \in Senders : InboxCounted(s)' = InboxCounted(s) BY <1>3, <1>7, CountsStand
<1>9. Bound' BY <1>3, <1>7 DEF InboxInv, Bound
<1>10. Shown' BY <1>3, <1>8 DEF InboxInv, Shown, Latest
<1>11. Passes'
  <2>1. ASSUME NEW v \in Workers PROVE Passing(v)'
    <3>1. Passing(v) /\ pass[v].batch \subseteq Inbox!Open BY DEF InboxInv, Passes, Passing
    <3>2. \A d \in pass[v].batch : d \in Inbox!Open' BY <3>1, <1>4, <1>6 DEF Inbox!Open
    <3>3. DOMAIN pass[v].links \subseteq Senders BY <1>1 DEF InboxTypes, InboxPass, Links
    <3> QED BY <3>1, <3>2, <3>3, <1>1, <1>3, <1>8, PassStands
  <2> QED BY <2>1, <1>3 DEF InboxInv, Passes
<1>12. Inbox!CountedOnceStep BY <1>4, <1>6 DEF Inbox!CountedOnceStep
<1> QED BY <1>5, <1>9, <1>10, <1>11, <1>12 DEF InboxInv

\* A step that only begins or goes on with a pass leaves what is recorded alone.
LEMMA RecordsStand ==
  ASSUME InboxInv, UNCHANGED <<inbox, link>>
  PROVE  Bound' /\ Shown' /\ Inbox!CountedOnceStep /\ \A s \in Senders : InboxCounted(s)' = InboxCounted(s)
<1>1. \A s \in Senders : InboxCounted(s)' = InboxCounted(s) BY DEF InboxCounted
<1> QED BY <1>1 DEF InboxInv, Bound, Shown, Latest, Inbox!CountedOnceStep

LEMMA InboxBegin ==
  ASSUME Inbox!InboxAssumption, InboxInv, NEW w \in Workers, Inbox!Begin(w)
  PROVE  InboxInv' /\ Inbox!CountedOnceStep
<1>1. InboxTypes BY DEF InboxInv
<1>2. PICK b \in Inbox!Batches : pass' = [pass EXCEPT ![w] = [Inbox!NoPass EXCEPT !.batch = b]] BY DEF Inbox!Begin
<1>3. UNCHANGED <<inbox, link, linkLock>> BY DEF Inbox!Begin
<1>4. b \subseteq Inbox!Open /\ b \subseteq Events /\ \A v \in Workers : pass[v].batch \cap b = {}
  BY <1>2 DEF Inbox!Batches, Inbox!Locked, Inbox!Open
<1> DEFINE y == [Inbox!NoPass EXCEPT !.batch = b]
<1>5. y \in InboxPass /\ y.batch = b /\ DOMAIN y.rows = {} /\ DOMAIN y.links = {} BY <1>4, EmptyPass DEF InboxPass, Inbox!NoPass
<1> HIDE DEF y
<1>6. pass' \in [Workers -> InboxPass] /\ pass'[w] = y /\ \A v \in Workers : v # w => pass'[v] = pass[v]
  BY <1>1, <1>2, <1>5 DEF InboxTypes, y
<1>7. InboxTypes' BY <1>1, <1>3, <1>6 DEF InboxTypes
<1>8. \A v \in Workers : Passing(v)'
  <2> SUFFICES ASSUME NEW v \in Workers PROVE Passing(v)' OBVIOUS
  <2>1. CASE v = w BY <2>1, <1>3, <1>4, <1>5, <1>6 DEF Passing, Inbox!Open
  <2>2. CASE v # w
    <3>1. Passing(v) /\ pass[v].batch \subseteq Inbox!Open BY DEF InboxInv, Passes, Passing
    <3>2. \A d \in pass[v].batch : d \in Inbox!Open' BY <3>1, <1>3 DEF Inbox!Open
    <3>3. DOMAIN pass[v].links \subseteq Senders BY <1>1 DEF InboxTypes, InboxPass, Links
    <3>4. \A s \in Senders : InboxCounted(s)' = InboxCounted(s) BY <1>3, RecordsStand
    <3> QED BY <2>2, <3>1, <3>2, <3>3, <3>4, <1>1, <1>3, <1>6, PassStands
  <2> QED BY <2>1, <2>2
<1>9. \A u, v \in Workers : u # v => pass'[u].batch \cap pass'[v].batch = {}
  BY <1>4, <1>5, <1>6 DEF InboxInv, Passes
<1> QED BY <1>3, <1>7, <1>8, <1>9, RecordsStand DEF InboxInv, Passes
LEMMA PutRow ==
  ASSUME NEW f \in Rows, NEW e \in Events, NEW v \in InboxRow
  PROVE  /\ Inbox!Put(f, e, v) \in Rows /\ DOMAIN Inbox!Put(f, e, v) = DOMAIN f \cup {e} /\ Inbox!Put(f, e, v)[e] = v
         /\ \A d \in DOMAIN f : d # e => Inbox!Put(f, e, v)[d] = f[d]
<1>1. PICK S \in SUBSET Events : f \in [S -> InboxRow] BY DEF Rows
<1>2. Inbox!Put(f, e, v) \in [S \cup {e} -> InboxRow] BY <1>1 DEF Inbox!Put
<1>3. S \cup {e} \in SUBSET Events OBVIOUS
<1> QED BY <1>1, <1>2, <1>3 DEF Inbox!Put, Rows

LEMMA PutLink ==
  ASSUME NEW f \in Links, NEW s \in Senders, NEW l \in InboxLink
  PROVE  /\ Inbox!Put(f, s, l) \in Links /\ DOMAIN Inbox!Put(f, s, l) = DOMAIN f \cup {s} /\ Inbox!Put(f, s, l)[s] = l
         /\ \A t \in DOMAIN f : t # s => Inbox!Put(f, s, l)[t] = f[t]
<1>1. PICK S \in SUBSET Senders : f \in [S -> InboxLink] BY DEF Links
<1>2. Inbox!Put(f, s, l) \in [S \cup {s} -> InboxLink] BY <1>1 DEF Inbox!Put
<1>3. S \cup {s} \in SUBSET Senders OBVIOUS
<1> QED BY <1>1, <1>2, <1>3 DEF Inbox!Put, Links

\* What a pass writes of one event, given what that makes of its rows and links.
LEMMA PassWritten ==
  ASSUME InboxTypes, NEW w \in Workers, NEW e \in Events, NEW x \in InboxRow, NEW f \in Links, Inbox!Write(w, e, x, f)
  PROVE  /\ pass' \in [Workers -> InboxPass] /\ \A v \in Workers : v # w => pass'[v] = pass[v]
         /\ pass'[w].batch = pass[w].batch /\ pass'[w].links = f
         /\ DOMAIN pass'[w].rows = Inbox!Done(w) \cup {e} /\ pass'[w].rows[e] = x
         /\ \A d \in Inbox!Done(w) : d # e => pass'[w].rows[d] = pass[w].rows[d]
<1>1. PICK p \in InboxPass : p = pass[w] BY DEF InboxTypes
<1>2. PICK g \in Rows : g = p.rows BY DEF InboxPass
<1>3. PICK h \in Rows : /\ h = Inbox!Put(g, e, x) /\ DOMAIN h = DOMAIN g \cup {e} /\ h[e] = x
                        /\ \A d \in DOMAIN g : d # e => h[d] = g[d]
  <2>1. /\ Inbox!Put(g, e, x) \in Rows /\ DOMAIN Inbox!Put(g, e, x) = DOMAIN g \cup {e} /\ Inbox!Put(g, e, x)[e] = x
        /\ \A d \in DOMAIN g : d # e => Inbox!Put(g, e, x)[d] = g[d]
    BY PutRow
  <2> QED BY <2>1
<1> DEFINE y == [p EXCEPT !.rows = h, !.links = f]
<1>4. y \in InboxPass /\ y.batch = p.batch /\ y.rows = h /\ y.links = f BY DEF InboxPass
<1>5. pass' = [pass EXCEPT ![w] = y] BY <1>1, <1>2, <1>3 DEF Inbox!Write
<1> HIDE DEF y
<1>6. pass' \in [Workers -> InboxPass] /\ pass'[w] = y /\ \A v \in Workers : v # w => pass'[v] = pass[v]
  BY <1>4, <1>5 DEF InboxTypes
<1> QED BY <1>1, <1>2, <1>3, <1>4, <1>6 DEF Inbox!Done

LEMMA InboxIgnore ==
  ASSUME Inbox!InboxAssumption, InboxInv, NEW w \in Workers, NEW e \in Events, Inbox!Ignore(w, e)
  PROVE  InboxInv' /\ Inbox!CountedOnceStep
<1>1. InboxTypes /\ Passing(w) BY DEF InboxInv, Passes
<1>2. /\ e \in pass[w].batch /\ e \notin Inbox!Done(w) /\ UNCHANGED <<inbox, link, linkLock>>
      /\ Inbox!Write(w, e, [status |-> "IGNORED", binding |-> 0], pass[w].links)
  BY DEF Inbox!Ignore, Inbox!Next1
<1>3. PICK x \in InboxRow : x = [status |-> "IGNORED", binding |-> 0] BY DEF InboxRow, Statuses, Inbox!Final
<1>4. PICK f \in Links : f = pass[w].links BY <1>1 DEF InboxTypes, InboxPass
<1>5. Inbox!Write(w, e, x, f) BY <1>2, <1>3, <1>4
<1>6. /\ pass' \in [Workers -> InboxPass] /\ \A v \in Workers : v # w => pass'[v] = pass[v]
      /\ pass'[w].batch = pass[w].batch /\ pass'[w].links = f
      /\ DOMAIN pass'[w].rows = Inbox!Done(w) \cup {e} /\ pass'[w].rows[e] = x
      /\ \A d \in Inbox!Done(w) : d # e => pass'[w].rows[d] = pass[w].rows[d]
  BY <1>1, <1>5, PassWritten
<1>7. InboxTypes' BY <1>1, <1>2, <1>6 DEF InboxTypes
<1>8. \A s : PassCounted(w, s)' = PassCounted(w, s) BY <1>2, <1>3, <1>6 DEF PassCounted, Inbox!Done
<1>9. Passing(w)'
  <2>1. DOMAIN pass'[w].rows \subseteq pass'[w].batch /\ pass'[w].batch \subseteq Inbox!Open'
    BY <1>1, <1>2, <1>6 DEF Passing, Inbox!Done, Inbox!Open
  <2>2. \A s \in DOMAIN pass'[w].links : WritesLatest(w, s)'
    <3> SUFFICES ASSUME NEW s \in DOMAIN pass'[w].links PROVE WritesLatest(w, s)' OBVIOUS
    <3>1. s \in DOMAIN pass[w].links /\ WritesLatest(w, s) BY <1>1, <1>4, <1>6 DEF Passing
    <3>2. InboxCounted(s)' = InboxCounted(s) BY <1>2 DEF InboxCounted
    <3>3. Latest(InboxCounted(s) \cup PassCounted(w, s), pass[w].links[s]) BY <3>1 DEF WritesLatest
    <3>4. Latest(InboxCounted(s)' \cup PassCounted(w, s)', pass'[w].links[s]) BY <3>2, <3>3, <1>4, <1>6, <1>8
    <3> QED BY <3>1, <3>4, <1>2, <1>4, <1>6 DEF WritesLatest, Latest
  <2>3. ASSUME NEW d \in DOMAIN pass'[w].rows, pass'[w].rows[d].status = "PROCESSED"
        PROVE  Subject[d] \in DOMAIN pass'[w].links /\ pass'[w].rows[d].binding = link'[Subject[d]].binding
    <3>1. d # e BY <2>3, <1>3, <1>6
    <3> QED BY <2>3, <3>1, <1>1, <1>2, <1>4, <1>6 DEF Passing, Inbox!Done
  <2> QED BY <2>1, <2>2, <2>3 DEF Passing
<1>10. ASSUME NEW v \in Workers, v # w PROVE Passing(v)'
  <2>1. Passing(v) /\ pass[v].batch \subseteq Inbox!Open BY DEF InboxInv, Passes, Passing
  <2>2. \A d \in pass[v].batch : d \in Inbox!Open' BY <2>1, <1>2 DEF Inbox!Open
  <2>3. DOMAIN pass[v].links \subseteq Senders BY <1>1 DEF InboxTypes, InboxPass, Links
  <2>4. \A s \in Senders : InboxCounted(s)' = InboxCounted(s) BY <1>2, RecordsStand
  <2> QED BY <1>10, <2>1, <2>2, <2>3, <2>4, <1>1, <1>2, <1>6, PassStands
<1>11. \A u, v \in Workers : u # v => pass'[u].batch \cap pass'[v].batch = {}
  BY <1>6 DEF InboxInv, Passes
<1> QED BY <1>2, <1>7, <1>9, <1>10, <1>11, RecordsStand DEF InboxInv, Passes

\* The latest of some events and one more that is not older, and does not contradict them.
LEMMA OneLater ==
  ASSUME Inbox!InboxAssumption, NEW S \in SUBSET Events, NEW e \in Events, NEW l \in InboxLink, NEW k \in InboxLink, Latest(S, l),
         ~(At[e] < l.last), At[e] = l.last => l.observed = Inbox!Observed(e),
         k.last = At[e], k.observed = Inbox!Observed(e)
  PROVE  Latest(S \cup {e}, k)
<1>1. \A d \in Events : At[d] \in Nat BY DEF Inbox!InboxAssumption
<1>2. l.last \in Nat /\ l.last <= At[e] BY <1>1 DEF InboxLink
<1>3. ASSUME NEW d \in S \cup {e} PROVE At[d] <= k.last /\ (At[d] = k.last => k.observed = Inbox!Observed(d))
  <2>1. CASE d = e BY <2>1, <1>1
  <2>2. CASE d \in S
    <3>1. At[d] <= l.last /\ (At[d] = l.last => l.observed = Inbox!Observed(d)) BY <2>2 DEF Latest
    <3>2. At[d] \in Nat /\ At[e] \in Nat BY <2>2, <1>1
    <3>3. At[d] <= At[e] BY <3>1, <3>2, <1>2
    <3>4. ASSUME At[d] = At[e] PROVE k.observed = Inbox!Observed(d)
      <4>1. At[d] = l.last BY <3>1, <3>2, <3>4, <1>2
      <4> QED BY <4>1, <3>1, <3>4
    <3> QED BY <3>3, <3>4
  <2> QED BY <2>1, <2>2
<1> QED BY <1>3 DEF Latest
LEMMA InboxApply ==
  ASSUME Inbox!InboxAssumption, InboxInv, NEW w \in Workers, NEW e \in Events, Inbox!Apply(w, e)
  PROVE  InboxInv' /\ Inbox!CountedOnceStep
<1>1. InboxTypes /\ Passing(w) BY DEF InboxInv, Passes
<1>2. PICK s \in Senders : s = Subject[e] BY DEF Inbox!InboxAssumption
<1>3. PICK p \in InboxPass : p = pass[w] BY <1>1 DEF InboxTypes
<1>4. PICK g \in Links : g = p.links BY DEF InboxPass
<1>5. DOMAIN g \subseteq Senders /\ \A t \in DOMAIN g : g[t] \in InboxLink BY DEF Links
<1>6. PICK l \in InboxLink : l = Inbox!Seen(w, s) BY <1>1, <1>3, <1>4, <1>5 DEF Inbox!Seen, InboxTypes
<1>7. PICK b \in Nat : b = l.binding BY DEF InboxLink
<1>8. PICK v \in {"WAITING_ASSOCIATION", "SKIPPED_OLDER", "AMBIGUOUS", "PROCESSED"} : v = Inbox!Verdict(e, l)
  BY DEF Inbox!Verdict
<1>9. v = "PROCESSED" => l.active /\ ~(At[e] < l.last) /\ (At[e] = l.last => l.observed = Inbox!Observed(e))
  <2>1. l.active \in BOOLEAN BY DEF InboxLink
  <2> QED BY <2>1, <1>8 DEF Inbox!Verdict
<1>10. PICK x \in InboxRow : x = [status |-> v, binding |-> b] BY DEF InboxRow, Statuses, Inbox!Final
<1>11. x.status = v /\ x.binding = b BY <1>10
<1>12. PICK o \in {"FOLLOWING", "UNFOLLOWED"} : o = Inbox!Observed(e) BY DEF Inbox!Observed
<1>13. PICK a \in Nat : a = At[e] BY DEF Inbox!InboxAssumption
<1> DEFINE k == [l EXCEPT !.observed = o, !.last = a]
<1>14. k \in InboxLink /\ k.active = l.active /\ k.binding = l.binding /\ k.observed = o /\ k.last = a BY DEF InboxLink
<1>15. /\ e \in pass[w].batch /\ e \notin Inbox!Done(w) /\ linkLock[s] \in {None, w} /\ UNCHANGED <<inbox, link>>
       /\ linkLock' = IF l.active THEN [linkLock EXCEPT ![s] = w] ELSE linkLock
       /\ Inbox!Write(w, e, x, IF v = "PROCESSED" THEN Inbox!Put(g, s, k) ELSE g)
  BY <1>2, <1>3, <1>4, <1>6, <1>7, <1>8, <1>10, <1>12, <1>13 DEF Inbox!Apply, Inbox!Next1
<1> HIDE DEF k
<1>16. PICK f \in Links :
         /\ f = IF v = "PROCESSED" THEN Inbox!Put(g, s, k) ELSE g
         /\ v # "PROCESSED" => f = g
         /\ v = "PROCESSED" => /\ DOMAIN f = DOMAIN g \cup {s} /\ f[s] = k
                               /\ \A t \in DOMAIN g : t # s => f[t] = g[t]
  <2>1. CASE v # "PROCESSED" BY <2>1
  <2>2. CASE v = "PROCESSED"
    <3>1. PICK z \in InboxLink : z = k BY <1>14
    <3>2. /\ Inbox!Put(g, s, z) \in Links /\ DOMAIN Inbox!Put(g, s, z) = DOMAIN g \cup {s} /\ Inbox!Put(g, s, z)[s] = z
          /\ \A t \in DOMAIN g : t # s => Inbox!Put(g, s, z)[t] = g[t]
      BY PutLink
    <3> QED BY <2>2, <3>1, <3>2
  <2> QED BY <2>1, <2>2
<1>17. Inbox!Write(w, e, x, f) BY <1>15, <1>16
<1>18. /\ pass' \in [Workers -> InboxPass] /\ \A u \in Workers : u # w => pass'[u] = pass[u]
       /\ pass'[w].batch = pass[w].batch /\ pass'[w].links = f
       /\ DOMAIN pass'[w].rows = Inbox!Done(w) \cup {e} /\ pass'[w].rows[e] = x
       /\ \A d \in Inbox!Done(w) : d # e => pass'[w].rows[d] = pass[w].rows[d]
  BY <1>1, <1>17, PassWritten
<1>19. /\ linkLock' \in [Senders -> Workers \cup {None}] /\ (l.active => linkLock'[s] = w)
       /\ \A t \in Senders : t # s => linkLock'[t] = linkLock[t]
       /\ \A t \in Senders, u \in Workers : linkLock[t] = u => linkLock'[t] = u
  <2>1. linkLock \in [Senders -> Workers \cup {None}] /\ None \notin Workers
    BY <1>1, Inbox!InboxAssumption DEF InboxTypes, Inbox!InboxAssumption
  <2>2. CASE l.active
    <3>1. linkLock' = [linkLock EXCEPT ![s] = w] BY <2>2, <1>15
    <3> QED BY <2>1, <2>2, <3>1, <1>15
  <2>3. CASE ~l.active
    <3>1. linkLock' = linkLock BY <2>3, <1>15
    <3> QED BY <2>1, <2>3, <3>1
  <2> QED BY <2>2, <2>3
<1>20. InboxTypes' BY <1>1, <1>15, <1>18, <1>19 DEF InboxTypes
<1>21. \A t \in Senders : InboxCounted(t)' = InboxCounted(t) BY <1>15, RecordsStand
<1>22. \A t \in Senders : PassCounted(w, t)' = IF t = s /\ v = "PROCESSED" THEN PassCounted(w, t) \cup {e} ELSE PassCounted(w, t)
  <2> SUFFICES ASSUME NEW t \in Senders
               PROVE PassCounted(w, t)' = IF t = s /\ v = "PROCESSED" THEN PassCounted(w, t) \cup {e} ELSE PassCounted(w, t)
    OBVIOUS
  <2>1. PassCounted(w, t)' = {d \in Inbox!Done(w) \cup {e} : Subject[d] = t /\ pass'[w].rows[d].status = "PROCESSED"}
    BY <1>18 DEF PassCounted, Inbox!Done
  <2>2. \A d \in Inbox!Done(w) : pass'[w].rows[d] = pass[w].rows[d] BY <1>15, <1>18
  <2>3. pass'[w].rows[e].status = v /\ Subject[e] = s BY <1>2, <1>11, <1>18
  <2> QED BY <2>1, <2>2, <2>3, <1>15 DEF PassCounted
<1>23. s \in DOMAIN g => WritesLatest(w, s) /\ l = g[s] BY <1>1, <1>3, <1>4, <1>6 DEF Passing, Inbox!Seen
<1>24. s \notin DOMAIN g => l = link[s] /\ PassCounted(w, s) = {}
  <2> SUFFICES ASSUME s \notin DOMAIN g PROVE l = link[s] /\ PassCounted(w, s) = {} OBVIOUS
  <2>1. l = link[s] BY <1>3, <1>4, <1>6 DEF Inbox!Seen
  <2>2. \A d \in Inbox!Done(w) : pass[w].rows[d].status = "PROCESSED" => Subject[d] \in DOMAIN g
    BY <1>1, <1>3, <1>4 DEF Passing, Inbox!Done
  <2> QED BY <2>1, <2>2 DEF PassCounted
<1>25. l.binding = link[s].binding /\ (l.active => link[s].active) BY <1>3, <1>4, <1>23, <1>24 DEF WritesLatest
<1>26. l.active => Latest(InboxCounted(s) \cup PassCounted(w, s), l)
  <2>1. CASE s \in DOMAIN g BY <2>1, <1>3, <1>4, <1>23 DEF WritesLatest
  <2>2. CASE s \notin DOMAIN g
    <3>1. l.active => Latest(InboxCounted(s), l) BY <2>2, <1>24 DEF InboxInv, Shown
    <3>2. InboxCounted(s) \cup PassCounted(w, s) = InboxCounted(s) BY <2>2, <1>24
    <3> QED BY <3>1, <3>2
  <2> QED BY <2>1, <2>2
<1>27. ASSUME v = "PROCESSED" PROVE WritesLatest(w, s)'
  <2>1. l.active BY <1>9, <1>27
  <2> DEFINE S == InboxCounted(s) \cup PassCounted(w, s)
  <2>2. Latest(S, l) BY <2>1, <1>26
  <2>3. S \in SUBSET Events
    <3>1. Inbox!Done(w) \subseteq Events BY <1>1, <1>3 DEF Passing, Inbox!Done, InboxTypes, InboxPass
    <3> QED BY <3>1 DEF InboxCounted, PassCounted
  <2> HIDE DEF S
  <2>4. PICK z \in InboxLink : z = k BY <1>14
  <2>5. z.last = At[e] /\ z.observed = Inbox!Observed(e) BY <2>4, <1>12, <1>13, <1>14
  <2>6. ~(At[e] < l.last) /\ (At[e] = l.last => l.observed = Inbox!Observed(e)) BY <1>9, <1>27
  <2>7. Latest(S \cup {e}, z) BY <2>2, <2>3, <2>5, <2>6, OneLater
  <2>8. InboxCounted(s)' \cup PassCounted(w, s)' = S \cup {e} BY <1>21, <1>22, <1>27 DEF S
  <2>9. pass'[w].links[s] = k BY <1>16, <1>18, <1>27
  <2>10. Latest(InboxCounted(s)' \cup PassCounted(w, s)', pass'[w].links[s]) BY <2>4, <2>7, <2>8, <2>9
  <2>11. linkLock'[s] = w /\ link'[s].active /\ pass'[w].links[s].active /\ pass'[w].links[s].binding = link'[s].binding
    BY <2>1, <2>9, <1>14, <1>15, <1>19, <1>25
  <2> QED BY <2>10, <2>11 DEF WritesLatest, Latest
<1>28. ASSUME NEW t \in DOMAIN g, t # s \/ v # "PROCESSED" PROVE WritesLatest(w, t)'
  <2>1. WritesLatest(w, t) /\ t \in Senders BY <1>1, <1>3, <1>4, <1>5 DEF Passing
  <2>2. pass'[w].links[t] = pass[w].links[t] BY <1>3, <1>4, <1>16, <1>18, <1>28
  <2>3. PassCounted(w, t)' = PassCounted(w, t) BY <2>1, <1>22, <1>28
  <2>4. Latest(InboxCounted(t) \cup PassCounted(w, t), pass[w].links[t]) BY <2>1 DEF WritesLatest
  <2>5. Latest(InboxCounted(t)' \cup PassCounted(w, t)', pass'[w].links[t]) BY <2>1, <2>2, <2>3, <2>4, <1>21
  <2>6. linkLock'[t] = w BY <2>1, <1>19 DEF WritesLatest
  <2> QED BY <2>1, <2>2, <2>5, <2>6, <1>15 DEF WritesLatest, Latest
<1>29. Passing(w)'
  <2>1. DOMAIN pass'[w].rows \subseteq pass'[w].batch /\ pass'[w].batch \subseteq Inbox!Open'
    BY <1>1, <1>15, <1>18 DEF Passing, Inbox!Done, Inbox!Open
  <2>2. \A t \in DOMAIN pass'[w].links : WritesLatest(w, t)'
    <3> SUFFICES ASSUME NEW t \in DOMAIN f PROVE WritesLatest(w, t)' BY <1>18
    <3>1. CASE v = "PROCESSED" /\ t = s BY <3>1, <1>27
    <3>2. CASE ~(v = "PROCESSED" /\ t = s)
      <4>1. t \in DOMAIN g BY <3>2, <1>16
      <4> QED BY <3>2, <4>1, <1>28
    <3> QED BY <3>1, <3>2
  <2>3. DOMAIN g \subseteq DOMAIN f /\ (v = "PROCESSED" => s \in DOMAIN f) BY <1>16
  <2>4. ASSUME NEW d \in DOMAIN pass'[w].rows, pass'[w].rows[d].status = "PROCESSED"
        PROVE  Subject[d] \in DOMAIN pass'[w].links /\ pass'[w].rows[d].binding = link'[Subject[d]].binding
    <3>1. CASE d = e
      <4>1. v = "PROCESSED" /\ pass'[w].rows[d].binding = b BY <2>4, <3>1, <1>11, <1>18
      <4> QED BY <3>1, <4>1, <2>3, <1>2, <1>7, <1>15, <1>18, <1>25
    <3>2. CASE d # e
      <4>1. d \in Inbox!Done(w) /\ pass'[w].rows[d] = pass[w].rows[d] BY <3>2, <2>4, <1>18
      <4>2. Subject[d] \in DOMAIN g /\ pass[w].rows[d].binding = link[Subject[d]].binding
        BY <2>4, <4>1, <1>1, <1>3, <1>4 DEF Passing, Inbox!Done
      <4> QED BY <4>1, <4>2, <2>3, <1>15, <1>18
    <3> QED BY <3>1, <3>2
  <2> QED BY <2>1, <2>2, <2>4 DEF Passing
<1>30. ASSUME NEW u \in Workers, u # w PROVE Passing(u)'
  <2>1. Passing(u) /\ pass[u].batch \subseteq Inbox!Open BY DEF InboxInv, Passes, Passing
  <2>2. \A d \in pass[u].batch : d \in Inbox!Open' BY <2>1, <1>15 DEF Inbox!Open
  <2>3. DOMAIN pass[u].links \subseteq Senders BY <1>1 DEF InboxTypes, InboxPass, Links
  <2>4. \A t \in Senders : linkLock[t] = u => linkLock'[t] = u BY <1>19
  <2> QED BY <1>30, <2>1, <2>2, <2>3, <2>4, <1>1, <1>15, <1>18, <1>21, PassStands
<1>31. \A t, u \in Workers : t # u => pass'[t].batch \cap pass'[u].batch = {}
  BY <1>18 DEF InboxInv, Passes
<1> QED BY <1>15, <1>20, <1>29, <1>30, <1>31, RecordsStand DEF InboxInv, Passes
\* Whoever ends gives its links to those that wait for them: the others keep theirs.
LEMMA PassEnds ==
  ASSUME Inbox!InboxAssumption, InboxTypes, NEW w \in Workers, pass' = [pass EXCEPT ![w] = Inbox!NoPass], linkLock' = Inbox!Unlocked(w)
  PROVE  /\ pass' \in [Workers -> InboxPass] /\ pass'[w] = Inbox!NoPass /\ \A v \in Workers : v # w => pass'[v] = pass[v]
         /\ linkLock' \in [Senders -> Workers \cup {None}]
         /\ \A s \in Senders, v \in Workers : v # w /\ linkLock[s] = v => linkLock'[s] = v
<1>1. pass' \in [Workers -> InboxPass] /\ pass'[w] = Inbox!NoPass /\ \A v \in Workers : v # w => pass'[v] = pass[v]
  BY EmptyPass DEF InboxTypes
<1>2. \A s \in Senders : Inbox!Waiters(w, s) # {} => (CHOOSE v \in Inbox!Waiters(w, s) : TRUE) \in Workers
  <2> SUFFICES ASSUME NEW s \in Senders, Inbox!Waiters(w, s) # {} PROVE (CHOOSE v \in Inbox!Waiters(w, s) : TRUE) \in Workers
    OBVIOUS
  <2>1. \E v \in Inbox!Waiters(w, s) : TRUE OBVIOUS
  <2>2. (CHOOSE v \in Inbox!Waiters(w, s) : TRUE) \in Inbox!Waiters(w, s) BY <2>1
  <2>3. Inbox!Waiters(w, s) \subseteq Workers BY DEF Inbox!Waiters
  <2> QED BY <2>2, <2>3
<1>3. linkLock' \in [Senders -> Workers \cup {None}] BY <1>2 DEF Inbox!Unlocked, InboxTypes
<1>4. \A s \in Senders : linkLock[s] # w => linkLock'[s] = linkLock[s] BY DEF Inbox!Unlocked
<1> QED BY <1>1, <1>3, <1>4

LEMMA InboxDie ==
  ASSUME Inbox!InboxAssumption, InboxInv, NEW w \in Workers, Inbox!Die(w)
  PROVE  InboxInv' /\ Inbox!CountedOnceStep
<1>1. InboxTypes BY DEF InboxInv
<1>2. pass' = [pass EXCEPT ![w] = Inbox!NoPass] /\ linkLock' = Inbox!Unlocked(w) /\ UNCHANGED <<inbox, link>> BY DEF Inbox!Die
<1>3. /\ pass' \in [Workers -> InboxPass] /\ pass'[w] = Inbox!NoPass /\ \A v \in Workers : v # w => pass'[v] = pass[v]
      /\ linkLock' \in [Senders -> Workers \cup {None}]
      /\ \A s \in Senders, v \in Workers : v # w /\ linkLock[s] = v => linkLock'[s] = v
  BY <1>1, <1>2, PassEnds
<1>4. InboxTypes' BY <1>1, <1>2, <1>3 DEF InboxTypes
<1>5. Passing(w)' BY <1>3, EmptyPass DEF Passing
<1>6. ASSUME NEW v \in Workers, v # w PROVE Passing(v)'
  <2>1. Passing(v) /\ pass[v].batch \subseteq Inbox!Open BY DEF InboxInv, Passes, Passing
  <2>2. \A d \in pass[v].batch : d \in Inbox!Open' BY <2>1, <1>2 DEF Inbox!Open
  <2>3. DOMAIN pass[v].links \subseteq Senders BY <1>1 DEF InboxTypes, InboxPass, Links
  <2>4. \A s \in Senders : InboxCounted(s)' = InboxCounted(s) BY <1>2, RecordsStand
  <2> QED BY <1>6, <2>1, <2>2, <2>3, <2>4, <1>1, <1>2, <1>3, PassStands
<1>7. \A u, v \in Workers : u # v => pass'[u].batch \cap pass'[v].batch = {}
  BY <1>3, EmptyPass DEF InboxInv, Passes
<1> QED BY <1>2, <1>4, <1>5, <1>6, <1>7, RecordsStand DEF InboxInv, Passes

LEMMA InboxCommit ==
  ASSUME Inbox!InboxAssumption, InboxInv, NEW w \in Workers, Inbox!Commit(w)
  PROVE  InboxInv' /\ Inbox!CountedOnceStep
<1>1. InboxTypes /\ Passing(w) BY DEF InboxInv, Passes
<1>2. PICK p \in InboxPass : p = pass[w] BY <1>1 DEF InboxTypes
<1>3. PICK g \in Links : g = p.links BY DEF InboxPass
<1>4. PICK h \in Rows : h = p.rows BY DEF InboxPass
<1>5. DOMAIN g \subseteq Senders /\ \A t \in DOMAIN g : g[t] \in InboxLink BY DEF Links
<1>6. DOMAIN h \subseteq Events /\ \A e \in DOMAIN h : h[e] \in InboxRow BY DEF Rows
<1>7. /\ DOMAIN h = pass[w].batch /\ pass' = [pass EXCEPT ![w] = Inbox!NoPass] /\ linkLock' = Inbox!Unlocked(w)
      /\ inbox' = [e \in Events |-> IF e \in DOMAIN h THEN h[e] ELSE inbox[e]]
      /\ link' = [s \in Senders |-> IF s \in DOMAIN g THEN g[s] ELSE link[s]]
  BY <1>2, <1>3, <1>4 DEF Inbox!Commit, Inbox!Done, Inbox!Seen
<1>8. /\ pass' \in [Workers -> InboxPass] /\ pass'[w] = Inbox!NoPass /\ \A v \in Workers : v # w => pass'[v] = pass[v]
      /\ linkLock' \in [Senders -> Workers \cup {None}]
      /\ \A s \in Senders, v \in Workers : v # w /\ linkLock[s] = v => linkLock'[s] = v
  BY <1>1, <1>7, PassEnds
<1>9. inbox' \in [Events -> InboxRow] BY <1>1, <1>6, <1>7 DEF InboxTypes
<1>10. link' \in [Senders -> InboxLink] BY <1>1, <1>5, <1>7 DEF InboxTypes
<1>11. InboxTypes' BY <1>8, <1>9, <1>10 DEF InboxTypes
<1>12. \A e \in DOMAIN h : e \in Inbox!Open /\ inbox'[e] = h[e] BY <1>1, <1>6, <1>7 DEF Passing
<1>13. \A e \in Events : e \notin DOMAIN h => inbox'[e] = inbox[e] BY <1>7
<1>14. \A e \in Inbox!Open : inbox[e].status # "PROCESSED" /\ inbox[e].status \notin Inbox!Final
  BY Inbox!InboxAssumption DEF Inbox!Open, Inbox!Final
<1>15. \A e \in DOMAIN h : h[e].status = "PROCESSED" =>
         Subject[e] \in DOMAIN g /\ h[e].binding = link[Subject[e]].binding
  BY <1>1, <1>2, <1>3, <1>4 DEF Passing
<1>16. \A s \in DOMAIN g : WritesLatest(w, s) BY <1>1, <1>2, <1>3 DEF Passing
<1>17. \A s \in Senders : link'[s].binding = link[s].binding /\ (link'[s].active <=> link[s].active)
  <2> SUFFICES ASSUME NEW s \in Senders
               PROVE link'[s].binding = link[s].binding /\ (link'[s].active <=> link[s].active)
    OBVIOUS
  <2>1. CASE s \in DOMAIN g
    <3>1. link'[s] = g[s] BY <2>1, <1>7
    <3>2. g[s].active /\ link[s].active /\ g[s].binding = link[s].binding
      BY <2>1, <1>2, <1>3, <1>16 DEF WritesLatest
    <3> QED BY <3>1, <3>2
  <2>2. CASE s \notin DOMAIN g BY <2>2, <1>7
  <2> QED BY <2>1, <2>2
<1>18. \A e \in Events : Subject[e] \in Senders BY DEF Inbox!InboxAssumption
<1>19. Bound'
  <2> SUFFICES ASSUME NEW e \in Events, inbox'[e].status = "PROCESSED"
               PROVE inbox'[e].binding <= link'[Subject[e]].binding
    BY DEF Bound
  <2>1. CASE e \in DOMAIN h
    <3>1. inbox'[e].binding = link'[Subject[e]].binding BY <2>1, <1>12, <1>15, <1>17, <1>18
    <3>2. link'[Subject[e]].binding \in Nat BY <1>10, <1>18 DEF InboxLink
    <3> QED BY <3>1, <3>2
  <2>2. CASE e \notin DOMAIN h BY <2>2, <1>13, <1>17, <1>18 DEF InboxInv, Bound
  <2> QED BY <2>1, <2>2
<1>20. ASSUME NEW s \in Senders, s \notin DOMAIN g PROVE InboxCounted(s)' = InboxCounted(s)
  <2>1. \A e \in Events : Subject[e] = s =>
          inbox'[e] = inbox[e] \/ (inbox[e].status # "PROCESSED" /\ inbox'[e].status # "PROCESSED")
    BY <1>12, <1>13, <1>14, <1>15, <1>20
  <2> QED BY <2>1, <1>17, CountsStand
<1>21. ASSUME NEW s \in DOMAIN g PROVE InboxCounted(s)' = InboxCounted(s) \cup PassCounted(w, s)
  <2>1. s \in Senders BY <1>5
  <2>2. InboxCounted(s)' = {e \in Events : Subject[e] = s /\ inbox'[e].status = "PROCESSED"
                                                     /\ inbox'[e].binding = link[s].binding}
    BY <2>1, <1>17 DEF InboxCounted
  <2>3. PassCounted(w, s) = {e \in DOMAIN h : Subject[e] = s /\ h[e].status = "PROCESSED"}
    BY <1>2, <1>4 DEF PassCounted, Inbox!Done
  <2>4. \A e \in DOMAIN h : inbox[e].status # "PROCESSED" BY <1>12, <1>14
  <2> QED BY <2>2, <2>3, <2>4, <1>6, <1>12, <1>13, <1>15 DEF InboxCounted
<1>22. Shown'
  <2> SUFFICES ASSUME NEW s \in Senders, link'[s].active PROVE Latest(InboxCounted(s)', link'[s])
    BY DEF Shown, Latest
  <2>1. CASE s \in DOMAIN g
    <3>1. Latest(InboxCounted(s) \cup PassCounted(w, s), g[s]) BY <2>1, <1>2, <1>3, <1>16 DEF WritesLatest
    <3>2. link'[s] = g[s] BY <2>1, <1>7
    <3> QED BY <2>1, <3>1, <3>2, <1>21
  <2>2. CASE s \notin DOMAIN g
    <3>1. Latest(InboxCounted(s), link[s]) BY <1>17 DEF InboxInv, Shown
    <3>2. link'[s] = link[s] BY <2>2, <1>7
    <3> QED BY <2>2, <3>1, <3>2, <1>20
  <2> QED BY <2>1, <2>2
<1>23. Passing(w)' BY <1>8, EmptyPass DEF Passing
<1>24. ASSUME NEW v \in Workers, v # w PROVE Passing(v)'
  <2>1. Passing(v) /\ pass[v].batch \subseteq Inbox!Open BY DEF InboxInv, Passes, Passing
  <2>2. pass[v].batch \cap pass[w].batch = {} BY <1>24 DEF InboxInv, Passes
  <2>3. \A d \in pass[v].batch : d \in Inbox!Open' BY <2>1, <2>2, <1>7, <1>13 DEF Inbox!Open
  <2>4. DOMAIN pass[v].links \subseteq Senders BY <1>1 DEF InboxTypes, InboxPass, Links
  <2>5. ASSUME NEW s \in DOMAIN pass[v].links
        PROVE  /\ link'[s].active = link[s].active /\ link'[s].binding = link[s].binding
               /\ InboxCounted(s)' = InboxCounted(s)
    <3>1. linkLock[s] = v /\ s \in Senders BY <2>1, <2>4 DEF Passing, WritesLatest
    <3>2. s \notin DOMAIN g BY <3>1, <1>16, <1>24 DEF WritesLatest
    <3>3. link'[s] = link[s] BY <3>1, <3>2, <1>7
    <3> QED BY <3>1, <3>2, <3>3, <1>20
  <2>6. \A s \in Senders : linkLock[s] = v => linkLock'[s] = v BY <1>8, <1>24
  <2>7. pass'[v] = pass[v] BY <1>8, <1>24
  <2> QED BY <2>1, <2>3, <2>5, <2>6, <2>7, <1>1, PassStands
<1>25. \A u, v \in Workers : u # v => pass'[u].batch \cap pass'[v].batch = {}
  BY <1>8, EmptyPass DEF InboxInv, Passes
<1>26. Inbox!CountedOnceStep BY <1>12, <1>13, <1>14 DEF Inbox!CountedOnceStep
<1> QED BY <1>11, <1>19, <1>22, <1>23, <1>24, <1>25, <1>26 DEF InboxInv, Passes

LEMMA InboxBind ==
  ASSUME Inbox!InboxAssumption, InboxInv, NEW s \in Senders, Inbox!Bind(s)
  PROVE  InboxInv' /\ Inbox!CountedOnceStep
<1>1. InboxTypes BY DEF InboxInv
<1>2. PICK n \in Nat : n = link[s].binding BY <1>1 DEF InboxTypes, InboxLink
<1> DEFINE y == [binding |-> n + 1, active |-> TRUE, observed |-> "UNKNOWN", last |-> 0]
<1>3. y \in InboxLink /\ y.binding = n + 1 /\ y.observed = "UNKNOWN" /\ y.last = 0 BY DEF InboxLink
<1>4. ~link[s].active /\ link' = [link EXCEPT ![s] = y] /\ UNCHANGED <<inbox, pass, linkLock>> BY <1>2 DEF Inbox!Bind
<1> HIDE DEF y
<1>5. link' \in [Senders -> InboxLink] /\ link'[s] = y /\ \A t \in Senders : t # s => link'[t] = link[t]
  BY <1>1, <1>3, <1>4 DEF InboxTypes
<1>6. InboxTypes' BY <1>1, <1>4, <1>5 DEF InboxTypes
<1>7. \A e \in Events : inbox[e].binding \in Nat /\ Subject[e] \in Senders
  BY <1>1, Inbox!InboxAssumption DEF InboxTypes, InboxRow, Inbox!InboxAssumption
<1>8. Bound'
  <2> SUFFICES ASSUME NEW e \in Events, inbox[e].status = "PROCESSED"
               PROVE inbox[e].binding <= link'[Subject[e]].binding
    BY <1>4 DEF Bound
  <2>1. inbox[e].binding <= link[Subject[e]].binding BY DEF InboxInv, Bound
  <2>2. CASE Subject[e] = s BY <2>1, <2>2, <1>2, <1>3, <1>5, <1>7
  <2>3. CASE Subject[e] # s BY <2>1, <2>3, <1>5, <1>7
  <2> QED BY <2>2, <2>3
<1>9. InboxCounted(s)' = {}
  <2>1. \A e \in Events : Subject[e] = s /\ inbox[e].status = "PROCESSED" => inbox[e].binding <= n
    BY <1>2 DEF InboxInv, Bound
  <2>2. \A e \in Events : ~(Subject[e] = s /\ inbox[e].status = "PROCESSED" /\ inbox[e].binding = n + 1)
    BY <2>1, <1>7
  <2> QED BY <2>2, <1>3, <1>4, <1>5 DEF InboxCounted
<1>10. \A t \in Senders : t # s => InboxCounted(t)' = InboxCounted(t) BY <1>4, <1>5 DEF InboxCounted
<1>11. Shown'
  <2> SUFFICES ASSUME NEW t \in Senders, link'[t].active PROVE Latest(InboxCounted(t)', link'[t])
    BY DEF Shown, Latest
  <2>1. CASE t = s BY <2>1, <1>3, <1>5, <1>9 DEF Latest
  <2>2. CASE t # s BY <2>2, <1>5, <1>10 DEF InboxInv, Shown
  <2> QED BY <2>1, <2>2
<1>12. ASSUME NEW v \in Workers PROVE Passing(v)'
  <2>1. Passing(v) /\ pass[v].batch \subseteq Inbox!Open BY DEF InboxInv, Passes, Passing
  <2>2. \A d \in pass[v].batch : d \in Inbox!Open' BY <2>1, <1>4 DEF Inbox!Open
  <2>3. DOMAIN pass[v].links \subseteq Senders BY <1>1 DEF InboxTypes, InboxPass, Links
  <2>4. s \notin DOMAIN pass[v].links BY <2>1, <1>4 DEF Passing, WritesLatest
  <2>5. \A t \in DOMAIN pass[v].links : link'[t].active = link[t].active /\ link'[t].binding = link[t].binding
                                        /\ InboxCounted(t)' = InboxCounted(t)
    BY <2>3, <2>4, <1>5, <1>10
  <2> QED BY <2>1, <2>2, <2>5, <1>1, <1>4, PassStands
<1>13. Inbox!CountedOnceStep BY <1>4 DEF Inbox!CountedOnceStep
<1> QED BY <1>4, <1>6, <1>8, <1>11, <1>12, <1>13 DEF InboxInv, Passes

LEMMA InboxUnlink ==
  ASSUME Inbox!InboxAssumption, InboxInv, NEW s \in Senders, Inbox!Unlink(s)
  PROVE  InboxInv' /\ Inbox!CountedOnceStep
<1>1. InboxTypes BY DEF InboxInv
<1>2. PICK l \in InboxLink : l = link[s] BY <1>1 DEF InboxTypes
<1> DEFINE y == [l EXCEPT !.active = FALSE]
<1>3. y \in InboxLink /\ y.binding = l.binding /\ ~y.active BY DEF InboxLink
<1>4. linkLock[s] = None /\ link' = [link EXCEPT ![s] = y] /\ UNCHANGED <<inbox, pass, linkLock>> BY <1>2 DEF Inbox!Unlink
<1> HIDE DEF y
<1>5. link' \in [Senders -> InboxLink] /\ link'[s] = y /\ \A t \in Senders : t # s => link'[t] = link[t]
  BY <1>1, <1>3, <1>4 DEF InboxTypes
<1>6. InboxTypes' BY <1>1, <1>4, <1>5 DEF InboxTypes
<1>7. \A e \in Events : Subject[e] \in Senders BY DEF Inbox!InboxAssumption
<1>8. \A t \in Senders : link'[t].binding = link[t].binding BY <1>2, <1>3, <1>5
<1>9. \A t \in Senders : InboxCounted(t)' = InboxCounted(t) BY <1>4, <1>8, CountsStand
<1>10. Bound' BY <1>4, <1>7, <1>8 DEF InboxInv, Bound
<1>11. Shown'
  <2> SUFFICES ASSUME NEW t \in Senders, link'[t].active PROVE Latest(InboxCounted(t)', link'[t])
    BY DEF Shown, Latest
  <2>1. t # s BY <1>3, <1>5
  <2> QED BY <2>1, <1>5, <1>9 DEF InboxInv, Shown
<1>12. ASSUME NEW v \in Workers PROVE Passing(v)'
  <2>1. Passing(v) /\ pass[v].batch \subseteq Inbox!Open BY DEF InboxInv, Passes, Passing
  <2>2. \A d \in pass[v].batch : d \in Inbox!Open' BY <2>1, <1>4 DEF Inbox!Open
  <2>3. DOMAIN pass[v].links \subseteq Senders BY <1>1 DEF InboxTypes, InboxPass, Links
  <2>4. s \notin DOMAIN pass[v].links
    BY <2>1, <1>4, Inbox!InboxAssumption DEF Passing, WritesLatest, Inbox!InboxAssumption
  <2>5. \A t \in DOMAIN pass[v].links : link'[t].active = link[t].active /\ link'[t].binding = link[t].binding
                                        /\ InboxCounted(t)' = InboxCounted(t)
    BY <2>3, <2>4, <1>5, <1>9
  <2> QED BY <2>1, <2>2, <2>5, <1>1, <1>4, PassStands
<1>13. Inbox!CountedOnceStep BY <1>4 DEF Inbox!CountedOnceStep
<1> QED BY <1>4, <1>6, <1>10, <1>11, <1>12, <1>13 DEF InboxInv, Passes

LEMMA InboxStep ==
  ASSUME Inbox!InboxAssumption, InboxInv, [Inbox!Next]_inboxVars
  PROVE  InboxInv' /\ Inbox!CountedOnceStep
<1>1. ASSUME NEW e \in Events, Inbox!Webhook(e) PROVE InboxInv' /\ Inbox!CountedOnceStep BY <1>1, InboxWebhook
<1>2. ASSUME NEW w \in Workers, Inbox!Begin(w) PROVE InboxInv' /\ Inbox!CountedOnceStep BY <1>2, InboxBegin
<1>3. ASSUME NEW w \in Workers, NEW e \in Events, Inbox!Ignore(w, e) PROVE InboxInv' /\ Inbox!CountedOnceStep
  BY <1>3, InboxIgnore
<1>4. ASSUME NEW w \in Workers, NEW e \in Events, Inbox!Apply(w, e) PROVE InboxInv' /\ Inbox!CountedOnceStep
  BY <1>4, InboxApply
<1>5. ASSUME NEW w \in Workers, Inbox!Commit(w) PROVE InboxInv' /\ Inbox!CountedOnceStep BY <1>5, InboxCommit
<1>6. ASSUME NEW w \in Workers, Inbox!Die(w) PROVE InboxInv' /\ Inbox!CountedOnceStep BY <1>6, InboxDie
<1>7. ASSUME NEW s \in Senders, Inbox!Bind(s) PROVE InboxInv' /\ Inbox!CountedOnceStep BY <1>7, InboxBind
<1>8. ASSUME NEW s \in Senders, Inbox!Unlink(s) PROVE InboxInv' /\ Inbox!CountedOnceStep BY <1>8, InboxUnlink
<1>9. CASE UNCHANGED inboxVars
  <2>1. UNCHANGED <<inbox, link, pass, linkLock>> BY <1>9 DEF inboxVars
  <2>2. InboxTypes' BY <2>1 DEF InboxInv, InboxTypes
  <2>3. \A v \in Workers : Passing(v)'
    <3> SUFFICES ASSUME NEW v \in Workers PROVE Passing(v)' OBVIOUS
    <3>1. InboxTypes /\ Passing(v) /\ pass[v].batch \subseteq Inbox!Open BY DEF InboxInv, Passes, Passing
    <3>2. \A d \in pass[v].batch : d \in Inbox!Open' BY <2>1, <3>1 DEF Inbox!Open
    <3>3. DOMAIN pass[v].links \subseteq Senders BY <3>1 DEF InboxTypes, InboxPass, Links
    <3>4. \A t \in Senders : InboxCounted(t)' = InboxCounted(t) BY <2>1, RecordsStand
    <3> QED BY <2>1, <3>1, <3>2, <3>3, <3>4, PassStands
  <2>4. Passes' BY <2>1, <2>3 DEF InboxInv, Passes
  <2> QED BY <2>1, <2>2, <2>4, RecordsStand DEF InboxInv
<1> QED BY <1>1, <1>2, <1>3, <1>4, <1>5, <1>6, <1>7, <1>8, <1>9 DEF Inbox!Next, Inbox!Step

LEMMA InboxPromise == ASSUME Inbox!InboxAssumption, InboxInv PROVE Inbox!ObservedIsLatest
<1> SUFFICES ASSUME NEW s \in Senders, link[s].active
             PROVE LET counted == {e \in Events : Subject[e] = s /\ inbox[e].status = "PROCESSED"
                                                  /\ inbox[e].binding = link[s].binding}
                   IN IF counted = {} THEN link[s].observed = "UNKNOWN" /\ link[s].last = 0
                      ELSE /\ link[s].last = Inbox!Max({At[e] : e \in counted})
                           /\ \A e \in counted : At[e] = link[s].last => link[s].observed = Inbox!Observed(e)
  BY DEF Inbox!ObservedIsLatest
<1> DEFINE C == InboxCounted(s)
<1>1. Latest(C, link[s]) BY DEF InboxInv, Shown
<1>2. C = {e \in Events : Subject[e] = s /\ inbox[e].status = "PROCESSED" /\ inbox[e].binding = link[s].binding}
  BY DEF InboxCounted
<1>3. C \subseteq Events BY <1>2
<1> HIDE DEF C
<1>4. CASE C = {} BY <1>1, <1>2, <1>4 DEF Latest
<1>5. CASE C # {}
  <2> DEFINE A == {At[e] : e \in C}
  <2>1. A \subseteq Nat BY <1>3 DEF Inbox!InboxAssumption
  <2>2. PICK e \in C : At[e] = link[s].last BY <1>1, <1>5 DEF Latest
  <2>3. PICK m \in A : m = link[s].last BY <2>2
  <2>4. \A a \in A : m >= a BY <1>1, <2>1, <2>3 DEF Latest
  <2> HIDE DEF A
  <2>5. Inbox!Max(A) \in A /\ \A a \in A : Inbox!Max(A) >= a BY <2>4 DEF Inbox!Max
  <2>6. Inbox!Max(A) >= m /\ m >= Inbox!Max(A) /\ m \in Nat /\ Inbox!Max(A) \in Nat BY <2>1, <2>4, <2>5
  <2>7. Inbox!Max(A) = m BY <2>6
  <2> QED BY <1>1, <1>2, <1>5, <2>3, <2>7 DEF Latest, A
<1> QED BY <1>4, <1>5

\* Who has locked a link has a batch.
InboxKept == \A s \in Senders : linkLock[s] # None => pass[linkLock[s]].batch # {}

LEMMA InboxTyped == ASSUME InboxInv, InboxKept PROVE Inbox!InboxTypeOK
<1>1. \A e \in Events : inbox[e].status \in Inbox!Final \cup {None, "PENDING", "WAITING_ASSOCIATION"}
  BY DEF InboxInv, InboxTypes, InboxRow, Statuses
<1>2. \A s \in Senders : link[s].observed \in {"UNKNOWN", "FOLLOWING", "UNFOLLOWED"}
  BY DEF InboxInv, InboxTypes, InboxLink
<1> QED BY <1>1, <1>2 DEF InboxInv, Passes, Passing, InboxKept, Inbox!Done, Inbox!InboxTypeOK

LEMMA InboxKeptInit == Inbox!Init => InboxKept
BY DEF Inbox!Init, InboxKept

LEMMA InboxKeptNext == ASSUME Inbox!InboxAssumption, InboxInv, InboxKept, [Inbox!Next]_inboxVars PROVE InboxKept'
<1>a. /\ DOMAIN pass = Workers /\ linkLock \in [Senders -> Workers \cup {None}]
      /\ \A v \in Workers : pass[v] \in InboxPass
  BY DEF InboxInv, InboxTypes
\* A pass ends: those who waited at its links get them, and have a batch.
<1>b. ASSUME NEW w \in Workers, pass' = [pass EXCEPT ![w] = Inbox!NoPass], linkLock' = Inbox!Unlocked(w)
      PROVE  InboxKept'
  <2> SUFFICES ASSUME NEW s \in Senders, linkLock'[s] # None PROVE pass'[linkLock'[s]].batch # {}
    BY DEF InboxKept
  <2>1. \/ linkLock'[s] = linkLock[s] /\ linkLock[s] # w
        \/ linkLock'[s] \in Inbox!Waiters(w, s)
    <3>1. CASE linkLock[s] # w BY <1>b, <3>1 DEF Inbox!Unlocked
    <3>2. CASE linkLock[s] = w /\ Inbox!Waiters(w, s) = {} BY <1>b, <3>2 DEF Inbox!Unlocked
    <3>3. CASE linkLock[s] = w /\ Inbox!Waiters(w, s) # {}
      <4>1. linkLock'[s] = CHOOSE v \in Inbox!Waiters(w, s) : TRUE BY <1>b, <3>3 DEF Inbox!Unlocked
      <4> QED BY <3>3, <4>1
    <3> QED BY <3>1, <3>2, <3>3
  <2>2. CASE linkLock'[s] = linkLock[s] /\ linkLock[s] # w
    BY <1>a, <1>b, <2>2 DEF InboxKept
  <2>3. CASE linkLock'[s] \in Inbox!Waiters(w, s)
    <3>1. PICK v \in Workers \ {w} : v = linkLock'[s] /\ Inbox!WaitsAt(v, s) BY <2>3 DEF Inbox!Waiters
    <3>2. pass[v].batch # {} BY <3>1 DEF Inbox!WaitsAt, Inbox!Next1
    <3>3. pass'[v] = pass[v] BY <1>a, <1>b, <3>1
    <3> QED BY <3>1, <3>2, <3>3
  <2> QED BY <2>1, <2>2, <2>3
<1>c. ASSUME NEW w \in Workers, NEW f, NEW g, pass[w].batch # {},
             pass' = [pass EXCEPT ![w] = [pass[w] EXCEPT !.rows = f, !.links = g]],
             \A s \in Senders : linkLock'[s] \in {linkLock[s], w}
      PROVE  InboxKept'
  <2>1. \A v \in Workers : pass'[v].batch = pass[v].batch BY <1>a, <1>c DEF InboxPass
  <2> QED BY <1>a, <1>c, <2>1 DEF InboxKept
<1>1. ASSUME NEW w \in Workers, Inbox!Begin(w) PROVE InboxKept'
  <2>1. PICK b \in Inbox!Batches \ {{}} : pass' = [pass EXCEPT ![w] = [Inbox!NoPass EXCEPT !.batch = b]]
    BY <1>1 DEF Inbox!Begin
  <2>2. UNCHANGED linkLock BY <1>1 DEF Inbox!Begin
  <2>3. pass'[w].batch = b /\ b # {} /\ \A v \in Workers : v # w => pass'[v] = pass[v]
    BY <1>a, <2>1 DEF Inbox!NoPass
  <2> QED BY <1>a, <2>2, <2>3 DEF InboxKept
<1>2. ASSUME NEW w \in Workers, NEW e \in Events, Inbox!Ignore(w, e) \/ Inbox!Apply(w, e) PROVE InboxKept'
  <2>1. pass[w].batch # {} BY <1>2 DEF Inbox!Ignore, Inbox!Apply, Inbox!Next1
  <2>2. \E f, g : pass' = [pass EXCEPT ![w] = [pass[w] EXCEPT !.rows = f, !.links = g]]
    BY <1>2 DEF Inbox!Ignore, Inbox!Apply, Inbox!Write
  <2>3. UNCHANGED linkLock \/ linkLock' = [linkLock EXCEPT ![Subject[e]] = w]
    BY <1>2 DEF Inbox!Ignore, Inbox!Apply
  <2>4. \A s \in Senders : linkLock'[s] \in {linkLock[s], w} BY <1>a, <2>3
  <2> QED BY <1>c, <2>1, <2>2, <2>4
<1>3. ASSUME NEW w \in Workers, Inbox!Commit(w) \/ Inbox!Die(w) PROVE InboxKept'
  BY <1>3, <1>b DEF Inbox!Commit, Inbox!Die
<1>4. CASE (\E e \in Events : Inbox!Webhook(e)) \/ (\E s \in Senders : Inbox!Bind(s) \/ Inbox!Unlink(s)) \/ UNCHANGED inboxVars
  <2>1. UNCHANGED <<pass, linkLock>> BY <1>4 DEF Inbox!Webhook, Inbox!Bind, Inbox!Unlink, inboxVars
  <2> QED BY <2>1 DEF InboxKept
<1> QED BY <1>1, <1>2, <1>3, <1>4 DEF Inbox!Next, Inbox!Step

---------------------------------------------------------------------------
(* The logins together: each behaviour is about one part.                  *)

LoginParts == {"mfa", "mail", "limits", "line", "inbox"}
LoginsInv ==
  /\ which \in LoginParts
  /\ which = "mail" => MailInv
  /\ which = "limits" => LimitsInv
  /\ which = "line" => LineInv
  /\ which = "inbox" => InboxInv

\* A step is one of the part the behaviour is about, and leaves the others alone.
LEMMA StepOfAPart ==
  ASSUME [LoginsNext]_allVars
  PROVE  /\ which' = which /\ [Next]_vars
         /\ which = "mail" => [Mail!Next]_mailVars
         /\ which = "limits" => [Limits!Next]_limitVars
         /\ which = "line" => [Line!Next]_lineVars
         /\ which = "inbox" => [Inbox!Next]_inboxVars
BY DEF LoginsNext, Rest, allVars

\* Whatever comes in while a login is tried, the rows of the part it is about stay sound.
THEOREM LoginsInvariant == LoginsSpec => []LoginsInv
<1>1. LoginsInit => LoginsInv
  BY LoginsAssumption, MailInit, LimitsInit, LineInit, InboxInit DEF LoginsInit, LoginsInv, LoginParts
<1>2. LoginsInv /\ [LoginsNext]_allVars => LoginsInv'
  BY LoginsAssumption, StepOfAPart, MailStep, LimitsStep, LineStep, InboxStep DEF LoginsInv
<1> QED BY <1>1, <1>2, PTL DEF LoginsSpec

\* A code sent by mail lets in once, and only the newest; no more guesses are made at it, and no more
\* requests pass a counter in one window, than is permitted, however many come at once; two mails to
\* one identity are a whole window apart; and those who count never wait for each other in a circle
\* (auth.py, auth_limits.py).
THEOREM EveryTryIsCounted == LoginsSpec => []TriesAreCounted
<1>1. LoginsInv => TriesAreCounted
  BY LoginsAssumption, MailPromises, LimitsPromises DEF LoginsInv, TriesAreCounted
<1> QED BY <1>1, LoginsInvariant, PTL

\* A challenge binds one LINE account once, a message goes to the link it was queued under or to
\* nobody, and a link shows the latest of the events counted for it (auth.py, worker.py).
THEOREM LinksStayTrue == LoginsSpec => []LinksAreTrue
<1>1. LineInv => Line!NeverToAnother /\ Line!BindsOnce BY DEF LineInv
<1>2. LoginsInv => LinksAreTrue
  BY <1>1, LoginsAssumption, InboxPromise DEF LoginsInv, LinksAreTrue
<1> QED BY <1>2, LoginsInvariant, PTL

\* An event that was settled is never counted again, redelivered as it may be (line_webhook,
\* process_inbox).
THEOREM EventsCountOnce == LoginsSpec => CountedOnce
<1>1. LoginsInv /\ [LoginsNext]_allVars => [which = "inbox" => Inbox!CountedOnceStep]_inboxVars
  BY LoginsAssumption, StepOfAPart, InboxStep DEF LoginsInv
<1> QED BY <1>1, LoginsInvariant, PTL DEF LoginsSpec, CountedOnce

\* Beside the other parts the second factor does what it does alone: a code and a challenge log in
\* once, and a try begun before the account was disabled does not log in (auth.py).
THEOREM SecondFactorHolds == LoginsSpec => []LetsInOnce /\ NoLoginWhenDisabled
<1>1. LoginsInit => Init BY DEF LoginsInit
<1>2. [LoginsNext]_allVars => [Next]_vars BY StepOfAPart
<1>3. LoginsSpec => Spec BY <1>1, <1>2, PTL DEF LoginsSpec, Spec
<1> QED BY <1>3, LoginsHappenOnce, DisabledStaysOut, PTL

\* What the parts rest on besides, for their rows to be as the code leaves them.
LoginsKept ==
  /\ MfaInv /\ MfaKept
  /\ which = "mail" => MailKept
  /\ which = "limits" => LimitsKept
  /\ which = "line" => LineKept
  /\ which = "inbox" => InboxKept

\* The rows of each part stay as the code leaves them: no counter passes its bound, no account and no
\* LINE account has two active links, no link's version outgrows the links ever made, and who holds a
\* lock is at the step that takes it (auth.py, auth_limits.py, worker.py).
THEOREM LoginsStayTyped == LoginsSpec => []LoginsTypeOK
<1>1. LoginsInit => LoginsKept
  BY LoginsAssumption, InitInv, MfaKeptInit, MailKeptInit, LimitsKeptInit, LineKeptInit, InboxKeptInit
     DEF LoginsInit, LoginsKept
<1>2. LoginsInv /\ LoginsKept /\ [LoginsNext]_allVars => LoginsKept'
  <2> SUFFICES ASSUME LoginsInv, LoginsKept, [LoginsNext]_allVars PROVE LoginsKept'
    OBVIOUS
  <2>1. which' = which /\ MfaInv' /\ MfaKept'
    BY StepOfAPart, InvStep, MfaKeptNext DEF LoginsKept
  <2>2. which = "mail" => MailKept'
    BY LoginsAssumption, StepOfAPart, MailKeptNext DEF LoginsInv, LoginsKept
  <2>3. which = "limits" => LimitsKept'
    BY LoginsAssumption, StepOfAPart, LimitsKeptNext DEF LoginsInv, LoginsKept
  <2>4. which = "line" => LineKept'
    BY LoginsAssumption, StepOfAPart, LineKeptNext DEF LoginsInv, LoginsKept
  <2>5. which = "inbox" => InboxKept'
    BY LoginsAssumption, StepOfAPart, InboxKeptNext DEF LoginsInv, LoginsKept
  <2> QED BY <2>1, <2>2, <2>3, <2>4, <2>5 DEF LoginsKept
<1>3. LoginsInv /\ LoginsKept => LoginsTypeOK
  BY LoginsAssumption, MfaTyped, MailTyped, LimitsTyped, LineTyped, InboxTyped
     DEF LoginsInv, LoginsKept, LoginsTypeOK
<1> QED BY <1>1, <1>2, <1>3, LoginsInvariant, PTL DEF LoginsSpec
=============================================================================

---------------------------- MODULE LiffConnect ----------------------------
(***************************************************************************)
(* The connection to LINE's browser SDK, frontend/src/line.ts: how callers *)
(* on one page share one attempt, one script and one initialization, and   *)
(* what is left over when an attempt gives up.  Each script element brings *)
(* an SDK of its own, called by the script's name.  The network, and what  *)
(* an SDK answers, are LINE's.  The page was entered from LINE and has a   *)
(* LIFF id; otherwise initLine answers at once and touches nothing.        *)
(***************************************************************************)
EXTENDS Naturals, FiniteSets

CONSTANTS
  Callers,   \* calls of initLine, loginLine and getLineIdentityToken
  Scripts,   \* script elements that may be inserted; bounds the retries
  None,
  MaxCalls   \* bound: calls of init of one SDK

LiffAssumption == None \notin Scripts /\ MaxCalls \in Nat

VARIABLES
  script,      \* script[s]: the element; a stray one was removed but may still run
  liff,        \* window.liff
  attempt,     \* activeAttempt: where connect waits, for which script or SDK
  waiting,     \* callers that hold the promise of the attempt
  told,        \* told[c]: the state a caller was answered with
  pending,     \* sdkInitialization: for which SDK init was called
  initialized, \* initializedSdk
  sdk,         \* sdk[s]: what has become of init, as LINE knows it
  calls,       \* calls[s]: how often init was called
  asked        \* the SDKs that were asked whether the user is logged in

vars == <<script, liff, attempt, waiting, told, pending, initialized, sdk, calls, asked>>

Idle == [stage |-> "none", sdk |-> None]

Init ==
  /\ script = [s \in Scripts |-> "unused"]
  /\ liff = None
  /\ attempt = Idle
  /\ waiting = {}
  /\ told = [c \in Callers |-> "nothing"]
  /\ pending = None
  /\ initialized = None
  /\ sdk = [s \in Scripts |-> "fresh"]
  /\ calls = [s \in Scripts |-> 0]
  /\ asked = {}

Answers == {"ready", "login_required", "error"}

---------------------------------------------------------------------------
(* The end of an attempt: everyone who waits is told the same.             *)

Settle(who, answer) ==
  /\ attempt' = Idle
  /\ waiting' = {}
  /\ told' = [c \in Callers |-> IF c \in who THEN answer ELSE told[c]]

\* connectionState, and the catch around it: the SDK may throw.
Ask(who, s) ==
  /\ \E answer \in Answers : Settle(who, answer)
  /\ asked' = asked \cup {s}

WaitFor(who, stage, s) ==
  /\ attempt' = [stage |-> stage, sdk |-> s]
  /\ waiting' = who
  /\ UNCHANGED <<told, asked>>

\* connect once it has an SDK.  The promise sdkInitialization is kept when it has
\* been fulfilled, and it does not say for which SDK.
UseSdk(who, s) ==
  IF initialized = s \/ (pending # None /\ sdk[pending] = "ready")
  THEN Ask(who, s) /\ UNCHANGED <<pending, sdk, calls>>
  ELSE /\ WaitFor(who, "init", s)
       /\ IF pending # None
          THEN UNCHANGED <<pending, sdk, calls>>
          ELSE /\ calls[s] < MaxCalls
               /\ pending' = s
               /\ sdk' = [sdk EXCEPT ![s] = "initializing"]
               /\ calls' = [calls EXCEPT ![s] = @ + 1]

\* loadSdk: window.liff if there is one, else a new script element.
Connect(c, who) ==
  IF liff # None
  THEN UseSdk(who, liff) /\ UNCHANGED script
  ELSE \E s \in Scripts :
         /\ script[s] = "unused"
         /\ script' = [script EXCEPT ![s] = "loading"]
         /\ WaitFor(who, "load", s)
         /\ UNCHANGED <<pending, sdk, calls>>

\* Slip: every caller connects for itself.
ConnectAlone(c) ==
  /\ c \notin waiting
  /\ Connect(c, waiting \cup {c})
  /\ UNCHANGED <<liff, initialized>>

\* initLine: whoever comes while an attempt runs shares it.
InitLine(c) ==
  /\ c \notin waiting
  /\ IF attempt # Idle
     THEN /\ waiting' = waiting \cup {c}
          /\ UNCHANGED <<script, attempt, told, pending, sdk, calls, asked>>
     ELSE Connect(c, {c})
  /\ UNCHANGED <<liff, initialized>>

---------------------------------------------------------------------------
(* The script.                                                             *)

Awaited(s) == attempt = [stage |-> "load", sdk |-> s]

\* The script runs and sets window.liff; onload follows at once.
ScriptRuns(s) ==
  /\ script[s] \in {"loading", "stray"}
  /\ script' = [script EXCEPT ![s] = "ran"]
  /\ liff' = s
  /\ IF Awaited(s) THEN UseSdk(waiting, s)
     ELSE UNCHANGED <<attempt, waiting, told, asked, pending, sdk, calls>>
  /\ UNCHANGED initialized

\* onerror, or onload without an SDK: the element is removed.
ScriptFails(s) ==
  /\ script[s] \in {"loading", "stray"}
  /\ script' = [script EXCEPT ![s] = "failed"]
  /\ IF Awaited(s) THEN Settle(waiting, "error") ELSE UNCHANGED <<attempt, waiting, told>>
  /\ UNCHANGED <<liff, asked, pending, initialized, sdk, calls>>

\* SDK_TIMEOUT_MS: the element is removed, which does not stop the download.
ScriptTimeout(s) ==
  /\ script[s] = "loading" /\ Awaited(s)
  /\ script' = [script EXCEPT ![s] = "stray"]
  /\ Settle(waiting, "error")
  /\ UNCHANGED <<liff, asked, pending, initialized, sdk, calls>>

---------------------------------------------------------------------------
(* The initialization.                                                     *)

\* Slip: what init has finished for is taken from window.liff.
CurrentSdk(s) == liff

\* The SDK that an initialization was begun for.
Captured(s) == s

\* init of s succeeds, however late; an attempt that waits goes on with its own SDK.
InitSucceeds(s) ==
  /\ sdk[s] = "initializing"
  /\ sdk' = [sdk EXCEPT ![s] = "ready"]
  /\ initialized' = Captured(s)
  /\ IF attempt.stage = "init" THEN Ask(waiting, attempt.sdk)
     ELSE UNCHANGED <<attempt, waiting, told, asked>>
  /\ UNCHANGED <<script, liff, pending, calls>>

\* Slip: a rejected promise stays.
Kept(s) == pending

\* A rejected promise is forgotten, unless another has replaced it.
Forgotten(s) == IF pending = s THEN None ELSE pending

\* init fails: a retry will call it again.
InitFails(s) ==
  /\ sdk[s] = "initializing"
  /\ sdk' = [sdk EXCEPT ![s] = "failed"]
  /\ pending' = Forgotten(s)
  /\ IF attempt.stage = "init" THEN Settle(waiting, "error")
     ELSE UNCHANGED <<attempt, waiting, told>>
  /\ UNCHANGED <<script, liff, asked, initialized, calls>>

GiveUp ==
  /\ attempt.stage = "init"
  /\ Settle(waiting, "error")
  /\ UNCHANGED <<script, liff, asked, initialized, sdk, calls>>

\* Slip: the initialization is dropped with the attempt.
DropInit == GiveUp /\ pending' = None

\* Slip: no limit to the wait.
WaitForever == FALSE /\ UNCHANGED vars

\* INIT_TIMEOUT_MS: the initialization is kept, for the SDK cannot cancel it.
InitTimeout == GiveUp /\ UNCHANGED pending

---------------------------------------------------------------------------
Next ==
  \/ \E c \in Callers : InitLine(c)
  \/ \E s \in Scripts :
       ScriptRuns(s) \/ ScriptFails(s) \/ ScriptTimeout(s) \/ InitSucceeds(s) \/ InitFails(s)
  \/ InitTimeout

\* The browser's timers fire; nothing is asked of the network or of LINE.
Spec ==
  /\ Init /\ [][Next]_vars
  /\ \A s \in Scripts : WF_vars(ScriptTimeout(s))
  /\ WF_vars(InitTimeout)

---------------------------------------------------------------------------
(* Properties.                                                             *)

\* connect waits for what is under way, and callers wait only while it does.
LiffTypeOK ==
  /\ attempt \in [stage : {"none", "load", "init"}, sdk : Scripts \cup {None}]
  /\ (waiting = {}) = (attempt = Idle)
  /\ attempt.stage = "load" => script[attempt.sdk] = "loading"
  /\ attempt.stage = "init" => pending # None /\ sdk[pending] = "initializing"
  /\ told \in [Callers -> Answers \cup {"nothing"}]

\* Concurrent callers and retries share one script: never are two in the page.
OneScript == Cardinality({s \in Scripts : script[s] = "loading"}) <= 1

\* init is not called on an SDK that is initializing or has been initialized,
\* however many attempts timed out meanwhile.
InitOnceStep == \A s \in Scripts : calls'[s] # calls[s] => sdk[s] \in {"fresh", "failed"}
InitOnce == [][InitOnceStep]_vars

\* Never do two initializations run at once.
OneInitialization == Cardinality({s \in Scripts : sdk[s] = "initializing"}) <= 1

\* The SDK that is taken for initialized is: a script that arrives late, or an
\* initialization that ends late, does not put another in its place.
InitializedIsReady == initialized # None => sdk[initialized] = "ready"

\* Whoever calls is answered, though the network and LINE may stay silent for ever.
EveryoneIsAnswered == \A c \in Callers : c \in waiting ~> c \notin waiting
=============================================================================

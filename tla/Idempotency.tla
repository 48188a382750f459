---------------------------- MODULE Idempotency ----------------------------
(***************************************************************************)
(* Requests of one account that carry one Idempotency-Key to one route     *)
(* (idem_start and idem_finish of common.py, as create_case uses them).    *)
(*                                                                         *)
(* The record of the key is inserted in the transaction of the work; a     *)
(* second request that inserts the key waits until the first has committed *)
(* or rolled back.  Answers may be lost, and clients send again.           *)
(***************************************************************************)
EXTENDS Naturals, FiniteSets

CONSTANTS
  Requests, Bodies, None,
  MaxEffects   \* bound

IdempotencyAssumption ==
  MaxEffects \in Nat /\ None \notin Requests \cup Bodies \cup [body : Bodies, effect : Nat]

VARIABLES
  record,   \* the committed IdempotencyRecord: its body and the effect it answers with, or None
  holder,   \* the request whose insert of the key is not committed, or None
  effects,  \* committed effects: number and body
  request,  \* request[q]: a request under way, or its answer
  allowed   \* the business rules let the work pass

vars == <<record, holder, effects, request, allowed>>

Idle == [pc |-> "idle", body |-> None, answer |-> 0]
Init ==
  /\ record = None
  /\ holder = None /\ effects = {}
  /\ request = [q \in Requests |-> Idle]
  /\ allowed \in BOOLEAN

Answers(q, n) == request' = [request EXCEPT ![q] = [@ EXCEPT !.pc = "answered", !.answer = n]]
\* Slip: the content is not compared.
ReplayAny(q) == Answers(q, record.effect)

\* Answer 0 is a refusal: IDEMPOTENCY_MISMATCH or a business rule.
Replay(q) == Answers(q, IF record.body = request[q].body THEN record.effect ELSE 0)

\* A client sends, for the first time or again; the answer to the time before may be lost.
Send(q, body) ==
  /\ request[q].pc \in {"idle", "answered"}
  /\ request' = [request EXCEPT ![q] = [pc |-> "look", body |-> body, answer |-> 0]]
  /\ UNCHANGED <<record, holder, effects, allowed>>

Look(q) ==
  /\ request[q].pc = "look"
  /\ IF record # None THEN Replay(q) ELSE request' = [request EXCEPT ![q].pc = "insert"]
  /\ UNCHANGED <<record, holder, effects, allowed>>

\* The savepoint: a second insert waits for the first, and fails when that has committed.
Insert(q) ==
  /\ request[q].pc = "insert" /\ holder = None
  /\ IF record # None
     THEN Replay(q) /\ UNCHANGED holder
     ELSE holder' = q /\ request' = [request EXCEPT ![q].pc = "work"]
  /\ UNCHANGED <<record, effects, allowed>>

\* Slip: the record is kept where the work was refused.
RefuseAndKeep(q) ==
  /\ request[q].pc = "work" /\ ~allowed
  /\ holder' = None /\ record' = [body |-> request[q].body, effect |-> 0]
  /\ Answers(q, 0)
  /\ UNCHANGED <<effects, allowed>>

\* The work is refused: work and record are rolled back together.
Refuse(q) ==
  /\ request[q].pc = "work" /\ ~allowed
  /\ holder' = None /\ Answers(q, 0)
  /\ UNCHANGED <<record, effects, allowed>>

\* Work and record are committed together.
Finish(q) ==
  /\ request[q].pc = "work" /\ allowed /\ Cardinality(effects) < MaxEffects
  /\ LET n == Cardinality(effects) + 1 IN
     /\ effects' = effects \cup {[n |-> n, body |-> request[q].body]}
     /\ record' = [body |-> request[q].body, effect |-> n]
     /\ Answers(q, n)
  /\ holder' = None
  /\ UNCHANGED allowed

Die(q) ==
  /\ request[q].pc \in {"look", "insert", "work"}
  /\ request' = [request EXCEPT ![q] = Idle]
  /\ holder' = IF holder = q THEN None ELSE holder
  /\ UNCHANGED <<record, effects, allowed>>

RulesChange == allowed' = ~allowed /\ UNCHANGED <<record, holder, effects, request>>

Step(q) == Look(q) \/ Insert(q) \/ Refuse(q) \/ Finish(q)

Next ==
  \/ \E q \in Requests : (\E body \in Bodies : Send(q, body)) \/ Step(q) \/ Die(q)
  \/ RulesChange

Spec == Init /\ [][Next]_vars

---------------------------------------------------------------------------
(* Properties.                                                             *)

\* Rows are within their types; the request that works is the one whose record waits to be committed.
IdempotencyTypeOK ==
  /\ \A q \in Requests : request[q].pc = "work" <=> holder = q
  /\ record # None => record.body \in Bodies

\* One key has one effect, and no record stands for work that was not done: sent twice
\* at once, again after a failure, a crash or a lost answer.
OneEffect ==
  /\ Cardinality(effects) <= 1
  /\ effects = {} <=> record = None

\* Whoever is told of success is told of that effect, and asked for it with the same
\* content ("one key may not be used for different content", common.py:74).
AnswersAgree ==
  \A q \in Requests : request[q].pc = "answered" /\ request[q].answer # 0 =>
    [n |-> request[q].answer, body |-> request[q].body] \in effects
=============================================================================

------------------------------ MODULE GrantRules ------------------------------
(***************************************************************************)
(* The rules of the AI tool grant, in the two places that hold them: the   *)
(* page (requiredDocs, estimate and checks of frontend/src/model.ts, the   *)
(* table typeById and the submission of ApplicationForm.tsx) and the scheme*)
(* on the server (seed_grant_scheme of bootstrap.py, _required_documents   *)
(* and submit_case of cases.py).                                           *)
(*                                                                         *)
(* Amounts are in cents, a blank one is 0.  A text is a member of Texts and*)
(* is already trimmed and in lower case; Blank is the empty one.  Dates are*)
(* days relative to the bounds the page compares with.                     *)
(***************************************************************************)
EXTENDS Integers, FiniteSets

CONSTANTS
  Texts, Blank,   \* names and addresses that fields may hold
  Amounts,        \* cents that the amount fields may hold
  Tools,          \* tools that may be entered: "banned", "listed" or "other"
  Channels,       \* ways of buying that may be chosen
  Plans,          \* plans that may be chosen
  Dates,          \* days that may be entered
  Earlier         \* document types that the draft has files of already

RulesAssumption == Blank \in Texts /\ Amounts \subseteq Nat /\ 0 \in Amounts
                   /\ Dates \subseteq {"before", "between", "after"}
                   /\ Tools \subseteq {"banned", "listed", "other"}
                   /\ Channels \subseteq {"official", "reseller", "unknown"}
                   /\ Plans \subseteq {"monthly", "annual", "credits"}

VARIABLES
  form,       \* the fields the rules read
  uploaded,   \* document types with a file in the case
  card,       \* history: what was taken over from an identity card last
  sent        \* the last submission: the types of its files, and those the server wanted

vars == <<form, uploaded, card, sent>>

---------------------------------------------------------------------------
(* The page's documents.                                                   *)

BaseDocs == {"idFront", "idBack", "receipt", "payment", "bank", "affidavit"}

\* Slip: the document on who paid is asked of whoever pays.
RequiredOfSelf(f) ==
  BaseDocs \cup (IF f.special THEN {"special"} ELSE {})

RequiredDocs(f) ==
  BaseDocs \cup (IF f.special THEN {"special"} ELSE {})
           \cup (IF f.payer = "relative" THEN {"relationship"} ELSE {})

TypeById ==
  [idFront |-> "ID_FRONT", idBack |-> "ID_BACK", receipt |-> "RECEIPT",
   payment |-> "PAYMENT_PROOF", bank |-> "BANK_ACCOUNT", affidavit |-> "AFFIDAVIT",
   special |-> "SPECIAL_STATUS", relationship |-> "RELATIONSHIP"]

Types == {TypeById[d] : d \in DOMAIN TypeById}

Missing(f) == {d \in RequiredDocs(f) : TypeById[d] \notin uploaded}

---------------------------------------------------------------------------
(* The server's documents: the fixed ones and those on a condition.        *)

GrantDocuments == {"ID_FRONT", "ID_BACK", "RECEIPT", "PAYMENT_PROOF", "BANK_ACCOUNT", "AFFIDAVIT"}

Conditions ==
  {[field |-> "special", equals |-> TRUE, types |-> {"SPECIAL_STATUS"}],
   [field |-> "payer", equals |-> "relative", types |-> {"RELATIONSHIP"}]}

\* The value of the field; a field of another type equals nothing of the condition.
Holds(f, c) ==
  CASE c.field = "special" -> f.special = c.equals
    [] c.field = "payer"   -> f.payer = c.equals

\* _required_documents
ServerRequires(f) ==
  GrantDocuments \cup UNION {c.types : c \in {d \in Conditions : Holds(f, d)}}

---------------------------------------------------------------------------
(* The amount.                                                             *)

Percent(f) == IF f.special THEN 90 ELSE 50
Cap(f) == IF f.special THEN 600000 ELSE 300000

Estimate(f) ==
  LET share == (f.amount * Percent(f)) \div 100 IN IF share > Cap(f) THEN Cap(f) ELSE share

\* Less than 0.011 apart.
Near(a, b) == a - b \in {-1, 0, 1}

AmountValid(f) == f.amount > 0 /\ f.requested > 0
AmountMatch(f) ==
  AmountValid(f) /\ Near(f.requested, Estimate(f)) /\ Near(f.receiptAmount, f.amount)

---------------------------------------------------------------------------
(* checks: the severity of each finding.                                   *)

Docs(f) == IF Missing(f) # {} THEN "error" ELSE "pass"

\* No file of the page carries a mark of its quality, and none is a synthetic one.
Quality(f) == "warning"

\* Slip: the tool is looked up only among those that are supported.
ListedOnly(f) == IF f.tool = "listed" THEN "pass" ELSE "warning"

Tool(f) ==
  CASE f.tool = "banned" -> "error"
    [] f.tool = "listed" -> "pass"
    [] OTHER             -> "warning"

Channel(f) ==
  IF f.plan = "credits" \/ f.channel = "reseller" THEN "error"
  ELSE IF f.channel = "unknown" THEN "warning" ELSE "pass"

SamePerson(f) == f.name = f.receiptName \/ f.email = f.receiptEmail

Identity(f) ==
  IF f.payer # "relative" /\ SamePerson(f) THEN "pass" ELSE "warning"

\* Slip: an amount above the estimate is left to the officer.
LenientAmount(f) ==
  IF AmountMatch(f) THEN "pass"
  ELSE IF ~AmountValid(f) \/ ~Near(f.receiptAmount, f.amount) THEN "error" ELSE "warning"

Amount(f) ==
  IF AmountMatch(f) THEN "pass"
  ELSE IF \/ ~AmountValid(f)
          \/ f.requested > Estimate(f)
          \/ ~Near(f.receiptAmount, f.amount)
       THEN "error" ELSE "warning"

Bank(f) == IF f.bankName = f.name THEN "pass" ELSE "error"

\* Born between the two days, and registered in the city.
Eligibility(f) == IF f.city = "city" /\ f.birth = "between" THEN "pass" ELSE "error"

Date(f) == IF f.purchase = "between" THEN "warning" ELSE "error"

Findings(f) ==
  [docs |-> Docs(f), quality |-> Quality(f), tool |-> Tool(f), channel |-> Channel(f),
   identity |-> Identity(f), amount |-> Amount(f), bank |-> Bank(f),
   eligibility |-> Eligibility(f), date |-> Date(f), duplicate |-> "warning"]

---------------------------------------------------------------------------
(* The form and what is done with it.                                      *)

Days == {"before", "between", "after"}

\* What a field may be set to; city follows the card's address when one is read.
Values ==
  [name : Texts, receiptName : Texts, bankName : Texts, email : Texts, receiptEmail : Texts,
   amount : Amounts, requested : Nat, receiptAmount : Amounts,
   payer : {"self", "relative"}, special : BOOLEAN, tool : {"banned", "listed", "other"},
   channel : {"official", "reseller", "unknown"}, plan : {"monthly", "annual", "credits"},
   city : {"city", "county", "other"}, birth : Days, purchase : Days, hint : BOOLEAN]

\* emptyForm; a blank date compares lower than every other.
EmptyForm(email) ==
  [name |-> Blank, receiptName |-> Blank, bankName |-> Blank, email |-> email,
   receiptEmail |-> Blank, amount |-> 0, requested |-> 0, receiptAmount |-> 0,
   payer |-> "self", special |-> FALSE, tool |-> "other", channel |-> "official",
   plan |-> "monthly", city |-> "city", birth |-> "before", purchase |-> "before",
   hint |-> FALSE]

Init ==
  /\ \E email \in Texts : form = EmptyForm(email)
  /\ uploaded = Earlier
  /\ card = [name |-> Blank, birth |-> "before"]
  /\ sent = [types |-> {}, wanted |-> {}]

\* Slip: the note that the fields come from a card stays.
KeepHint(f) == form' = f /\ UNCHANGED <<uploaded, card, sent>>

\* update: the note goes when a field that the card gave is typed over.
Update(f) ==
  /\ form' = [f EXCEPT !.hint = @ /\ f.name = form.name /\ f.birth = form.birth]
  /\ UNCHANGED <<uploaded, card, sent>>

EditTexts ==
  \E t \in Texts : \/ Update([form EXCEPT !.name = t]) \/ Update([form EXCEPT !.receiptName = t])
                   \/ Update([form EXCEPT !.bankName = t])
                   \/ Update([form EXCEPT !.receiptEmail = t])

EditAmounts ==
  \E a \in Amounts : \/ Update([form EXCEPT !.amount = a]) \/ Update([form EXCEPT !.requested = a])
                     \/ Update([form EXCEPT !.receiptAmount = a])

EditChoices ==
  \/ Update([form EXCEPT !.special = ~@])
  \/ \E p \in {"self", "relative"} : Update([form EXCEPT !.payer = p])
  \/ \E t \in Tools : Update([form EXCEPT !.tool = t])
  \/ \E c \in Channels : Update([form EXCEPT !.channel = c])
  \/ \E p \in Plans : Update([form EXCEPT !.plan = p])
  \/ \E d \in Dates : \/ Update([form EXCEPT !.purchase = d])
                     \/ Update([form EXCEPT !.birth = d])

\* confirmIdentity: the name, the day and the city that the card's address says.
AdoptIdentity ==
  \E t \in Texts, c \in {"city", "county"}, b \in Dates :
    /\ form' = [form EXCEPT !.name = t, !.city = c, !.birth = b, !.hint = TRUE]
    /\ card' = [name |-> t, birth |-> b]
    /\ UNCHANGED <<uploaded, sent>>

\* The button beside the estimate.
FillEstimate ==
  /\ form.amount > 0
  /\ Update([form EXCEPT !.requested = Estimate(form)])

\* A file input stands beside each required document only.
Upload(k) ==
  /\ k \in {TypeById[d] : d \in RequiredDocs(form)}
  /\ uploaded' = uploaded \cup {k}
  /\ UNCHANGED <<form, card, sent>>


SentTypes(f) == {TypeById[d] : d \in RequiredDocs(f)}

\* save, then POST submit with the ids of the required documents. The server refuses it
\* when one that it wants is missing, or for another reason that leaves the form open.
Submit ==
  /\ Missing(form) = {}
  /\ sent' = [types |-> SentTypes(form), wanted |-> ServerRequires(form)]
  /\ UNCHANGED <<form, uploaded, card>>

Next ==
  \/ EditTexts \/ EditAmounts \/ EditChoices \/ AdoptIdentity \/ FillEstimate
  \/ \E k \in Types : Upload(k)
  \/ Submit

Spec == Init /\ [][Next]_vars

---------------------------------------------------------------------------
(* Properties.                                                             *)

\* What the page sends is exactly what the server wants for that form: nothing is
\* refused as missing after the button was enabled, and a file that was uploaded for an
\* answer since taken back stays behind.
SentIsRequired == sent.types = sent.wanted

\* While the page says that the fields were compared with a card and taken over, they are
\* those of the card that was read last.
HintIsTrue == form.hint => form.name = card.name /\ form.birth = card.birth

\* A green amount never asks for more than the share of what the receipt shows and the
\* cap, by more than the cents that the comparison lets pass; and one that does ask for
\* more is an error, whatever else was edited since the estimate was taken over.
AmountIsCovered ==
  /\ Amount(form) = "pass" =>
       /\ 100 * (form.requested - 1) <= Percent(form) * (form.receiptAmount + 1)
       /\ form.requested - 1 <= Cap(form)
  /\ AmountValid(form) /\ 100 * (form.requested - 1) > Percent(form) * form.amount
       => Amount(form) = "error"

\* An application without an error finding has nothing that the published rules exclude:
\* no other tool, way of buying, day or city, no amount above its share, and no document
\* that the server would miss.
ErrorFreeIsSound ==
  (\A d \in DOMAIN Findings(form) : Findings(form)[d] # "error") =>
    /\ form.tool # "banned" /\ form.plan # "credits" /\ form.channel # "reseller"
    /\ form.city = "city" /\ form.birth = "between" /\ form.purchase = "between"
    /\ 100 * (form.requested - 1) <= Percent(form) * form.amount
    /\ form.bankName = form.name
    /\ ServerRequires(form) \subseteq uploaded
=============================================================================

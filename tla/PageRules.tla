------------------------------ MODULE PageRules ------------------------------
(***************************************************************************)
(* The staff's page, and beside it the rules that the pages and the server *)
(* apply to the grant and to the identity card (GrantRules, IdentityRules),*)
(* which are functions of what was entered.  They share nothing with the   *)
(* page: a behaviour is about the page, or about one kind of input.        *)
(***************************************************************************)
EXTENDS StaffPage

CONSTANTS
  Blank,                      \* the empty field
  ByAmount, ByDocument,       \* what the applicant may enter: sets, a record of GrantRules' constants
  Names, Ids, Dates, Junk,    \* readings on a card
  MaxFront, MaxBack,          \* bounds: lines of the card
  Typed, Someday, Today,      \* dates: typed, one of them, and the present one
  None                        \* no input: the behaviour is about something else

VARIABLES
  which,                              \* what the behaviour is about
  fields, uploaded, adopted, lastSent,  \* the form of the grant
  front, back, birth                  \* the card

grantVars == <<fields, uploaded, adopted, lastSent>>
cardVars == <<front, back, birth>>
rulesVars == <<which, pageVars, grantVars, cardVars>>

OnAmounts == INSTANCE GrantRules WITH
  Texts <- ByAmount.texts, Amounts <- ByAmount.amounts, Tools <- ByAmount.tools,
  Channels <- ByAmount.channels, Plans <- ByAmount.plans, Dates <- ByAmount.dates,
  Earlier <- ByAmount.earlier, form <- fields, card <- adopted, sent <- lastSent
OnDocuments == INSTANCE GrantRules WITH
  Texts <- ByDocument.texts, Amounts <- ByDocument.amounts, Tools <- ByDocument.tools,
  Channels <- ByDocument.channels, Plans <- ByDocument.plans, Dates <- ByDocument.dates,
  Earlier <- ByDocument.earlier, form <- fields, card <- adopted, sent <- lastSent
Front == INSTANCE IdentityRules WITH Typed <- {Someday}, MaxBack <- 0
Back == INSTANCE IdentityRules WITH Typed <- {Someday}, MaxFront <- 0
Birth == INSTANCE IdentityRules WITH MaxFront <- 0, MaxBack <- 0

ASSUME PageRulesAssumption ==
  OnAmounts!RulesAssumption /\ OnDocuments!RulesAssumption /\
  Front!IdentityAssumption /\ Back!IdentityAssumption

RulesInit ==
  /\ which \in {"page", "amounts", "documents", "card front", "card back", "birth"}
  /\ PageInit
  /\ IF which = "amounts" THEN OnAmounts!Init
     ELSE IF which = "documents" THEN OnDocuments!Init
     ELSE fields = None /\ uploaded = None /\ adopted = None /\ lastSent = None
  /\ IF which = "card front" THEN Front!Init
     ELSE IF which = "card back" THEN Back!Init
     ELSE IF which = "birth" THEN Birth!Init
     ELSE front = None /\ back = None /\ birth = None

OnPage == UNCHANGED <<which, grantVars, cardVars>>
OnForm == UNCHANGED <<which, pageVars, cardVars>>
OnCard == UNCHANGED <<which, pageVars, grantVars>>

RulesNext ==
  \/ which = "page" /\ PageNext /\ OnPage
  \/ which = "amounts" /\ OnAmounts!Next /\ OnForm
  \/ which = "documents" /\ OnDocuments!Next /\ OnForm
  \/ which = "card front" /\ Front!Next /\ OnCard
  \/ which = "card back" /\ Back!Next /\ OnCard
  \/ which = "birth" /\ Birth!Next /\ OnCard

RulesSpec == RulesInit /\ [][RulesNext]_rulesVars

---------------------------------------------------------------------------
(* The property of the rules.                                              *)

\* The rules of the grant take an amount only within what was paid and its cap, with every document
\* the server wants, and those of the card take a field only where its label shows one, a date only
\* in one era (model.ts, identity.ts).
RulesNeverGuess ==
  /\ which = "amounts" => OnAmounts!AmountIsCovered /\ OnAmounts!ErrorFreeIsSound
  /\ which = "documents" => OnDocuments!SentIsRequired /\ OnDocuments!HintIsTrue
  /\ which = "card front" => Front!FrontNeverGuesses
  /\ which = "card back" => Back!AddressIsOneRun
  /\ which = "birth" => Birth!ConfirmedBirthStays
=============================================================================

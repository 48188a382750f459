----------------------------- MODULE IdentityRules -----------------------------
(***************************************************************************)
(* What frontend/src/identity.ts makes of the text that was recognized on  *)
(* an identity card, and of a date that the applicant types.               *)
(*                                                                         *)
(* A text is a sequence of lines.  A line of the front has a label or none *)
(* (plain) and the readings that follow: a second reading stands behind a  *)
(* second label of the same field on the same line, as recognition merges  *)
(* lines.  A label that ends the value of a line before it is bound:       *)
(* FIELD_BOUNDARY knows it, which it does not for every spelling that the  *)
(* fields themselves know.  Of the back, a line is known by what it looks  *)
(* like.  The texts grow line by line, so that every text up to the bound  *)
(* is considered.                                                          *)
(***************************************************************************)
EXTENDS Integers, Sequences, FiniteSets

CONSTANTS
  Names, Ids, Dates,   \* readings of each kind; Ids look like numbers, right or wrong
  Junk,                \* a reading that is masked, cut off or no date
  Blank,               \* nothing behind the label; an empty field
  Typed,               \* dates that may be typed
  Today,               \* [year, month, day]
  MaxFront, MaxBack    \* bounds: lines of the two texts

IdentityAssumption == MaxFront \in Nat /\ MaxBack \in Nat

VARIABLES
  front,    \* lines of the front
  back,     \* lines of the back
  birth     \* the date in the candidate field, as typed

vars == <<front, back, birth>>

Readings == Names \cup Ids \cup Dates \cup {Junk, Blank}

\* What stands behind a second label is looked at for a date only.
FrontLines ==
  LET behind(values) == values \cup {Junk, Blank} IN
  [label : {"plain"}, bound : {FALSE}, parts : {<<r>> : r \in Readings \ {Blank}}]
    \cup [label : {"other"}, bound : {TRUE}, parts : {<<Junk>>}]
    \cup [label : {"name"}, bound : BOOLEAN, parts : {<<r>> : r \in behind(Names)} \cup behind(Names) \X {Junk}]
    \cup [label : {"id"}, bound : BOOLEAN, parts : {<<r>> : r \in behind(Ids)} \cup behind(Ids) \X {Junk}]
    \cup [label : {"birth"}, bound : BOOLEAN,
           parts : {<<r>> : r \in behind(Dates)} \cup behind(Dates) \X behind(Dates)]

---------------------------------------------------------------------------
(* parseFrontOCR.                                                          *)

Labelled(text, label) == {i \in DOMAIN text : text[i].label = label}

\* A label with nothing behind it takes the next line, which is of no use for a number or a date
\* if it has a label.
Reading(text, i, k) ==
  IF text[i].parts[k] # Blank THEN text[i].parts[k]
  ELSE IF i < Len(text) /\ text[i + 1].label = "plain" THEN text[i + 1].parts[1] ELSE Blank

\* For a name it is of no use only if its label is bound.
NameReading(text, i) ==
  IF text[i].parts[1] = Blank /\ i < Len(text) /\ text[i + 1].label # "plain" /\ ~text[i + 1].bound
  THEN Junk ELSE Reading(text, i, 1)

Ambiguous(text, label) == \E i \in Labelled(text, label) : Len(text[i].parts) > 1

\* pick: the only candidate, or nothing.
Pick(candidates) == IF Cardinality(candidates) = 1 THEN CHOOSE c \in candidates : TRUE ELSE Blank

\* Two labels on a line leave no name behind the first. Any other text is a name; what the
\* code leaves out as practice text or too long stands for nothing here.
NameCandidates(text) ==
  {NameReading(text, i) : i \in {j \in Labelled(text, "name") : Len(text[j].parts) = 1}} \ {Blank}

ParsedName(text) == IF Ambiguous(text, "name") THEN Blank ELSE Pick(NameCandidates(text))

\* Every label is an observation, also one with nothing readable behind it.
IdObservations(text) == {Reading(text, i, 1) : i \in Labelled(text, "id")}

\* Without any label, what stands in the text like a number.
IdCandidates(text) ==
  IF Labelled(text, "id") = {}
  THEN {text[i].parts[1] : i \in Labelled(text, "plain")} \cap Ids
  ELSE IdObservations(text) \cap Ids

\* Slip: what cannot be read hides behind a candidate.
FirstReadable(text) == Pick(IdCandidates(text))

ParsedId(text) ==
  IF Ambiguous(text, "id") \/ Cardinality(IdObservations(text)) > 1
  THEN Blank ELSE Pick(IdCandidates(text))

\* Every label of a line counts; what is no date is an observation all the same.
BirthObservations(text) ==
  LET read(r) == IF r \in Dates THEN r ELSE Junk
  IN UNION {{read(Reading(text, i, k)) : k \in DOMAIN text[i].parts} : i \in Labelled(text, "birth")}

ParsedBirth(text) ==
  IF Cardinality(BirthObservations(text)) > 1 THEN Blank ELSE Pick(BirthObservations(text) \ {Junk})

---------------------------------------------------------------------------
(* parseBackOCR.  A line of the back is one with the label of an address   *)
(* and its value or none, one with two such labels, one that looks like a  *)
(* part of an address, one that must never be one (a relative, a remark, a *)
(* label), or another.                                                     *)

BackLines == {"label", "value", "double", "part", "stop", "other"}

\* The label at the head of a line ends the address before it, too.
Stops(line) == line \in {"stop", "label", "value", "double"}

\* Slip: only the lines after the first are looked at.
EagerTakes(text, i, j) ==
  \A k \in i + 1 .. j : ~Stops(text[k]) \/ k = i + 1

\* Line j continues the address whose label is on line i: it looks like a part of one, or
\* nothing was read before it.
Takes(text, i, j) ==
  \A k \in i + 1 .. j : /\ ~Stops(text[k])
                        /\ text[k] = "part" \/ (text[i] = "label" /\ k = i + 1)

\* The lines an address is made of, three at most after its label; none if there is none.
AddressLines(text, i) ==
  LET more == {j \in i + 1 .. i + 3 : j <= Len(text) /\ Takes(text, i, j)}
  IN IF text[i] = "value" THEN {i} \cup more ELSE more

Addresses(text) ==
  {AddressLines(text, i) : i \in {j \in DOMAIN text : text[j] \in {"label", "value"}}} \ {{}}

\* Two addresses that are spelled alike count as one; here they always differ.
ParsedAddress(text) ==
  IF (\E i \in DOMAIN text : text[i] = "double") \/ Cardinality(Addresses(text)) # 1
  THEN {} ELSE CHOOSE a \in Addresses(text) : TRUE

---------------------------------------------------------------------------
(* parseBirthDate: [era, digits, year, month, day], digits being how many  *)
(* the year is written with.                                               *)

Leap(y) == y % 4 = 0 /\ (y % 100 # 0 \/ y % 400 = 0)
DaysIn(y, m) ==
  CASE m = 2                 -> IF Leap(y) THEN 29 ELSE 28
    [] m \in {4, 6, 9, 11}   -> 30
    [] OTHER                 -> 31

\* Date.UTC: a day that the month does not have is one of the next month.
UTC(y, m, d) ==
  IF d <= DaysIn(y, m) THEN [year |-> y, month |-> m, day |-> d]
  ELSE IF m < 12 THEN [year |-> y, month |-> m + 1, day |-> d - DaysIn(y, m)]
  ELSE [year |-> y + 1, month |-> 1, day |-> d - DaysIn(y, m)]

Later(a, b) ==
  \/ a.year > b.year
  \/ a.year = b.year /\ (a.month > b.month \/ (a.month = b.month /\ a.day > b.day))

\* Slip: every year without an era is one of the Republic.
AlwaysROC(d) == d.era = "none"

AssumedROC(d) == d.era = "none" /\ d.digits <= 3

YearOf(d) == IF d.era = "roc" \/ AssumedROC(d) THEN d.year + 1911 ELSE d.year

BirthValid(d) ==
  /\ (d.era = "roc" \/ AssumedROC(d)) => d.year >= 1
  /\ d.era = "ce" => d.digits = 4
  /\ YearOf(d) \in 1000 .. 9999 /\ d.month \in 1 .. 12 /\ d.day \in 1 .. 31
  /\ UTC(YearOf(d), d.month, d.day) = [year |-> YearOf(d), month |-> d.month, day |-> d.day]
  /\ ~Later([year |-> YearOf(d), month |-> d.month, day |-> d.day], Today)

\* The date as confirm writes it: four digits of the year, no era.
Iso(d) == [era |-> "none", digits |-> 4, year |-> YearOf(d), month |-> d.month, day |-> d.day]

\* checkIdentity, the comparison of a birth date with the application's.
BirthDiffers(previous, d) ==
  LET read(x) == IF BirthValid(x) THEN Iso(x) ELSE x IN read(previous) # read(d)

---------------------------------------------------------------------------
Init == front = <<>> /\ back = <<>> /\ birth \in Typed

ReadFront ==
  /\ Len(front) < MaxFront
  /\ \E line \in FrontLines : front' = Append(front, line)
  /\ UNCHANGED <<back, birth>>

ReadBack ==
  /\ Len(back) < MaxBack
  /\ \E line \in BackLines : back' = Append(back, line)
  /\ UNCHANGED <<front, birth>>

\* Confirm: the date is replaced by its normal form.
Confirm ==
  /\ BirthValid(birth)
  /\ birth' = Iso(birth)
  /\ UNCHANGED <<front, back>>

Next == ReadFront \/ ReadBack \/ Confirm

Spec == Init /\ [][Next]_vars

---------------------------------------------------------------------------
(* Properties.                                                             *)

\* A field of the front is filled only with what every label of that field shows: never
\* one of two, never the readable one beside one that cannot be read.  For the name, a
\* label with nothing behind it does not count.
FrontNeverGuesses ==
  /\ ParsedId(front) # Blank =>
       \A i \in Labelled(front, "id"), k \in {1, 2} :
         k \in DOMAIN front[i].parts => k = 1 /\ Reading(front, i, k) = ParsedId(front)
  /\ ParsedBirth(front) # Blank =>
       \A i \in Labelled(front, "birth"), k \in {1, 2} :
         k \in DOMAIN front[i].parts => Reading(front, i, k) = ParsedBirth(front)
  /\ ParsedName(front) # Blank =>
       \A i \in Labelled(front, "name") :
         Len(front[i].parts) = 1 /\ NameReading(front, i) \in {ParsedName(front), Blank}

\* An address is one run of lines below its label; it holds no line about a relative, no
\* remark and no other label, and there is no second address in the text.
AddressIsOneRun ==
  LET a == ParsedAddress(back) IN
  a # {} =>
    /\ \A i, j \in a : \A k \in i .. j : k \in a
    /\ \A i \in a : back[i] \notin {"stop", "label", "double"}
    /\ Cardinality({i \in DOMAIN back : back[i] = "value"}) <= 1
    /\ \A i \in DOMAIN back : back[i] = "value" => i \in a
    /\ Cardinality(a) <= 4

\* A date that is accepted exists, and once it was confirmed it is read again as the same
\* day, without a remark that it differs.
ConfirmedBirthStays ==
  BirthValid(birth) =>
    /\ birth.day <= DaysIn(YearOf(birth), birth.month)
    /\ BirthValid(Iso(birth)) /\ Iso(Iso(birth)) = Iso(birth)
    /\ ~BirthDiffers(Iso(birth), birth)
=============================================================================

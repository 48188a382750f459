---------------------------- MODULE MCStaffPage ----------------------------
(***************************************************************************)
(* A small instance of PageRules: one supervisor, one task answered with a *)
(* statement, one criterion; two sets of inputs to the grant, and cards of *)
(* a few lines.                                                            *)
(***************************************************************************)
EXTENDS PageRules

CONSTANTS s1, t1, c1, empty, filled

MCRequired == [f \in Forms |-> {}]
MCFileTask == [f \in Files |-> NoTask]
MCFileType == [f \in Files |-> NoFile]

\* All documents but the one of kinship; those that everyone hands in but the receipt.
MCFive == {"ID_FRONT", "ID_BACK", "PAYMENT_PROOF", "BANK_ACCOUNT", "AFFIDAVIT"}
MCSeven == MCFive \cup {"RECEIPT", "SPECIAL_STATUS"}

MCByAmount ==
  [texts |-> {"blank"}, amounts |-> {0, 1, 300000, 600001}, tools |-> {"banned"},
   channels |-> {"official", "reseller"}, plans |-> {"monthly", "credits"}, dates |-> {"between"},
   earlier |-> MCSeven]
MCByDocument ==
  [texts |-> {"blank", "own"}, amounts |-> {0}, tools |-> {}, channels |-> {}, plans |-> {},
   dates |-> {"between"}, earlier |-> MCFive]

\* The tests' today; years of both eras at their boundaries, leap years, and the days around month ends.
MCToday == [year |-> 2026, month |-> 9, day |-> 19]
MCDates ==
  [era : {"none"}, digits : {4}, year : {999, 1000, 1900, 2000, 2026, 9999},
   month : {2, 9, 12}, day : {19, 20, 29, 31}]
    \cup [era : {"none", "roc"}, digits : {3}, year : {0, 1, 89, 90, 115},
          month : {0, 2, 9, 13}, day : {0, 19, 20, 29, 30}]
    \cup [era : {"ce"}, digits : {4}, year : {90, 2000}, month : {2, 4}, day : {28, 29, 31, 32}]
    \cup [era : {"ce"}, digits : {2}, year : {90}, month : {2}, day : {28}]
MCOneDate == [era |-> "roc", digits |-> 2, year |-> 90, month |-> 5, day |-> 16]
=============================================================================

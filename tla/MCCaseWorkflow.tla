--------------------------- MODULE MCCaseWorkflow ---------------------------
(***************************************************************************)
(* Small instances of CaseWorkflow.  One task brings a file of the same    *)
(* type as the application's file, so that it can replace it.              *)
(***************************************************************************)
EXTENDS CaseWorkflow

CONSTANTS t1, t2, fa, fb, c1, empty, filled, receipt

MCRequired == [f \in Forms |-> IF f = filled THEN {receipt} ELSE {}]
MCFileTask == [f \in Files |-> IF f = fa THEN NoTask ELSE t1]
MCNothingRequired == [f \in Forms |-> {}]
MCFileType == [f \in Files |-> receipt]
=============================================================================

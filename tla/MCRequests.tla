----------------------------- MODULE MCRequests -----------------------------
(***************************************************************************)
(* Small instances of Requests: two requests at a time.                    *)
(***************************************************************************)
EXTENDS Requests, TLC

CONSTANTS ann, ben, case1, case2, rent, study, receipt, proof, letter

\* The workers are the requests: fewer permutations.
MCSymmetry == UNION {Permutations(s) : s \in {Sessions, Requests}}

MCSchemeOf == case1 :> rent
MCCreator == (case1 :> ann) @@ (case2 :> ben)
MCSize == [f \in Files |-> IF f = proof THEN 2 ELSE 1]
=============================================================================

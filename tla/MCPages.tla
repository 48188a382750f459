------------------------------ MODULE MCPages ------------------------------
(***************************************************************************)
(* Small instances of the pages.                                           *)
(***************************************************************************)
EXTENDS Pages, TLC

CONSTANTS one, two, ann, ben, received, all

MCSymmetry == Permutations({one, two})

MCLogins == (1 :> ann) @@ (2 :> ben) @@ (3 :> ann)
MCShows == (received :> {1, 2}) @@ (all :> {1, 2, 3})
=============================================================================

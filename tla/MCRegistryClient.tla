-------------------------- MODULE MCRegistryClient --------------------------
(***************************************************************************)
(* RegistryClient for TLC: five documents, the third for another language; *)
(* a category of more than two is cut to one.                              *)
(***************************************************************************)
EXTENDS RegistryClient, TLC

MCHcl == {1, 2, 4, 5}
MCCategoryOf == [d \in 1..5 |-> IF d = 2 THEN "data-sources" ELSE "resources"]
MCMatching == {1, 4}
=============================================================================

--------------------------- MODULE MCStateLoader ---------------------------
(***************************************************************************)
(* StateLoader for TLC.  Goroutines are interchangeable.                   *)
(***************************************************************************)
EXTENDS StateLoader, TLC

CallSymmetry == Permutations(Call)
=============================================================================

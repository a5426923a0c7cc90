---------------------------- MODULE MCToolCalls ----------------------------
(***************************************************************************)
(* ToolCalls for TLC.  Goroutines, sessions and ids are interchangeable.   *)
(***************************************************************************)
EXTENDS ToolCalls, TLC

Symmetry == Permutations(Call) \cup Permutations(Id)
            \cup Permutations(Session)
=============================================================================

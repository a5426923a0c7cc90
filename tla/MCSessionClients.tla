-------------------------- MODULE MCSessionClients --------------------------
(***************************************************************************)
(* SessionClients for TLC.  Request goroutines are interchangeable.        *)
(***************************************************************************)
EXTENDS SessionClients, TLC

RequestSymmetry == Permutations(Request)
=============================================================================

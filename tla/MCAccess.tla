------------------------------ MODULE MCAccess -------------------------------
(***************************************************************************)
(* An instance of Access for TLC.                                          *)
(***************************************************************************)
EXTENDS Access, TLC

CONSTANTS a1, k1, p1, u1, c1, c2

OneKey == k1 :> a1
OneProvider == u1 :> p1

RequestSymmetry == Permutations(Request)
=============================================================================

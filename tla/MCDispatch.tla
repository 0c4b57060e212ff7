----------------------------- MODULE MCDispatch -----------------------------
(* Instances of Dispatch for TLC: two modules, each with an override of       *)
(* number 1.                                                                 *)
EXTENDS Dispatch, TLC

CONSTANTS A, B, a1, b1

ModOfTwo == (a1 :> A) @@ (b1 :> B)
NumOfTwo == (a1 :> 1) @@ (b1 :> 1)

AllClauses == Clauses \cup DispatchClauses
UnmapWhileBusy == Clauses
=============================================================================

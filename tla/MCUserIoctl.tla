---------------------------- MODULE MCUserIoctl -----------------------------
(* Instance of UserIoctl for TLC: a module with two overrides of number 1.    *)
EXTENDS UserIoctl, TLC

CONSTANTS A, a1, b1

ModOfTwo == (a1 :> A) @@ (b1 :> A)
NumOfTwo == (a1 :> 1) @@ (b1 :> 1)
=============================================================================

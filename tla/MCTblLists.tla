----------------------------- MODULE MCTblLists -----------------------------
(* Instances of TblLists for TLC: names 1 and 3 override the same number.     *)
EXTENDS TblLists

MCNumOf == <<2, 1, 2>>
NoNames == [n \in {} |-> 0]
=============================================================================

---------------------------- MODULE MCSyscallTbl ----------------------------
(* Instances of SyscallTbl for TLC: two modules, two overrides of number 1   *)
(* in different modules, and a third override of number 2.                   *)
EXTENDS SyscallTbl, TLC

CONSTANTS A, B, a1, b1, a2, long

ModOfTwo == (a1 :> A) @@ (b1 :> B)
NumOfTwo == (a1 :> 1) @@ (b1 :> 1)
ModOfThree == ModOfTwo @@ (a2 :> A)
NumOfThree == NumOfTwo @@ (a2 :> 2)
ModOfAll == ModOfThree @@ (long :> B)
NumOfAll == NumOfThree @@ (long :> 2)

\* Which callers a run trusts: all the rules, or all but the one it drops.  A
\* call without a name stops the table and does no other harm to it.
Strict == Clauses \ {"name_given"}
LiveUnregister == Clauses \ {"unregister_at_exit"}
MapWhileGoing == Clauses \ {"no_map_while_going"}
RemoveOther == Clauses \ {"remove_own"}
RemoveNonEmpty == Clauses \ {"empty_first"}
=============================================================================

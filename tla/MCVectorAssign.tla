--------------------------- MODULE MCVectorAssign ---------------------------
(* Instances of VectorAssign for TLC, with no override calls: what a vector   *)
(* maps has no bearing on who is assigned to it.                             *)
EXTENDS VectorAssign

NoNames == [n \in {} |-> 0]
AllClauses == Clauses \cup ProcClauses

\* Which callers a run trusts: all the rules, or all but the one it drops.
OverlappingCalls == AllClauses \ {"serial_per_pid"}
ExitingTarget == AllClauses \ {"target_not_exiting"}
AssignOver == AllClauses \ {"assign_from_default"}
NoLockKept == {"block_existing", "name_given"}
BlockMissing == AllClauses \ {"block_existing"}
=============================================================================

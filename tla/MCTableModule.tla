--------------------------- MODULE MCTableModule ---------------------------
(* Instance of TableModule for TLC, with no override calls.                  *)
EXTENDS TableModule

NoNames == [n \in {} |-> 0]
AllClauses == Clauses \cup ProcClauses \cup UnloadClauses
=============================================================================

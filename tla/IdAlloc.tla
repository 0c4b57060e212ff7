------------------------------ MODULE IdAlloc -------------------------------
(* The choice of a vector id by __add_syscall_vector, as a function of the    *)
(* ids in use.  Module TblLists checks it against the loop over the list.    *)
EXTENDS Integers, FiniteSetsExt

\* The first gap that is followed by at least two vectors is filled; a gap in
\* front of the last vector, or of the first, is not.
Gaps(S) == {a \in S : a + 1 \notin S /\ \E b, c \in S : a < b /\ b < c}

\* Mutant of NextVectorId: the id of the last vector, without the + 1.
LastId(S) == IF S = {} THEN 1 ELSE Max(S)

NextVectorId(S) ==
  IF S = {} THEN 1
  ELSE IF Gaps(S) # {} THEN Min(Gaps(S)) + 1 ELSE Max(S) + 1
=============================================================================

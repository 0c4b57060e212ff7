------------------------------ MODULE Pinning -------------------------------
(***************************************************************************)
(* What reference counting promises in this system, without any counter:    *)
(* a holder holds at most one object, and an object that somebody holds     *)
(* stays.  The table keeps the promise twice: vector entries hold the       *)
(* modules of their overrides (SyscallTbl), and processes hold the vectors  *)
(* they are assigned (VectorAssign).                                        *)
(***************************************************************************)
CONSTANTS Objects, Holders

VARIABLES
  alive,  \* the objects that exist
  holds   \* holder -> the set of what it holds, empty or one object

vars == <<alive, holds>>

Init == alive = {} /\ holds = [h \in Holders |-> {}]

Create(o) == o \notin alive /\ alive' = alive \cup {o} /\ UNCHANGED holds

Destroy(o) ==
  /\ o \in alive
  /\ \A h \in Holders : o \notin holds[h]
  /\ alive' = alive \ {o}
  /\ UNCHANGED holds

\* Also the move from one object to another.
Take(h, o) == o \in alive /\ holds' = [holds EXCEPT ![h] = {o}] /\ UNCHANGED alive

Release(h) == holds' = [holds EXCEPT ![h] = {}] /\ UNCHANGED alive

Next ==
  \/ \E o \in Objects : Create(o) \/ Destroy(o)
  \/ \E h \in Holders : Release(h) \/ \E o \in Objects : Take(h, o)

Spec == Init /\ [][Next]_vars

\* Nobody holds an object that does not exist.
NoneDangling == \A h \in Holders : holds[h] \subseteq alive
=============================================================================

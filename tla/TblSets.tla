------------------------------ MODULE TblSets -------------------------------
(***************************************************************************)
(* The table as its callers see it: registered names, vectors, and for each *)
(* vector a partial function from numbers to overrides.  SyscallTbl adds    *)
(* reference counts, modules and errors to it; TblLists the linked lists.   *)
(***************************************************************************)
EXTENDS IdAlloc

CONSTANTS Ids, Names, NumOf

VARIABLES registered, vectors, calls

vars == <<registered, vectors, calls>>

Init == registered = {} /\ vectors = {} /\ calls = [v \in Ids |-> {}]

Register(n) ==
  n \notin registered /\ registered' = registered \cup {n} /\ UNCHANGED <<vectors, calls>>

Unregister(n) ==
  /\ n \in registered
  /\ \A v \in vectors : n \notin calls[v]
  /\ registered' = registered \ {n}
  /\ UNCHANGED <<vectors, calls>>

AddVector ==
  /\ vectors' = vectors \cup {NextVectorId(vectors)}
  /\ NextVectorId(vectors) \notin vectors
  /\ UNCHANGED <<registered, calls>>

RemoveVector(v) ==
  /\ v \in vectors
  /\ vectors' = vectors \ {v}
  /\ calls' = [calls EXCEPT ![v] = {}]
  /\ UNCHANGED registered

\* One override per number: a number that is taken is not mapped again.
Map(v, n) ==
  /\ v \in vectors /\ n \in registered
  /\ \A m \in calls[v] : NumOf[m] # NumOf[n]
  /\ calls' = [calls EXCEPT ![v] = @ \cup {n}]
  /\ UNCHANGED <<registered, vectors>>

\* What is taken off is whatever overrides the number.
Unmap(v, n) ==
  /\ v \in vectors /\ n \in calls[v]
  /\ calls' = [calls EXCEPT ![v] = {m \in @ : NumOf[m] # NumOf[n]}]
  /\ UNCHANGED <<registered, vectors>>

Next ==
  \/ AddVector
  \/ \E n \in Names : Register(n) \/ Unregister(n)
  \/ \E v \in vectors : RemoveVector(v) \/ \E n \in Names : Map(v, n) \/ Unmap(v, n)

Spec == Init /\ [][Next]_vars
=============================================================================

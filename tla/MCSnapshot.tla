----------------------------- MODULE MCSnapshot -----------------------------
(* Instance of Snapshot for TLC: the order of the names by number is the      *)
(* opposite of that by name.                                                 *)
EXTENDS Snapshot

MCNumOf == [n \in Names |-> 10 - n]
=============================================================================

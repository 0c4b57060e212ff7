------------------------------ MODULE Snapshot ------------------------------
(***************************************************************************)
(* get_syscall_tbl_info walks the lists of TblLists without the lock and    *)
(* copies what it meets, while vectors are added and overrides mapped: a    *)
(* node is complete before it is linked, so the walk meets whole nodes.     *)
(* While it walks nothing is removed, which the code leaves to its callers: *)
(* it would stand on a freed node.  show_syscall_tbl walks in the same way. *)
(***************************************************************************)
EXTENDS TblLists

VARIABLES
  at,       \* "idle", "vector", "name", "done"
  pos,      \* the id of the vector the walk stands on, None at the head
  pos1,     \* the name it stands on in that vector, None at the head
  j,        \* names copied for it
  info,     \* what was copied: per vector its id, its names and their number
  witness   \* history: a vector, and a name of it, that were there at the start

walkVars == <<at, pos, pos1, j, info, witness>>
snapVars == <<vars, walkVars>>

None == 0  \* an id and a name are positive

ASSUME NoneAssumption == None \notin Names

SnapInit ==
  /\ Init
  /\ at = "idle" /\ pos = None /\ pos1 = None /\ j = 0 /\ info = <<>>
  /\ witness = <<None, None>>

-----------------------------------------------------------------------------
\* The element after the one at an index, where index 0 is the head.
After(list, i) == IF i < Len(list) THEN list[i + 1] ELSE None

Nums(id) == vectorList[GetSyscallVector(id)].nums
NextVector(id) == After(VectorIds, GetNode(VectorIds, id))

\* Mutant of NextName: the walk goes on from the second name.
NextNameSkips(id, name) == After(Nums(id), GetNode(Nums(id), name) + (IF name = None THEN 1 ELSE 0))
NextName(id, name) == After(Nums(id), GetNode(Nums(id), name))

TableHas(id, name) ==
  id \in ToSet(VectorIds) /\ (name = None \/ name \in ToSet(Nums(id)))

InfoHas(id, name) ==
  \E i \in DOMAIN info : info[i].id = id /\ (name = None \/ name \in ToSet(info[i].names))

Start ==
  /\ at = "idle"
  /\ \E id \in AllIds, name \in Names \cup {None} :
       /\ IF vectorList = <<>> THEN <<id, name>> = <<None, None>> ELSE TableHas(id, name)
       /\ witness' = <<id, name>>
  /\ at' = "vector" /\ pos' = NextVector(None)
  /\ UNCHANGED <<vars, pos1, j, info>>

\* Mutant of CopyVector: j goes on from the vector before.
CopyVectorKeepsJ ==
  /\ at = "vector" /\ pos # None
  /\ info' = Append(info, [id |-> pos, names |-> <<>>, size |-> 0])
  /\ at' = "name" /\ pos1' = NextName(pos, None)
  /\ UNCHANGED <<vars, pos, j, witness>>

CopyVector ==
  /\ at = "vector" /\ pos # None
  /\ info' = Append(info, [id |-> pos, names |-> <<>>, size |-> 0])
  /\ j' = 0
  /\ at' = "name" /\ pos1' = NextName(pos, None)
  /\ UNCHANGED <<vars, pos, witness>>

CopyName ==
  /\ at = "name" /\ pos1 # None
  /\ info' = [info EXCEPT ![Len(info)].names = Append(@, pos1)]
  /\ j' = j + 1
  /\ pos1' = NextName(pos, pos1)
  /\ UNCHANGED <<vars, at, pos, witness>>

Advance ==
  /\ at = "name" /\ pos1 = None
  /\ info' = [info EXCEPT ![Len(info)].size = j]
  /\ at' = "vector" /\ pos' = NextVector(pos)
  /\ UNCHANGED <<vars, pos1, j, witness>>

Finish ==
  /\ at = "vector" /\ pos = None
  /\ at' = "done"
  /\ UNCHANGED <<vars, pos, pos1, j, info, witness>>

Return ==
  /\ at = "done"
  /\ at' = "idle" /\ j' = 0 /\ info' = <<>> /\ witness' = <<None, None>>
  /\ UNCHANGED <<vars, pos, pos1>>

SnapNext ==
  \/ Start \/ CopyVector \/ CopyName \/ Advance \/ Finish \/ Return
  \/ (AddNext \/ (at = "idle" /\ RemoveNext)) /\ UNCHANGED walkVars

SnapSpec == SnapInit /\ [][SnapNext]_snapVars

-----------------------------------------------------------------------------
(* Correctness.                                                             *)

\* What a walk has copied is in the table, in the order of the table and once
\* each, with the right number of names, however many vectors are added behind
\* the walk or ahead of it.
CopiesTable ==
  /\ \A i \in DOMAIN info :
       /\ TableHas(info[i].id, None)
       /\ \A n \in ToSet(info[i].names) : TableHas(info[i].id, n)
       /\ Ascending(info[i].names, LAMBDA n : NumOf[n])
       /\ (at = "name" /\ i = Len(info)) \/ info[i].size = Len(info[i].names)
  /\ Ascending(info, LAMBDA entry : entry.id)

\* A walk that ends has copied every vector and every name that was in the
\* table when it began.
MissesNothing == at = "done" /\ witness[1] # None => InfoHas(witness[1], witness[2])
=============================================================================

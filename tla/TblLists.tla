------------------------------ MODULE TblLists ------------------------------
(***************************************************************************)
(* The table as linked lists: vector_list and the syscall_num_list of each  *)
(* vector, syscall_list, and the operations of list.c on them.  It is about *)
(* order, duplicates and the short that holds a vector id; reference counts *)
(* and modules are in SyscallTbl.                                           *)
(***************************************************************************)
EXTENDS IdAlloc, Sequences, SequencesExt

CONSTANTS
  Names,       \* override names, numbered in the order of strncmp
  NumOf,       \* name -> system call number
  MaxShort,    \* the greatest short, which holds a vector id (32767 in the code)
  MaxVectors,  \* bound: vectors at a time
  MaxId,       \* bound: ids handed out (the code has no other bound than the short)
  MayWrap      \* whether ids are handed out past the greatest short

ASSUME ListAssumption ==
  /\ Names \subseteq Nat /\ NumOf \in [Names -> Int]
  /\ MaxShort \in Nat \ {0} /\ MaxVectors \in Nat /\ MaxId \in Nat /\ MayWrap \in BOOLEAN

VARIABLES
  vectorList,   \* sequence of vectors, each its id and its syscall_num_list
  syscallList   \* sequence of names

vars == <<vectorList, syscallList>>

Short(x) == ((x + MaxShort + 1) % (2 * MaxShort + 2)) - MaxShort - 1
AllIds == (-MaxShort - 1)..MaxShort

-----------------------------------------------------------------------------
(* list.c, over sequences: a position is an index, 0 is NULL and Len + 1 is   *)
(* the head that ends a traversal.                                           *)

\* get_node compares keys, here the sequence of the keys of a list.
GetNode(keys, key) == SelectInSeq(keys, LAMBDA k : k = key)

\* Mutant of AddNode: list_add for list_add_tail.
AddNodeAfter(list, node, key) ==
  LET pos == SelectInSeq(list, LAMBDA other : key[other] > key[node]) IN
  IF pos = 0 THEN Append(list, node) ELSE InsertAt(list, pos + 1, node)

\* In front of the first node whose key is greater.
AddNode(list, node, key) ==
  LET pos == SelectInSeq(list, LAMBDA other : key[other] > key[node]) IN
  IF pos = 0 THEN Append(list, node) ELSE InsertAt(list, pos, node)

AddNodeEnd(list, node, pos) == InsertAt(list, pos, node)

RemoveNode(list, pos) == RemoveAt(list, pos)

NameKey == [n \in Names |-> n]
VectorIds == [i \in DOMAIN vectorList |-> vectorList[i].id]

GetSyscall(n) == GetNode(syscallList, n)
GetSyscallVector(id) == GetNode(VectorIds, id)

GetNum(list, num) == GetNode([i \in DOMAIN list |-> NumOf[list[i]]], num)

-----------------------------------------------------------------------------
\* Mutant of StopAt: the test for a gap is off by one.
StopEarly ==
  LET gaps == {i \in 1..(Len(vectorList) - 2) : vectorList[i + 1].id - vectorList[i].id >= 1}
  IN IF gaps = {} THEN Len(vectorList) ELSE Min(gaps)

\* Mutant of StopAt: no gap is filled.
StopLast == Len(vectorList)

\* Where the loop of __add_syscall_vector stops: at a node whose successor is
\* neither the head nor the last node and leaves a gap, else at the last node.
StopAt ==
  LET gaps == {i \in 1..(Len(vectorList) - 2) : vectorList[i + 1].id - vectorList[i].id > 1}
  IN IF gaps = {} THEN Len(vectorList) ELSE Min(gaps)

\* Mutant of NewId: the sum is kept in an int.
NewIdWide == IF vectorList = <<>> THEN 1 ELSE vectorList[StopAt].id + 1

NewId == IF vectorList = <<>> THEN 1 ELSE Short(vectorList[StopAt].id + 1)

AddSyscallVector ==
  /\ Len(vectorList) < MaxVectors
  /\ NewId <= MaxId /\ (MayWrap \/ NewId > 0)
  /\ vectorList' = AddNodeEnd(vectorList, [id |-> NewId, nums |-> <<>>],
                              IF vectorList = <<>> THEN 1 ELSE StopAt + 1)
  /\ UNCHANGED syscallList

RemoveSyscallVector(id) ==
  /\ GetSyscallVector(id) # 0
  /\ vectorList' = RemoveNode(vectorList, GetSyscallVector(id))
  /\ UNCHANGED syscallList

RegisterSyscall(n) ==
  /\ GetSyscall(n) = 0
  /\ syscallList' = AddNode(syscallList, n, NameKey)
  /\ UNCHANGED vectorList

\* No vector maps the name, as NoFreedEntry of SyscallTbl requires.
UnregisterSyscall(n) ==
  /\ GetSyscall(n) # 0
  /\ \A i \in DOMAIN vectorList : n \notin ToSet(vectorList[i].nums)
  /\ syscallList' = RemoveNode(syscallList, GetSyscall(n))
  /\ UNCHANGED vectorList

AddSyscallToVector(id, n) ==
  LET v == GetSyscallVector(id) IN
  /\ GetSyscall(n) # 0 /\ v # 0
  /\ GetNum(vectorList[v].nums, NumOf[n]) = 0
  /\ vectorList' = [vectorList EXCEPT ![v].nums = AddNode(@, n, NumOf)]
  /\ UNCHANGED syscallList

RemoveSyscallFromVector(id, n) ==
  LET v == GetSyscallVector(id) IN
  /\ GetSyscall(n) # 0 /\ v # 0
  /\ GetNum(vectorList[v].nums, NumOf[n]) # 0
  /\ vectorList' = [vectorList EXCEPT ![v].nums = RemoveNode(@, GetNum(@, NumOf[n]))]
  /\ UNCHANGED syscallList

Init == vectorList = <<>> /\ syscallList = <<>>

AddNext ==
  \/ AddSyscallVector
  \/ \E n \in Names :
       \/ RegisterSyscall(n) \/ UnregisterSyscall(n)
       \/ \E id \in AllIds : AddSyscallToVector(id, n)

RemoveNext ==
  \E id \in AllIds :
    RemoveSyscallVector(id) \/ \E n \in Names : RemoveSyscallFromVector(id, n)

Next == AddNext \/ RemoveNext

Spec == Init /\ [][Next]_vars

-----------------------------------------------------------------------------
(* Correctness.                                                             *)

\* The shape of the lists.
TypeOK ==
  /\ vectorList \in Seq([id : AllIds, nums : Seq(Names)])
  /\ syscallList \in Seq(Names)

Ascending(list, Key(_)) ==
  \A i, j \in DOMAIN list : i < j => Key(list[i]) < Key(list[j])

\* Every list is in strictly ascending order of its key, which is what lets a
\* lookup stop at the first match: vectors by id, names by name, and the
\* overrides of a vector by number.
ListsSorted ==
  /\ Ascending(vectorList, LAMBDA v : v.id)
  /\ Ascending(syscallList, LAMBDA n : n)
  /\ \A i \in DOMAIN vectorList : Ascending(vectorList[i].nums, LAMBDA n : NumOf[n])

\* An id handed out is positive (the ioctl reports a negative one as an error)
\* and no vector in the table has it.
IdsInUse == ToSet(VectorIds)
IdsRemain == vectorList # <<>> => vectorList[StopAt].id < MaxShort
FreshPositiveId == IdsRemain => NewId > 0 /\ NewId \notin IdsInUse

\* The lists implement the table of TblSets; in particular the loop over the
\* list picks the id that NextVectorId names.
Sets == INSTANCE TblSets WITH
  Ids <- AllIds,
  registered <- ToSet(syscallList),
  vectors <- IdsInUse,
  calls <- [id \in AllIds |->
             IF GetSyscallVector(id) = 0 THEN {}
             ELSE ToSet(vectorList[GetSyscallVector(id)].nums)]
ImplementsSets == Sets!Spec
=============================================================================

--------------------------- MODULE SnapshotProofs ---------------------------
(***************************************************************************)
(* Theorems about Snapshot: what a walk without the lock copies is in the   *)
(* table, in its order and counted, and what was in the table when the walk *)
(* began is copied, whatever is added while it walks.                       *)
(***************************************************************************)
EXTENDS Snapshot, TblListsProofs

-----------------------------------------------------------------------------
(* The table that a walk reads.                                             *)

\* What is in the table: a vector, or an override of it.
Has(id, name) == id \in IdsInUse /\ (name = None \/ name \in LookupCalls[id])

LEMMA LookupIs ==
  ASSUME ListInv, NEW id \in IdsInUse
  PROVE  /\ id \in AllIds /\ id > 0
         /\ LookupCalls[id] = ToSet(Nums(id)) /\ Nums(id) \in Seq(Names) /\ Sorted(Nums(id), NumOf)
<1> DEFINE v == GetSyscallVector(id)
<1>1. PICK i \in 1..Len(vectorList) : vectorList[i].id = id
  BY InUse DEF ListInv
<1>2. id \in AllIds /\ id > 0
  BY <1>1, NumsProperties DEF ListInv, IdsSorted
<1>3. v \in 1..Len(vectorList) /\ v # 0
  BY <1>1, FindVector, KeysProperties DEF ListInv
<1>4. Nums(id) = vectorList[v].nums
  BY DEF Nums
<1>5. vectorList[v].nums \in Seq(Names) /\ Sorted(vectorList[v].nums, NumOf)
  BY <1>3, NumsProperties DEF ListInv, NamesSorted
<1>6. LookupCalls[id] = ToSet(vectorList[v].nums)
  BY <1>2, <1>3 DEF LookupCalls
<1> QED
  BY <1>2, <1>4, <1>5, <1>6

\* A lookup reads off what Has says.
Reads ==
  /\ IdsInUse \subseteq AllIds /\ \A id \in IdsInUse : id > 0 /\ LookupCalls[id] \subseteq Names
  /\ \A id, name : TableHas(id, name) <=> Has(id, name)

LEMMA ReadsCorrect == ListInv => Reads
<1> SUFFICES ASSUME ListInv PROVE Reads
  OBVIOUS
<1>1. ASSUME NEW id \in IdsInUse
      PROVE  /\ id \in AllIds /\ id > 0 /\ LookupCalls[id] = ToSet(Nums(id))
             /\ LookupCalls[id] \subseteq Names
  BY LookupIs, ToSetIs
<1>2. ASSUME NEW id, NEW name PROVE TableHas(id, name) <=> Has(id, name)
  BY <1>1 DEF TableHas, Has, IdsInUse
<1> QED
  BY <1>1, <1>2 DEF Reads

\* next of a node on the list of vectors: the vector of the next higher id.
LEMMA NextVectorIs ==
  ASSUME ListInv, NEW id \in IdsInUse \cup {None}
  PROVE  \/ NextVector(id) = None /\ \A x \in IdsInUse : x <= id
         \/ /\ NextVector(id) \in IdsInUse /\ id < NextVector(id)
            /\ \A x \in IdsInUse : x <= id \/ NextVector(id) <= x
<1> DEFINE n == Len(vectorList)
           i == GetNode(VectorIds, id)
           key(k) == vectorList[k].id
<1>1. i \in 0..n /\ n \in Nat
  BY KeysProperties, GetNodeProperties DEF ListInv
<1>2. /\ i # 0 => key(i) = id
      /\ i = 0 => \A k \in 1..n : key(k) # id
  BY KeysProperties, GetNodeProperties DEF ListInv
<1>3. IdsInUse = {key(k) : k \in 1..n}
  BY InUse DEF ListInv
<1>4. /\ \A k \in 1..n : key(k) \in Nat
      /\ \A k, l \in 1..n : k < l <=> key(k) < key(l)
  BY IdsAscend
<1>5. \A k \in 1..n : key(k) > 0
  BY NumsProperties DEF ListInv, IdsSorted
<1>6. NextVector(id) = IF i < n THEN key(i + 1) ELSE None
  <2>1. Len(VectorIds) = n /\ \A k \in 1..n : VectorIds[k] = key(k)
    BY KeysProperties DEF ListInv
  <2>2. i < n => i + 1 \in 1..n
    BY <1>1
  <2>3. NextVector(id) = IF i < Len(VectorIds) THEN VectorIds[i + 1] ELSE None
    BY DEF NextVector, After
  <2> HIDE DEF n, i, key
  <2> QED
    BY <2>1, <2>2, <2>3
<1> HIDE DEF n, i, key
<1>7. \A k \in 1..n : k <= i <=> key(k) <= id
  <2>1. CASE i = 0
    <3>1. id = None
      BY <1>2, <1>3, <2>1
    <3> QED
      BY <1>1, <1>4, <1>5, <2>1, <3>1 DEF None
  <2>2. CASE i # 0
    <3>1. i \in 1..n /\ key(i) = id
      BY <1>1, <1>2, <2>2
    <3> QED
      BY <1>1, <1>4, <3>1
  <2> QED
    BY <2>1, <2>2
<1>8. CASE i < n
  <2>1. i + 1 \in 1..n /\ ~ (i + 1 <= i)
    BY <1>1, <1>8
  <2>2. id \in Nat
    BY <1>3, <1>4 DEF None
  <2>3. key(i + 1) \in IdsInUse /\ id < key(i + 1)
    BY <1>3, <1>4, <1>7, <2>1, <2>2
  <2>4. ASSUME NEW x \in IdsInUse PROVE x <= id \/ key(i + 1) <= x
    <3>1. PICK k \in 1..n : x = key(k)
      BY <1>3
    <3>2. k <= i \/ k = i + 1 \/ i + 1 < k
      BY <1>1
    <3> QED
      BY <1>4, <1>7, <2>1, <3>1, <3>2
  <2> QED
    BY <1>6, <1>8, <2>3, <2>4
<1>9. CASE ~ (i < n)
  <2>1. \A k \in 1..n : k <= i
    BY <1>1, <1>9
  <2> QED
    BY <1>3, <1>6, <1>7, <1>9, <2>1
<1> QED
  BY <1>8, <1>9

\* next of a node on the list of overrides: that of the next higher number.
LEMMA NextNameIs ==
  ASSUME NEW s \in Seq(Names), Sorted(s, NumOf), NEW name \in ToSet(s) \cup {None}
  PROVE  LET next == After(s, GetNode(s, name))
             before(m) == name # None /\ (m = name \/ NumOf[m] < NumOf[name]) IN
         \/ next = None /\ \A m \in ToSet(s) : before(m)
         \/ /\ next \in ToSet(s) /\ next # None /\ (name # None => NumOf[name] < NumOf[next])
            /\ \A m \in ToSet(s) : before(m) \/ NumOf[next] <= NumOf[m]
<1> DEFINE n == Len(s)
           i == GetNode(s, name)
           next == After(s, i)
           before(m) == name # None /\ (m = name \/ NumOf[m] < NumOf[name])
<1>1. /\ n \in Nat /\ DOMAIN s = 1..n /\ ToSet(s) = {s[k] : k \in 1..n}
      /\ \A k \in 1..n : s[k] \in Names /\ s[k] # None /\ NumOf[s[k]] \in Int
  <2>1. n \in Nat /\ DOMAIN s = 1..n
    BY LenProperties
  <2>2. ToSet(s) = {s[k] : k \in 1..n}
    BY ToSetIs
  <2>3. \A k \in 1..n : s[k] \in Names
    BY ElementOfSeq
  <2> QED
    BY <2>1, <2>2, <2>3, ListAssumption, NoneAssumption
<1>2. i \in 0..n /\ (i # 0 => s[i] = name) /\ (i = 0 => \A k \in 1..n : s[k] # name)
  BY GetNodeProperties
<1>3. next = IF i < n THEN s[i + 1] ELSE None
  BY DEF After
<1>4. \A k, l \in 1..n : k < l => NumOf[s[k]] < NumOf[s[l]]
  BY <1>1 DEF Sorted
<1> HIDE DEF n, i, next
<1>5. \A k \in 1..n : k <= i => before(s[k])
  <2> SUFFICES ASSUME NEW k \in 1..n, k <= i PROVE before(s[k])
    OBVIOUS
  <2>1. i \in 1..n /\ s[i] = name /\ name # None
    BY <1>1, <1>2
  <2>2. k = i \/ k < i
    BY <2>1
  <2> QED
    BY <1>4, <2>1, <2>2
<1>6. CASE i < n
  <2>1. i + 1 \in 1..n /\ next = s[i + 1]
    BY <1>1, <1>2, <1>3, <1>6
  <2>2. next \in ToSet(s) /\ next # None
    BY <1>1, <2>1
  <2>3. name # None => NumOf[name] < NumOf[next]
    <3>1. name # None => i \in 1..n /\ s[i] = name
      BY <1>1, <1>2
    <3> QED
      BY <1>1, <1>4, <2>1, <3>1
  <2>4. ASSUME NEW m \in ToSet(s) PROVE before(m) \/ NumOf[next] <= NumOf[m]
    <3>1. PICK k \in 1..n : m = s[k]
      BY <1>1
    <3>2. k <= i \/ k = i + 1 \/ i + 1 < k
      BY <1>1, <1>2
    <3> QED
      BY <1>1, <1>4, <1>5, <2>1, <3>1, <3>2
  <2> QED
    BY <2>2, <2>3, <2>4 DEF i, next
<1>7. CASE ~ (i < n)
  <2>1. \A k \in 1..n : k <= i
    BY <1>1, <1>2, <1>7
  <2>2. \A m \in ToSet(s) : before(m)
    BY <1>1, <1>5, <2>1
  <2> QED
    BY <1>3, <1>7, <2>2 DEF i, next
<1> QED
  BY <1>6, <1>7

\* Nothing leaves the table while it is walked.
LEMMA AddsKeep ==
  ASSUME ~ MayWrap, ListInv, View, View', TypeOK', AddNext \/ UNCHANGED vars
  PROVE  \A id, name : Has(id, name) => Has(id, name)'
<1> SUFFICES ASSUME NEW id, NEW name, Has(id, name) PROVE Has(id, name)'
  OBVIOUS
<1>1. id \in IdsInUse /\ id \in AllIds
  BY LookupIs DEF Has
<1>2. CASE AddSyscallVector
  <2>1. Sets!AddVector
    BY <1>2, AddVectorSets
  <2> QED
    BY <1>1, <2>1 DEF Sets!AddVector, Has, LookupCalls
<1>3. CASE \E n \in Names : RegisterSyscall(n) \/ UnregisterSyscall(n)
  <2>1. PICK n \in Names : Sets!Register(n) \/ Sets!Unregister(n)
    BY <1>3, NameSets
  <2> QED
    BY <1>1, <2>1 DEF Sets!Register, Sets!Unregister, Has, LookupCalls
<1>4. CASE \E v \in AllIds, n \in Names : AddSyscallToVector(v, n)
  <2>1. PICK v \in AllIds, n \in Names : Sets!Map(v, n)
    BY <1>4, MapSets
  <2>2. IdsInUse' = IdsInUse /\ LookupCalls' = [LookupCalls EXCEPT ![v] = @ \cup {n}]
    BY <2>1 DEF Sets!Map, LookupCalls
  <2>3. DOMAIN LookupCalls = AllIds
    BY DEF LookupCalls
  <2> QED
    BY <1>1, <2>2, <2>3 DEF Has
<1>5. CASE UNCHANGED vars
  BY <1>5 DEF vars, Has, IdsInUse, VectorIds, LookupCalls, GetSyscallVector
<1> QED
  BY <1>2, <1>3, <1>4, <1>5 DEF AddNext

-----------------------------------------------------------------------------
(* The walk.                                                                *)

Entries == [id : AllIds, names : Seq(Names), size : Nat]

WalkTypeOK ==
  /\ at \in {"idle", "vector", "name", "done"} /\ j \in Nat
  /\ info \in Seq(Entries)

\* What has been copied.
Copied ==
  /\ \A i \in 1..Len(info) :
       /\ Has(info[i].id, None)
       /\ \A n \in ToSet(info[i].names) : Has(info[i].id, n)
       /\ Sorted(info[i].names, NumOf)
       /\ (at = "name" /\ i = Len(info)) \/ info[i].size = Len(info[i].names)
  /\ \A i, k \in 1..Len(info) : i < k => info[i].id < info[k].id

\* Where the walk stands: behind what it has copied.
Stands ==
  /\ at = "idle" => info = <<>>
  /\ at = "vector" =>
       /\ pos \in IdsInUse \cup {None}
       /\ pos # None => \A i \in 1..Len(info) : info[i].id < pos
  /\ at = "name" =>
       /\ Has(pos, pos1) /\ Len(info) > 0 /\ info[Len(info)].id = pos
       /\ j = Len(info[Len(info)].names)
       /\ pos1 # None => \A n \in ToSet(info[Len(info)].names) : NumOf[n] < NumOf[pos1]

\* Whether the walk has passed a vector, or an override of it.
Passed(id, name) ==
  \/ at = "vector" /\ (pos = None \/ id < pos)
  \/ at = "name" /\ (id < pos \/ (id = pos /\ (name = None \/ pos1 = None \/ NumOf[name] < NumOf[pos1])))
  \/ at = "done"

\* What was there when the walk began is still there, and was copied if passed.
Seen ==
  at # "idle" /\ witness[1] # None =>
    /\ Has(witness[1], witness[2])
    /\ Passed(witness[1], witness[2]) => InfoHas(witness[1], witness[2])

\* The inductive invariant of the walk, over that of the lists.
WalkInv == WalkTypeOK /\ Copied /\ Stands /\ Seen

LEMMA InfoProperties ==
  ASSUME WalkTypeOK
  PROVE  /\ Len(info) \in Nat /\ DOMAIN info = 1..Len(info)
         /\ \A i \in 1..Len(info) : info[i] \in Entries
BY LenProperties, ElementOfSeq DEF WalkTypeOK

LEMMA AppendToSet ==
  ASSUME NEW S, NEW s \in Seq(S), NEW e \in S
  PROVE  ToSet(Append(s, e)) = ToSet(s) \cup {e}
<1>1. Len(s) \in Nat /\ Len(s) + 1 \in 1..(Len(s) + 1)
  BY LenProperties
<1>2. Append(s, e) = InsertAt(s, Len(s) + 1, e)
  BY AppendInserts
<1>3. ToSet(InsertAt(s, Len(s) + 1, e)) = ToSet(s) \cup {e}
  BY <1>1, InsertToSet
<1> QED
  BY <1>2, <1>3

LEMMA AppendSorted ==
  ASSUME NEW s \in Seq(Names), Sorted(s, NumOf), NEW e \in Names,
         \A n \in ToSet(s) : NumOf[n] < NumOf[e]
  PROVE  Sorted(Append(s, e), NumOf)
<1> DEFINE t == Append(s, e)
<1>1. /\ Len(s) \in Nat /\ DOMAIN s = 1..Len(s) /\ \A k \in 1..Len(s) : s[k] \in ToSet(s)
  BY LenProperties, ToSetIs
<1>2. /\ DOMAIN t = 1..(Len(s) + 1) /\ t[Len(s) + 1] = e /\ \A k \in 1..Len(s) : t[k] = s[k]
  BY AppendProperties, LenProperties
<1> HIDE DEF t
<1>3. ASSUME NEW i \in 1..(Len(s) + 1), NEW k \in 1..(Len(s) + 1), i < k
      PROVE  NumOf[t[i]] < NumOf[t[k]]
  <2>1. i \in 1..Len(s) /\ t[i] = s[i]
    BY <1>1, <1>2, <1>3
  <2>2. CASE k = Len(s) + 1
    BY <1>1, <1>2, <2>1, <2>2
  <2>3. CASE k # Len(s) + 1
    <3>1. k \in 1..Len(s) /\ t[k] = s[k]
      BY <1>1, <1>2, <2>3
    <3> QED
      BY <1>1, <1>3, <2>1, <3>1 DEF Sorted
  <2> QED
    BY <2>2, <2>3
<1> QED
  BY <1>2, <1>3 DEF Sorted, t

\* A step of others leaves the walk where it is and takes nothing from the table.
LEMMA OthersWalk ==
  ASSUME WalkInv, UNCHANGED walkVars, \A id, name : Has(id, name) => Has(id, name)'
  PROVE  WalkInv'
<1>1. UNCHANGED <<at, pos, pos1, j, info, witness>>
  BY DEF walkVars
<1>2. WalkTypeOK'
  BY <1>1 DEF WalkInv, WalkTypeOK, Entries, AllIds
<1>3. Copied'
  BY <1>1 DEF WalkInv, Copied
<1>4. Stands'
  <2>1. IdsInUse \subseteq IdsInUse'
    BY DEF Has
  <2> QED
    BY <1>1, <2>1 DEF WalkInv, Stands
<1>5. Seen'
  BY <1>1 DEF WalkInv, Seen, Passed, InfoHas
<1> QED
  BY <1>2, <1>3, <1>4, <1>5 DEF WalkInv

\* What was copied stays in the copy.
LEMMA InfoKeeps ==
  ASSUME WalkTypeOK, NEW id, NEW name, InfoHas(id, name),
         \A i \in 1..Len(info) : /\ i \in DOMAIN info' /\ info'[i].id = info[i].id
                                 /\ ToSet(info[i].names) \subseteq ToSet(info'[i].names)
  PROVE  InfoHas(id, name)'
<1>1. PICK i \in 1..Len(info) : info[i].id = id /\ (name = None \/ name \in ToSet(info[i].names))
  BY InfoProperties DEF InfoHas
<1> QED
  BY <1>1 DEF InfoHas

\* A step of the walk finds the table as it was.
LEMMA TableStays ==
  ASSUME UNCHANGED vars
  PROVE  /\ IdsInUse' = IdsInUse /\ LookupCalls' = LookupCalls
         /\ \A id, name : Has(id, name)' <=> Has(id, name)
BY DEF vars, Has, IdsInUse, VectorIds, LookupCalls, GetSyscallVector

\* The numbers of the overrides of a vector are integers.
LEMMA CallNums ==
  ASSUME ListInv, NEW id \in IdsInUse, NEW n \in LookupCalls[id]
  PROVE  n \in Names /\ n # None /\ NumOf[n] \in Int
BY LookupIs, ToSetIs, ListAssumption, NoneAssumption

LEMMA StartWalk ==
  ASSUME ListInv, Reads, WalkInv, Start
  PROVE  WalkInv'
<1>1. /\ UNCHANGED vars /\ at' = "vector" /\ info' = <<>> /\ j' = j /\ pos' = NextVector(None)
      /\ WalkTypeOK
  BY DEF Start, WalkInv, Stands
<1>2. \/ pos' = None /\ \A x \in IdsInUse : x <= None
      \/ pos' \in IdsInUse /\ \A x \in IdsInUse : x <= None \/ pos' <= x
  BY <1>1, NextVectorIs
<1>3. Len(info') = 0
  BY <1>1, EmptySeq
<1>4. WalkTypeOK'
  BY <1>1, EmptySeq DEF WalkTypeOK, Entries, AllIds
<1>5. Copied'
  BY <1>3 DEF Copied
<1>6. Stands'
  BY <1>1, <1>2, <1>3, TableStays DEF Stands
<1>7. Seen'
  <2> SUFFICES ASSUME witness'[1] # None
               PROVE  Has(witness[1], witness[2])' /\ ~ Passed(witness[1], witness[2])'
    BY DEF Seen
  <2>1. PICK id \in AllIds, name \in Names \cup {None} :
          /\ IF vectorList = <<>> THEN <<id, name>> = <<None, None>> ELSE TableHas(id, name)
          /\ witness' = <<id, name>>
    BY DEF Start
  <2>2. Has(id, name) /\ id \in IdsInUse
    BY <2>1 DEF Reads, Has
  <2>3. id > 0 /\ id \in Int /\ IdsInUse \subseteq Int
    BY <2>2 DEF Reads, AllIds
  <2>4. ~ (id <= None) /\ None = 0
    BY <2>3 DEF None
  <2>5. pos' \in IdsInUse /\ pos' <= id
    BY <1>2, <2>2, <2>4
  <2>6. pos' # None /\ ~ (id < pos')
    <3>1. \A x \in IdsInUse : x \in Int /\ x > 0
      BY <2>3 DEF Reads
    <3>2. pos' \in Int /\ pos' > 0
      BY <2>5, <3>1
    <3> QED
      BY <2>3, <2>4, <2>5, <3>2
  <2> QED
    BY <1>1, <2>1, <2>2, <2>6, TableStays DEF Passed
<1> QED
  BY <1>4, <1>5, <1>6, <1>7 DEF WalkInv

\* A vector is copied without its overrides, which come next.
LEMMA CopyVectorWalk ==
  ASSUME ListInv, Reads, WalkInv, CopyVector
  PROVE  WalkInv'
<1> DEFINE m == Len(info)
           e == [id |-> pos, names |-> <<>>, size |-> 0]
<1>1. /\ at = "vector" /\ at' = "name" /\ pos \in IdsInUse /\ pos' = pos /\ UNCHANGED vars
      /\ info' = Append(info, e) /\ j' = 0 /\ pos1' = NextName(pos, None) /\ witness' = witness
  BY DEF CopyVector, WalkInv, Stands
<1>2. pos \in AllIds /\ Nums(pos) \in Seq(Names) /\ Sorted(Nums(pos), NumOf) /\ LookupCalls[pos] = ToSet(Nums(pos))
  BY <1>1, LookupIs
<1>3. \/ pos1' = None /\ LookupCalls[pos] = {}
      \/ pos1' \in LookupCalls[pos] /\ \A n \in LookupCalls[pos] : NumOf[pos1'] <= NumOf[n]
  BY <1>1, <1>2, NextNameIs DEF NextName
<1>4. e \in Entries /\ e.id = pos /\ e.names = <<>> /\ Len(e.names) = 0 /\ ToSet(e.names) = {}
  BY <1>2, EmptySeq DEF Entries, ToSet
<1>5. info \in Seq(Entries) /\ m \in Nat /\ DOMAIN info = 1..m
  BY InfoProperties DEF WalkInv, WalkTypeOK
<1> HIDE DEF e, m
<1>6. /\ info' \in Seq(Entries) /\ Len(info') = m + 1 /\ DOMAIN info' = 1..(m + 1)
      /\ info'[m + 1] = e /\ \A i \in 1..m : info'[i] = info[i]
  BY <1>1, <1>4, <1>5, AppendProperties, LenProperties DEF m
<1>7. WalkTypeOK'
  BY <1>1, <1>6 DEF WalkTypeOK, Entries, AllIds
<1>8. Copied'
  <2>1. ASSUME NEW i \in 1..(m + 1)
        PROVE  /\ Has(info'[i].id, None)
               /\ \A n \in ToSet(info'[i].names) : Has(info'[i].id, n)
               /\ Sorted(info'[i].names, NumOf)
               /\ i = m + 1 \/ info'[i].size = Len(info'[i].names)
    <3>1. CASE i = m + 1
      BY <1>1, <1>4, <1>6, <3>1, EmptySeq DEF Has, Sorted
    <3>2. CASE i # m + 1
      <4>1. i \in 1..m
        BY <1>5, <3>2
      <4> QED
        BY <1>1, <1>6, <4>1 DEF WalkInv, Copied, m
    <3> QED
      BY <3>1, <3>2
  <2>2. ASSUME NEW i \in 1..(m + 1), NEW k \in 1..(m + 1), i < k PROVE info'[i].id < info'[k].id
    <3>1. i \in 1..m
      BY <1>5, <2>2
    <3>2. CASE k = m + 1
      BY <1>1, <1>2, <1>4, <1>6, <3>1, <3>2, ReadsCorrect DEF WalkInv, Stands, m, Reads, None
    <3>3. CASE k # m + 1
      <4>1. k \in 1..m
        BY <1>5, <3>3
      <4> QED
        BY <1>6, <2>2, <3>1, <4>1 DEF WalkInv, Copied, m
    <3> QED
      BY <3>2, <3>3
  <2> QED
    BY <1>1, <1>6, <2>1, <2>2, TableStays DEF Copied
<1>9. Stands'
  <2>1. Has(pos, pos1')
    BY <1>1, <1>3 DEF Has
  <2>2. Len(info') > 0 /\ info'[Len(info')].id = pos /\ j' = Len(info'[Len(info')].names)
        /\ ToSet(info'[Len(info')].names) = {}
    BY <1>1, <1>4, <1>5, <1>6
  <2> QED
    BY <1>1, <2>1, <2>2, TableStays DEF Stands, Has
<1>10. Seen'
  <2> SUFFICES ASSUME witness[1] # None
               PROVE  /\ Has(witness[1], witness[2])
                      /\ Passed(witness[1], witness[2])' => InfoHas(witness[1], witness[2])'
    BY <1>1, TableStays DEF Seen
  <2>1. /\ Has(witness[1], witness[2])
        /\ Passed(witness[1], witness[2]) => InfoHas(witness[1], witness[2])
    BY <1>1 DEF WalkInv, Seen
  <2>2. CASE witness[1] < pos
    <3>1. InfoHas(witness[1], witness[2])
      BY <1>1, <2>1, <2>2 DEF Passed
    <3>2. \A i \in 1..Len(info) : /\ i \in DOMAIN info' /\ info'[i].id = info[i].id
                                  /\ ToSet(info[i].names) \subseteq ToSet(info'[i].names)
      BY <1>5, <1>6 DEF m
    <3>3. InfoHas(witness[1], witness[2])'
      BY <1>1, <3>1, <3>2, InfoKeeps DEF WalkInv
    <3> QED
      BY <2>1, <3>3
  <2>3. CASE witness[1] = pos /\ witness[2] = None
    <3>1. m + 1 \in DOMAIN info'
      BY <1>5, <1>6
    <3>2. InfoHas(witness[1], witness[2])'
      BY <1>1, <1>4, <1>6, <2>3, <3>1 DEF InfoHas
    <3> QED
      BY <2>1, <3>2
  <2>4. CASE ~ (witness[1] < pos) /\ ~ (witness[1] = pos /\ witness[2] = None)
    <3> SUFFICES ~ Passed(witness[1], witness[2])'
      BY <2>1
    <3>1. CASE witness[1] # pos
      BY <1>1, <2>4, <3>1 DEF Passed
    <3>2. CASE witness[1] = pos
      <4>1. witness[2] \in LookupCalls[pos] /\ witness[2] # None
        BY <2>1, <2>4, <3>2 DEF Has
      <4>2. pos1' \in LookupCalls[pos] /\ NumOf[pos1'] <= NumOf[witness[2]]
        BY <1>3, <4>1
      <4>3. pos1' # None /\ ~ (NumOf[witness[2]] < NumOf[pos1'])
        BY <1>1, <4>1, <4>2, CallNums
      <4> QED
        BY <1>1, <2>4, <3>2, <4>1, <4>3 DEF Passed
    <3> QED
      BY <3>1, <3>2
  <2> QED
    BY <2>2, <2>3, <2>4
<1> QED
  BY <1>7, <1>8, <1>9, <1>10 DEF WalkInv

\* The next override is copied: its number is above those copied before.
LEMMA CopyNameWalk ==
  ASSUME ListInv, Reads, WalkInv, CopyName
  PROVE  WalkInv'
<1> DEFINE m == Len(info)
<1>1. /\ at = "name" /\ at' = "name" /\ pos' = pos /\ UNCHANGED vars /\ witness' = witness
      /\ info' = [info EXCEPT ![m].names = Append(@, pos1)] /\ j' = j + 1
      /\ pos1' = NextName(pos, pos1) /\ pos1 # None /\ WalkTypeOK
      /\ pos \in IdsInUse /\ pos1 \in LookupCalls[pos]
  BY DEF CopyName, WalkInv, Stands, Has
<1>2. /\ pos \in AllIds /\ Nums(pos) \in Seq(Names) /\ Sorted(Nums(pos), NumOf)
      /\ LookupCalls[pos] = ToSet(Nums(pos)) /\ pos1 \in Names
  BY <1>1, LookupIs, CallNums
<1>3. \/ /\ pos1' = None
         /\ \A n \in LookupCalls[pos] : n = pos1 \/ NumOf[n] < NumOf[pos1]
      \/ /\ pos1' \in LookupCalls[pos] /\ NumOf[pos1] < NumOf[pos1']
         /\ \A n \in LookupCalls[pos] : n = pos1 \/ NumOf[n] < NumOf[pos1] \/ NumOf[pos1'] <= NumOf[n]
  BY <1>1, <1>2, NextNameIs DEF NextName
<1>4. info \in Seq(Entries) /\ m \in 1..m /\ m = Len(info) /\ DOMAIN info = 1..m /\ m \in Nat
  <2>1. info \in Seq(Entries) /\ m \in Nat /\ DOMAIN info = 1..m
    BY InfoProperties DEF WalkInv, WalkTypeOK
  <2>2. m > 0
    BY <1>1 DEF WalkInv, Stands
  <2> QED
    BY <2>1, <2>2
<1> DEFINE names == info[m].names
<1>5. /\ info[m] \in Entries /\ names \in Seq(Names) /\ Sorted(names, NumOf)
      /\ info[m].id = pos /\ j = Len(names) /\ \A n \in ToSet(names) : NumOf[n] < NumOf[pos1]
  BY <1>1, <1>4, InfoProperties DEF WalkInv, Copied, Stands, Entries
<1>6. /\ Append(names, pos1) \in Seq(Names) /\ Len(Append(names, pos1)) = j + 1
      /\ ToSet(Append(names, pos1)) = ToSet(names) \cup {pos1}
      /\ Sorted(Append(names, pos1), NumOf)
  BY <1>2, <1>5, AppendProperties, AppendToSet, AppendSorted
<1> DEFINE e == [info[m] EXCEPT !.names = Append(names, pos1)]
<1>7. /\ e \in Entries /\ e.id = pos /\ e.names = Append(names, pos1)
      /\ info' = [info EXCEPT ![m] = e]
  BY <1>1, <1>5, <1>6 DEF Entries
<1>8. /\ info' \in Seq(Entries) /\ Len(info') = m /\ DOMAIN info' = 1..m
      /\ info'[m] = e /\ \A i \in 1..m : i # m => info'[i] = info[i]
  <2> HIDE DEF e, m
  <2>1. m \in 1..Len(info) /\ Len(info) = m
    BY <1>4 DEF m
  <2>2. /\ [info EXCEPT ![m] = e] \in Seq(Entries)
        /\ Len([info EXCEPT ![m] = e]) = Len(info)
        /\ \A i \in 1..Len(info) : [info EXCEPT ![m] = e][i] = IF i = m THEN e ELSE info[i]
    BY <1>4, <1>7, <2>1, ExceptSeq
  <2>3. info' \in Seq(Entries) /\ Len(info') = m
    BY <1>7, <2>1, <2>2
  <2>4. DOMAIN info' = 1..m
    BY <2>3, LenProperties
  <2> QED
    BY <1>4, <1>7, <2>1, <2>2, <2>3, <2>4
<1> HIDE DEF e
<1>9. info'[m].id = pos /\ info'[m].names = Append(names, pos1)
  BY <1>7, <1>8
<1> HIDE DEF m, names
<1>10. WalkTypeOK'
  <2>1. j \in Nat /\ j' \in Nat
    BY <1>1 DEF WalkTypeOK
  <2> QED
    BY <1>1, <1>8, <2>1 DEF WalkTypeOK, Entries, AllIds
<1>11. Copied'
  <2>1. ASSUME NEW i \in 1..m
        PROVE  /\ Has(info'[i].id, None)
               /\ \A n \in ToSet(info'[i].names) : Has(info'[i].id, n)
               /\ Sorted(info'[i].names, NumOf)
               /\ i = m \/ info'[i].size = Len(info'[i].names)
    <3>1. CASE i = m
      <4>1. Has(pos, None) /\ Has(pos, pos1) /\ \A n \in ToSet(names) : Has(pos, n)
        BY <1>1, <1>4, <1>5 DEF WalkInv, Copied, Has, m, names
      <4> QED
        BY <1>6, <1>9, <3>1, <4>1
    <3>2. CASE i # m
      BY <1>1, <1>8, <3>2 DEF WalkInv, Copied, m
    <3> QED
      BY <3>1, <3>2
  <2>2. \A i \in 1..m : info'[i].id = info[i].id
    BY <1>5, <1>8, <1>9
  <2>3. \A i, k \in 1..m : i < k => info'[i].id < info'[k].id
    BY <2>2 DEF WalkInv, Copied, m
  <2> QED
    BY <1>1, <1>8, <2>1, <2>3, TableStays DEF Copied
<1>12. Stands'
  <2>1. Has(pos, pos1')
    BY <1>1, <1>3 DEF Has
  <2>2. info'[m].id = pos /\ j' = Len(info'[m].names)
    BY <1>1, <1>6, <1>9
  <2>3. ASSUME pos1' # None, NEW n \in ToSet(info'[m].names) PROVE NumOf[n] < NumOf[pos1']
    <3>1. n \in ToSet(names) \cup {pos1}
      BY <1>6, <1>9, <2>3
    <3>2. pos1' \in LookupCalls[pos] /\ NumOf[pos1] < NumOf[pos1']
      BY <1>3, <2>3
    <3>3. NumOf[pos1] \in Int /\ NumOf[pos1'] \in Int
      BY <1>1, <3>2, CallNums
    <3>4. CASE n \in ToSet(names)
      <4>1. n \in Names /\ NumOf[n] \in Int /\ NumOf[n] < NumOf[pos1]
        BY <1>5, <3>4, ToSetIs, ListAssumption
      <4> QED
        BY <3>2, <3>3, <4>1
    <3> QED
      BY <3>1, <3>2, <3>4
  <2>4. m > 0
    BY <1>4
  <2> QED
    BY <1>1, <1>8, <2>1, <2>2, <2>3, <2>4, TableStays DEF Stands, Has
<1>13. Seen'
  <2> SUFFICES ASSUME witness[1] # None
               PROVE  /\ Has(witness[1], witness[2])
                      /\ Passed(witness[1], witness[2])' => InfoHas(witness[1], witness[2])'
    BY <1>1, TableStays DEF Seen
  <2>1. /\ Has(witness[1], witness[2])
        /\ Passed(witness[1], witness[2]) => InfoHas(witness[1], witness[2])
    BY <1>1 DEF WalkInv, Seen
  <2>2. CASE Passed(witness[1], witness[2])
    <3>1. \A i \in 1..m : /\ i \in DOMAIN info' /\ info'[i].id = info[i].id
                          /\ ToSet(info[i].names) \subseteq ToSet(info'[i].names)
      BY <1>5, <1>6, <1>8, <1>9 DEF names
    <3>2. InfoHas(witness[1], witness[2])'
      BY <1>1, <2>1, <2>2, <3>1, InfoKeeps DEF m
    <3> QED
      BY <2>1, <3>2
  <2>3. CASE witness[1] = pos /\ witness[2] = pos1
    <3>1. pos1 \in ToSet(info'[m].names)
      BY <1>6, <1>9
    <3>2. \E i \in DOMAIN info' : info'[i].id = pos /\ pos1 \in ToSet(info'[i].names)
      BY <1>4, <1>8, <1>9, <3>1
    <3>3. InfoHas(witness[1], witness[2])'
      BY <1>1, <2>3, <3>2 DEF InfoHas
    <3> QED
      BY <2>1, <3>3
  <2>4. CASE ~ Passed(witness[1], witness[2]) /\ ~ (witness[1] = pos /\ witness[2] = pos1)
    <3> SUFFICES ASSUME Passed(witness[1], witness[2])' PROVE FALSE
      BY <2>1
    <3>1. witness[1] = pos /\ witness[2] # None /\ ~ (witness[1] < pos)
      BY <1>1, <2>4 DEF Passed
    <3>2. ~ (NumOf[witness[2]] < NumOf[pos1])
      BY <1>1, <2>4, <3>1 DEF Passed
    <3>3. witness[2] \in LookupCalls[pos] /\ witness[2] # pos1
      BY <1>1, <2>1, <2>4, <3>1 DEF Has
    <3>4. pos1' \in LookupCalls[pos] /\ NumOf[pos1'] <= NumOf[witness[2]]
      BY <1>3, <3>2, <3>3
    <3>5. pos1' # None /\ ~ (NumOf[witness[2]] < NumOf[pos1'])
      BY <1>1, <3>3, <3>4, CallNums
    <3> QED
      BY <1>1, <3>1, <3>5 DEF Passed
  <2> QED
    BY <2>2, <2>3, <2>4
<1> QED
  BY <1>10, <1>11, <1>12, <1>13 DEF WalkInv

\* The number of overrides is written behind a vector, and the walk goes on.
LEMMA AdvanceWalk ==
  ASSUME ListInv, Reads, WalkInv, Advance
  PROVE  WalkInv'
<1> DEFINE m == Len(info)
           e == [info[m] EXCEPT !.size = j]
<1>1. /\ at = "name" /\ at' = "vector" /\ pos1 = None /\ UNCHANGED vars /\ witness' = witness /\ j' = j
      /\ info' = [info EXCEPT ![m] = e] /\ pos' = NextVector(pos) /\ WalkTypeOK
      /\ pos \in IdsInUse /\ j \in Nat
  BY DEF Advance, WalkInv, WalkTypeOK, Stands, Has
<1>2. \/ pos' = None /\ \A x \in IdsInUse : x <= pos
      \/ pos' \in IdsInUse /\ pos < pos' /\ \A x \in IdsInUse : x <= pos \/ pos' <= x
  BY <1>1, NextVectorIs
<1>3. info \in Seq(Entries) /\ m \in 1..Len(info) /\ m = Len(info) /\ DOMAIN info = 1..m /\ m \in Nat
  <2>1. info \in Seq(Entries) /\ m \in Nat /\ DOMAIN info = 1..m
    BY InfoProperties DEF WalkInv, WalkTypeOK
  <2>2. m > 0
    BY <1>1 DEF WalkInv, Stands
  <2> QED
    BY <2>1, <2>2
<1>4. /\ info[m] \in Entries /\ info[m].id = pos /\ j = Len(info[m].names)
  BY <1>1, <1>3, InfoProperties DEF WalkInv, Stands
<1>5. e \in Entries /\ e.id = pos /\ e.names = info[m].names /\ e.size = j
  BY <1>1, <1>4 DEF Entries
<1> HIDE DEF m, e
<1>6. /\ info' \in Seq(Entries) /\ Len(info') = m /\ DOMAIN info' = 1..m
      /\ info'[m] = e /\ \A i \in 1..m : i # m => info'[i] = info[i]
  <2>1. /\ [info EXCEPT ![m] = e] \in Seq(Entries)
        /\ Len([info EXCEPT ![m] = e]) = Len(info)
        /\ \A i \in 1..Len(info) : [info EXCEPT ![m] = e][i] = IF i = m THEN e ELSE info[i]
    BY <1>3, <1>5, ExceptSeq
  <2>2. info' \in Seq(Entries) /\ Len(info') = m
    BY <1>1, <1>3, <2>1
  <2>3. DOMAIN info' = 1..m
    BY <2>2, LenProperties
  <2> QED
    BY <1>1, <1>3, <2>1, <2>2, <2>3
<1>7. \A i \in 1..m : info'[i].id = info[i].id /\ info'[i].names = info[i].names
  BY <1>4, <1>5, <1>6
<1>8. \A x \in IdsInUse : x \in Int /\ x > 0
  BY DEF Reads, AllIds
<1>9. WalkTypeOK'
  BY <1>1, <1>6 DEF WalkTypeOK, Entries, AllIds
<1>10. Copied'
  <2>1. ASSUME NEW i \in 1..m
        PROVE  /\ Has(info'[i].id, None)
               /\ \A n \in ToSet(info'[i].names) : Has(info'[i].id, n)
               /\ Sorted(info'[i].names, NumOf)
    BY <1>3, <1>7 DEF WalkInv, Copied
  <2>2. ASSUME NEW i \in 1..m PROVE info'[i].size = Len(info'[i].names)
    <3>1. CASE i = m
      BY <1>4, <1>5, <1>6, <3>1
    <3>2. CASE i # m
      BY <1>3, <1>6, <3>2 DEF WalkInv, Copied
    <3> QED
      BY <3>1, <3>2
  <2>3. \A i, k \in 1..m : i < k => info'[i].id < info'[k].id
    BY <1>3, <1>7 DEF WalkInv, Copied
  <2> QED
    BY <1>6, <2>1, <2>2, <2>3, <1>1, TableStays DEF Copied
<1>11. Stands'
  <2>1. ASSUME pos' # None, NEW i \in 1..m PROVE info'[i].id < pos'
    <3>1. pos < pos' /\ pos' \in Int /\ pos \in Int
      BY <1>1, <1>2, <1>8, <2>1
    <3>2. CASE i = m
      BY <1>4, <1>7, <3>1, <3>2
    <3>3. CASE i # m
      <4>1. info[i].id < info[m].id /\ info[i].id \in Int
        BY <1>3, <3>3, InfoProperties, <1>1 DEF WalkInv, Copied, Entries, AllIds
      <4> QED
        BY <1>4, <1>7, <3>1, <4>1
    <3> QED
      BY <3>2, <3>3
  <2> QED
    BY <1>1, <1>2, <1>6, <2>1, TableStays DEF Stands
<1>12. Seen'
  <2> SUFFICES ASSUME witness[1] # None
               PROVE  /\ Has(witness[1], witness[2])
                      /\ Passed(witness[1], witness[2])' => InfoHas(witness[1], witness[2])'
    BY <1>1, TableStays DEF Seen
  <2>1. /\ Has(witness[1], witness[2])
        /\ Passed(witness[1], witness[2]) => InfoHas(witness[1], witness[2])
    BY <1>1 DEF WalkInv, Seen
  <2>2. CASE witness[1] <= pos
    <3>1. witness[1] < pos \/ witness[1] = pos
      BY <1>1, <1>8, <2>1, <2>2 DEF Has
    <3>2. InfoHas(witness[1], witness[2])
      BY <1>1, <2>1, <3>1 DEF Passed
    <3>3. \A i \in 1..Len(info) : /\ i \in DOMAIN info' /\ info'[i].id = info[i].id
                                  /\ ToSet(info[i].names) \subseteq ToSet(info'[i].names)
      BY <1>3, <1>6, <1>7
    <3>4. InfoHas(witness[1], witness[2])'
      BY <1>1, <3>2, <3>3, InfoKeeps
    <3> QED
      BY <2>1, <3>4
  <2>3. CASE ~ (witness[1] <= pos)
    <3>1. witness[1] \in IdsInUse
      BY <2>1 DEF Has
    <3>2. pos' \in IdsInUse /\ pos' <= witness[1]
      BY <1>2, <2>3, <3>1
    <3>3. pos' # None /\ ~ (witness[1] < pos')
      BY <1>8, <3>1, <3>2 DEF None
    <3> QED
      BY <1>1, <2>1, <3>3 DEF Passed
  <2> QED
    BY <2>2, <2>3
<1> QED
  BY <1>9, <1>10, <1>11, <1>12 DEF WalkInv

LEMMA EndWalk ==
  ASSUME ListInv, Reads, WalkInv, Finish \/ Return
  PROVE  WalkInv'
<1>1. CASE Finish
  <2>1. /\ at = "vector" /\ at' = "done" /\ pos = None /\ info' = info /\ j' = j
        /\ witness' = witness /\ UNCHANGED vars
    BY <1>1 DEF Finish
  <2>2. WalkTypeOK'
    BY <2>1 DEF WalkInv, WalkTypeOK, Entries, AllIds
  <2>3. Copied' /\ Stands'
    BY <2>1, TableStays DEF WalkInv, Copied, Stands
  <2>4. Seen'
    BY <2>1, TableStays DEF WalkInv, Seen, Passed, InfoHas
  <2> QED
    BY <2>2, <2>3, <2>4 DEF WalkInv
<1>2. CASE Return
  <2>1. at' = "idle" /\ j' = 0 /\ info' = <<>> /\ Len(info') = 0
    BY <1>2, EmptySeq DEF Return
  <2> QED
    BY <2>1, EmptySeq DEF WalkInv, WalkTypeOK, Copied, Stands, Seen
<1> QED
  BY <1>1, <1>2

-----------------------------------------------------------------------------
(* The theorems.                                                            *)

\* The lists do not notice the walk: they behave as in TblLists.
THEOREM WalkUsesLists == SnapSpec => Spec
<1>1. SnapInit => Init
  BY DEF SnapInit
<1>2. [SnapNext]_snapVars => [Next]_vars
  BY DEF SnapNext, snapVars, Start, CopyVector, CopyName, Advance, Finish, Return, Next
<1> QED
  BY <1>1, <1>2, PTL DEF SnapSpec, Spec

LEMMA WalkInvCorrect ==
  ASSUME ~ MayWrap
  PROVE  SnapSpec => [](WalkInv /\ Reads)
<1>1. SnapInit => WalkInv
  <2> SUFFICES ASSUME SnapInit PROVE WalkInv
    OBVIOUS
  <2> QED
    BY EmptySeq DEF SnapInit, WalkInv, WalkTypeOK, Copied, Stands, Seen
<1>2. /\ WalkInv /\ ListInv /\ ListInv' /\ View /\ View' /\ Reads
      /\ [SnapNext]_snapVars
      => WalkInv'
  <2> SUFFICES ASSUME WalkInv, ListInv, ListInv', View, View', Reads, [SnapNext]_snapVars
               PROVE  WalkInv'
    OBVIOUS
  <2>1. CASE AddNext /\ UNCHANGED walkVars
    <3>1. \A id, name : Has(id, name) => Has(id, name)'
      BY <2>1, AddsKeep DEF ListInv
    <3> QED
      BY <2>1, <3>1, OthersWalk
  <2>2. CASE at = "idle" /\ UNCHANGED walkVars
    <3>1. at' = "idle" /\ info' = <<>> /\ j' = j /\ Len(info') = 0
      BY <2>2, EmptySeq DEF walkVars, WalkInv, Stands
    <3> QED
      BY <3>1, EmptySeq DEF WalkInv, WalkTypeOK, Copied, Stands, Seen
  <2>3. CASE UNCHANGED snapVars
    <3>1. \A id, name : Has(id, name) => Has(id, name)'
      BY <2>3, TableStays DEF snapVars
    <3> QED
      BY <2>3, <3>1, OthersWalk DEF snapVars
  <2> QED
    BY <2>1, <2>2, <2>3, StartWalk, CopyVectorWalk, CopyNameWalk, AdvanceWalk, EndWalk DEF SnapNext
<1> QED
  BY <1>1, <1>2, WalkUsesLists, ListInvCorrect, ViewCorrect, ReadsCorrect, PTL DEF SnapSpec

\* What a walk without the lock has copied is in the table, in its order and
\* counted, whatever is added under it.
THEOREM CopiesTableCorrect ==
  ASSUME ~ MayWrap
  PROVE  SnapSpec => []CopiesTable
<1>1. WalkInv /\ Reads => CopiesTable
  <2> SUFFICES ASSUME WalkInv, Reads PROVE CopiesTable
    OBVIOUS
  <2>1. DOMAIN info = 1..Len(info)
    BY InfoProperties DEF WalkInv
  <2>2. ASSUME NEW i \in 1..Len(info) PROVE Ascending(info[i].names, LAMBDA n : NumOf[n])
    BY DEF WalkInv, Copied, Sorted, Ascending
  <2>3. Ascending(info, LAMBDA entry : entry.id)
    BY <2>1 DEF WalkInv, Copied, Ascending
  <2>4. ASSUME NEW i \in 1..Len(info)
        PROVE  /\ TableHas(info[i].id, None)
               /\ \A n \in ToSet(info[i].names) : TableHas(info[i].id, n)
               /\ (at = "name" /\ i = Len(info)) \/ info[i].size = Len(info[i].names)
    BY DEF WalkInv, Copied, Reads
  <2> QED
    BY <2>1, <2>2, <2>3, <2>4 DEF CopiesTable
<1> QED
  BY <1>1, WalkInvCorrect, PTL

\* A walk that ends has copied all that was in the table when it began.
THEOREM MissesNothingCorrect ==
  ASSUME ~ MayWrap
  PROVE  SnapSpec => []MissesNothing
<1>1. WalkInv => MissesNothing
  BY DEF WalkInv, Seen, Passed, MissesNothing
<1> QED
  BY <1>1, WalkInvCorrect, PTL
=============================================================================

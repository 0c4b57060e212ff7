--------------------------- MODULE TblListsProofs ---------------------------
(***************************************************************************)
(* Theorems about TblLists: the operations of list.c keep every list of the *)
(* table in ascending order, and while ids last the loop that picks an id   *)
(* picks a new one, namely that of IdAlloc, so that the lists implement the *)
(* table of TblSets.                                                        *)
(***************************************************************************)
EXTENDS TblLists, IdAllocProofs, SequenceTheorems

-----------------------------------------------------------------------------
(* list.c over sequences.                                                   *)

\* The keys of a list ascend; key is a function, so that lemmas can speak of it.
Sorted(list, key) == \A i, j \in DOMAIN list : i < j => key[list[i]] < key[list[j]]

LEMMA InsertAtProperties ==
  ASSUME NEW S, NEW s \in Seq(S), NEW e \in S, NEW i \in 1..(Len(s) + 1)
  PROVE  /\ InsertAt(s, i, e) \in Seq(S)
         /\ Len(InsertAt(s, i, e)) = Len(s) + 1
         /\ \A k \in 1..(Len(s) + 1) :
              InsertAt(s, i, e)[k] = IF k < i THEN s[k] ELSE IF k = i THEN e ELSE s[k - 1]
<1> DEFINE front == SubSeq(s, 1, i - 1)
           back == SubSeq(s, i, Len(s))
<1>1. front \in Seq(S) /\ Len(front) = i - 1 /\ \A k \in 1..(i - 1) : front[k] = s[k]
  BY SubSeqProperties
<1>2. back \in Seq(S) /\ Len(back) = Len(s) - i + 1 /\ \A k \in 1..(Len(s) - i + 1) : back[k] = s[i + k - 1]
  BY SubSeqProperties
<1> DEFINE head == front \o <<e>>
<1>3. /\ head \in Seq(S) /\ Len(head) = i
      /\ \A k \in 1..i : head[k] = IF k < i THEN s[k] ELSE e
  BY <1>1, ConcatProperties
<1>4. /\ head \o back \in Seq(S)
      /\ Len(head \o back) = Len(s) + 1
      /\ \A k \in 1..(Len(s) + 1) : (head \o back)[k] = IF k <= i THEN head[k] ELSE back[k - i]
  <2> HIDE DEF head, back
  <2>1. /\ head \o back \in Seq(S) /\ Len(head \o back) = Len(head) + Len(back)
        /\ \A k \in 1..(Len(head) + Len(back)) :
             (head \o back)[k] = IF k <= Len(head) THEN head[k] ELSE back[k - Len(head)]
    BY <1>2, <1>3, ConcatProperties
  <2>2. Len(head) = i /\ Len(head) + Len(back) = Len(s) + 1
    BY <1>2, <1>3
  <2> QED
    BY <2>1, <2>2
<1>5. InsertAt(s, i, e) = head \o back
  BY DEF InsertAt
<1> QED
  <2> HIDE DEF head, back
  <2>1. ASSUME NEW k \in 1..(Len(s) + 1)
        PROVE  InsertAt(s, i, e)[k] = IF k < i THEN s[k] ELSE IF k = i THEN e ELSE s[k - 1]
    BY <1>2, <1>3, <1>4, <1>5
  <2> QED
    BY <1>4, <1>5, <2>1

LEMMA RemoveAtProperties ==
  ASSUME NEW S, NEW s \in Seq(S), NEW i \in 1..Len(s)
  PROVE  /\ RemoveAt(s, i) \in Seq(S)
         /\ Len(RemoveAt(s, i)) = Len(s) - 1
         /\ \A k \in 1..(Len(s) - 1) : RemoveAt(s, i)[k] = IF k < i THEN s[k] ELSE s[k + 1]
<1> DEFINE front == SubSeq(s, 1, i - 1)
           back == SubSeq(s, i + 1, Len(s))
<1>1. front \in Seq(S) /\ Len(front) = i - 1 /\ \A k \in 1..(i - 1) : front[k] = s[k]
  BY SubSeqProperties
<1>2. back \in Seq(S) /\ Len(back) = Len(s) - i /\ \A k \in 1..(Len(s) - i) : back[k] = s[i + k]
  BY SubSeqProperties
<1>3. RemoveAt(s, i) = front \o back
  BY DEF RemoveAt
<1>4. /\ front \o back \in Seq(S)
      /\ Len(front \o back) = Len(s) - 1
      /\ \A k \in 1..(Len(s) - 1) : (front \o back)[k] = IF k <= i - 1 THEN front[k] ELSE back[k - (i - 1)]
  <2> HIDE DEF front, back
  <2> QED
    BY <1>1, <1>2, ConcatProperties
<1> QED
  <2> HIDE DEF front, back
  <2>1. ASSUME NEW k \in 1..(Len(s) - 1)
        PROVE  RemoveAt(s, i)[k] = IF k < i THEN s[k] ELSE s[k + 1]
    BY <1>1, <1>2, <1>3, <1>4
  <2> QED
    BY <1>3, <1>4, <2>1

\* A node put between the smaller and the greater keys keeps the order.
LEMMA InsertSorted ==
  ASSUME NEW S, NEW s \in Seq(S), NEW e \in S, NEW i \in 1..(Len(s) + 1),
         NEW key \in [S -> Int], Sorted(s, key),
         \A k \in 1..Len(s) : IF k < i THEN key[s[k]] < key[e] ELSE key[e] < key[s[k]]
  PROVE  Sorted(InsertAt(s, i, e), key)
<1> DEFINE t == InsertAt(s, i, e)
<1>1. /\ DOMAIN t = 1..(Len(s) + 1) /\ DOMAIN s = 1..Len(s) /\ Len(s) \in Nat
      /\ \A k \in 1..Len(s) : key[s[k]] \in Int
  BY InsertAtProperties, LenProperties, ElementOfSeq
<1>2. \A k \in 1..(Len(s) + 1) : t[k] = IF k < i THEN s[k] ELSE IF k = i THEN e ELSE s[k - 1]
  BY InsertAtProperties
<1>3. key[e] \in Int
  OBVIOUS
<1> HIDE DEF t
<1>4. ASSUME NEW j \in 1..(Len(s) + 1), NEW k \in 1..(Len(s) + 1), j < k
      PROVE  key[t[j]] < key[t[k]]
  <2>1. \A m, n \in 1..Len(s) : m < n => key[s[m]] < key[s[n]]
    BY <1>1 DEF Sorted
  <2>2. CASE k < i
    BY <1>1, <1>2, <1>4, <2>1, <2>2
  <2>3. CASE k = i
    BY <1>1, <1>2, <1>4, <2>3
  <2>4. CASE k > i
    <3>1. t[k] = s[k - 1] /\ k - 1 \in 1..Len(s)
      BY <1>1, <1>2, <2>4
    <3>2. CASE j < i
      <4>1. t[j] = s[j] /\ j \in 1..Len(s) /\ j < k - 1
        BY <1>1, <1>2, <2>4, <3>2
      <4> QED
        BY <2>1, <3>1, <4>1
    <3>3. CASE j = i
      BY <1>1, <1>2, <2>4, <3>1, <3>3
    <3>4. CASE j > i
      <4>1. t[j] = s[j - 1] /\ j - 1 \in 1..Len(s) /\ j - 1 < k - 1
        BY <1>1, <1>2, <1>4, <3>4
      <4>2. key[s[j - 1]] < key[s[k - 1]]
        BY <2>1, <3>1, <4>1
      <4> QED
        BY <3>1, <4>1, <4>2
    <3> QED
      BY <1>1, <3>2, <3>3, <3>4
  <2> QED
    BY <1>1, <2>2, <2>3, <2>4
<1>5. Sorted(t, key)
  BY <1>1, <1>4 DEF Sorted
<1> QED
  BY <1>5 DEF t

LEMMA RemoveSorted ==
  ASSUME NEW S, NEW s \in Seq(S), NEW i \in 1..Len(s), NEW key, Sorted(s, key)
  PROVE  Sorted(RemoveAt(s, i), key)
<1> DEFINE t == RemoveAt(s, i)
           At(k) == IF k < i THEN k ELSE k + 1
<1>1. DOMAIN t = 1..(Len(s) - 1) /\ DOMAIN s = 1..Len(s) /\ Len(s) \in Nat
  BY RemoveAtProperties, LenProperties
<1>2. ASSUME NEW k \in 1..(Len(s) - 1) PROVE t[k] = s[At(k)] /\ At(k) \in 1..Len(s)
  <2>1. t[k] = IF k < i THEN s[k] ELSE s[k + 1]
    BY RemoveAtProperties
  <2> QED
    BY <1>1, <2>1
<1>3. \A j, k \in 1..(Len(s) - 1) : j < k => At(j) < At(k)
  BY <1>1
<1> HIDE DEF t, At
<1>4. Sorted(t, key)
  BY <1>1, <1>2, <1>3 DEF Sorted
<1> QED
  BY <1>4 DEF t

\* No two nodes of a sorted list have the same key.
LEMMA SortedOnce ==
  ASSUME NEW S, NEW s \in Seq(S), NEW key \in [S -> Int], Sorted(s, key),
         NEW i \in 1..Len(s), NEW k \in 1..Len(s), key[s[i]] = key[s[k]]
  PROVE  i = k
<1>1. DOMAIN s = 1..Len(s) /\ Len(s) \in Nat /\ key[s[i]] \in Int
  BY LenProperties, ElementOfSeq
<1>2. ~ (i < k) /\ ~ (k < i)
  BY <1>1 DEF Sorted
<1> QED
  BY <1>1, <1>2

LEMMA ToSetIs ==
  ASSUME NEW S, NEW s \in Seq(S)
  PROVE  ToSet(s) = {s[i] : i \in 1..Len(s)} /\ ToSet(s) \subseteq S
BY LenProperties, ElementOfSeq DEF ToSet

LEMMA InsertToSet ==
  ASSUME NEW S, NEW s \in Seq(S), NEW e \in S, NEW i \in 1..(Len(s) + 1)
  PROVE  ToSet(InsertAt(s, i, e)) = ToSet(s) \cup {e}
<1> DEFINE t == InsertAt(s, i, e)
<1>1. t \in Seq(S) /\ Len(t) = Len(s) + 1 /\ Len(s) \in Nat
  BY InsertAtProperties, LenProperties
<1>2. \A k \in 1..(Len(s) + 1) : t[k] = IF k < i THEN s[k] ELSE IF k = i THEN e ELSE s[k - 1]
  BY InsertAtProperties
<1>3. ToSet(t) = {t[k] : k \in 1..(Len(s) + 1)} /\ ToSet(s) = {s[k] : k \in 1..Len(s)}
  BY <1>1, ToSetIs
<1> HIDE DEF t
<1>4. ASSUME NEW k \in 1..(Len(s) + 1) PROVE t[k] \in ToSet(s) \cup {e}
  BY <1>2, <1>3
<1>5. ASSUME NEW k \in 1..Len(s) PROVE s[k] \in ToSet(t)
  <2>1. CASE k < i
    BY <1>1, <1>2, <1>3, <2>1
  <2>2. CASE k >= i
    <3>1. k + 1 \in 1..(Len(s) + 1) /\ t[k + 1] = s[k]
      BY <1>1, <1>2, <2>2
    <3> QED
      BY <1>3, <3>1
  <2> QED
    BY <2>1, <2>2
<1>6. e \in ToSet(t)
  BY <1>1, <1>2, <1>3
<1>7. ToSet(t) = ToSet(s) \cup {e}
  BY <1>3, <1>4, <1>5, <1>6
<1> QED
  BY <1>7 DEF t

\* In a sorted list a node is there once, and gone when it is removed.
LEMMA RemoveToSet ==
  ASSUME NEW S, NEW s \in Seq(S), NEW i \in 1..Len(s), NEW key \in [S -> Int], Sorted(s, key)
  PROVE  ToSet(RemoveAt(s, i)) = ToSet(s) \ {s[i]}
<1> DEFINE t == RemoveAt(s, i)
<1>1. t \in Seq(S) /\ Len(t) = Len(s) - 1 /\ Len(s) \in Nat /\ DOMAIN s = 1..Len(s)
  BY RemoveAtProperties, LenProperties
<1>2. \A k \in 1..(Len(s) - 1) : t[k] = IF k < i THEN s[k] ELSE s[k + 1]
  BY RemoveAtProperties
<1>3. ToSet(t) = {t[k] : k \in 1..(Len(s) - 1)} /\ ToSet(s) = {s[k] : k \in 1..Len(s)}
  BY <1>1, ToSetIs
<1>4. \A k \in 1..Len(s) : k # i => s[k] # s[i]
  BY SortedOnce
<1> HIDE DEF t
<1>5. ASSUME NEW k \in 1..(Len(s) - 1) PROVE t[k] \in ToSet(s) \ {s[i]}
  <2>1. CASE k < i
    <3>1. k \in 1..Len(s) /\ k # i
      BY <1>1, <2>1
    <3>2. t[k] = s[k]
      BY <1>2, <2>1
    <3> QED
      BY <1>3, <1>4, <3>1, <3>2
  <2>2. CASE k >= i
    <3>1. k + 1 \in 1..Len(s) /\ k + 1 # i
      BY <1>1, <2>2
    <3>2. t[k] = s[k + 1]
      BY <1>1, <1>2, <2>2
    <3> QED
      BY <1>3, <1>4, <3>1, <3>2
  <2> QED
    BY <1>1, <2>1, <2>2
<1>6. ASSUME NEW k \in 1..Len(s), k # i PROVE s[k] \in ToSet(t)
  <2>1. CASE k < i
    <3>1. k \in 1..(Len(s) - 1) /\ t[k] = s[k]
      BY <1>1, <1>2, <2>1
    <3> QED
      BY <1>3, <3>1
  <2>2. CASE k > i
    <3>1. k - 1 \in 1..(Len(s) - 1) /\ t[k - 1] = s[k]
      BY <1>1, <1>2, <2>2
    <3> QED
      BY <1>3, <3>1
  <2> QED
    BY <1>1, <1>6, <2>1, <2>2
<1>7. ToSet(t) = ToSet(s) \ {s[i]}
  BY <1>3, <1>5, <1>6
<1> QED
  BY <1>7 DEF t

LEMMA MinProperties ==
  ASSUME NEW T \in SUBSET Nat, T # {}
  PROVE  Min(T) \in T /\ \A y \in T : Min(T) <= y
BY NatMin DEF Min

LEMMA GetNodeProperties ==
  ASSUME NEW S, NEW keys \in Seq(S), NEW k
  PROVE  /\ GetNode(keys, k) \in 0..Len(keys)
         /\ GetNode(keys, k) # 0 => keys[GetNode(keys, k)] = k
         /\ GetNode(keys, k) = 0 => \A i \in 1..Len(keys) : keys[i] # k
<1> DEFINE found == {i \in 1..Len(keys) : keys[i] = k}
<1>1. GetNode(keys, k) = IF found # {} THEN Min(found) ELSE 0
  BY DEF GetNode, SelectInSeq
<1>2. Len(keys) \in Nat /\ found \in SUBSET Nat
  BY LenProperties
<1>3. found # {} => Min(found) \in found
  BY <1>2, MinProperties
<1> QED
  BY <1>1, <1>2, <1>3

LEMMA AppendInserts ==
  ASSUME NEW S, NEW s \in Seq(S), NEW e \in S
  PROVE  Append(s, e) = InsertAt(s, Len(s) + 1, e)
<1>1. PICK i : i = Len(s) + 1
  OBVIOUS
<1>2. i \in 1..(Len(s) + 1) /\ Len(s) \in Nat
  BY <1>1, LenProperties
<1> DEFINE t == InsertAt(s, i, e)
           u == Append(s, e)
<1>3. /\ t \in Seq(S) /\ Len(t) = Len(s) + 1
      /\ \A k \in 1..(Len(s) + 1) : t[k] = IF k < i THEN s[k] ELSE IF k = i THEN e ELSE s[k - 1]
  BY <1>2, InsertAtProperties
<1>4. u \in Seq(S) /\ Len(u) = Len(s) + 1 /\ u[i] = e /\ \A k \in 1..Len(s) : u[k] = s[k]
  BY <1>1, AppendProperties
<1> HIDE DEF t, u
<1>5. ASSUME NEW k \in 1..Len(u) PROVE u[k] = t[k]
  <2>1. CASE k = i
    BY <1>2, <1>3, <1>4, <2>1
  <2>2. CASE k # i
    <3>1. k \in 1..Len(s) /\ k < i /\ k \in 1..(Len(s) + 1)
      BY <1>1, <1>2, <1>4, <2>2
    <3> QED
      BY <1>3, <1>4, <3>1
  <2> QED
    BY <2>1, <2>2
<1>6. u = t
  BY <1>3, <1>4, <1>5, SeqEqual
<1> QED
  BY <1>1, <1>6 DEF t, u

\* Where add_node puts a node: before the first greater key, else at the end.
LEMMA AddNodePlace ==
  ASSUME NEW S, NEW list \in Seq(S), NEW node \in S, NEW key \in [S -> Int]
  PROVE  \E i \in 1..(Len(list) + 1) :
           /\ AddNode(list, node, key) = InsertAt(list, i, node)
           /\ i \in 1..Len(list) => key[list[i]] > key[node]
           /\ \A k \in 1..Len(list) : k < i => ~ (key[list[k]] > key[node])
<1> DEFINE greater == {i \in 1..Len(list) : key[list[i]] > key[node]}
<1>1. AddNode(list, node, key) =
        IF (IF greater # {} THEN Min(greater) ELSE 0) = 0 THEN Append(list, node)
        ELSE InsertAt(list, IF greater # {} THEN Min(greater) ELSE 0, node)
  BY DEF AddNode, SelectInSeq
<1>2. Len(list) \in Nat /\ greater \in SUBSET Nat
  BY LenProperties
<1>3. CASE greater = {}
  <2>1. AddNode(list, node, key) = Append(list, node)
    BY <1>1, <1>3
  <2>2. Append(list, node) = InsertAt(list, Len(list) + 1, node)
    BY AppendInserts
  <2>3. \A k \in 1..Len(list) : ~ (key[list[k]] > key[node])
    BY <1>3
  <2>4. Len(list) + 1 \in 1..(Len(list) + 1) /\ Len(list) + 1 \notin 1..Len(list)
    BY <1>2
  <2> QED
    BY <2>1, <2>2, <2>3, <2>4
<1>4. CASE greater # {}
  <2>1. Min(greater) \in greater /\ \A k \in greater : Min(greater) <= k
    BY <1>2, <1>4, MinProperties
  <2>2. Min(greater) \in 1..(Len(list) + 1) /\ Min(greater) # 0 /\ key[list[Min(greater)]] > key[node]
    BY <1>2, <2>1
  <2>3. AddNode(list, node, key) = InsertAt(list, Min(greater), node)
    BY <1>1, <1>4, <2>2
  <2>4. ASSUME NEW k \in 1..Len(list), k < Min(greater)
        PROVE  ~ (key[list[k]] > key[node])
    BY <1>2, <2>1, <2>2, <2>4
  <2> HIDE DEF greater
  <2> QED
    BY <2>2, <2>3, <2>4
<1> QED
  BY <1>3, <1>4

\* add_node keeps a sorted list sorted when the key is not there yet.
LEMMA AddNodeSorted ==
  ASSUME NEW S, NEW list \in Seq(S), NEW node \in S, NEW key \in [S -> Int], Sorted(list, key),
         \A k \in 1..Len(list) : key[list[k]] # key[node]
  PROVE  Sorted(AddNode(list, node, key), key)
<1>1. PICK i \in 1..(Len(list) + 1) :
           /\ AddNode(list, node, key) = InsertAt(list, i, node)
           /\ i \in 1..Len(list) => key[list[i]] > key[node]
           /\ \A k \in 1..Len(list) : k < i => ~ (key[list[k]] > key[node])
  BY AddNodePlace
<1>2. /\ Len(list) \in Nat /\ DOMAIN list = 1..Len(list) /\ key[node] \in Int
      /\ \A k \in 1..Len(list) : key[list[k]] \in Int
  BY LenProperties, ElementOfSeq
<1>3. ASSUME NEW k \in 1..Len(list)
      PROVE  IF k < i THEN key[list[k]] < key[node] ELSE key[node] < key[list[k]]
  <2>1. CASE k < i
    BY <1>1, <1>2, <2>1
  <2>2. CASE k = i
    BY <1>1, <1>2, <2>2
  <2>3. CASE k > i
    <3>1. i \in 1..Len(list) /\ key[list[i]] > key[node]
      BY <1>1, <1>2, <2>3
    <3>2. key[list[i]] < key[list[k]]
      BY <1>2, <2>3, <3>1 DEF Sorted
    <3> QED
      BY <1>2, <2>3, <3>1, <3>2
  <2> QED
    BY <1>2, <2>1, <2>2, <2>3
<1> QED
  BY <1>1, <1>3, InsertSorted

\* It adds the node and nothing else, whatever the order.
LEMMA AddNodeAdds ==
  ASSUME NEW S, NEW list \in Seq(S), NEW node \in S, NEW key \in [S -> Int]
  PROVE  /\ AddNode(list, node, key) \in Seq(S)
         /\ ToSet(AddNode(list, node, key)) = ToSet(list) \cup {node}
<1>1. PICK i \in 1..(Len(list) + 1) : AddNode(list, node, key) = InsertAt(list, i, node)
  BY AddNodePlace
<1>2. InsertAt(list, i, node) \in Seq(S)
  BY InsertAtProperties
<1>3. ToSet(InsertAt(list, i, node)) = ToSet(list) \cup {node}
  BY InsertToSet
<1> QED
  BY <1>1, <1>2, <1>3

-----------------------------------------------------------------------------
(* The lists of the table: their shape.                                     *)

Vectors == [id : AllIds, nums : Seq(Names)]
IdKey == [v \in Vectors |-> v.id]

\* The short that a sum is stored in is a short, and the sum while it fits.
LEMMA ShortProperties ==
  ASSUME NEW x \in Int
  PROVE  /\ Short(x) \in AllIds
         /\ x \in AllIds => Short(x) = x
         /\ Short(MaxShort + 1) <= 0
<1>1. MaxShort \in Nat \ {0}
  BY ListAssumption
<1>2. (x + MaxShort + 1) % (2 * MaxShort + 2) \in 0..(2 * MaxShort + 1)
  BY <1>1
<1>3. x \in AllIds => (x + MaxShort + 1) % (2 * MaxShort + 2) = x + MaxShort + 1
  BY <1>1 DEF AllIds
<1>4. (MaxShort + 1 + MaxShort + 1) % (2 * MaxShort + 2) = 0
  BY <1>1
<1> QED
  BY <1>1, <1>2, <1>3, <1>4 DEF Short, AllIds

\* A list of keys has the length of its list.
LEMMA KeysProperties ==
  ASSUME TypeOK
  PROVE  /\ Len(vectorList) \in Nat /\ DOMAIN vectorList = 1..Len(vectorList)
         /\ VectorIds \in Seq(AllIds) /\ Len(VectorIds) = Len(vectorList)
         /\ \A i \in 1..Len(vectorList) : VectorIds[i] = vectorList[i].id /\ vectorList[i] \in Vectors
<1>1. /\ Len(vectorList) \in Nat /\ DOMAIN vectorList = 1..Len(vectorList)
      /\ \A i \in 1..Len(vectorList) : vectorList[i] \in Vectors
  BY LenProperties, ElementOfSeq DEF TypeOK, Vectors
<1>2. VectorIds \in [1..Len(vectorList) -> AllIds]
  BY <1>1 DEF VectorIds, Vectors
<1>3. VectorIds \in Seq(AllIds)
  BY <1>1, <1>2, SeqDef
<1> QED
  BY <1>1, <1>2, <1>3, LenProperties DEF VectorIds

\* get_syscall_vector: the position of a vector with that id.
LEMMA FindVector ==
  ASSUME TypeOK, NEW id
  PROVE  /\ GetSyscallVector(id) \in 0..Len(vectorList)
         /\ GetSyscallVector(id) # 0 => vectorList[GetSyscallVector(id)].id = id
         /\ GetSyscallVector(id) = 0 => \A i \in 1..Len(vectorList) : vectorList[i].id # id
<1>1. /\ GetNode(VectorIds, id) \in 0..Len(VectorIds)
      /\ GetNode(VectorIds, id) # 0 => VectorIds[GetNode(VectorIds, id)] = id
      /\ GetNode(VectorIds, id) = 0 => \A i \in 1..Len(VectorIds) : VectorIds[i] # id
  BY KeysProperties, GetNodeProperties
<1> QED
  BY <1>1, KeysProperties DEF GetSyscallVector

LEMMA FindName ==
  ASSUME TypeOK, NEW n
  PROVE  /\ GetSyscall(n) \in 0..Len(syscallList)
         /\ GetSyscall(n) # 0 => syscallList[GetSyscall(n)] = n
         /\ GetSyscall(n) = 0 => \A i \in 1..Len(syscallList) : syscallList[i] # n
BY GetNodeProperties DEF TypeOK, GetSyscall

\* get_syscall_of_syscall_vector: the position of an override of that number.
LEMMA FindNum ==
  ASSUME NEW list \in Seq(Names), NEW num
  PROVE  /\ GetNum(list, num) \in 0..Len(list)
         /\ GetNum(list, num) # 0 => NumOf[list[GetNum(list, num)]] = num
         /\ GetNum(list, num) = 0 => \A i \in 1..Len(list) : NumOf[list[i]] # num
<1> DEFINE keys == [i \in DOMAIN list |-> NumOf[list[i]]]
<1>1. Len(list) \in Nat /\ DOMAIN list = 1..Len(list) /\ \A i \in 1..Len(list) : list[i] \in Names
  BY LenProperties, ElementOfSeq
<1>2. keys \in [1..Len(list) -> Int]
  BY <1>1, ListAssumption
<1>3. keys \in Seq(Int)
  BY <1>1, <1>2, SeqDef
<1>4. Len(keys) = Len(list)
  BY <1>1, <1>2, <1>3, LenProperties
<1>5. \A i \in 1..Len(list) : keys[i] = NumOf[list[i]]
  BY <1>1
<1>6. GetNum(list, num) = GetNode(keys, num)
  BY DEF GetNum
<1> HIDE DEF keys
<1> QED
  BY <1>3, <1>4, <1>5, <1>6, GetNodeProperties

\* Where the loop of __add_syscall_vector stops.
LEMMA StopProperties ==
  ASSUME TypeOK, vectorList # <<>>
  PROVE  /\ StopAt \in 1..Len(vectorList)
         /\ StopAt # Len(vectorList) =>
              /\ StopAt \in 1..(Len(vectorList) - 2)
              /\ vectorList[StopAt + 1].id - vectorList[StopAt].id > 1
         /\ \A k \in 1..(Len(vectorList) - 2) :
              k < StopAt => ~ (vectorList[k + 1].id - vectorList[k].id > 1)
<1> DEFINE gaps == {i \in 1..(Len(vectorList) - 2) : vectorList[i + 1].id - vectorList[i].id > 1}
<1>1. StopAt = IF gaps = {} THEN Len(vectorList) ELSE Min(gaps)
  BY DEF StopAt
<1>2. Len(vectorList) \in Nat \ {0} /\ gaps \in SUBSET Nat
  BY EmptySeq DEF TypeOK
<1>3. CASE gaps = {}
  <2>1. StopAt = Len(vectorList)
    BY <1>1, <1>3
  <2>2. \A k \in 1..(Len(vectorList) - 2) : ~ (vectorList[k + 1].id - vectorList[k].id > 1)
    BY <1>3
  <2> QED
    BY <1>2, <2>1, <2>2
<1>4. CASE gaps # {}
  <2>1. Min(gaps) \in gaps /\ \A k \in gaps : Min(gaps) <= k
    BY <1>2, <1>4, MinProperties
  <2>2. StopAt \in gaps /\ \A k \in gaps : StopAt <= k
    BY <1>1, <1>4, <2>1
  <2> QED
    BY <1>2, <2>2
<1> QED
  BY <1>3, <1>4

-----------------------------------------------------------------------------
(* What each operation does to the lists.                                   *)

NewVector == [id |-> NewId, nums |-> <<>>]
NewPos == IF vectorList = <<>> THEN 1 ELSE StopAt + 1

LEMMA AddVectorEffect ==
  ASSUME TypeOK, AddSyscallVector
  PROVE  /\ NewVector \in Vectors /\ NewPos \in 1..(Len(vectorList) + 1)
         /\ vectorList' = InsertAt(vectorList, NewPos, NewVector)
         /\ UNCHANGED syscallList
<1>1. NewId \in AllIds
  <2>1. CASE vectorList = <<>>
    BY <2>1, ListAssumption DEF NewId, AllIds
  <2>2. CASE vectorList # <<>>
    <3>1. vectorList[StopAt].id + 1 \in Int
      BY <2>2, KeysProperties, StopProperties DEF Vectors, AllIds
    <3> QED
      BY <2>2, <3>1, ShortProperties DEF NewId
  <2> QED
    BY <2>1, <2>2
<1>2. <<>> \in Seq(Names)
  BY EmptySeq
<1>3. NewPos \in 1..(Len(vectorList) + 1)
  BY KeysProperties, StopProperties DEF NewPos
<1> QED
  BY <1>1, <1>2, <1>3 DEF AddSyscallVector, AddNodeEnd, NewVector, NewPos, Vectors

LEMMA RemoveVectorEffect ==
  ASSUME TypeOK, NEW id \in AllIds, RemoveSyscallVector(id)
  PROVE  /\ GetSyscallVector(id) \in 1..Len(vectorList)
         /\ vectorList[GetSyscallVector(id)].id = id
         /\ vectorList' = RemoveAt(vectorList, GetSyscallVector(id))
         /\ UNCHANGED syscallList
<1>1. GetSyscallVector(id) # 0 /\ Len(vectorList) \in Nat
  BY KeysProperties DEF RemoveSyscallVector
<1> QED
  BY <1>1, FindVector DEF RemoveSyscallVector, RemoveNode

\* The overrides of one vector change, its id and the other vectors do not.
Renumber(v, nums) ==
  /\ v \in 1..Len(vectorList) /\ nums \in Seq(Names)
  /\ vectorList' \in Seq(Vectors) /\ Len(vectorList') = Len(vectorList)
  /\ \A i \in 1..Len(vectorList) :
       /\ vectorList'[i].id = vectorList[i].id
       /\ vectorList'[i].nums = IF i = v THEN nums ELSE vectorList[i].nums

LEMMA Renumbers ==
  ASSUME TypeOK, NEW v \in 1..Len(vectorList), NEW nums \in Seq(Names),
         vectorList' = [vectorList EXCEPT ![v].nums = nums]
  PROVE  Renumber(v, nums)
<1> DEFINE new == [vectorList[v] EXCEPT !.nums = nums]
<1>1. vectorList \in Seq(Vectors) /\ vectorList[v] \in Vectors
  BY KeysProperties DEF TypeOK, Vectors
<1>2. new \in Vectors /\ new.id = vectorList[v].id /\ new.nums = nums
  BY <1>1 DEF Vectors
<1>3. vectorList' = [vectorList EXCEPT ![v] = new]
  OBVIOUS
<1> HIDE DEF new
<1>4. /\ vectorList' \in Seq(Vectors) /\ Len(vectorList') = Len(vectorList)
      /\ \A i \in 1..Len(vectorList) : vectorList'[i] = IF i = v THEN new ELSE vectorList[i]
  BY <1>1, <1>2, <1>3, ExceptSeq
<1> QED
  BY <1>2, <1>4 DEF Renumber

LEMMA NumsProperties ==
  ASSUME TypeOK, NEW i \in 1..Len(vectorList)
  PROVE  vectorList[i].nums \in Seq(Names) /\ vectorList[i].id \in AllIds
BY KeysProperties DEF Vectors

LEMMA MapEffect ==
  ASSUME TypeOK, NEW id \in AllIds, NEW n \in Names, AddSyscallToVector(id, n)
  PROVE  LET v == GetSyscallVector(id) IN
         /\ v # 0 /\ vectorList[v].id = id /\ n \in ToSet(syscallList)
         /\ \A k \in 1..Len(vectorList[v].nums) : NumOf[vectorList[v].nums[k]] # NumOf[n]
         /\ Renumber(v, AddNode(vectorList[v].nums, n, NumOf))
         /\ UNCHANGED syscallList
<1> DEFINE v == GetSyscallVector(id)
           nums == vectorList[v].nums
<1>1. v \in 1..Len(vectorList) /\ v # 0 /\ vectorList[v].id = id
  <2>1. v # 0 /\ Len(vectorList) \in Nat
    BY KeysProperties DEF AddSyscallToVector
  <2> QED
    BY <2>1, FindVector
<1>2. nums \in Seq(Names)
  BY <1>1, NumsProperties
<1>3. \A k \in 1..Len(nums) : NumOf[nums[k]] # NumOf[n]
  BY <1>2, FindNum DEF AddSyscallToVector
<1>4. AddNode(nums, n, NumOf) \in Seq(Names)
  BY <1>2, ListAssumption, AddNodeAdds
<1>5. vectorList' = [vectorList EXCEPT ![v].nums = AddNode(nums, n, NumOf)] /\ UNCHANGED syscallList
  BY DEF AddSyscallToVector
<1>6. n \in ToSet(syscallList)
  <2>1. GetSyscall(n) # 0 /\ Len(syscallList) \in Nat
    BY LenProperties DEF AddSyscallToVector, TypeOK
  <2>2. GetSyscall(n) \in 1..Len(syscallList) /\ syscallList[GetSyscall(n)] = n
    BY <2>1, FindName
  <2> QED
    BY <2>2, ToSetIs DEF TypeOK
<1> HIDE DEF v, nums
<1>7. Renumber(v, AddNode(nums, n, NumOf))
  BY <1>1, <1>4, <1>5, Renumbers
<1> QED
  BY <1>1, <1>3, <1>5, <1>6, <1>7 DEF v, nums

LEMMA UnmapEffect ==
  ASSUME TypeOK, NEW id \in AllIds, NEW n \in Names, RemoveSyscallFromVector(id, n)
  PROVE  LET v == GetSyscallVector(id)
             k == GetNum(vectorList[v].nums, NumOf[n]) IN
         /\ v # 0 /\ vectorList[v].id = id
         /\ k \in 1..Len(vectorList[v].nums) /\ NumOf[vectorList[v].nums[k]] = NumOf[n]
         /\ Renumber(v, RemoveAt(vectorList[v].nums, k))
         /\ UNCHANGED syscallList
<1> DEFINE v == GetSyscallVector(id)
           nums == vectorList[v].nums
           k == GetNum(nums, NumOf[n])
<1>1. v \in 1..Len(vectorList) /\ v # 0 /\ vectorList[v].id = id
  <2>1. v # 0 /\ Len(vectorList) \in Nat
    BY KeysProperties DEF RemoveSyscallFromVector
  <2> QED
    BY <2>1, FindVector
<1>2. nums \in Seq(Names)
  BY <1>1, NumsProperties
<1>3. k \in 1..Len(nums) /\ NumOf[nums[k]] = NumOf[n]
  <2>1. k # 0 /\ Len(nums) \in Nat
    BY <1>2, LenProperties DEF RemoveSyscallFromVector
  <2> HIDE DEF nums
  <2> QED
    BY <1>2, <2>1, FindNum
<1>4. RemoveAt(nums, k) \in Seq(Names)
  BY <1>2, <1>3, RemoveAtProperties
<1>5. vectorList' = [vectorList EXCEPT ![v].nums = RemoveAt(nums, k)] /\ UNCHANGED syscallList
  BY DEF RemoveSyscallFromVector, RemoveNode
<1> HIDE DEF v, nums, k
<1>6. Renumber(v, RemoveAt(nums, k))
  BY <1>1, <1>4, <1>5, Renumbers
<1> QED
  BY <1>1, <1>3, <1>5, <1>6 DEF v, nums, k

LEMMA NameKeyType == NameKey \in [Names -> Int] /\ \A n \in Names : NameKey[n] = n
BY ListAssumption DEF NameKey

LEMMA RegisterEffect ==
  ASSUME TypeOK, NEW n \in Names, RegisterSyscall(n)
  PROVE  /\ \A k \in 1..Len(syscallList) : NameKey[syscallList[k]] # NameKey[n]
         /\ n \notin ToSet(syscallList)
         /\ syscallList' = AddNode(syscallList, n, NameKey)
         /\ UNCHANGED vectorList
<1>1. \A k \in 1..Len(syscallList) : syscallList[k] # n /\ syscallList[k] \in Names
  BY FindName, ElementOfSeq DEF RegisterSyscall, TypeOK
<1>2. n \notin ToSet(syscallList)
  BY <1>1, ToSetIs DEF TypeOK
<1> QED
  BY <1>1, <1>2, NameKeyType DEF RegisterSyscall

LEMMA UnregisterEffect ==
  ASSUME TypeOK, NEW n \in Names, UnregisterSyscall(n)
  PROVE  /\ GetSyscall(n) \in 1..Len(syscallList) /\ syscallList[GetSyscall(n)] = n
         /\ syscallList' = RemoveAt(syscallList, GetSyscall(n))
         /\ UNCHANGED vectorList
<1>1. GetSyscall(n) # 0 /\ Len(syscallList) \in Nat
  BY LenProperties DEF UnregisterSyscall, TypeOK
<1> QED
  BY <1>1, FindName DEF UnregisterSyscall, RemoveNode

-----------------------------------------------------------------------------
(* The shape of the lists and the order of names.                           *)

\* The names are in order, and so are the overrides of every vector.
NamesSorted ==
  /\ Sorted(syscallList, NameKey)
  /\ \A i \in 1..Len(vectorList) : Sorted(vectorList[i].nums, NumOf)

\* A step is an operation that succeeds.
LEMMA ListStep ==
  ASSUME Next
  PROVE  \/ AddSyscallVector
         \/ \E n \in Names : RegisterSyscall(n) \/ UnregisterSyscall(n)
         \/ \E id \in AllIds, n \in Names : AddSyscallToVector(id, n) \/ RemoveSyscallFromVector(id, n)
         \/ \E id \in AllIds : RemoveSyscallVector(id)
BY DEF Next, AddNext, RemoveNext

LEMMA RenumberNames ==
  ASSUME TypeOK, NamesSorted, NEW v, NEW nums, Renumber(v, nums), Sorted(nums, NumOf)
  PROVE  \A i \in 1..Len(vectorList') : Sorted(vectorList'[i].nums, NumOf)
BY DEF Renumber, NamesSorted

LEMMA NamesStep ==
  ASSUME TypeOK, NamesSorted, [Next]_vars
  PROVE  TypeOK' /\ NamesSorted'
<1>0. /\ vectorList \in Seq(Vectors) /\ syscallList \in Seq(Names)
      /\ TypeOK' <=> vectorList' \in Seq(Vectors) /\ syscallList' \in Seq(Names)
  BY DEF TypeOK, Vectors
<1>1. CASE AddSyscallVector
  <2>1. vectorList' \in Seq(Vectors)
    BY <1>0, <1>1, AddVectorEffect, InsertAtProperties DEF AddSyscallVector
  <2>2. ASSUME NEW i \in 1..Len(vectorList') PROVE Sorted(vectorList'[i].nums, NumOf)
    <3>1. ToSet(vectorList') = ToSet(vectorList) \cup {NewVector}
      BY <1>0, <1>1, AddVectorEffect, InsertToSet
    <3>2. /\ ToSet(vectorList') = {vectorList'[k] : k \in 1..Len(vectorList')}
          /\ ToSet(vectorList) = {vectorList[k] : k \in 1..Len(vectorList)}
      BY <1>0, <2>1, ToSetIs
    <3>3. Sorted(NewVector.nums, NumOf)
      BY EmptySeq DEF NewVector, Sorted
    <3> QED
      BY <3>1, <3>2, <3>3 DEF NamesSorted
  <2> QED
    BY <1>0, <1>1, <2>1, <2>2, AddVectorEffect DEF NamesSorted
<1>2. CASE \E n \in Names : RegisterSyscall(n)
  <2>1. PICK n \in Names : RegisterSyscall(n)
    BY <1>2
  <2>2. AddNode(syscallList, n, NameKey) \in Seq(Names)
    BY <1>0, NameKeyType, AddNodeAdds
  <2>3. Sorted(AddNode(syscallList, n, NameKey), NameKey)
    <3>1. \A k \in 1..Len(syscallList) : NameKey[syscallList[k]] # NameKey[n]
      BY <2>1, RegisterEffect
    <3> QED
      BY <1>0, <3>1, NameKeyType, AddNodeSorted DEF NamesSorted
  <2> QED
    BY <1>0, <2>1, <2>2, <2>3, RegisterEffect DEF RegisterSyscall, NamesSorted
<1>3. CASE \E n \in Names : UnregisterSyscall(n)
  <2>1. PICK n \in Names : UnregisterSyscall(n)
    BY <1>3
  <2>2. syscallList' \in Seq(Names) /\ Sorted(syscallList', NameKey)
    BY <1>0, <2>1, UnregisterEffect, RemoveAtProperties, RemoveSorted DEF NamesSorted
  <2> QED
    BY <1>0, <2>1, <2>2, UnregisterEffect DEF UnregisterSyscall, NamesSorted
<1>4. CASE \E id \in AllIds, n \in Names : AddSyscallToVector(id, n)
  <2>1. PICK id \in AllIds, n \in Names : AddSyscallToVector(id, n)
    BY <1>4
  <2> DEFINE v == GetSyscallVector(id)
             nums == AddNode(vectorList[v].nums, n, NumOf)
  <2>2. Renumber(v, nums) /\ UNCHANGED syscallList
    BY <2>1, MapEffect
  <2>3. Sorted(nums, NumOf)
    <3>1. v \in 1..Len(vectorList) /\ vectorList[v].nums \in Seq(Names)
      BY <2>2, NumsProperties DEF Renumber
    <3>2. Sorted(vectorList[v].nums, NumOf)
      BY <3>1 DEF NamesSorted
    <3>3. \A k \in 1..Len(vectorList[v].nums) : NumOf[vectorList[v].nums[k]] # NumOf[n]
      BY <2>1, MapEffect
    <3> QED
      BY <3>1, <3>2, <3>3, ListAssumption, AddNodeSorted
  <2> HIDE DEF v, nums
  <2> QED
    BY <1>0, <2>1, <2>2, <2>3, RenumberNames DEF Renumber, AddSyscallToVector, NamesSorted
<1>5. CASE \E id \in AllIds, n \in Names : RemoveSyscallFromVector(id, n)
  <2>1. PICK id \in AllIds, n \in Names : RemoveSyscallFromVector(id, n)
    BY <1>5
  <2> DEFINE v == GetSyscallVector(id)
             k == GetNum(vectorList[v].nums, NumOf[n])
             nums == RemoveAt(vectorList[v].nums, k)
  <2>2. Renumber(v, nums) /\ k \in 1..Len(vectorList[v].nums) /\ UNCHANGED syscallList
    BY <2>1, UnmapEffect
  <2>3. Sorted(nums, NumOf)
    <3>1. v \in 1..Len(vectorList) /\ vectorList[v].nums \in Seq(Names)
      BY <2>2, NumsProperties DEF Renumber
    <3>2. Sorted(vectorList[v].nums, NumOf)
      BY <3>1 DEF NamesSorted
    <3> QED
      BY <2>2, <3>1, <3>2, RemoveSorted
  <2> HIDE DEF v, k, nums
  <2> QED
    BY <1>0, <2>1, <2>2, <2>3, RenumberNames DEF Renumber, RemoveSyscallFromVector, NamesSorted
<1>6. CASE \E id \in AllIds : RemoveSyscallVector(id)
  <2>1. PICK id \in AllIds : RemoveSyscallVector(id)
    BY <1>6
  <2> DEFINE v == GetSyscallVector(id)
  <2>2. v \in 1..Len(vectorList) /\ vectorList' = RemoveAt(vectorList, v) /\ UNCHANGED syscallList
    BY <2>1, RemoveVectorEffect
  <2> HIDE DEF v
  <2>4. /\ vectorList' \in Seq(Vectors) /\ Len(vectorList') = Len(vectorList) - 1 /\ Len(vectorList) \in Nat
        /\ \A i \in 1..(Len(vectorList) - 1) : vectorList'[i] = IF i < v THEN vectorList[i] ELSE vectorList[i + 1]
    BY <1>0, <2>2, RemoveAtProperties, LenProperties
  <2>5. ASSUME NEW i \in 1..Len(vectorList') PROVE Sorted(vectorList'[i].nums, NumOf)
    <3>1. vectorList'[i] = vectorList[i] \/ vectorList'[i] = vectorList[i + 1]
      BY <2>4
    <3>2. i \in 1..Len(vectorList) /\ i + 1 \in 1..Len(vectorList)
      BY <2>4
    <3> QED
      BY <3>1, <3>2 DEF NamesSorted
  <2> QED
    BY <1>0, <2>2, <2>4, <2>5 DEF NamesSorted
<1>7. CASE UNCHANGED vars
  BY <1>0, <1>7 DEF vars, NamesSorted
<1> QED
  BY <1>1, <1>2, <1>3, <1>4, <1>5, <1>6, <1>7, ListStep

LEMMA InitNames == Init => TypeOK /\ NamesSorted
BY EmptySeq DEF Init, TypeOK, NamesSorted, Sorted

\* Every list holds what it should, whatever becomes of the ids: an id is
\* stored as a short, and a lookup never runs off the end of a list.
THEOREM ListsTypeCorrect == Spec => []TypeOK
<1>1. TypeOK /\ NamesSorted /\ [Next]_vars => TypeOK' /\ NamesSorted'
  BY NamesStep
<1> QED
  BY <1>1, InitNames, PTL DEF Spec

-----------------------------------------------------------------------------
(* The order of ids, and the ids handed out.                                *)

IdsSorted ==
  /\ Sorted(vectorList, IdKey)
  /\ \A i \in 1..Len(vectorList) : vectorList[i].id > 0

\* The key of a node on the list of vectors is its id.
LEMMA IdKeyProperties ==
  ASSUME TypeOK
  PROVE  /\ IdKey \in [Vectors -> Int] /\ vectorList \in Seq(Vectors)
         /\ \A w \in Vectors : IdKey[w] = w.id
         /\ \A i \in 1..Len(vectorList) : IdKey[vectorList[i]] = vectorList[i].id
BY KeysProperties DEF TypeOK, IdKey, Vectors, AllIds

\* While ids last the new one is greater than those in front of it and smaller
\* than those behind.
LEMMA NewIdPlace ==
  ASSUME TypeOK, IdsSorted, IdsRemain \/ NewId > 0
  PROVE  /\ NewId > 0 /\ NewId \in AllIds
         /\ vectorList # <<>> => NewId = vectorList[StopAt].id + 1
         /\ \A k \in 1..Len(vectorList) :
              /\ k < NewPos => vectorList[k].id < NewId
              /\ ~ (k < NewPos) => NewId < vectorList[k].id
<1>0. MaxShort \in Nat \ {0}
  BY ListAssumption
<1>1. CASE vectorList = <<>>
  BY <1>0, <1>1, EmptySeq DEF NewId, AllIds
<1>2. CASE vectorList # <<>>
  <2> DEFINE n == Len(vectorList)
             at == StopAt
             id(k) == vectorList[k].id
  <2>1. n \in Nat /\ DOMAIN vectorList = 1..n /\ \A k \in 1..n : id(k) \in AllIds /\ id(k) > 0
    BY KeysProperties DEF Vectors, IdsSorted
  <2>2. \A j, k \in 1..n : j < k => id(j) < id(k)
    BY <2>1, IdKeyProperties DEF IdsSorted, Sorted
  <2>3. at \in 1..n /\ (at # n => at + 1 \in 1..n /\ id(at + 1) - id(at) > 1)
    BY <1>2, <2>1, StopProperties
  <2>4. NewId = Short(id(at) + 1) /\ NewPos = at + 1
    BY <1>2 DEF NewId, NewPos
  <2>5. IdsRemain => id(at) < MaxShort
    BY <1>2 DEF IdsRemain
  <2> HIDE DEF n, at, id
  <2>6. id(at) \in 1..MaxShort
    BY <1>0, <2>1, <2>3 DEF AllIds
  <2>7. id(at) # MaxShort
    <3>1. Short(MaxShort + 1) <= 0 /\ Short(MaxShort + 1) \in Int
      BY <1>0, ShortProperties DEF AllIds
    <3> QED
      BY <1>0, <2>4, <2>5, <2>6, <3>1
  <2>8. id(at) + 1 \in AllIds
    BY <1>0, <2>6, <2>7 DEF AllIds
  <2>9. NewId = id(at) + 1
    BY <2>4, <2>6, <2>8, ShortProperties
  <2>10. ASSUME NEW k \in 1..n, k < NewPos PROVE id(k) < NewId
    <3>1. CASE k = at
      BY <2>6, <2>9, <3>1
    <3>2. CASE k # at
      <4>1. k < at
        BY <2>1, <2>3, <2>4, <2>10, <3>2
      <4>2. id(k) < id(at) /\ id(k) \in Int
        BY <2>1, <2>2, <2>3, <4>1 DEF AllIds
      <4> QED
        BY <2>6, <2>9, <4>2
    <3> QED
      BY <3>1, <3>2
  <2>11. ASSUME NEW k \in 1..n, ~ (k < NewPos) PROVE NewId < id(k)
    <3>1. at # n /\ at + 1 \in 1..n /\ at + 1 <= k
      BY <2>1, <2>3, <2>4, <2>11
    <3>2. id(at + 1) - id(at) > 1 /\ id(at + 1) \in Int /\ id(k) \in Int
      BY <2>1, <2>3, <3>1 DEF AllIds
    <3>3. CASE k = at + 1
      BY <2>6, <2>9, <3>2, <3>3
    <3>4. CASE k # at + 1
      <4>1. id(at + 1) < id(k)
        BY <2>1, <2>2, <2>3, <3>1, <3>4
      <4> QED
        BY <2>6, <2>9, <3>2, <4>1
    <3> QED
      BY <3>3, <3>4
  <2> QED
    BY <1>2, <2>6, <2>8, <2>9, <2>10, <2>11 DEF n, at, id
<1> QED
  BY <1>1, <1>2

LEMMA IdsStep ==
  ASSUME ~ MayWrap, TypeOK, IdsSorted, [Next]_vars
  PROVE  IdsSorted'
<1>0. /\ Len(vectorList) \in Nat /\ DOMAIN vectorList = 1..Len(vectorList) /\ vectorList \in Seq(Vectors)
      /\ \A i \in 1..Len(vectorList) : vectorList[i] \in Vectors
      /\ \A i \in 1..Len(vectorList) : IdKey[vectorList[i]] = vectorList[i].id
  BY KeysProperties, IdKeyProperties
<1>1. CASE AddSyscallVector
  <2>1. NewId > 0
    BY <1>1, ListAssumption DEF AddSyscallVector
  <2>2. /\ NewVector \in Vectors /\ NewPos \in 1..(Len(vectorList) + 1)
        /\ vectorList' = InsertAt(vectorList, NewPos, NewVector)
    BY <1>1, AddVectorEffect
  <2>3. IdKey[NewVector] = NewId
    BY <2>2, IdKeyProperties DEF NewVector
  <2>4. ASSUME NEW k \in 1..Len(vectorList)
        PROVE  IF k < NewPos THEN IdKey[vectorList[k]] < IdKey[NewVector]
               ELSE IdKey[NewVector] < IdKey[vectorList[k]]
    BY <1>0, <2>1, <2>3, NewIdPlace
  <2>5. Sorted(vectorList', IdKey)
    BY <1>0, <2>2, <2>4, IdKeyProperties, InsertSorted DEF IdsSorted
  <2>6. ASSUME NEW i \in 1..Len(vectorList') PROVE vectorList'[i].id > 0
    <3>1. ToSet(vectorList') = ToSet(vectorList) \cup {NewVector}
      BY <1>0, <2>2, InsertToSet
    <3>2. /\ ToSet(vectorList') = {vectorList'[k] : k \in 1..Len(vectorList')}
          /\ ToSet(vectorList) = {vectorList[k] : k \in 1..Len(vectorList)}
      <4>1. vectorList' \in Seq(Vectors)
        BY <1>0, <2>2, InsertAtProperties
      <4> QED
        BY <1>0, <4>1, ToSetIs
    <3>3. NewVector.id > 0
      BY <2>1 DEF NewVector
    <3> QED
      BY <3>1, <3>2, <3>3 DEF IdsSorted
  <2> QED
    BY <2>5, <2>6 DEF IdsSorted
<1>2. CASE \E id \in AllIds : RemoveSyscallVector(id)
  <2>1. PICK id \in AllIds : RemoveSyscallVector(id)
    BY <1>2
  <2> DEFINE v == GetSyscallVector(id)
  <2>2. v \in 1..Len(vectorList) /\ vectorList[v].id = id /\ vectorList' = RemoveAt(vectorList, v)
    BY <2>1, RemoveVectorEffect
  <2> HIDE DEF v
  <2>4. Sorted(vectorList', IdKey)
    BY <1>0, <2>2, RemoveSorted DEF IdsSorted
  <2>5. ASSUME NEW i \in 1..Len(vectorList') PROVE vectorList'[i].id > 0
    <3>1. ToSet(vectorList') = ToSet(vectorList) \ {vectorList[v]}
      BY <1>0, <2>2, IdKeyProperties, RemoveToSet DEF IdsSorted
    <3>2. /\ ToSet(vectorList') = {vectorList'[k] : k \in 1..Len(vectorList')}
          /\ ToSet(vectorList) = {vectorList[k] : k \in 1..Len(vectorList)}
      <4>1. vectorList' \in Seq(Vectors)
        BY <1>0, <2>2, RemoveAtProperties
      <4> QED
        BY <1>0, <4>1, ToSetIs
    <3> QED
      BY <3>1, <3>2 DEF IdsSorted
  <2> QED
    BY <2>4, <2>5 DEF IdsSorted
<1>3. ASSUME NEW v, NEW nums, Renumber(v, nums)
      PROVE  IdsSorted'
  <2>1. /\ vectorList' \in Seq(Vectors) /\ Len(vectorList') = Len(vectorList)
        /\ \A i \in 1..Len(vectorList) : vectorList'[i].id = vectorList[i].id
    BY <1>3 DEF Renumber
  <2>2. DOMAIN vectorList' = 1..Len(vectorList) /\ \A i \in 1..Len(vectorList) : vectorList'[i] \in Vectors
    BY <2>1, LenProperties, ElementOfSeq
  <2>3. \A i \in 1..Len(vectorList) : IdKey[vectorList'[i]] = IdKey[vectorList[i]]
    BY <1>0, <2>1, <2>2, IdKeyProperties
  <2> QED
    BY <1>0, <1>3, <2>1, <2>2, <2>3 DEF IdsSorted, Sorted
<1>4. CASE \E id \in AllIds, n \in Names : AddSyscallToVector(id, n) \/ RemoveSyscallFromVector(id, n)
  <2>1. PICK id \in AllIds, n \in Names : AddSyscallToVector(id, n) \/ RemoveSyscallFromVector(id, n)
    BY <1>4
  <2>2. \E v, nums : Renumber(v, nums)
    BY <2>1, MapEffect, UnmapEffect
  <2> QED
    BY <1>3, <2>2
<1>5. CASE \E n \in Names : RegisterSyscall(n) \/ UnregisterSyscall(n)
  <2>1. UNCHANGED vectorList
    BY <1>5 DEF RegisterSyscall, UnregisterSyscall
  <2> QED
    BY <2>1 DEF IdsSorted
<1>6. CASE UNCHANGED vars
  BY <1>6 DEF vars, IdsSorted
<1> QED
  BY <1>1, <1>2, <1>4, <1>5, <1>6, ListStep

\* The inductive invariant of the lists.
ListInv == TypeOK /\ NamesSorted /\ IdsSorted

LEMMA ListInvCorrect ==
  ASSUME ~ MayWrap
  PROVE  Spec => []ListInv
<1>1. Init => ListInv
  <2> SUFFICES ASSUME Init PROVE IdsSorted
    BY InitNames DEF ListInv
  <2> QED
    BY EmptySeq DEF Init, IdsSorted, Sorted
<1>2. ListInv /\ [Next]_vars => ListInv'
  BY NamesStep, IdsStep DEF ListInv
<1> QED
  BY <1>1, <1>2, PTL DEF Spec

\* While ids last every list is in strictly ascending order, after any
\* sequence of operations of list.c.
THEOREM ListsSortedCorrect ==
  ASSUME ~ MayWrap
  PROVE  Spec => []ListsSorted
<1>1. ListInv => ListsSorted
  <2> SUFFICES ASSUME ListInv PROVE ListsSorted
    OBVIOUS
  <2>1. Ascending(vectorList, LAMBDA v : v.id)
    BY IdKeyProperties, KeysProperties DEF ListInv, IdsSorted, Sorted, Ascending
  <2>2. Ascending(syscallList, LAMBDA n : n)
    <3>1. \A i \in DOMAIN syscallList : syscallList[i] \in Names
      BY LenProperties, ElementOfSeq DEF ListInv, TypeOK
    <3> QED
      BY <3>1, NameKeyType DEF ListInv, NamesSorted, Sorted, Ascending
  <2>3. \A i \in DOMAIN vectorList : Ascending(vectorList[i].nums, LAMBDA n : NumOf[n])
    BY KeysProperties DEF ListInv, NamesSorted, Sorted, Ascending
  <2> QED
    BY <2>1, <2>2, <2>3 DEF ListsSorted
<1> QED
  BY <1>1, ListInvCorrect, PTL

LEMMA InUse ==
  ASSUME TypeOK
  PROVE  IdsInUse = {vectorList[i].id : i \in 1..Len(vectorList)}
BY KeysProperties, ToSetIs DEF IdsInUse

\* While ids last an id handed out is positive and no vector's.
THEOREM FreshIdCorrect ==
  ASSUME ~ MayWrap
  PROVE  Spec => []FreshPositiveId
<1>1. ListInv => FreshPositiveId
  <2> SUFFICES ASSUME ListInv, IdsRemain PROVE NewId > 0 /\ NewId \notin IdsInUse
    BY DEF FreshPositiveId
  <2>1. NewId > 0 /\ NewId \in Int
    BY NewIdPlace, ListAssumption DEF ListInv, AllIds
  <2>2. \A k \in 1..Len(vectorList) : vectorList[k].id # NewId
    BY <2>1, NewIdPlace, NumsProperties DEF ListInv, AllIds
  <2> QED
    BY <2>1, <2>2, InUse DEF ListInv
<1> QED
  BY <1>1, ListInvCorrect, PTL

-----------------------------------------------------------------------------
(* The lists implement the table of TblSets.                                *)

\* The positions of ids ascend, so that positions and ids compare alike.
LEMMA IdsAscend ==
  ASSUME ListInv
  PROVE  /\ Len(vectorList) \in Nat
         /\ \A k \in 1..Len(vectorList) : vectorList[k].id \in Nat
         /\ \A j, k \in 1..Len(vectorList) : j < k <=> vectorList[j].id < vectorList[k].id
<1>1. /\ Len(vectorList) \in Nat /\ DOMAIN vectorList = 1..Len(vectorList)
      /\ \A k \in 1..Len(vectorList) : vectorList[k].id \in Int /\ vectorList[k].id > 0
  BY KeysProperties, NumsProperties DEF ListInv, IdsSorted, AllIds
<1>2. \A j, k \in 1..Len(vectorList) : j < k => vectorList[j].id < vectorList[k].id
  <2>1. \A i \in 1..Len(vectorList) : IdKey[vectorList[i]] = vectorList[i].id
    BY IdKeyProperties DEF ListInv
  <2>2. Sorted(vectorList, IdKey)
    BY DEF ListInv, IdsSorted
  <2> QED
    BY <1>1, <2>1, <2>2 DEF Sorted
<1>3. ASSUME NEW j \in 1..Len(vectorList), NEW k \in 1..Len(vectorList),
             vectorList[j].id < vectorList[k].id
      PROVE  j < k
  <2>1. CASE j = k
    BY <1>1, <1>3, <2>1
  <2>2. CASE k < j
    BY <1>1, <1>2, <1>3, <2>2
  <2> QED
    BY <1>1, <2>1, <2>2
<1> QED
  BY <1>1, <1>2, <1>3

\* Two positions with one id are one position.
LEMMA IdsOnce ==
  ASSUME ListInv, NEW j \in 1..Len(vectorList), NEW k \in 1..Len(vectorList),
         vectorList[j].id = vectorList[k].id
  PROVE  j = k
BY IdsAscend

\* The loop over the list picks the id that NextVectorId names.
LEMMA NewIdIsNext ==
  ASSUME ListInv, IdsRemain \/ NewId > 0
  PROVE  NewId = NextVectorId(IdsInUse)
<1> DEFINE n == Len(vectorList)
           id(k) == vectorList[k].id
           S == IdsInUse
<1>1. S = {id(k) : k \in 1..n}
  BY InUse DEF ListInv
<1>2. n \in Nat /\ (\A k \in 1..n : id(k) \in Nat) /\ \A j, k \in 1..n : j < k <=> id(j) < id(k)
  BY IdsAscend
<1>3. CASE vectorList = <<>>
  <2>1. n = 0 /\ S = {}
    BY <1>1, <1>3, EmptySeq
  <2> QED
    BY <1>3, <2>1 DEF NewId, NextVectorId
<1>4. CASE vectorList # <<>>
  <2>1. /\ StopAt \in 1..n /\ NewId = id(StopAt) + 1
        /\ StopAt # n => StopAt \in 1..(n - 2) /\ id(StopAt + 1) - id(StopAt) > 1
        /\ \A k \in 1..(n - 2) : k < StopAt => ~ (id(k + 1) - id(k) > 1)
    BY <1>4, StopProperties, NewIdPlace DEF ListInv
  <2> DEFINE at == StopAt
  <2> HIDE DEF n, id, S, at
  <2>2. S # {}
    BY <1>1, <2>1 DEF at
  <2>3. ASSUME NEW a \in Gaps(S)
        PROVE  \E k \in 1..(n - 2) : a = id(k) /\ ~ (k < at)
    <3>1. a \in S /\ a + 1 \notin S /\ \E b, c \in S : a < b /\ b < c
      BY DEF Gaps
    <3>2. PICK k \in 1..n, i \in 1..n, j \in 1..n : a = id(k) /\ id(k) < id(i) /\ id(i) < id(j)
      BY <1>1, <3>1
    <3>3. k < i /\ i < j
      BY <1>2, <3>2
    <3>4. k \in 1..(n - 2) /\ k + 1 \in 1..n
      BY <1>2, <3>3
    <3>5. id(k) < id(k + 1) /\ id(k + 1) # id(k) + 1
      BY <1>1, <1>2, <3>1, <3>2, <3>4
    <3>6. id(k + 1) - id(k) > 1
      BY <1>2, <3>4, <3>5
    <3> QED
      BY <2>1, <3>2, <3>4, <3>6 DEF at
  <2>4. CASE at = n
    <3>1. Gaps(S) = {}
      BY <1>2, <2>3, <2>4
    <3>2. id(n) \in S /\ \A y \in S : id(n) >= y
      BY <1>1, <1>2, <2>1, <2>4 DEF at
    <3>3. Max(S) = id(n)
      <4>1. Max(S) \in S /\ \A y \in S : Max(S) >= y
        BY <3>2 DEF Max
      <4>2. Max(S) \in Nat /\ id(n) \in Nat
        BY <1>1, <1>2, <3>2, <4>1
      <4> QED
        BY <3>2, <4>1, <4>2
    <3> QED
      BY <2>1, <2>2, <2>4, <3>1, <3>3 DEF NextVectorId, S, at
  <2>5. CASE at # n
    <3>1. at \in 1..(n - 2) /\ id(at + 1) - id(at) > 1
      BY <2>1, <2>5 DEF at
    <3>2. at \in 1..n /\ at + 1 \in 1..n /\ at + 2 \in 1..n /\ at < at + 1 /\ at + 1 < at + 2
      BY <1>2, <3>1
    <3>3. id(at) + 1 \notin S
      <4> SUFFICES ASSUME NEW k \in 1..n, id(k) = id(at) + 1 PROVE FALSE
        BY <1>1
      <4>1. id(at) < id(k) /\ id(k) < id(at + 1)
        BY <1>2, <3>1, <3>2
      <4>2. at < k /\ k < at + 1
        BY <1>2, <3>2, <4>1
      <4> QED
        BY <3>2, <4>2
    <3>4. id(at) \in Gaps(S)
      <4>1. id(at) < id(at + 1) /\ id(at + 1) < id(at + 2)
        BY <1>2, <3>2
      <4>2. {id(at), id(at + 1), id(at + 2)} \subseteq S
        BY <1>1, <3>2
      <4> QED
        BY <3>3, <4>1, <4>2 DEF Gaps
    <3>5. \A a \in Gaps(S) : id(at) <= a
      <4> SUFFICES ASSUME NEW a \in Gaps(S) PROVE id(at) <= a
        OBVIOUS
      <4>1. PICK k \in 1..(n - 2) : a = id(k) /\ ~ (k < at)
        BY <2>3
      <4>2. k = at \/ at < k
        BY <3>2, <4>1
      <4> QED
        BY <1>2, <3>2, <4>1, <4>2
    <3>6. Gaps(S) \subseteq Nat
      BY <1>1, <1>2 DEF Gaps
    <3>7. Min(Gaps(S)) = id(at)
      <4>1. Min(Gaps(S)) \in Gaps(S) /\ Min(Gaps(S)) <= id(at)
        BY <3>4, <3>6, MinProperties
      <4> QED
        BY <3>4, <3>5, <3>6, <4>1
    <3> QED
      BY <2>1, <2>2, <3>4, <3>7 DEF NextVectorId, S, at
  <2> QED
    BY <2>4, <2>5
<1> QED
  BY <1>3, <1>4

LEMMA SetsId == Sets!NextVectorId(IdsInUse) = NextVectorId(IdsInUse)
BY DEF Sets!NextVectorId, NextVectorId, Sets!Gaps, Gaps, Sets!Max, Sets!Min, Max, Min

\* The calls of TblSets that Sets reads off the lists by lookup, and the same
\* without lookups.
LookupCalls ==
  [id \in AllIds |-> IF GetSyscallVector(id) = 0 THEN {}
                    ELSE ToSet(vectorList[GetSyscallVector(id)].nums)]
MapsTo(id, n) == \E i \in 1..Len(vectorList) : vectorList[i].id = id /\ n \in ToSet(vectorList[i].nums)
MapCalls == [id \in AllIds |-> {n \in Names : MapsTo(id, n)}]

View ==
  /\ LookupCalls = MapCalls
  /\ IdsInUse = {vectorList[i].id : i \in 1..Len(vectorList)}

LEMMA ViewCorrect == ListInv => View
<1> SUFFICES ASSUME ListInv PROVE View
  OBVIOUS
<1>1. ASSUME NEW id \in AllIds PROVE LookupCalls[id] = {n \in Names : MapsTo(id, n)}
  <2> DEFINE v == GetSyscallVector(id)
  <2>1. /\ Len(vectorList) \in Nat /\ v \in 0..Len(vectorList)
        /\ v # 0 => vectorList[v].id = id
        /\ v = 0 => \A i \in 1..Len(vectorList) : vectorList[i].id # id
    BY KeysProperties, FindVector DEF ListInv
  <2>2. LookupCalls[id] = IF v = 0 THEN {} ELSE ToSet(vectorList[v].nums)
    BY DEF LookupCalls
  <2> HIDE DEF v
  <2>3. CASE v = 0
    BY <2>1, <2>2, <2>3 DEF MapsTo
  <2>4. CASE v # 0
    <3>1. v \in 1..Len(vectorList) /\ \A i \in 1..Len(vectorList) : vectorList[i].id = id => i = v
      BY <2>1, <2>4, IdsOnce
    <3>2. ToSet(vectorList[v].nums) \subseteq Names
      BY <3>1, NumsProperties, ToSetIs DEF ListInv
    <3> QED
      BY <2>1, <2>2, <2>4, <3>1, <3>2 DEF MapsTo
  <2> QED
    BY <2>3, <2>4
<1>2. LookupCalls = MapCalls
  BY <1>1 DEF LookupCalls, MapCalls
<1> QED
  BY <1>2, InUse DEF View, ListInv

\* When the overrides of one vector change, so does what it maps, only.
LEMMA RenumberCalls ==
  ASSUME ListInv, View, View', NEW v, NEW nums, Renumber(v, nums)
  PROVE  LET id == vectorList[v].id IN
         /\ IdsInUse' = IdsInUse /\ id \in IdsInUse /\ id \in AllIds
         /\ LookupCalls[id] = ToSet(vectorList[v].nums)
         /\ LookupCalls' = [LookupCalls EXCEPT ![id] = ToSet(nums)]
<1>0. PICK id : id = vectorList[v].id
  OBVIOUS
<1>1. /\ v \in 1..Len(vectorList) /\ nums \in Seq(Names)
      /\ Len(vectorList') = Len(vectorList)
      /\ \A i \in 1..Len(vectorList) :
           /\ vectorList'[i].id = vectorList[i].id
           /\ i = v => vectorList'[i].nums = nums
           /\ i # v => vectorList'[i].nums = vectorList[i].nums
  BY DEF Renumber
<1>2. IdsInUse' = IdsInUse /\ id \in IdsInUse
  BY <1>0, <1>1 DEF View
<1>3. id \in AllIds /\ vectorList[v].nums \in Seq(Names)
  BY <1>0, <1>1, NumsProperties DEF ListInv
<1>4. \A i \in 1..Len(vectorList) : vectorList[i].id = id => i = v
  BY <1>0, <1>1, IdsOnce
<1>5. ToSet(vectorList[v].nums) \subseteq Names /\ ToSet(nums) \subseteq Names
  BY <1>1, <1>3, ToSetIs
<1>6. \A n : MapsTo(id, n) <=> n \in ToSet(vectorList[v].nums)
  BY <1>0, <1>1, <1>4 DEF MapsTo
<1>7. \A n : MapsTo(id, n)' <=> n \in ToSet(nums)
  BY <1>0, <1>1, <1>4 DEF MapsTo
<1>8. \A x \in AllIds \ {id}, n \in Names : MapsTo(x, n)' <=> MapsTo(x, n)
  BY <1>0, <1>1, <1>4 DEF MapsTo
<1>9. LookupCalls[id] = ToSet(vectorList[v].nums)
  BY <1>3, <1>5, <1>6 DEF View, MapCalls
<1>10. MapCalls' = [MapCalls EXCEPT ![id] = ToSet(nums)]
  <2>1. {n \in Names : MapsTo(id, n)'} = ToSet(nums)
    BY <1>5, <1>7
  <2>2. \A x \in AllIds \ {id} : {n \in Names : MapsTo(x, n)'} = {n \in Names : MapsTo(x, n)}
    BY <1>8
  <2>3. /\ DOMAIN MapCalls = AllIds /\ DOMAIN MapCalls' = AllIds
        /\ MapCalls = [x \in AllIds |-> MapCalls[x]] /\ MapCalls' = [x \in AllIds |-> MapCalls'[x]]
    BY DEF MapCalls
  <2>4. MapCalls'[id] = ToSet(nums)
    BY <1>3, <2>1 DEF MapCalls
  <2>5. ASSUME NEW x \in AllIds \ {id} PROVE MapCalls'[x] = MapCalls[x]
    BY <2>2 DEF MapCalls
  <2> QED
    BY <1>3, <2>3, <2>4, <2>5
<1> QED
  BY <1>0, <1>2, <1>3, <1>9, <1>10 DEF View

\* A new vector maps nothing, and is the one that TblSets adds.
LEMMA AddVectorSets ==
  ASSUME ~ MayWrap, ListInv, View, View', TypeOK', AddSyscallVector
  PROVE  Sets!AddVector
<1>1. /\ NewVector \in Vectors /\ NewPos \in 1..(Len(vectorList) + 1)
      /\ vectorList' = InsertAt(vectorList, NewPos, NewVector) /\ UNCHANGED syscallList
      /\ vectorList \in Seq(Vectors) /\ vectorList' \in Seq(Vectors)
  BY AddVectorEffect, IdKeyProperties DEF ListInv, TypeOK, Vectors
<1>2. NewId > 0
  BY ListAssumption DEF AddSyscallVector
<1>3. NewId = NextVectorId(IdsInUse) /\ NewId \notin IdsInUse
  <2>1. \A k \in 1..Len(vectorList) : vectorList[k].id # NewId
    BY <1>2, NewIdPlace, NumsProperties DEF ListInv, AllIds
  <2> QED
    BY <1>2, <2>1, NewIdIsNext DEF View
<1>4. {vectorList'[i] : i \in 1..Len(vectorList')} = {vectorList[i] : i \in 1..Len(vectorList)} \cup {NewVector}
  <2>1. ToSet(vectorList') = ToSet(vectorList) \cup {NewVector}
    BY <1>1, InsertToSet
  <2>2. ToSet(vectorList) = {vectorList[i] : i \in 1..Len(vectorList)}
    BY <1>1, ToSetIs
  <2>3. ToSet(vectorList') = {vectorList'[i] : i \in 1..Len(vectorList')}
    BY <1>1, ToSetIs
  <2> QED
    BY <2>1, <2>2, <2>3
<1>5. IdsInUse' = IdsInUse \cup {NewId}
  <2>1. NewVector.id = NewId
    BY DEF NewVector
  <2>2. /\ IdsInUse = {vectorList[i].id : i \in 1..Len(vectorList)}
        /\ IdsInUse' = {vectorList'[i].id : i \in 1..Len(vectorList')}
    BY DEF View
  <2>3. ASSUME NEW x \in IdsInUse' PROVE x \in IdsInUse \cup {NewId}
    <3>1. PICK i \in 1..Len(vectorList') : x = vectorList'[i].id
      BY <2>2
    <3>2. CASE vectorList'[i] = NewVector
      BY <2>1, <3>1, <3>2
    <3>3. CASE vectorList'[i] # NewVector
      <4>1. PICK j \in 1..Len(vectorList) : vectorList'[i] = vectorList[j]
        BY <1>4, <3>3
      <4> QED
        BY <2>2, <3>1, <4>1
    <3> QED
      BY <3>2, <3>3
  <2>4. ASSUME NEW x \in IdsInUse PROVE x \in IdsInUse'
    <3>1. PICK j \in 1..Len(vectorList) : x = vectorList[j].id
      BY <2>2
    <3>2. PICK i \in 1..Len(vectorList') : vectorList'[i] = vectorList[j]
      BY <1>4
    <3> QED
      BY <2>2, <3>1, <3>2
  <2>5. NewId \in IdsInUse'
    <3>1. PICK i \in 1..Len(vectorList') : vectorList'[i] = NewVector
      BY <1>4
    <3> QED
      BY <2>1, <2>2, <3>1
  <2> QED
    BY <2>3, <2>4, <2>5
<1>6. ASSUME NEW id, NEW n PROVE MapsTo(id, n)' <=> MapsTo(id, n)
  <2>1. n \notin ToSet(NewVector.nums)
    BY DEF NewVector, ToSet
  <2> QED
    BY <1>4, <2>1 DEF MapsTo
<1>7. LookupCalls' = LookupCalls
  BY <1>6 DEF View, MapCalls
<1> QED
  BY <1>1, <1>3, <1>5, <1>7, SetsId DEF Sets!AddVector, LookupCalls

\* A vector that is removed goes with what it maps; there is no other of its id.
LEMMA RemoveVectorSets ==
  ASSUME ListInv, View, View', NEW id \in AllIds, RemoveSyscallVector(id)
  PROVE  Sets!RemoveVector(id)
<1> DEFINE v == GetSyscallVector(id)
<1>1. /\ v \in 1..Len(vectorList) /\ vectorList[v].id = id
      /\ vectorList' = RemoveAt(vectorList, v) /\ UNCHANGED syscallList
      /\ vectorList \in Seq(Vectors)
  BY RemoveVectorEffect, IdKeyProperties DEF ListInv
<1>2. vectorList' \in Seq(Vectors)
  BY <1>1, RemoveAtProperties
<1>3. {vectorList'[i] : i \in 1..Len(vectorList')} = {vectorList[i] : i \in 1..Len(vectorList)} \ {vectorList[v]}
  <2>1. ToSet(vectorList') = ToSet(vectorList) \ {vectorList[v]}
    BY <1>1, IdKeyProperties, RemoveToSet DEF ListInv, IdsSorted
  <2> QED
    BY <1>1, <1>2, <2>1, ToSetIs
<1>4. \A i \in 1..Len(vectorList) : vectorList[i].id = id => i = v
  BY <1>1, IdsOnce
<1> HIDE DEF v
<1>5. \A i \in 1..Len(vectorList) : vectorList[i] = vectorList[v] <=> vectorList[i].id = id
  BY <1>1, <1>4
<1>6. /\ \A i \in 1..Len(vectorList') :
           \E j \in 1..Len(vectorList) : vectorList[j].id # id /\ vectorList'[i] = vectorList[j]
      /\ \A j \in 1..Len(vectorList) : vectorList[j].id # id =>
           \E i \in 1..Len(vectorList') : vectorList'[i] = vectorList[j]
  <2>1. ASSUME NEW i \in 1..Len(vectorList')
        PROVE  \E j \in 1..Len(vectorList) : vectorList[j].id # id /\ vectorList'[i] = vectorList[j]
    <3>1. PICK j \in 1..Len(vectorList) : vectorList'[i] = vectorList[j] /\ vectorList[j] # vectorList[v]
      BY <1>3
    <3> QED
      BY <1>5, <3>1
  <2>2. ASSUME NEW j \in 1..Len(vectorList), vectorList[j].id # id
        PROVE  \E i \in 1..Len(vectorList') : vectorList'[i] = vectorList[j]
    <3>1. vectorList[j] # vectorList[v]
      BY <1>1, <2>2
    <3> QED
      BY <1>3, <3>1
  <2> QED
    BY <2>1, <2>2
<1>7. IdsInUse' = IdsInUse \ {id} /\ id \in IdsInUse
  <2>1. /\ IdsInUse = {vectorList[i].id : i \in 1..Len(vectorList)}
        /\ IdsInUse' = {vectorList'[i].id : i \in 1..Len(vectorList')}
    BY DEF View
  <2>2. id \in IdsInUse
    BY <1>1, <2>1
  <2>3. ASSUME NEW x \in IdsInUse' PROVE x \in IdsInUse \ {id}
    <3>1. PICK i \in 1..Len(vectorList') : x = vectorList'[i].id
      BY <2>1
    <3>2. PICK j \in 1..Len(vectorList) : vectorList[j].id # id /\ vectorList'[i] = vectorList[j]
      BY <1>6, <3>1
    <3> QED
      BY <2>1, <3>1, <3>2
  <2>4. ASSUME NEW x \in IdsInUse \ {id} PROVE x \in IdsInUse'
    <3>1. PICK j \in 1..Len(vectorList) : x = vectorList[j].id
      BY <2>1
    <3>2. PICK i \in 1..Len(vectorList') : vectorList'[i] = vectorList[j]
      BY <1>6, <2>4, <3>1
    <3> QED
      BY <2>1, <3>1, <3>2
  <2> QED
    BY <2>2, <2>3, <2>4
<1>8. ASSUME NEW x, NEW n PROVE MapsTo(x, n)' <=> x # id /\ MapsTo(x, n)
  <2>1. ASSUME MapsTo(x, n)' PROVE x # id /\ MapsTo(x, n)
    <3>1. PICK i \in 1..Len(vectorList') : vectorList'[i].id = x /\ n \in ToSet(vectorList'[i].nums)
      BY <2>1 DEF MapsTo
    <3>2. PICK j \in 1..Len(vectorList) : vectorList[j].id # id /\ vectorList'[i] = vectorList[j]
      BY <1>6, <3>1
    <3> QED
      BY <3>1, <3>2 DEF MapsTo
  <2>2. ASSUME x # id, MapsTo(x, n) PROVE MapsTo(x, n)'
    <3>1. PICK j \in 1..Len(vectorList) : vectorList[j].id = x /\ n \in ToSet(vectorList[j].nums)
      BY <2>2 DEF MapsTo
    <3>2. PICK i \in 1..Len(vectorList') : vectorList'[i] = vectorList[j]
      BY <1>6, <2>2, <3>1
    <3> QED
      BY <3>1, <3>2 DEF MapsTo
  <2> QED
    BY <2>1, <2>2
<1>9. LookupCalls' = [LookupCalls EXCEPT ![id] = {}]
  BY <1>8 DEF View, MapCalls
<1> QED
  BY <1>1, <1>7, <1>9 DEF Sets!RemoveVector, LookupCalls

LEMMA NameSets ==
  ASSUME ListInv, NEW n \in Names, RegisterSyscall(n) \/ UnregisterSyscall(n)
  PROVE  Sets!Register(n) \/ Sets!Unregister(n)
<1>0. UNCHANGED vectorList
  BY DEF RegisterSyscall, UnregisterSyscall
<1>1. UNCHANGED <<IdsInUse, LookupCalls>>
  BY <1>0 DEF IdsInUse, LookupCalls, GetSyscallVector, VectorIds
<1>2. CASE RegisterSyscall(n)
  <2>1. n \notin ToSet(syscallList) /\ syscallList' = AddNode(syscallList, n, NameKey)
    BY <1>2, RegisterEffect DEF ListInv
  <2>2. ToSet(AddNode(syscallList, n, NameKey)) = ToSet(syscallList) \cup {n}
    BY NameKeyType, AddNodeAdds DEF ListInv, TypeOK
  <2> QED
    BY <1>1, <2>1, <2>2 DEF Sets!Register, LookupCalls
<1>3. CASE UnregisterSyscall(n)
  <2> DEFINE k == GetSyscall(n)
  <2>1. k \in 1..Len(syscallList) /\ syscallList[k] = n /\ syscallList' = RemoveAt(syscallList, k)
    BY <1>3, UnregisterEffect DEF ListInv
  <2>2. ToSet(RemoveAt(syscallList, k)) = ToSet(syscallList) \ {n}
    <3>1. syscallList \in Seq(Names) /\ Sorted(syscallList, NameKey) /\ NameKey \in [Names -> Int]
      BY NameKeyType DEF ListInv, TypeOK, NamesSorted
    <3> HIDE DEF k
    <3>2. ToSet(RemoveAt(syscallList, k)) = ToSet(syscallList) \ {syscallList[k]}
      BY <2>1, <3>1, RemoveToSet
    <3> QED
      BY <2>1, <3>2
  <2>3. n \in ToSet(syscallList)
    BY <2>1, ToSetIs DEF ListInv, TypeOK
  <2> HIDE DEF k
  <2>4. ASSUME NEW id \in IdsInUse PROVE n \notin LookupCalls[id]
    <3>1. PICK i \in 1..Len(vectorList) : vectorList[i].id = id
      BY InUse DEF ListInv
    <3>2. id \in AllIds
      BY <3>1, NumsProperties DEF ListInv
    <3>3. CASE GetSyscallVector(id) = 0
      BY <3>2, <3>3 DEF LookupCalls
    <3>4. CASE GetSyscallVector(id) # 0
      <4>1. GetSyscallVector(id) \in DOMAIN vectorList
        BY <3>4, FindVector, KeysProperties DEF ListInv
      <4>2. n \notin ToSet(vectorList[GetSyscallVector(id)].nums)
        BY <1>3, <4>1 DEF UnregisterSyscall
      <4> QED
        BY <3>2, <3>4, <4>2 DEF LookupCalls
    <3> QED
      BY <3>3, <3>4
  <2> QED
    BY <1>1, <2>1, <2>2, <2>3, <2>4 DEF Sets!Unregister, LookupCalls
<1> QED
  BY <1>2, <1>3

LEMMA MapSets ==
  ASSUME ListInv, View, View', NEW id \in AllIds, NEW n \in Names, AddSyscallToVector(id, n)
  PROVE  Sets!Map(id, n)
<1> DEFINE v == GetSyscallVector(id)
           nums == vectorList[v].nums
<1>1. /\ v # 0 /\ vectorList[v].id = id /\ n \in ToSet(syscallList)
      /\ \A k \in 1..Len(nums) : NumOf[nums[k]] # NumOf[n]
      /\ Renumber(v, AddNode(nums, n, NumOf)) /\ UNCHANGED syscallList
  BY MapEffect DEF ListInv
<1>2. nums \in Seq(Names)
  BY <1>1, NumsProperties DEF Renumber, ListInv
<1>3. ToSet(AddNode(nums, n, NumOf)) = ToSet(nums) \cup {n}
  <2> HIDE DEF nums
  <2> QED
    BY <1>2, ListAssumption, AddNodeAdds
<1>4. \A m \in ToSet(nums) : NumOf[m] # NumOf[n]
  BY <1>1, <1>2, ToSetIs
<1>5. /\ IdsInUse' = IdsInUse /\ id \in IdsInUse
      /\ LookupCalls[id] = ToSet(nums)
      /\ LookupCalls' = [LookupCalls EXCEPT ![id] = ToSet(AddNode(nums, n, NumOf))]
  BY <1>1, RenumberCalls
<1> HIDE DEF v, nums
<1>6. LookupCalls' = [LookupCalls EXCEPT ![id] = @ \cup {n}]
  BY <1>3, <1>5
<1> QED
  BY <1>1, <1>4, <1>5, <1>6 DEF Sets!Map, LookupCalls

\* A list of overrides has no two of one number.
LEMMA RemoveNumToSet ==
  ASSUME NEW s \in Seq(Names), Sorted(s, NumOf), NEW k \in 1..Len(s)
  PROVE  /\ s[k] \in Names /\ s[k] \in ToSet(s)
         /\ ToSet(RemoveAt(s, k)) = {m \in ToSet(s) : NumOf[m] # NumOf[s[k]]}
<1>1. NumOf \in [Names -> Int]
  BY ListAssumption
<1>2. s[k] \in Names /\ ToSet(s) = {s[i] : i \in 1..Len(s)}
  BY ElementOfSeq, ToSetIs
<1>3. ToSet(RemoveAt(s, k)) = ToSet(s) \ {s[k]}
  BY <1>1, RemoveToSet
<1>4. ASSUME NEW j \in 1..Len(s), NumOf[s[j]] = NumOf[s[k]] PROVE j = k
  BY <1>1, <1>4, SortedOnce
<1> QED
  BY <1>2, <1>3, <1>4

\* What is taken off is the one override of the number, whatever its name.
LEMMA UnmapSets ==
  ASSUME ListInv, View, View', NEW id \in AllIds, NEW n \in Names, RemoveSyscallFromVector(id, n)
  PROVE  \E m \in Names : Sets!Unmap(id, m)
<1> DEFINE v == GetSyscallVector(id)
           nums == vectorList[v].nums
           k == GetNum(nums, NumOf[n])
           e == nums[k]
<1>1. /\ v # 0 /\ vectorList[v].id = id
      /\ k \in 1..Len(nums) /\ NumOf[e] = NumOf[n]
      /\ Renumber(v, RemoveAt(nums, k)) /\ UNCHANGED syscallList
  BY UnmapEffect DEF ListInv
<1>2. nums \in Seq(Names) /\ Sorted(nums, NumOf)
  BY <1>1, NumsProperties DEF Renumber, ListInv, NamesSorted
<1>3. /\ e \in Names /\ e \in ToSet(nums)
      /\ ToSet(RemoveAt(nums, k)) = {m \in ToSet(nums) : NumOf[m] # NumOf[e]}
  <2>1. k \in 1..Len(nums)
    BY <1>1
  <2> HIDE DEF nums, k
  <2> QED
    BY <1>2, <2>1, RemoveNumToSet
<1>4. /\ IdsInUse' = IdsInUse /\ id \in IdsInUse
      /\ LookupCalls[id] = ToSet(nums)
      /\ LookupCalls' = [LookupCalls EXCEPT ![id] = ToSet(RemoveAt(nums, k))]
  BY <1>1, RenumberCalls
<1> HIDE DEF v, nums, k, e
<1>5. LookupCalls' = [LookupCalls EXCEPT ![id] = {m \in @ : NumOf[m] # NumOf[e]}]
  BY <1>3, <1>4
<1> QED
  BY <1>1, <1>3, <1>4, <1>5 DEF Sets!Unmap, LookupCalls

\* While ids last the lists implement the table of TblSets: every operation on
\* them is one on the registered names, the set of vectors and their maps.
THEOREM ListsImplementSetsCorrect ==
  ASSUME ~ MayWrap
  PROVE  Spec => ImplementsSets
<1>1. Init => Sets!Init
  <2> SUFFICES ASSUME Init PROVE Sets!Init
    OBVIOUS
  <2>1. TypeOK /\ Len(vectorList) = 0
    BY InitNames, EmptySeq DEF Init
  <2>2. \A id \in AllIds : GetSyscallVector(id) = 0
    BY <2>1, FindVector
  <2>3. ToSet(syscallList) = {} /\ IdsInUse = {}
    BY <2>1, InUse DEF Init, ToSet
  <2> QED
    BY <2>2, <2>3 DEF Sets!Init
<1>2. ListInv /\ ListInv' /\ View /\ View' /\ [Next]_vars => [Sets!Next]_Sets!vars
  <2> SUFFICES ASSUME ListInv, ListInv', View, View', [Next]_vars PROVE [Sets!Next]_Sets!vars
    OBVIOUS
  <2>1. CASE AddSyscallVector
    BY <2>1, AddVectorSets DEF ListInv, Sets!Next
  <2>2. CASE \E n \in Names : RegisterSyscall(n) \/ UnregisterSyscall(n)
    BY <2>2, NameSets DEF Sets!Next
  <2>3. CASE \E id \in AllIds, n \in Names : AddSyscallToVector(id, n)
    <3>1. PICK id \in AllIds, n \in Names : Sets!Map(id, n)
      BY <2>3, MapSets
    <3>2. id \in IdsInUse
      BY <3>1 DEF Sets!Map
    <3> QED
      BY <3>1, <3>2 DEF Sets!Next
  <2>4. CASE \E id \in AllIds, n \in Names : RemoveSyscallFromVector(id, n)
    <3>1. PICK id \in AllIds, n \in Names : Sets!Unmap(id, n)
      BY <2>4, UnmapSets
    <3>2. id \in IdsInUse
      BY <3>1 DEF Sets!Unmap
    <3> QED
      BY <3>1, <3>2 DEF Sets!Next
  <2>5. CASE \E id \in AllIds : RemoveSyscallVector(id)
    <3>1. PICK id \in AllIds : Sets!RemoveVector(id)
      BY <2>5, RemoveVectorSets
    <3>2. id \in IdsInUse
      BY <3>1 DEF Sets!RemoveVector
    <3> QED
      BY <3>1, <3>2 DEF Sets!Next
  <2>6. CASE UNCHANGED vars
    BY <2>6 DEF vars, Sets!vars, IdsInUse, GetSyscallVector, VectorIds
  <2> QED
    BY <2>1, <2>2, <2>3, <2>4, <2>5, <2>6, ListStep
<1> QED
  BY <1>1, <1>2, ListInvCorrect, ViewCorrect, PTL DEF Spec, ImplementsSets, Sets!Spec
=============================================================================

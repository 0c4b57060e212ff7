--------------------------- MODULE IdAllocProofs ----------------------------
(* The id that __add_syscall_vector chooses is new, for every set of ids.     *)
EXTENDS IdAlloc, WellFoundedInduction, TLAPS

\* A nonempty set of naturals has a least element.
LEMMA NatMin ==
  ASSUME NEW T \in SUBSET Nat, T # {}
  PROVE  \E x \in T : \A y \in T : x <= y
<1>1. PICK x \in T : \A y \in T : ~ (<<y, x>> \in OpToRel(<, Nat))
  BY NatLessThanWellFounded, WFMin
<1>2. ASSUME NEW y \in T PROVE x <= y
  <2>1. ~ (<<y, x>> \in OpToRel(<, Nat))
    BY <1>1
  <2>2. x \in Nat /\ y \in Nat
    OBVIOUS
  <2>3. ~ (y < x)
    BY <2>1, <2>2 DEF OpToRel
  <2> QED
    BY <2>2, <2>3
<1> QED
  BY <1>2

\* A nonempty set of naturals below a bound has a greatest element.
LEMMA BoundedMax ==
  ASSUME NEW N \in Nat, NEW T \in SUBSET (0..N), T # {}
  PROVE  \E x \in T : \A y \in T : x >= y
<1> DEFINE M == {N - x : x \in T}
<1>1. ASSUME NEW x \in T PROVE x \in Nat /\ N - x \in Nat
  OBVIOUS
<1>2. M \subseteq Nat
  BY <1>1
<1>3. M # {}
  OBVIOUS
<1>4. PICK d \in M : \A y \in M : d <= y
  BY <1>2, <1>3, NatMin
<1>5. PICK x \in T : d = N - x
  OBVIOUS
<1>6. ASSUME NEW y \in T PROVE x >= y
  <2>1. N - y \in M
    OBVIOUS
  <2>2. N - x <= N - y
    BY <2>1, <1>4, <1>5
  <2> QED
    BY <2>2, <1>1
<1> QED
  BY <1>6

\* The id given to a new vector is not the id of any vector in the table, and
\* it is positive: 0 stays the default table (__add_syscall_vector).
THEOREM FreshId ==
  ASSUME NEW N \in Nat, NEW S \in SUBSET (1..N)
  PROVE  NextVectorId(S) \in Nat \ {0} /\ NextVectorId(S) \notin S
<1>0. \A x \in S : x \in Nat /\ x >= 1 /\ x <= N
  OBVIOUS
<1>1. CASE S = {}
  BY <1>1 DEF NextVectorId
<1>2. CASE S # {} /\ Gaps(S) # {}
  <2>0. \A a \in Gaps(S) : a \in S /\ a + 1 \notin S
    BY DEF Gaps
  <2>1. Gaps(S) \subseteq Nat
    BY <2>0, <1>0
  <2>2. PICK x \in Gaps(S) : \A y \in Gaps(S) : x <= y
    BY <1>2, <2>1, NatMin
  <2>3. Min(Gaps(S)) \in Gaps(S)
    BY <2>2 DEF Min
  <2>4. NextVectorId(S) = Min(Gaps(S)) + 1
    BY <1>2 DEF NextVectorId
  <2> QED
    <3>1. PICK m \in Gaps(S) : m = Min(Gaps(S))
      BY <2>3
    <3>2. m \in Nat /\ m + 1 \notin S
      BY <2>0, <1>0
    <3>3. NextVectorId(S) = m + 1
      BY <2>4, <3>1
    <3>4. NextVectorId(S) \notin S
      BY <3>2, <3>3
    <3>5. m + 1 \in Nat \ {0}
      BY <3>2
    <3> QED
      BY <3>3, <3>4, <3>5
<1>3. CASE S # {} /\ Gaps(S) = {}
  <2>1. PICK x \in S : \A y \in S : x >= y
    <3>1. S \subseteq 0..N
      BY <1>0
    <3> QED
      BY <3>1, <1>3, BoundedMax
  <2>2. Max(S) \in S /\ \A y \in S : Max(S) >= y
    BY <2>1 DEF Max
  <2>3. NextVectorId(S) = Max(S) + 1
    BY <1>3 DEF NextVectorId
  <2> QED
    <3>1. PICK m \in S : m = Max(S) /\ \A y \in S : m >= y
      BY <2>2
    <3>2. m \in Nat
      BY <1>0
    <3>3. m + 1 \notin S
      BY <3>1, <3>2, <1>0
    <3>4. NextVectorId(S) = m + 1
      BY <2>3, <3>1
    <3>5. m + 1 \in Nat \ {0}
      BY <3>2
    <3> QED
      BY <3>3, <3>4, <3>5
<1> QED
  BY <1>1, <1>2, <1>3
=============================================================================

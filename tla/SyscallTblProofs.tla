-------------------------- MODULE SyscallTblProofs --------------------------
(***************************************************************************)
(* Theorems about SyscallTbl, for every value of its constants: the shape   *)
(* of the state, the count the table keeps on its own module, and, for      *)
(* callers that follow the rules of PinClauses, the counts on the modules   *)
(* of the overrides and what they protect.                                  *)
(***************************************************************************)
EXTENDS SyscallTbl, IdAllocProofs, FiniteSetTheorems

\* The rules of Clauses but those about the lock, which count nothing.
PinClauses == {"unregister_at_exit", "no_map_while_going", "remove_own", "empty_first"}

-----------------------------------------------------------------------------
(* The state's shape.                                                       *)

\* A call that returns without effect keeps the shape.
LEMMA FailTypeOK ==
  ASSUME TypeOK, NEW code \in Codes, Fail(code)
  PROVE  TypeOK'
BY DEF TypeOK, Fail, tblVars, vecVars, modVars

LEMMA InitTypeOK == Init => TypeOK
BY DEF Init, TypeOK, Codes

\* The module loader changes the fields of one module.
LEMMA LoaderTypeOK ==
  ASSUME TypeOK, LoaderNext
  PROVE  TypeOK'
<1>1. PICK m \in Modules : ModuleInit(m) \/ ModuleLive(m) \/ ModuleDelete(m) \/ ModuleGone(m)
  BY DEF LoaderNext
<1>2. modState' \in [Modules -> {"unloaded", "coming", "live", "going"}]
  BY <1>1 DEF TypeOK, ModuleInit, ModuleLive, ModuleDelete, ModuleGone
<1>3. modRef' \in [Modules -> Int]
  BY <1>1 DEF TypeOK, ModuleInit, ModuleLive, ModuleDelete, ModuleGone
<1>4. ret' = "none" /\ UNCHANGED tblVars
  BY <1>1 DEF ModuleInit, ModuleLive, ModuleDelete, ModuleGone, LoaderStep
<1> QED
  BY <1>2, <1>3, <1>4 DEF TypeOK, Codes, tblVars, vecVars

\* try_module_get and module_put give the function of counts back.
LEMMA GotPutType ==
  ASSUME TypeOK, NEW m \in Modules
  PROVE  Got(m) \in [Modules -> Int] /\ Put(m) \in [Modules -> Int]
BY DEF TypeOK, Got, Put

LEMMA RegisterTypeOK ==
  ASSUME TypeOK, NEW n \in Names, RegisterSyscall(n)
  PROVE  TypeOK'
<1>1. CASE \E code \in Codes : Fail(code)
  BY <1>1, FailTypeOK
<1>2. CASE /\ n \notin LongNames
           /\ registered' = registered \cup {n} /\ tblRef' = tblRef + 1 /\ ret' = "ok"
           /\ UNCHANGED <<lock, vecVars, modVars>>
  BY <1>2 DEF TypeOK, Codes, vecVars, modVars
<1> QED
  BY <1>1, <1>2 DEF RegisterSyscall, Codes

LEMMA UnregisterTypeOK ==
  ASSUME TypeOK, NEW n \in Names, UnregisterSyscall(n)
  PROVE  TypeOK'
<1>1. CASE \E code \in Codes : Fail(code)
  BY <1>1, FailTypeOK
<1>2. CASE /\ registered' = registered \ {n}
           /\ calls' = [v \in Ids |-> calls[v] \ {n}]
           /\ freed' = [v \in Ids |-> IF n \in calls[v] THEN freed[v] + 1 ELSE freed[v]]
           /\ tblRef' = tblRef - 1 /\ ret' = "ok"
           /\ UNCHANGED <<lock, vectors, refcnt, blocked, modVars>>
  BY <1>2 DEF TypeOK, Codes, modVars
<1> QED
  BY <1>1, <1>2 DEF UnregisterSyscall, Codes

LEMMA AddVectorTypeOK ==
  ASSUME TypeOK, AddSyscallVector
  PROVE  TypeOK'
<1>1. CASE Fail("ENOMEM")
  BY <1>1, FailTypeOK DEF Codes
<1>2. CASE Unlocked /\ ~ Fail("ENOMEM")
  <2> DEFINE id == NextVectorId(vectors)
  <2>1. id \in Ids
    BY <1>2 DEF AddSyscallVector
  <2>2. /\ vectors' = vectors \cup {id}
        /\ refcnt' = [refcnt EXCEPT ![id] = 0] /\ calls' = [calls EXCEPT ![id] = {}]
        /\ freed' = [freed EXCEPT ![id] = 0] /\ blocked' = [blocked EXCEPT ![id] = {}]
        /\ tblRef' = tblRef + 1 /\ ret' = "ok"
        /\ UNCHANGED <<lock, registered, modVars>>
    BY <1>2 DEF AddSyscallVector
  <2> HIDE DEF id
  <2> QED
    BY <2>1, <2>2 DEF TypeOK, Codes, modVars
<1> QED
  BY <1>1, <1>2 DEF AddSyscallVector

LEMMA RemoveVectorTypeOK ==
  ASSUME TypeOK, NEW v \in Ids, RemoveSyscallVector(v)
  PROVE  TypeOK'
<1>1. CASE \E code \in Codes : Fail(code)
  BY <1>1, FailTypeOK
<1>2. CASE /\ vectors' = vectors \ {v}
           /\ refcnt' = [refcnt EXCEPT ![v] = 0] /\ blocked' = [blocked EXCEPT ![v] = {}]
           /\ calls' = [calls EXCEPT ![v] = {}] /\ freed' = [freed EXCEPT ![v] = 0]
           /\ tblRef' = tblRef - 1 /\ ret' = "ok"
           /\ UNCHANGED <<lock, registered, modVars>>
  BY <1>2 DEF TypeOK, Codes, modVars
<1> QED
  BY <1>1, <1>2 DEF RemoveSyscallVector, Codes

LEMMA MapTypeOK ==
  ASSUME TypeOK, NEW v \in Ids, NEW n \in Names, AddSyscallToVector(v, n)
  PROVE  TypeOK'
<1>1. CASE \E code \in Codes : Fail(code)
  BY <1>1, FailTypeOK
<1>2. CASE /\ n \in registered /\ v \in vectors
           /\ calls' = [calls EXCEPT ![v] = @ \cup {n}] /\ modRef' = Got(ModOf[n])
           /\ ret' = "ok"
           /\ UNCHANGED <<lock, vectors, refcnt, blocked, freed, registered, tblRef, modState>>
  <2>1. modRef' \in [Modules -> Int]
    BY <1>2, TblAssumption, GotPutType
  <2> QED
    BY <1>2, <2>1 DEF TypeOK, Codes
<1> QED
  BY <1>1, <1>2 DEF AddSyscallToVector, Codes

LEMMA UnmapTypeOK ==
  ASSUME TypeOK, NEW v \in Ids, NEW n \in Names, RemoveSyscallFromVector(v, n)
  PROVE  TypeOK'
<1>1. CASE \E code \in Codes : Fail(code)
  BY <1>1, FailTypeOK
<1>2. CASE /\ v \in vectors
           /\ \/ \E e \in Match(v, NumOf[n]) :
                   calls' = [calls EXCEPT ![v] = @ \ {e}] /\ UNCHANGED freed
              \/ freed[v] > 0 /\ freed' = [freed EXCEPT ![v] = @ - 1] /\ UNCHANGED calls
           /\ modRef' = Put(ModOf[n]) /\ ret' = "ok"
           /\ UNCHANGED <<lock, vectors, refcnt, blocked, registered, tblRef, modState>>
  <2>1. modRef' \in [Modules -> Int]
    BY <1>2, TblAssumption, GotPutType
  <2>2. calls' \in [Ids -> SUBSET registered] /\ freed' \in [Ids -> Nat]
    BY <1>2 DEF TypeOK
  <2>3. \A w \in Ids \ vectors : calls'[w] = calls[w] /\ freed'[w] = freed[w]
    BY <1>2 DEF TypeOK
  <2> QED
    BY <1>2, <2>1, <2>2, <2>3 DEF TypeOK, Codes
<1> QED
  BY <1>1, <1>2 DEF RemoveSyscallFromVector, Codes

\* Block, unblock and lookup.
LEMMA NumTypeOK ==
  ASSUME TypeOK, NumNext
  PROVE  TypeOK'
<1>1. PICK v \in Ids, num \in Nums :
        BlockSyscallNum(v, num) \/ UnblockSyscallNum(v, num) \/ GetSyscallFn(v, num)
  BY DEF NumNext
<1>2. CASE GetSyscallFn(v, num)
  BY <1>2, FailTypeOK DEF GetSyscallFn, Codes
<1>3. CASE LeakLock(v)
  BY <1>3 DEF LeakLock, TypeOK, Codes, vecVars, modVars
<1>4. CASE /\ v \in vectors
           /\ \/ blocked' = [blocked EXCEPT ![v] = @ \cup {num}]
              \/ blocked' = [blocked EXCEPT ![v] = @ \ {num}]
           /\ ret' = "ok"
           /\ UNCHANGED <<lock, vectors, refcnt, calls, freed, registered, tblRef, modVars>>
  BY <1>4 DEF TypeOK, Codes, modVars
<1> QED
  BY <1>1, <1>2, <1>3, <1>4 DEF BlockSyscallNum, UnblockSyscallNum

\* Without a name, a call has no memory or is killed.
LEMMA NoNameSteps ==
  ASSUME NoNameNext
  PROVE  /\ UNCHANGED <<vecVars, registered, tblRef, modVars>>
         /\ Fail("ENOMEM") \/ Oops
BY DEF NoNameNext, AddNoName, RemoveNoName, Fail, Oops, tblVars

\* The critical sections that change the count of a vector.
LEMMA CountTypeOK ==
  ASSUME TypeOK, CountNext
  PROVE  TypeOK'
<1>1. CASE \E code \in Codes : Fail(code)
  BY <1>1, FailTypeOK
<1>2. CASE \E v \in Ids : /\ v \in vectors /\ refcnt' = [refcnt EXCEPT ![v] = @ + 1]
                          /\ ret' = "ok" /\ UNCHANGED CountVars
  BY <1>2 DEF TypeOK, Codes, CountVars, modVars
<1>3. CASE \E v \in Ids : /\ v \in vectors /\ refcnt[v] # 0
                          /\ refcnt' = [refcnt EXCEPT ![v] = @ - 1]
                          /\ ret' = "ok" /\ UNCHANGED CountVars
  BY <1>3 DEF TypeOK, Codes, CountVars, modVars
<1>4. CASE \E old, v \in Ids :
             /\ old # v /\ {v, old} \subseteq vectors /\ refcnt[old] # 0
             /\ refcnt' = [refcnt EXCEPT ![old] = @ - 1, ![v] = @ + 1]
             /\ ret' = "ok" /\ UNCHANGED CountVars
  BY <1>4 DEF TypeOK, Codes, CountVars, modVars
<1> QED
  BY <1>1, <1>2, <1>3, <1>4 DEF CountNext, ReturnEarly, TakeRef, DropRef, MoveRef, Codes

LEMMA NextTypeOK ==
  ASSUME TypeOK, [Next]_vars
  PROVE  TypeOK'
<1>1. CASE LoaderNext
  BY <1>1, LoaderTypeOK
<1>2. CASE NameNext
  BY <1>2, RegisterTypeOK, UnregisterTypeOK DEF NameNext
<1>3. CASE MapNext
  BY <1>3, MapTypeOK, UnmapTypeOK DEF MapNext
<1>4. CASE VectorNext
  BY <1>4, AddVectorTypeOK, RemoveVectorTypeOK DEF VectorNext
<1>5. CASE NumNext
  BY <1>5, NumTypeOK
<1>6. CASE CountNext
  BY <1>6, CountTypeOK
<1>7. CASE NoNameNext
  BY <1>7, NoNameSteps DEF TypeOK, Codes, Fail, Oops, tblVars, vecVars, modVars
<1>8. CASE UNCHANGED vars
  BY <1>8 DEF TypeOK, vars, tblVars, vecVars, modVars
<1> QED
  BY <1>1, <1>2, <1>3, <1>4, <1>5, <1>6, <1>7, <1>8 DEF Next, TableNext

\* Every reachable state of the table has the shape that TypeOK gives, whoever
\* calls it: an entry that is not freed names a registered call, the count of
\* a vector is never negative, and an id on no list has nothing attached.
THEOREM TypeCorrect == Spec => []TypeOK
<1>1. TypeOK /\ [Next]_vars => TypeOK'
  BY NextTypeOK
<1> QED
  BY <1>1, InitTypeOK, PTL DEF Spec

-----------------------------------------------------------------------------
(* The references the table holds on its own module.                        *)

LEMMA Finite ==
  ASSUME TypeOK
  PROVE  IsFiniteSet(vectors) /\ IsFiniteSet(registered)
<1>1. IsFiniteSet(Ids)
  BY TblAssumption, FS_Interval DEF Ids
<1>2. vectors \in SUBSET Ids /\ registered \in SUBSET Names
  BY DEF TypeOK
<1> QED
  BY <1>1, <1>2, TblAssumption, FS_Subset

\* What is on the two lists, and the count, change in four operations only.
LEMMA QuietSteps ==
  ASSUME LoaderNext \/ MapNext \/ NoNameNext \/ NumNext \/ CountNext \/ UNCHANGED vars
  PROVE  UNCHANGED <<vectors, registered, tblRef>>
<1>1. CASE LoaderNext
  BY <1>1 DEF LoaderNext, ModuleInit, ModuleLive, ModuleDelete, ModuleGone, LoaderStep, tblVars, vecVars
<1>2. CASE MapNext
  BY <1>2 DEF MapNext, AddSyscallToVector, RemoveSyscallFromVector, Fail, tblVars, vecVars
<1>3. CASE NumNext
  BY <1>3 DEF NumNext, BlockSyscallNum, UnblockSyscallNum, GetSyscallFn, LeakLock, Fail, tblVars, vecVars
<1>4. CASE CountNext
  BY <1>4 DEF CountNext, ReturnEarly, TakeRef, DropRef, MoveRef, CountVars, Fail, tblVars, vecVars
<1>5. CASE NoNameNext
  BY <1>5, NoNameSteps DEF vecVars
<1>6. CASE UNCHANGED vars
  BY <1>6 DEF vars, tblVars, vecVars
<1> QED
  BY <1>1, <1>2, <1>3, <1>4, <1>5, <1>6

LEMMA NameTblRef ==
  ASSUME TypeOK, TblRefExact, NameNext
  PROVE  TblRefExact'
<1>1. PICK n \in Names : RegisterSyscall(n) \/ UnregisterSyscall(n)
  BY DEF NameNext
<1>2. CASE \E code \in Codes : Fail(code)
  BY <1>2 DEF Fail, tblVars, vecVars, TblRefExact
<1>3. CASE /\ n \notin registered /\ registered' = registered \cup {n}
           /\ tblRef' = tblRef + 1 /\ UNCHANGED vectors
  <2>1. Cardinality(registered') = Cardinality(registered) + 1
    BY <1>3, Finite, FS_AddElement
  <2> QED
    BY <1>3, <2>1, Finite, FS_CardinalityType DEF TblRefExact
<1>4. CASE /\ n \in registered /\ registered' = registered \ {n}
           /\ tblRef' = tblRef - 1 /\ UNCHANGED vectors
  <2>1. Cardinality(registered') = Cardinality(registered) - 1
    BY <1>4, Finite, FS_RemoveElement
  <2> QED
    BY <1>4, <2>1, Finite, FS_CardinalityType DEF TblRefExact
<1> QED
  BY <1>1, <1>2, <1>3, <1>4 DEF RegisterSyscall, UnregisterSyscall, vecVars, Codes

LEMMA VectorTblRef ==
  ASSUME TypeOK, TblRefExact, VectorNext
  PROVE  TblRefExact'
<1>1. CASE \E code \in Codes : Fail(code)
  BY <1>1 DEF Fail, tblVars, vecVars, TblRefExact
<1>2. CASE /\ vectors' = vectors \cup {NextVectorId(vectors)}
           /\ tblRef' = tblRef + 1 /\ UNCHANGED registered
  <2>1. NextVectorId(vectors) \notin vectors
    BY FreshId, TblAssumption DEF TypeOK, Ids
  <2>2. Cardinality(vectors') = Cardinality(vectors) + 1
    BY <1>2, <2>1, Finite, FS_AddElement
  <2> QED
    BY <1>2, <2>2, Finite, FS_CardinalityType DEF TblRefExact
<1>3. CASE \E v \in vectors : /\ vectors' = vectors \ {v}
                              /\ tblRef' = tblRef - 1 /\ UNCHANGED registered
  <2>1. Cardinality(vectors') = Cardinality(vectors) - 1
    BY <1>3, Finite, FS_RemoveElement
  <2> QED
    BY <1>3, <2>1, Finite, FS_CardinalityType DEF TblRefExact
<1> QED
  BY <1>1, <1>2, <1>3 DEF VectorNext, AddSyscallVector, RemoveSyscallVector, Codes

\* Whoever calls it, and in whatever order, the table holds one reference on
\* SYSCALL_MODULE for every vector and every registered call: rmmod of the
\* table cannot succeed while exit_syscall_tbl would free a list in use.
THEOREM TblRefCorrect == Spec => []TblRefExact
<1>1. Init => TblRefExact
  BY FS_EmptySet DEF Init, TblRefExact
<1>2. TypeOK /\ TblRefExact /\ [Next]_vars => TblRefExact'
  <2> SUFFICES ASSUME TypeOK, TblRefExact, [Next]_vars PROVE TblRefExact'
    OBVIOUS
  <2>1. CASE NameNext
    BY <2>1, NameTblRef
  <2>2. CASE VectorNext
    BY <2>2, VectorTblRef
  <2>3. CASE LoaderNext \/ MapNext \/ NoNameNext \/ NumNext \/ CountNext \/ UNCHANGED vars
    BY <2>3, QuietSteps DEF TblRefExact
  <2> QED
    BY <2>1, <2>2, <2>3 DEF Next, TableNext
<1> QED
  BY <1>1, <1>2, TypeCorrect, PTL DEF Spec

-----------------------------------------------------------------------------
(* One override per number.                                                 *)

\* What a vector maps grows in one operation only.
LEMMA CallsGrow ==
  ASSUME TypeOK, [Next]_vars
  PROVE  \/ \A w \in Ids : calls'[w] \subseteq calls[w]
         \/ \E v \in Ids, n \in Names :
              MayMiss(v, NumOf[n]) /\ calls' = [calls EXCEPT ![v] = @ \cup {n}]
<1>1. CASE LoaderNext
  BY <1>1 DEF LoaderNext, ModuleInit, ModuleLive, ModuleDelete, ModuleGone, LoaderStep, tblVars, vecVars
<1>2. CASE NameNext
  BY <1>2 DEF NameNext, RegisterSyscall, UnregisterSyscall, Fail, tblVars, vecVars, TypeOK
<1>3. CASE MapNext
  <2>1. PICK v \in Ids, n \in Names : AddSyscallToVector(v, n) \/ RemoveSyscallFromVector(v, n)
    BY <1>3 DEF MapNext
  <2>2. CASE AddSyscallToVector(v, n)
    BY <2>2 DEF AddSyscallToVector, Fail, tblVars, vecVars
  <2>3. CASE RemoveSyscallFromVector(v, n)
    BY <2>3 DEF RemoveSyscallFromVector, Fail, tblVars, vecVars, TypeOK
  <2> QED
    BY <2>1, <2>2, <2>3
<1>4. CASE VectorNext
  BY <1>4 DEF VectorNext, AddSyscallVector, RemoveSyscallVector, Fail, tblVars, vecVars, TypeOK
<1>5. CASE NumNext
  BY <1>5 DEF NumNext, BlockSyscallNum, UnblockSyscallNum, GetSyscallFn, LeakLock, Fail, tblVars, vecVars
<1>6. CASE CountNext
  BY <1>6 DEF CountNext, ReturnEarly, TakeRef, DropRef, MoveRef, CountVars, Fail, tblVars, vecVars
<1>7. CASE NoNameNext
  BY <1>7, NoNameSteps DEF vecVars
<1>8. CASE UNCHANGED vars
  BY <1>8 DEF vars, tblVars, vecVars
<1> QED
  BY <1>1, <1>2, <1>3, <1>4, <1>5, <1>6, <1>7, <1>8 DEF Next, TableNext

\* Whoever calls it, no vector ever has two live overrides of one number.
THEOREM OneEntryCorrect == Spec => []OneEntryPerNum
<1>1. Init => OneEntryPerNum
  BY DEF Init, OneEntryPerNum
<1>2. TypeOK /\ OneEntryPerNum /\ [Next]_vars => OneEntryPerNum'
  <2> SUFFICES ASSUME TypeOK, OneEntryPerNum, [Next]_vars PROVE OneEntryPerNum'
    OBVIOUS
  <2>1. CASE \A w \in Ids : calls'[w] \subseteq calls[w]
    BY <2>1 DEF OneEntryPerNum
  <2>2. ASSUME NEW v \in Ids, NEW n \in Names, MayMiss(v, NumOf[n]),
               calls' = [calls EXCEPT ![v] = @ \cup {n}]
        PROVE  OneEntryPerNum'
    BY <2>2 DEF OneEntryPerNum, MayMiss, Match, TypeOK
  <2> QED
    BY <2>1, <2>2, CallsGrow
<1> QED
  BY <1>1, <1>2, TypeCorrect, PTL DEF Spec

-----------------------------------------------------------------------------
(* The references on the modules of the overrides.                          *)

\* ModRefExact by itself is not inductive: that a module being removed has no
\* mapping left, that unregister_syscall then finds no entry to orphan, and
\* that a registered call has a loaded module are needed with it.
RegisteredLoaded == \A n \in registered : modState[ModOf[n]] # "unloaded"
PinInv == ModRefExact /\ NoFreedEntry /\ MappedModuleLoaded /\ RegisteredLoaded

LEMMA MappingsFinite ==
  ASSUME NEW m \in Modules
  PROVE  /\ IsFiniteSet(Mappings(m)) /\ Cardinality(Mappings(m)) \in Nat
         /\ Cardinality(Mappings(m)) = 0 <=> Mappings(m) = {}
<1>0. IsFiniteSet(Ids) /\ IsFiniteSet(Names)
  BY TblAssumption, FS_Interval DEF Ids
<1>1. IsFiniteSet(Ids \X Names)
  BY <1>0, FS_Product
<1>2. Mappings(m) \in SUBSET (Ids \X Names)
  BY DEF Mappings
<1>3. IsFiniteSet(Mappings(m))
  BY <1>1, <1>2, FS_Subset
<1> QED
  BY <1>3, FS_CardinalityType, FS_EmptySet

\* Without new entries and module events nothing moves.
LEMMA PinFrame ==
  ASSUME PinInv, UNCHANGED <<calls, freed, modVars>>, registered' \subseteq registered
  PROVE  PinInv'
<1>1. \A m \in Modules : Mappings(m)' = Mappings(m)
  BY DEF Mappings
<1>2. \A m \in Modules : BaseRef(m)' = BaseRef(m)
  BY DEF BaseRef, modVars
<1> QED
  BY <1>1, <1>2 DEF PinInv, ModRefExact, NoFreedEntry, MappedModuleLoaded, RegisteredLoaded, modVars

LEMMA FailPin ==
  ASSUME PinInv, NEW code, Fail(code)
  PROVE  PinInv'
BY PinFrame DEF Fail, tblVars, vecVars, modVars

LEMMA LoaderPin ==
  ASSUME TypeOK, PinInv, LoaderNext
  PROVE  PinInv'
<1>1. PICK m \in Modules : ModuleInit(m) \/ ModuleLive(m) \/ ModuleDelete(m) \/ ModuleGone(m)
  BY DEF LoaderNext
<1>2. UNCHANGED <<calls, freed, registered>>
  BY <1>1 DEF ModuleInit, ModuleLive, ModuleDelete, ModuleGone, LoaderStep, tblVars, vecVars
<1>3. \A k \in Modules : Mappings(k)' = Mappings(k)
  BY <1>2 DEF Mappings
<1>4. modState[m] \in {"unloaded", "going"} => Mappings(m) = {}
  BY DEF PinInv, MappedModuleLoaded, Mappings
<1>5. ModuleDelete(m) => Mappings(m) = {}
  BY MappingsFinite DEF ModuleDelete, PinInv, ModRefExact, BaseRef
<1>6. \A k \in Modules \ {m} : modState'[k] = modState[k] /\ modRef'[k] = modRef[k]
  BY <1>1 DEF ModuleInit, ModuleLive, ModuleDelete, ModuleGone, TypeOK
<1>7. modRef'[m] = BaseRef(m)' + Cardinality(Mappings(m))
  <2>1. CASE ModuleInit(m)
    BY <2>1, <1>4, MappingsFinite DEF ModuleInit, BaseRef, TypeOK
  <2>2. CASE ModuleLive(m)
    BY <2>2, MappingsFinite DEF ModuleLive, BaseRef, TypeOK, PinInv, ModRefExact
  <2>3. CASE ModuleDelete(m)
    BY <2>3, <1>5, MappingsFinite DEF ModuleDelete, BaseRef, TypeOK
  <2>4. CASE ModuleGone(m)
    BY <2>4, MappingsFinite DEF ModuleGone, BaseRef, TypeOK, PinInv, ModRefExact
  <2> QED
    BY <1>1, <2>1, <2>2, <2>3, <2>4
<1>8. ModRefExact'
  <2>1. \A k \in Modules \ {m} : BaseRef(k)' = BaseRef(k)
    BY <1>6 DEF BaseRef
  <2> QED
    BY <1>3, <1>6, <1>7, <2>1 DEF ModRefExact, PinInv
<1>9. MappedModuleLoaded'
  <2>1. \A v \in Ids : \A n \in calls[v] : n \in Names /\ ModOf[n] \in Modules
    BY TblAssumption DEF TypeOK
  <2>2. ASSUME modState'[m] \in {"unloaded", "going"}, NEW v \in Ids, NEW n \in calls[v]
        PROVE  ModOf[n] # m
    <3>1. Mappings(m) = {}
      BY <1>1, <1>4, <1>5, <2>2 DEF ModuleInit, ModuleLive, ModuleDelete, ModuleGone, TypeOK
    <3>2. ModOf[n] = m => <<v, n>> \in Mappings(m)
      BY <2>1 DEF Mappings
    <3> QED
      BY <3>1, <3>2
  <2>3. modState'[m] \in {"unloaded", "coming", "live", "going"}
    BY <1>1 DEF ModuleInit, ModuleLive, ModuleDelete, ModuleGone, TypeOK
  <2> QED
    BY <1>2, <1>6, <2>1, <2>2, <2>3 DEF MappedModuleLoaded, PinInv
<1>10. RegisteredLoaded'
  <2>1. \A n \in registered : ModOf[n] \in Modules
    BY TblAssumption DEF TypeOK
  <2>2. modState'[m] = "unloaded" => \A n \in registered : ModOf[n] # m
    BY <1>1 DEF ModuleInit, ModuleLive, ModuleDelete, ModuleGone, TypeOK
  <2> QED
    BY <1>2, <1>6, <2>1, <2>2 DEF RegisteredLoaded, PinInv
<1> QED
  BY <1>2, <1>8, <1>9, <1>10 DEF PinInv, NoFreedEntry

LEMMA RegisterPin ==
  ASSUME TypeOK, PinInv, NEW n \in Names, RegisterSyscall(n)
  PROVE  PinInv'
<1>1. CASE \E code : Fail(code)
  BY <1>1, FailPin
<1>2. CASE registered' = registered \cup {n} /\ UNCHANGED <<vecVars, modVars>>
  <2>1. \A m \in Modules : Mappings(m)' = Mappings(m) /\ BaseRef(m)' = BaseRef(m)
    BY <1>2 DEF Mappings, BaseRef, vecVars, modVars
  <2>2. modState[ModOf[n]] = "coming"
    BY DEF RegisterSyscall
  <2> QED
    BY <1>2, <2>1, <2>2
    DEF PinInv, ModRefExact, NoFreedEntry, MappedModuleLoaded, RegisteredLoaded, vecVars, modVars
<1> QED
  BY <1>1, <1>2 DEF RegisterSyscall

\* unregister_syscall in the init or the exit of the module: the comparison
\* of module_refcount with 1 is passed only when no vector maps the module.
LEMMA UnregisterFrame ==
  ASSUME PinClauses \subseteq Contract, TypeOK, PinInv, NEW n \in Names, UnregisterSyscall(n)
  PROVE  UNCHANGED <<calls, freed, modVars>> /\ registered' \subseteq registered
<1>1. CASE \E code : Fail(code)
  BY <1>1 DEF Fail, tblVars, vecVars
<1>2. CASE /\ n \in registered /\ modRef[ModOf[n]] <= 1
           /\ registered' = registered \ {n}
           /\ calls' = [v \in Ids |-> calls[v] \ {n}]
           /\ freed' = [v \in Ids |-> IF n \in calls[v] THEN freed[v] + 1 ELSE freed[v]]
           /\ UNCHANGED modVars
  <2> DEFINE m == ModOf[n]
  <2>1. m \in Modules /\ modState[m] \in {"coming", "going"}
    BY TblAssumption DEF UnregisterSyscall, Keeps, PinClauses
  <2>2. Mappings(m) = {}
    <3>1. CASE modState[m] = "coming"
      BY <1>2, <2>1, <3>1, MappingsFinite DEF PinInv, ModRefExact, BaseRef
    <3>2. CASE modState[m] = "going"
      BY <3>2 DEF PinInv, MappedModuleLoaded, Mappings
    <3> QED
      BY <2>1, <3>1, <3>2
  <2>3. ASSUME NEW v \in Ids, n \in calls[v] PROVE FALSE
    <3>1. <<v, n>> \in Mappings(m)
      BY <2>3 DEF Mappings
    <3> QED
      BY <2>2, <3>1
  <2>4. calls' = calls /\ freed' = freed
    BY <1>2, <2>3 DEF TypeOK
  <2> QED
    BY <1>2, <2>4
<1> QED
  BY <1>1, <1>2 DEF UnregisterSyscall

\* A vector is added empty and, by these callers, removed empty.
LEMMA VectorFrame ==
  ASSUME PinClauses \subseteq Contract, TypeOK, PinInv, VectorNext
  PROVE  UNCHANGED <<calls, freed, modVars, registered>>
<1>1. CASE \E code : Fail(code)
  BY <1>1 DEF Fail, tblVars, vecVars
<1>2. CASE ~ \E code : Fail(code)
  <2>1. UNCHANGED <<registered, modVars>>
    BY <1>2 DEF VectorNext, AddSyscallVector, RemoveSyscallVector
  <2>2. PICK v \in Ids : /\ calls' = [calls EXCEPT ![v] = {}] /\ freed' = [freed EXCEPT ![v] = 0]
                         /\ calls[v] = {} /\ freed[v] = 0
    <3>1. CASE AddSyscallVector
      <4>1. NextVectorId(vectors) \in Ids \ vectors
        BY <1>2, <3>1, FreshId, TblAssumption DEF AddSyscallVector, TypeOK, Ids
      <4> QED
        BY <1>2, <3>1, <4>1 DEF AddSyscallVector, TypeOK
    <3>2. CASE \E v \in Ids : RemoveSyscallVector(v)
      BY <1>2, <3>2 DEF RemoveSyscallVector, Keeps, PinClauses
    <3> QED
      BY <3>1, <3>2 DEF VectorNext
  <2>3. calls' = calls /\ freed' = freed
    BY <2>2 DEF TypeOK
  <2> QED
    BY <2>1, <2>3
<1> QED
  BY <1>1, <1>2

LEMMA MapPin ==
  ASSUME PinClauses \subseteq Contract, TypeOK, PinInv,
         NEW v \in Ids, NEW n \in Names, AddSyscallToVector(v, n)
  PROVE  PinInv'
<1>1. CASE \E code : Fail(code)
  BY <1>1, FailPin
<1>2. CASE /\ n \in registered /\ v \in vectors /\ MayMiss(v, NumOf[n])
           /\ calls' = [calls EXCEPT ![v] = @ \cup {n}] /\ modRef' = Got(ModOf[n])
           /\ UNCHANGED <<freed, registered, modState>>
  <2> DEFINE m == ModOf[n]
  <2>1. m \in Modules /\ modState[m] \in {"coming", "live"}
    BY <1>2, TblAssumption DEF AddSyscallToVector, Keeps, PinClauses, PinInv, RegisteredLoaded, TypeOK
  <2>2. modRef[m] >= 0
    BY <2>1, MappingsFinite DEF PinInv, ModRefExact, BaseRef
  <2>3. modRef' = [modRef EXCEPT ![m] = @ + 1]
    BY <1>2, <2>1, <2>2 DEF Got
  <2>4. n \notin calls[v]
    BY <1>2 DEF MayMiss, Match
  <2>5. Mappings(m)' = Mappings(m) \cup {<<v, n>>} /\ <<v, n>> \notin Mappings(m)
    BY <1>2, <2>4 DEF Mappings, TypeOK
  <2>6. \A k \in Modules \ {m} : Mappings(k)' = Mappings(k)
    BY <1>2 DEF Mappings, TypeOK
  <2>7. \A k \in Modules : BaseRef(k)' = BaseRef(k)
    BY <1>2 DEF BaseRef
  <2>8. Cardinality(Mappings(m)') = Cardinality(Mappings(m)) + 1
    BY <2>1, <2>5, MappingsFinite, FS_AddElement
  <2>9. ModRefExact'
    <3>1. modRef'[m] = BaseRef(m)' + Cardinality(Mappings(m)')
      BY <2>1, <2>3, <2>7, <2>8, MappingsFinite DEF PinInv, ModRefExact, TypeOK, BaseRef
    <3>2. \A k \in Modules \ {m} : modRef'[k] = BaseRef(k)' + Cardinality(Mappings(k)')
      BY <2>3, <2>6, <2>7 DEF PinInv, ModRefExact, TypeOK
    <3> QED
      BY <3>1, <3>2 DEF ModRefExact
  <2>10. MappedModuleLoaded'
    BY <1>2, <2>1 DEF PinInv, MappedModuleLoaded, TypeOK
  <2> QED
    BY <1>2, <2>9, <2>10 DEF PinInv, NoFreedEntry, RegisteredLoaded
<1> QED
  BY <1>1, <1>2 DEF AddSyscallToVector

LEMMA UnmapPin ==
  ASSUME PinClauses \subseteq Contract, TypeOK, PinInv,
         NEW v \in Ids, NEW n \in Names, RemoveSyscallFromVector(v, n)
  PROVE  PinInv'
<1>1. CASE \E code : Fail(code)
  BY <1>1, FailPin
<1>2. CASE /\ \/ \E e \in Match(v, NumOf[n]) :
                   calls' = [calls EXCEPT ![v] = @ \ {e}] /\ UNCHANGED freed
              \/ freed[v] > 0
           /\ modRef' = Put(ModOf[n])
           /\ UNCHANGED <<registered, modState>>
  <2> DEFINE m == ModOf[n]
  <2>1. freed[v] = 0 /\ Match(v, NumOf[n]) \subseteq {n}
    BY DEF RemoveSyscallFromVector, Keeps, PinClauses, PinInv, NoFreedEntry
  <2>2. n \in calls[v] /\ calls' = [calls EXCEPT ![v] = @ \ {n}] /\ UNCHANGED freed
    BY <1>2, <2>1 DEF Match
  <2>3. m \in Modules /\ <<v, n>> \in Mappings(m)
    BY <2>2, TblAssumption DEF Mappings
  <2>4. modState[m] \in {"coming", "live"}
    BY <2>2 DEF PinInv, MappedModuleLoaded
  <2>5. modRef[m] \in Int /\ modRef[m] > -1
    BY <2>3, <2>4, MappingsFinite DEF PinInv, ModRefExact, BaseRef, TypeOK
  <2>6. modRef' = [modRef EXCEPT ![m] = @ - 1]
    BY <1>2, <2>5 DEF Put
  <2>7. Mappings(m)' = Mappings(m) \ {<<v, n>>}
    BY <2>2 DEF Mappings, TypeOK
  <2>8. \A k \in Modules \ {m} : Mappings(k)' = Mappings(k)
    BY <2>2 DEF Mappings, TypeOK
  <2>9. \A k \in Modules : BaseRef(k)' = BaseRef(k)
    BY <1>2 DEF BaseRef
  <2>10. Cardinality(Mappings(m)') = Cardinality(Mappings(m)) - 1
    BY <2>3, <2>7, MappingsFinite, FS_RemoveElement
  <2>11. ModRefExact'
    <3>1. modRef'[m] = BaseRef(m)' + Cardinality(Mappings(m)')
      BY <2>3, <2>6, <2>9, <2>10, MappingsFinite DEF PinInv, ModRefExact, TypeOK, BaseRef
    <3>2. \A k \in Modules \ {m} : modRef'[k] = BaseRef(k)' + Cardinality(Mappings(k)')
      BY <2>6, <2>8, <2>9 DEF PinInv, ModRefExact, TypeOK
    <3> QED
      BY <3>1, <3>2 DEF ModRefExact
  <2>12. MappedModuleLoaded'
    BY <1>2, <2>2 DEF PinInv, MappedModuleLoaded, TypeOK
  <2> QED
    BY <1>2, <2>2, <2>11, <2>12 DEF PinInv, NoFreedEntry, RegisteredLoaded
<1> QED
  BY <1>1, <1>2 DEF RemoveSyscallFromVector

LEMMA NumCountFrame ==
  ASSUME NoNameNext \/ NumNext \/ CountNext \/ UNCHANGED vars
  PROVE  UNCHANGED <<calls, freed, modVars, registered>>
<1>1. CASE NumNext
  BY <1>1 DEF NumNext, BlockSyscallNum, UnblockSyscallNum, GetSyscallFn, LeakLock, Fail, tblVars, vecVars
<1>2. CASE CountNext
  BY <1>2 DEF CountNext, ReturnEarly, TakeRef, DropRef, MoveRef, CountVars, Fail, tblVars, vecVars
<1>3. CASE NoNameNext
  BY <1>3, NoNameSteps DEF vecVars
<1>4. CASE UNCHANGED vars
  BY <1>4 DEF vars, tblVars, vecVars
<1> QED
  BY <1>1, <1>2, <1>3, <1>4

LEMMA PinStep ==
  ASSUME PinClauses \subseteq Contract, TypeOK, PinInv, [Next]_vars
  PROVE  PinInv'
<1>1. CASE LoaderNext
  BY <1>1, LoaderPin
<1>2. CASE NameNext
  BY <1>2, RegisterPin, UnregisterFrame, PinFrame DEF NameNext
<1>3. CASE MapNext
  BY <1>3, MapPin, UnmapPin DEF MapNext
<1>4. CASE VectorNext
  BY <1>4, VectorFrame, PinFrame
<1>5. CASE NoNameNext \/ NumNext \/ CountNext \/ UNCHANGED vars
  BY <1>5, NumCountFrame, PinFrame
<1> QED
  BY <1>1, <1>2, <1>3, <1>4, <1>5 DEF Next, TableNext

LEMMA InitPin == Init => PinInv
<1> SUFFICES ASSUME Init PROVE PinInv
  OBVIOUS
<1>1. \A m \in Modules : Mappings(m) = {}
  BY DEF Init, Mappings
<1>2. \A m \in Modules : Cardinality(Mappings(m)) = 0
  BY <1>1, FS_EmptySet
<1> QED
  BY <1>2 DEF Init, PinInv, ModRefExact, BaseRef, NoFreedEntry, MappedModuleLoaded, RegisteredLoaded

\* With callers that follow the rules, the module counts that the table leaves
\* behind are exact: each module has one reference per vector entry and, while
\* its init runs, the loader's.
THEOREM ModRefCorrect ==
  ASSUME PinClauses \subseteq Contract
  PROVE  Spec => []ModRefExact
<1>1. TypeOK /\ PinInv /\ [Next]_vars => PinInv'
  BY PinStep
<1>2. PinInv => ModRefExact
  BY DEF PinInv
<1> QED
  BY <1>1, <1>2, InitPin, TypeCorrect, PTL DEF Spec

LEMMA PinInvCorrect ==
  ASSUME PinClauses \subseteq Contract
  PROVE  Spec => [](TypeOK /\ PinInv)
<1>1. TypeOK /\ PinInv /\ [Next]_vars => PinInv'
  BY PinStep
<1> QED
  BY <1>1, InitPin, TypeCorrect, PTL DEF Spec

\* With such callers no entry is ever orphaned: unregister_syscall never frees
\* a syscall_t that a vector still points to.
THEOREM NoFreedCorrect ==
  ASSUME PinClauses \subseteq Contract
  PROVE  Spec => []NoFreedEntry
<1>1. PinInv => NoFreedEntry
  BY DEF PinInv
<1> QED
  BY <1>1, PinInvCorrect, PTL

\* With such callers every mapped override belongs to a module that is loaded
\* and not being removed: dispatch finds live code.
THEOREM MappedLoadedCorrect ==
  ASSUME PinClauses \subseteq Contract
  PROVE  Spec => []MappedModuleLoaded
<1>1. PinInv => MappedModuleLoaded
  BY DEF PinInv
<1> QED
  BY <1>1, PinInvCorrect, PTL

-----------------------------------------------------------------------------
(* Errors.                                                                  *)

\* Every exit with an error code is one that has done nothing, except the two
\* of block and unblock that leave the lock behind.
LEMMA ErrorStep ==
  ASSUME Next, ret' \in Errors
  PROVE  \/ \E code : Fail(code)
         \/ \E v \in Ids, num \in Nums : BlockSyscallNum(v, num) \/ UnblockSyscallNum(v, num)
<1> USE DEF Errors
<1>1. CASE LoaderNext
  BY <1>1 DEF LoaderNext, ModuleInit, ModuleLive, ModuleDelete, ModuleGone, LoaderStep
<1>2. CASE NameNext
  BY <1>2 DEF NameNext, RegisterSyscall, UnregisterSyscall
<1>3. CASE MapNext
  BY <1>3 DEF MapNext, AddSyscallToVector, RemoveSyscallFromVector
<1>4. CASE VectorNext
  BY <1>4 DEF VectorNext, AddSyscallVector, RemoveSyscallVector
<1>5. CASE NumNext
  BY <1>5 DEF NumNext, GetSyscallFn
<1>6. CASE CountNext
  BY <1>6 DEF CountNext, ReturnEarly, TakeRef, DropRef, MoveRef
<1>7. CASE NoNameNext
  BY <1>7, NoNameSteps DEF Oops
<1> QED
  BY <1>1, <1>2, <1>3, <1>4, <1>5, <1>6, <1>7 DEF Next, TableNext

\* Callers that block only numbers of existing vectors see all or nothing: no
\* error exit of the table's operations leaves a list, a count, the lock or a
\* module reference changed.
THEOREM ErrorsCorrect ==
  ASSUME "block_existing" \in Contract
  PROVE  Spec => ErrorLeavesNoTrace
<1>1. ASSUME Next, ret' \in Errors PROVE UNCHANGED <<tblVars, modVars>>
  <2>1. CASE \E code : Fail(code)
    BY <2>1 DEF Fail
  <2>2. ASSUME NEW v \in Ids, NEW num \in Nums, BlockSyscallNum(v, num) \/ UnblockSyscallNum(v, num)
        PROVE  FALSE
    BY <1>1, <2>2 DEF BlockSyscallNum, UnblockSyscallNum, LeakLock, Keeps, Errors
  <2> QED
    BY <1>1, <2>1, <2>2, ErrorStep
<1>2. [Next]_vars => [ret' \in Errors => UNCHANGED <<tblVars, modVars>>]_vars
  BY <1>1
<1> QED
  BY <1>2, PTL DEF Spec, ErrorLeavesNoTrace

-----------------------------------------------------------------------------
(* The table keeps the promise of Pinning.                                  *)

\* What an entry holds changes with the one name that is mapped or unmapped.
LEMMA HoldsPoint ==
  ASSUME NEW v \in Ids, NEW n \in Names, TypeOK, NEW new \in SUBSET Modules,
         \A w \in Ids, k \in Names :
           (k \in calls'[w]) <=> IF w = v /\ k = n THEN new # {} ELSE k \in calls[w],
         new = {} \/ new = {ModOf[n]}
  PROVE  EntryHolds' = [EntryHolds EXCEPT ![<<v, n>>] = new]
<1> DEFINE D == Ids \X Names
           H == [EntryHolds EXCEPT ![<<v, n>>] = new]
<1>1. ASSUME NEW e \in D
      PROVE  EntryHolds'[e] = IF e = <<v, n>> THEN new ELSE EntryHolds[e]
  <2>1. PICK w \in Ids, k \in Names : e = <<w, k>>
    OBVIOUS
  <2>2. EntryHolds[e] = IF k \in calls[w] THEN {ModOf[k]} ELSE {}
    BY <2>1 DEF EntryHolds
  <2>3. EntryHolds'[e] = IF k \in calls'[w] THEN {ModOf[k]} ELSE {}
    BY <2>1 DEF EntryHolds
  <2>4. e = <<v, n>> <=> w = v /\ k = n
    BY <2>1
  <2> QED
    BY <2>2, <2>3, <2>4
<1>2. ASSUME NEW e \in D
      PROVE  H[e] = IF e = <<v, n>> THEN new ELSE EntryHolds[e]
  BY DEF EntryHolds
<1>3. EntryHolds' = [e \in D |-> EntryHolds'[e]]
  BY DEF EntryHolds
<1>4. H = [e \in D |-> H[e]]
  BY DEF EntryHolds
<1> HIDE DEF H
<1>5. \A e \in D : EntryHolds'[e] = H[e]
  BY <1>1, <1>2
<1>6. [e \in D |-> EntryHolds'[e]] = [e \in D |-> H[e]]
  BY <1>5
<1>7. EntryHolds' = H
  BY <1>3, <1>4, <1>6
<1> QED
  BY <1>7 DEF H

\* With callers that follow the rules, reference counting does what it is for:
\* the table implements Pinning, with vector entries as the holders of modules.
\* Its try_module_get, module_put, load and unload are Take, Release, Create
\* and Destroy, and nothing else it does can be seen there.
THEOREM ModulesPinnedCorrect ==
  ASSUME PinClauses \subseteq Contract
  PROVE  Spec => ModulesPinned
<1>1. Init => Pins!Init
  BY DEF Init, Pins!Init, LoadedModules, EntryHolds
<1>2. ASSUME TypeOK, PinInv, [Next]_vars
      PROVE  [Pins!Next]_Pins!vars
  <2>1. CASE UNCHANGED <<calls, modState>>
    BY <2>1 DEF Pins!vars, LoadedModules, EntryHolds
  <2>2. CASE LoaderNext
    <3>1. PICK m \in Modules : ModuleInit(m) \/ ModuleLive(m) \/ ModuleDelete(m) \/ ModuleGone(m)
      BY <2>2 DEF LoaderNext
    <3>2. UNCHANGED calls
      BY <3>1 DEF ModuleInit, ModuleLive, ModuleDelete, ModuleGone, LoaderStep, tblVars, vecVars
    <3>3. UNCHANGED EntryHolds
      BY <3>2 DEF EntryHolds
    <3>4. CASE ModuleInit(m)
      <4>1. LoadedModules' = LoadedModules \cup {m} /\ m \notin LoadedModules
        BY <1>2, <3>4 DEF ModuleInit, TypeOK, LoadedModules
      <4> QED
        BY <3>3, <4>1 DEF Pins!Next, Pins!Create
    <3>5. CASE ModuleLive(m)
      <4>1. \A k \in Modules : k \in LoadedModules' <=> k \in LoadedModules
        BY <1>2, <3>5 DEF ModuleLive, TypeOK, LoadedModules
      <4>2. LoadedModules' = LoadedModules
        BY <4>1 DEF LoadedModules
      <4> QED
        BY <3>3, <4>2 DEF Pins!vars
    <3>6. CASE ModuleGone(m)
      <4>1. \A k \in Modules : k \in LoadedModules' <=> k \in LoadedModules
        BY <1>2, <3>6 DEF ModuleGone, TypeOK, LoadedModules
      <4>2. LoadedModules' = LoadedModules
        BY <4>1 DEF LoadedModules
      <4> QED
        BY <3>3, <4>2 DEF Pins!vars
    <3>7. CASE ModuleDelete(m)
      <4>1. \A k \in Modules : k \in LoadedModules' <=> k \in LoadedModules /\ k # m
        BY <1>2, <3>7 DEF ModuleDelete, TypeOK, LoadedModules
      <4>2. LoadedModules' = LoadedModules \ {m} /\ m \in LoadedModules
        <5>1. LoadedModules' \subseteq Modules /\ LoadedModules \subseteq Modules
          BY DEF LoadedModules
        <5>2. m \in LoadedModules
          BY <3>7 DEF ModuleDelete, LoadedModules
        <5> QED
          BY <4>1, <5>1, <5>2
      <4>3. Cardinality(Mappings(m)) = 0
        <5>1. modState[m] = "live" /\ modRef[m] = 0
          BY <3>7 DEF ModuleDelete
        <5>2. modRef[m] = 0 + Cardinality(Mappings(m))
          BY <1>2, <5>1 DEF PinInv, ModRefExact, BaseRef
        <5> QED
          BY <5>1, <5>2, MappingsFinite, FS_CardinalityType
      <4>4. Mappings(m) = {}
        BY <4>3, MappingsFinite, FS_EmptySet
      <4>5. ASSUME NEW e \in Ids \X Names
            PROVE  m \notin EntryHolds[e]
        <5>1. ~ (e[2] \in calls[e[1]] /\ ModOf[e[2]] = m)
          BY <4>4 DEF Mappings
        <5> QED
          BY <5>1 DEF EntryHolds
      <4> QED
        BY <3>3, <4>2, <4>5 DEF Pins!Next, Pins!Destroy
    <3> QED
      BY <3>1, <3>4, <3>5, <3>6, <3>7
  <2>3. CASE NameNext
    <3>1. UNCHANGED <<calls, modState>>
      BY <1>2, <2>3, UnregisterFrame
      DEF NameNext, RegisterSyscall, Fail, tblVars, vecVars, modVars
    <3> QED
      BY <2>1, <3>1
  <2>4. CASE VectorNext \/ NoNameNext \/ NumNext \/ CountNext \/ UNCHANGED vars
    BY <1>2, <2>1, <2>4, VectorFrame, NumCountFrame DEF modVars
  <2>5. CASE MapNext
    <3>1. PICK v \in Ids, n \in Names : AddSyscallToVector(v, n) \/ RemoveSyscallFromVector(v, n)
      BY <2>5 DEF MapNext
    <3>2. UNCHANGED modState
      BY <3>1 DEF AddSyscallToVector, RemoveSyscallFromVector, Fail, modVars
    <3>3. CASE UNCHANGED calls
      BY <2>1, <3>2, <3>3
    <3>4. CASE AddSyscallToVector(v, n) /\ ~ UNCHANGED calls
      <4>1. n \in registered /\ calls' = [calls EXCEPT ![v] = @ \cup {n}]
        BY <3>4 DEF AddSyscallToVector, Fail, tblVars, vecVars
      <4>2. ModOf[n] \in Modules /\ modState[ModOf[n]] \in {"coming", "live"}
        BY <3>4, <4>1, <1>2, TblAssumption
        DEF AddSyscallToVector, Keeps, PinClauses, PinInv, RegisteredLoaded, TypeOK
      <4>3. \A w \in Ids, k \in Names :
              (k \in calls'[w]) <=> IF w = v /\ k = n THEN {ModOf[n]} # {} ELSE k \in calls[w]
        BY <4>1, <1>2 DEF TypeOK
      <4>4. EntryHolds' = [EntryHolds EXCEPT ![<<v, n>>] = {ModOf[n]}]
        BY <4>2, <4>3, <1>2, HoldsPoint
      <4>5. UNCHANGED LoadedModules /\ ModOf[n] \in LoadedModules
        BY <3>2, <4>2 DEF LoadedModules
      <4> QED
        BY <4>2, <4>4, <4>5 DEF Pins!Next, Pins!Take
    <3>5. CASE RemoveSyscallFromVector(v, n) /\ ~ UNCHANGED calls
      <4>1. calls' = [calls EXCEPT ![v] = @ \ {n}]
        BY <3>5, <1>2
        DEF RemoveSyscallFromVector, Keeps, PinClauses, Match, Fail, tblVars, vecVars
      <4>2. \A w \in Ids, k \in Names :
              (k \in calls'[w]) <=> IF w = v /\ k = n THEN {} # {} ELSE k \in calls[w]
        BY <4>1, <1>2 DEF TypeOK
      <4>3. EntryHolds' = [EntryHolds EXCEPT ![<<v, n>>] = {}]
        BY <4>2, <1>2, HoldsPoint
      <4>4. UNCHANGED LoadedModules
        BY <3>2 DEF LoadedModules
      <4> QED
        BY <4>3, <4>4 DEF Pins!Next, Pins!Release
    <3> QED
      BY <3>1, <3>3, <3>4, <3>5
  <2> QED
    BY <1>2, <2>2, <2>3, <2>4, <2>5 DEF Next, TableNext
<1>3. TypeOK /\ PinInv /\ [Next]_vars => PinInv'
  BY PinStep
<1> QED
  BY <1>1, <1>2, <1>3, InitPin, TypeCorrect, PTL DEF Spec, ModulesPinned, Pins!Spec

-----------------------------------------------------------------------------
(* The table implements TblSets.                                            *)

LEMMA SetsId == Sets!NextVectorId(vectors) = NextVectorId(vectors)
BY DEF Sets!NextVectorId, NextVectorId, Sets!Gaps, Gaps, Sets!Max, Sets!Min, Max, Min

LEMMA NameSets ==
  ASSUME PinClauses \subseteq Contract, TypeOK, PinInv, NameNext
  PROVE  [Sets!Next]_Sets!vars
<1>1. PICK n \in Names : RegisterSyscall(n) \/ UnregisterSyscall(n)
  BY DEF NameNext
<1>2. CASE \E code : Fail(code)
  BY <1>2 DEF Fail, tblVars, vecVars, Sets!vars
<1>3. CASE RegisterSyscall(n) /\ ~ \E code : Fail(code)
  BY <1>3 DEF RegisterSyscall, vecVars, Sets!Next, Sets!Register
<1>4. CASE UnregisterSyscall(n) /\ ~ \E code : Fail(code)
  <2>1. /\ n \in registered /\ registered' = registered \ {n} /\ UNCHANGED <<vectors, calls>>
        /\ calls' = [v \in Ids |-> calls[v] \ {n}]
    BY <1>4, UnregisterFrame DEF UnregisterSyscall
  <2>2. \A v \in vectors : n \notin calls[v]
    BY <2>1 DEF TypeOK
  <2> QED
    BY <2>1, <2>2 DEF Sets!Next, Sets!Unregister
<1> QED
  BY <1>1, <1>2, <1>3, <1>4

LEMMA VectorSets ==
  ASSUME PinClauses \subseteq Contract, TypeOK, PinInv, VectorNext
  PROVE  [Sets!Next]_Sets!vars
<1>1. CASE \E code : Fail(code)
  BY <1>1 DEF Fail, tblVars, vecVars, Sets!vars
<1>2. CASE AddSyscallVector /\ ~ \E code : Fail(code)
  <2>1. vectors' = vectors \cup {NextVectorId(vectors)} /\ UNCHANGED <<registered, calls>>
    BY <1>2, VectorFrame DEF AddSyscallVector
  <2>2. NextVectorId(vectors) \notin vectors
    BY FreshId, TblAssumption DEF TypeOK, Ids
  <2> QED
    BY <2>1, <2>2, SetsId DEF Sets!Next, Sets!AddVector
<1>3. ASSUME NEW v \in Ids, RemoveSyscallVector(v), ~ \E code : Fail(code)
      PROVE  Sets!Next
  BY <1>3 DEF RemoveSyscallVector, Sets!Next, Sets!RemoveVector
<1> QED
  BY <1>1, <1>2, <1>3 DEF VectorNext

LEMMA MapSets ==
  ASSUME PinClauses \subseteq Contract, TypeOK, PinInv, MapNext
  PROVE  [Sets!Next]_Sets!vars
<1>1. PICK v \in Ids, n \in Names : AddSyscallToVector(v, n) \/ RemoveSyscallFromVector(v, n)
  BY DEF MapNext
<1>2. CASE \E code : Fail(code)
  BY <1>2 DEF Fail, tblVars, vecVars, Sets!vars
<1>3. CASE AddSyscallToVector(v, n) /\ ~ \E code : Fail(code)
  <2>1. /\ n \in registered /\ v \in vectors /\ MayMiss(v, NumOf[n])
        /\ calls' = [calls EXCEPT ![v] = @ \cup {n}] /\ UNCHANGED <<registered, vectors>>
    BY <1>3 DEF AddSyscallToVector
  <2>2. \A m \in calls[v] : NumOf[m] # NumOf[n]
    BY <2>1 DEF MayMiss, Match
  <2> QED
    BY <2>1, <2>2 DEF Sets!Next, Sets!Map
<1>4. CASE RemoveSyscallFromVector(v, n) /\ ~ \E code : Fail(code)
  <2>1. freed[v] = 0 /\ Match(v, NumOf[n]) \subseteq {n}
    BY <1>4 DEF RemoveSyscallFromVector, Keeps, PinClauses, PinInv, NoFreedEntry
  <2>2. /\ v \in vectors /\ UNCHANGED <<registered, vectors>>
        /\ \E e \in Match(v, NumOf[n]) : calls' = [calls EXCEPT ![v] = @ \ {e}]
    BY <1>4, <2>1 DEF RemoveSyscallFromVector
  <2>3. n \in calls[v] /\ calls' = [calls EXCEPT ![v] = @ \ {n}]
    BY <2>1, <2>2 DEF Match
  <2>4. calls[v] \ {n} = {m \in calls[v] : NumOf[m] # NumOf[n]}
    BY <2>1 DEF Match
  <2>5. calls' = [calls EXCEPT ![v] = {m \in @ : NumOf[m] # NumOf[n]}]
    BY <2>3, <2>4
  <2> QED
    BY <2>2, <2>3, <2>5 DEF Sets!Next, Sets!Unmap
<1> QED
  BY <1>1, <1>2, <1>3, <1>4

\* With callers that follow the rules the table is what its callers think it
\* is: seen without its counts and modules, every operation is one of TblSets,
\* or leaves the registered calls, the vectors and what they map alone.
THEOREM ImplementsSetsCorrect ==
  ASSUME PinClauses \subseteq Contract
  PROVE  Spec => ImplementsSets
<1>1. Init => Sets!Init
  BY DEF Init, Sets!Init
<1>2. TypeOK /\ PinInv /\ [Next]_vars => [Sets!Next]_Sets!vars
  <2> SUFFICES ASSUME TypeOK, PinInv, [Next]_vars PROVE [Sets!Next]_Sets!vars
    OBVIOUS
  <2>1. CASE NameNext
    BY <2>1, NameSets
  <2>2. CASE VectorNext
    BY <2>2, VectorSets
  <2>3. CASE MapNext
    BY <2>3, MapSets
  <2>4. CASE LoaderNext
    BY <2>4 DEF LoaderNext, ModuleInit, ModuleLive, ModuleDelete, ModuleGone, LoaderStep,
                tblVars, vecVars, Sets!vars
  <2>5. CASE NoNameNext \/ NumNext \/ CountNext \/ UNCHANGED vars
    BY <2>5, NumCountFrame, QuietSteps DEF Sets!vars
  <2> QED
    BY <2>1, <2>2, <2>3, <2>4, <2>5 DEF Next, TableNext
<1> QED
  BY <1>1, <1>2, PinInvCorrect, PTL DEF Spec, ImplementsSets, Sets!Spec
=============================================================================

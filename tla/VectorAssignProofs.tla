------------------------- MODULE VectorAssignProofs -------------------------
(***************************************************************************)
(* Theorems about VectorAssign: the shape of the state, and, for callers    *)
(* that follow the rules of ProcClauses, that the count of a vector is the  *)
(* number of its processes and that no process is left on a removed vector. *)
(* The lemmas speak of single steps, so that TableModule can use them.       *)
(***************************************************************************)
EXTENDS VectorAssign, SyscallTblProofs

-----------------------------------------------------------------------------
(* The inductive invariant.                                                 *)

\* The labels at which assign_syscall_vector has not looked at the process yet
\* (the second one is TableModule's, before the jump), and the same for an exit.
AssignLabels == {"assign", "assign_hook"}
UnassignLabels == {"unassign", "unassign_hook"}

\* The labels of this module and of TableModule.
AllLabels == Labels \cup AssignLabels \cup UnassignLabels \cup {"clone2", "get_fn_hook"}

\* The shape of the variables that VectorAssign adds.
ProcShape ==
  /\ procState \in [Procs -> {"none", "run", "exiting", "zombie", "reaped"}]
  /\ vec \in [Procs -> VecIds]
  /\ pc \in [Threads -> AllLabels]
  /\ call \in [Threads -> [pid : Procs \cup {NoPid}, new : VecIds, old : VecIds]]

\* What RefcntExact says of the vectors there are, for every id.
CountsExact == \A v \in Ids : refcnt[v] = Cardinality(Users(v))

\* No two calls in progress are for the same process.
Alone ==
  \A t, u \in Threads :
    t # u /\ pc[t] # "idle" /\ pc[u] # "idle" => call[t].pid = NoPid \/ call[t].pid # call[u].pid

\* The steps of a call after the first one, which act on what it has read.
ReadLabels == {"assign_lock", "unassign_lock", "reassign_again", "reassign_lock"}

\* A call in progress is for a process that lives, for one that is gone, or
\* for the caller itself on its exit; and what it has read of that process
\* still is so.
CallSafe(t) ==
  pc[t] # "idle" =>
    /\ call[t].pid \in Procs =>
         /\ \/ procState[call[t].pid] \in {"run", "reaped"}
            \/ procState[call[t].pid] = "exiting" /\ call[t].pid = t
         /\ InTaskList(call[t].pid) /\ pc[t] \in AssignLabels => vec[call[t].pid] \in {0, call[t].new}
    /\ pc[t] \in ReadLabels => InTaskList(call[t].pid)
    /\ pc[t] = "assign_lock" => vec[call[t].pid] = 0 /\ call[t].new # 0
    /\ pc[t] \in {"unassign_lock", "reassign_again", "reassign_lock"} =>
         vec[call[t].pid] # 0 /\ call[t].old = vec[call[t].pid]
    /\ pc[t] \in {"reassign_again", "reassign_lock"} => call[t].new \notin {0, call[t].old}

\* A process is through its exit hook only without a vector, and is in
\* nothing but that hook until then.
ExitSafe(p) ==
  /\ procState[p] = "zombie" => vec[p] = 0
  /\ procState[p] = "exiting" =>
       IF pc[p] = "idle" THEN vec[p] = 0
       ELSE call[p].pid = p /\ pc[p] \in UnassignLabels \cup {"unassign_lock"}

ProcInv ==
  /\ ProcShape
  /\ CountsExact
  /\ Alone
  /\ \A t \in Threads : CallSafe(t)
  /\ \A p \in Procs : ExitSafe(p)

-----------------------------------------------------------------------------
(* The state's shape.                                                       *)

\* The critical sections keep the shape of the table, for any two ids.
LEMMA RefTypeOK ==
  ASSUME TypeOK, NEW v \in VecIds, NEW old \in VecIds,
         TakeRef(v) \/ DropRef(v) \/ MoveRef(old, v)
  PROVE  TypeOK' /\ ret' \in {"ok", "ENOENT", "EPERM"}
<1>1. CASE \E code \in {"ENOENT", "EPERM"} : Fail(code)
  BY <1>1, FailTypeOK DEF Fail, Codes
<1>2. CASE /\ refcnt' \in [Ids -> Nat] /\ \A w \in Ids \ vectors : refcnt'[w] = refcnt[w]
           /\ ret' = "ok" /\ UNCHANGED CountVars
  BY <1>2 DEF TypeOK, Codes, CountVars, modVars
<1>3. CASE v \in vectors /\ refcnt' = [refcnt EXCEPT ![v] = @ + 1] /\ ret' = "ok" /\ UNCHANGED CountVars
  BY <1>2, <1>3 DEF TypeOK
<1>4. CASE /\ v \in vectors /\ refcnt[v] # 0 /\ refcnt' = [refcnt EXCEPT ![v] = @ - 1]
           /\ ret' = "ok" /\ UNCHANGED CountVars
  BY <1>2, <1>4 DEF TypeOK
<1>5. CASE /\ {v, old} \subseteq vectors /\ refcnt[old] # 0
           /\ refcnt' = [refcnt EXCEPT ![old] = @ - 1, ![v] = @ + 1]
           /\ ret' = "ok" /\ UNCHANGED CountVars
  BY <1>2, <1>5 DEF TypeOK
<1> QED
  BY <1>1, <1>3, <1>4, <1>5 DEF TakeRef, DropRef, MoveRef

\* What a thread finds in the record of its call.
LEMMA CallShape ==
  ASSUME ProcShape, NEW t \in Threads
  PROVE  /\ call[t].pid \in Procs \cup {NoPid} /\ call[t].new \in VecIds /\ call[t].old \in VecIds
         /\ Rest \in [pid : Procs \cup {NoPid}, new : VecIds, old : VecIds]
         /\ InTaskList(call[t].pid) => vec[call[t].pid] \in VecIds
BY TblAssumption DEF ProcShape, InTaskList, Rest, VecIds

\* A step of a call moves its own thread and changes at most the vector of
\* the process it is for.
LEMMA ThreadFrame ==
  ASSUME TypeOK, ProcShape, NEW t \in Threads, ThreadStep(t)
  PROVE  /\ UNCHANGED procState
         /\ pc' = [pc EXCEPT ![t] = pc'[t]] /\ pc'[t] \in Labels
         /\ call' = [call EXCEPT ![t] = call'[t]]
         /\ call'[t] \in [pid : Procs \cup {NoPid}, new : VecIds, old : VecIds]
         /\ pc'[t] # "idle" => call'[t].pid = call[t].pid /\ call'[t].new = call[t].new
         /\ \/ UNCHANGED vec
            \/ InTaskList(call[t].pid) /\ \E v \in VecIds : vec' = [vec EXCEPT ![call[t].pid] = v]
<1> USE CallShape DEF Labels, Entries
<1>1. CASE AssignFind(t) \/ ReassignAgain(t)
  BY <1>1 DEF AssignFind, ReassignAgain, Return, Leave, Goto, procVars, ProcShape
<1>2. CASE UnassignFind(t)
  BY <1>2 DEF UnassignFind, Return, Leave, Read, procVars, ProcShape
<1>3. CASE ReassignFind(t)
  BY <1>3 DEF ReassignFind, Return, Leave, Goto, Read, procVars, ProcShape
<1>4. CASE AssignLock(t) \/ UnassignLock(t) \/ ReassignLock(t)
  <2>1. PICK v \in VecIds : Commit(t, v)
    BY <1>4, TblAssumption DEF AssignLock, UnassignLock, ReassignLock, VecIds
  <2> QED
    BY <2>1 DEF Commit, Leave, SetVec, ProcShape
<1> QED
  BY <1>1, <1>2, <1>3, <1>4 DEF ThreadStep

LEMMA ThreadShape ==
  ASSUME TypeOK, ProcShape, NEW t \in Threads, ThreadStep(t)
  PROVE  TypeOK' /\ ProcShape'
<1>1. ProcShape'
  <2>1. pc' \in [Threads -> AllLabels]
    BY ThreadFrame DEF ProcShape, AllLabels
  <2>2. vec' \in [Procs -> VecIds]
    BY ThreadFrame DEF ProcShape
  <2> QED
    BY <2>1, <2>2, ThreadFrame DEF ProcShape
<1>2. CASE \E code \in {"EINVAL", "ok"} : Fail(code)
  BY <1>1, <1>2, FailTypeOK DEF Codes
<1>3. CASE UNCHANGED vars
  BY <1>1, <1>3 DEF TypeOK, vars, tblVars, vecVars, modVars
<1>4. CASE AssignLock(t) \/ UnassignLock(t) \/ ReassignLock(t)
  BY <1>1, <1>4, RefTypeOK, CallShape DEF AssignLock, UnassignLock, ReassignLock
<1> QED
  BY <1>1, <1>2, <1>3, <1>4
  DEF ThreadStep, AssignFind, UnassignFind, ReassignFind, ReassignAgain, Return, Goto, Read

\* A thread enters a call with arguments of the right kind.
LEMMA EnterShape ==
  ASSUME ProcShape, NEW t \in Threads, NEW label \in AllLabels,
         NEW p \in Procs \cup {NoPid}, NEW v \in VecIds, Enter(t, label, p, v)
  PROVE  /\ pc' \in [Threads -> AllLabels]
         /\ call' \in [Threads -> [pid : Procs \cup {NoPid}, new : VecIds, old : VecIds]]
         /\ pc'[t] = label /\ call'[t].pid = p /\ call'[t].new = v
         /\ \A u \in Threads \ {t} : pc'[u] = pc[u] /\ call'[u] = call[u]
BY TblAssumption DEF ProcShape, Enter, VecIds

LEMMA ForkShape ==
  ASSUME ProcShape, NEW c \in Procs, NEW v \in VecIds, Fork(c, v)
  PROVE  /\ procState' \in [Procs -> {"none", "run", "exiting", "zombie", "reaped"}]
         /\ vec' \in [Procs -> VecIds]
         /\ procState'[c] = "run" /\ vec'[c] = v
         /\ \A p \in Procs \ {c} : procState'[p] = procState[p] /\ vec'[p] = vec[p]
BY DEF ProcShape, Fork

\* A fork that inherits leaves the table alone or counts the child.
LEMMA InheritShape ==
  ASSUME TypeOK, ProcShape, NEW p \in Procs,
         IF vec[p] \in vectors THEN TakeRef(vec[p]) ELSE UNCHANGED vars
  PROVE  TypeOK'
<1>1. vec[p] \in VecIds
  BY DEF ProcShape
<1>2. CASE TakeRef(vec[p])
  BY <1>1, <1>2, RefTypeOK
<1>3. CASE UNCHANGED vars
  BY <1>3 DEF TypeOK, vars, tblVars, vecVars, modVars
<1> QED
  BY <1>2, <1>3

LEMMA StartShape ==
  ASSUME TypeOK, ProcShape, NEW t \in Admins, NEW entry \in Entries,
         NEW p \in Procs, NEW v \in VecIds, StartCall(t, entry, p, v)
  PROVE  TypeOK' /\ ProcShape' /\ UNCHANGED <<vars, procVars>>
<1>1. UNCHANGED <<vars, procVars>>
  BY DEF StartCall
<1>2. t \in Threads /\ entry \in AllLabels
  BY DEF Threads, AllLabels, Labels
<1> QED
  BY <1>1, <1>2, EnterShape DEF StartCall, ProcShape, procVars, TypeOK, vars, tblVars, vecVars, modVars

LEMMA LifeShape ==
  ASSUME TypeOK, ProcShape, LifeNext
  PROVE  TypeOK' /\ ProcShape'
<1>1. PICK p \in Procs :
        \/ Exit(p) \/ Zombie(p) \/ Reap(p)
        \/ \E c \in Procs : Clone2Inherit(p, c) \/ \E v \in VecIds : Clone2Assign(p, c, v)
  BY DEF LifeNext
<1>2. p \in Threads /\ vec[p] \in VecIds /\ 0 \in VecIds /\ {"assign", "unassign"} \subseteq AllLabels
  BY TblAssumption DEF Threads, ProcShape, VecIds, AllLabels, AssignLabels, UnassignLabels
<1>3. UNCHANGED vars => TypeOK'
  BY DEF TypeOK, vars, tblVars, vecVars, modVars
<1>4. CASE Exit(p)
  BY <1>2, <1>3, <1>4, EnterShape DEF Exit, ProcShape
<1>5. CASE Zombie(p) \/ Reap(p)
  BY <1>3, <1>5 DEF Zombie, Reap, ProcShape, threadVars
<1>6. CASE \E c \in Procs : Clone2Inherit(p, c)
  BY <1>2, <1>6, ForkShape, InheritShape DEF Clone2Inherit, ProcShape, threadVars
<1>7. CASE \E c \in Procs, v \in VecIds : Clone2Assign(p, c, v)
  BY <1>2, <1>3, <1>7, ForkShape, EnterShape DEF Clone2Assign, ProcShape, threadVars, procVars
<1> QED
  BY <1>1, <1>4, <1>5, <1>6, <1>7

\* Every interleaving of calls, forks and exits keeps the shape of the state:
\* no count goes below zero, whatever rules the callers break.
THEOREM AssignTypeCorrect == AssignSpec => []AssignTypeOK
<1>1. AssignInit => AssignTypeOK
  BY InitTypeOK, ProcAssumption, TblAssumption
  DEF AssignInit, AssignTypeOK, Labels, VecIds, Rest
<1>2. AssignTypeOK /\ [AssignNext]_assignVars => AssignTypeOK'
  <2> SUFFICES ASSUME AssignTypeOK, [AssignNext]_assignVars PROVE AssignTypeOK'
    OBVIOUS
  <2>1. TypeOK /\ ProcShape
    BY DEF AssignTypeOK, ProcShape, AllLabels
  <2>2. ASSUME TypeOK', ProcShape', pc' \in [Threads -> Labels] PROVE AssignTypeOK'
    BY <2>2 DEF AssignTypeOK, ProcShape
  <2>3. ASSUME NEW t \in Threads, ThreadStep(t) PROVE AssignTypeOK'
    <3>1. pc' \in [Threads -> Labels]
      BY <2>1, <2>3, ThreadFrame DEF AssignTypeOK
    <3> QED
      BY <2>1, <2>2, <2>3, <3>1, ThreadShape
  <2>4. CASE AdminNext
    <3>1. PICK t \in Admins, entry \in Entries, p \in Procs, v \in VecIds : StartCall(t, entry, p, v)
      BY <2>4 DEF AdminNext
    <3>2. pc' \in [Threads -> Labels]
      BY <3>1 DEF StartCall, Enter, AssignTypeOK, Labels, Threads
    <3> QED
      BY <2>1, <2>2, <3>1, <3>2, StartShape
  <2>5. CASE LifeNext
    <3>1. pc' \in [Threads -> Labels]
      BY <2>5 DEF LifeNext, Exit, Zombie, Reap, Clone2Inherit, Clone2Assign, Enter, threadVars,
                  AssignTypeOK, Labels, Entries, Threads
    <3> QED
      BY <2>1, <2>2, <2>5, <3>1, LifeShape
  <2>6. CASE TableNext /\ UNCHANGED <<procVars, threadVars>>
    BY <2>1, <2>6, NextTypeOK DEF AssignTypeOK, Next, procVars, threadVars
  <2>7. CASE UNCHANGED assignVars
    BY <2>1, <2>7, NextTypeOK DEF AssignTypeOK, assignVars, procVars, threadVars
  <2> QED
    BY <2>3, <2>4, <2>5, <2>6, <2>7 DEF AssignNext
<1> QED
  BY <1>1, <1>2, PTL DEF AssignSpec

-----------------------------------------------------------------------------
(* How the number of a vector's processes changes.                          *)

LEMMA UsersFinite ==
  ASSUME NEW v
  PROVE  /\ IsFiniteSet(Users(v)) /\ Cardinality(Users(v)) \in Nat
         /\ Cardinality(Users(v)) = 0 <=> Users(v) = {}
         /\ IsFiniteSet(Users(v)') /\ Cardinality(Users(v)') \in Nat
<1>1. Users(v) \subseteq Procs /\ Users(v)' \subseteq Procs
  BY DEF Users
<1>2. IsFiniteSet(Users(v)) /\ IsFiniteSet(Users(v)')
  BY <1>1, ProcAssumption, FS_Subset
<1> QED
  BY <1>2, FS_CardinalityType, FS_EmptySet

\* Steps that change one process add it to some vectors and take it off others.
LEMMA UsersPoint ==
  ASSUME NEW p \in Procs, NEW v,
         \A q \in Procs \ {p} : q \in Users(v)' <=> q \in Users(v)
  PROVE  Cardinality(Users(v)') =
           Cardinality(Users(v)) + (IF p \in Users(v)' THEN 1 ELSE 0) - (IF p \in Users(v) THEN 1 ELSE 0)
<1>0. Users(v) \subseteq Procs /\ Users(v)' \subseteq Procs
  BY DEF Users
<1>1. CASE p \in Users(v)' <=> p \in Users(v)
  <2>1. Users(v)' = Users(v)
    BY <1>0, <1>1
  <2> QED
    BY <1>1, <2>1, UsersFinite
<1>2. CASE p \in Users(v)' /\ p \notin Users(v)
  <2>1. Users(v)' = Users(v) \cup {p}
    BY <1>0, <1>2
  <2>2. Cardinality(Users(v) \cup {p}) = Cardinality(Users(v)) + 1
    BY <1>2, UsersFinite, FS_AddElement
  <2> QED
    BY <1>2, <2>1, <2>2, UsersFinite
<1>3. CASE p \notin Users(v)' /\ p \in Users(v)
  <2>1. Users(v)' = Users(v) \ {p}
    BY <1>0, <1>3
  <2>2. Cardinality(Users(v) \ {p}) = Cardinality(Users(v)) - 1
    BY <1>3, UsersFinite, FS_RemoveElement
  <2> QED
    BY <1>3, <2>1, <2>2, UsersFinite
<1> QED
  BY <1>1, <1>2, <1>3

\* The counts stay exact when a step that changes one process adds and
\* subtracts what it must.
LEMMA CountsPoint ==
  ASSUME CountsExact, NEW p \in Procs,
         \A v \in Ids, q \in Procs \ {p} : q \in Users(v)' <=> q \in Users(v),
         \A v \in Ids :
           refcnt'[v] =
             refcnt[v] + (IF p \in Users(v)' THEN 1 ELSE 0) - (IF p \in Users(v) THEN 1 ELSE 0)
  PROVE  CountsExact'
BY UsersPoint DEF CountsExact

LEMMA CountsFrame ==
  ASSUME CountsExact, UNCHANGED refcnt,
         \A v \in Ids, q \in Procs : q \in Users(v)' <=> q \in Users(v)
  PROVE  CountsExact'
<1>1. ASSUME NEW v \in Ids PROVE Users(v)' = Users(v)
  <2>1. Users(v) \subseteq Procs /\ Users(v)' \subseteq Procs
    BY DEF Users
  <2> QED
    BY <2>1
<1> QED
  BY <1>1 DEF CountsExact

\* A vector that a process is on exists and counts at least that process.
LEMMA HeldExists ==
  ASSUME TypeOK, ProcShape, CountsExact, NEW p \in Procs, InTaskList(p), vec[p] # 0
  PROVE  vec[p] \in vectors /\ vec[p] \in Ids /\ refcnt[vec[p]] > 0
<1>1. vec[p] \in Ids
  BY TblAssumption DEF ProcShape, VecIds, Ids
<1>2. p \in Users(vec[p])
  BY DEF Users
<1>3. refcnt[vec[p]] \in Nat /\ refcnt[vec[p]] # 0
  BY <1>1, <1>2, UsersFinite DEF CountsExact, TypeOK
<1> QED
  BY <1>1, <1>3 DEF TypeOK

\* The operations on the table leave every count as it is: a vector is added
\* with 0, for an id that was at rest, and removed with 0.
LEMMA TableKeepsCounts ==
  ASSUME TypeOK, TableNext
  PROVE  UNCHANGED refcnt
<1>1. CASE LoaderNext
  BY <1>1 DEF LoaderNext, ModuleInit, ModuleLive, ModuleDelete, ModuleGone, LoaderStep, tblVars, vecVars
<1>2. CASE NameNext
  BY <1>2 DEF NameNext, RegisterSyscall, UnregisterSyscall, Fail, tblVars, vecVars
<1>3. CASE MapNext
  BY <1>3 DEF MapNext, AddSyscallToVector, RemoveSyscallFromVector, Fail, tblVars, vecVars
<1>4. CASE NumNext
  BY <1>4 DEF NumNext, BlockSyscallNum, UnblockSyscallNum, GetSyscallFn, LeakLock, Fail, tblVars, vecVars
<1>5. CASE AddSyscallVector
  <2>1. CASE Fail("ENOMEM")
    BY <2>1 DEF Fail, tblVars, vecVars
  <2>2. CASE ~ Fail("ENOMEM")
    <3> DEFINE id == NextVectorId(vectors)
    <3>1. id \in Ids /\ refcnt' = [refcnt EXCEPT ![id] = 0]
      BY <1>5, <2>2 DEF AddSyscallVector
    <3>2. id \notin vectors
      BY FreshId, TblAssumption DEF TypeOK, Ids
    <3> QED
      BY <3>1, <3>2 DEF TypeOK
  <2> QED
    BY <2>1, <2>2
<1>6. CASE \E v \in Ids : RemoveSyscallVector(v)
  BY <1>6 DEF RemoveSyscallVector, Fail, tblVars, vecVars, TypeOK
<1>7. CASE NoNameNext
  BY <1>7, NoNameSteps DEF vecVars
<1> QED
  BY <1>1, <1>2, <1>3, <1>4, <1>5, <1>6, <1>7 DEF TableNext, VectorNext

-----------------------------------------------------------------------------
(* The steps of a call.                                                     *)

\* What a call knows of its process at the labels where it has read it.
LEMMA ReadKnows ==
  ASSUME ProcShape, NEW t \in Threads, CallSafe(t), pc[t] \in ReadLabels
  PROVE  call[t].pid \in Procs /\ InTaskList(call[t].pid)
BY DEF CallSafe, ReadLabels, InTaskList

LEMMA ThreadCounts ==
  ASSUME TypeOK, ProcShape, CountsExact, NEW t \in Threads, CallSafe(t), ThreadStep(t)
  PROVE  CountsExact'
<1> DEFINE p == call[t].pid
<1>1. CASE UNCHANGED <<refcnt, vec>>
  BY <1>1, ThreadFrame, CountsFrame DEF Users, InTaskList
<1>2. CASE (AssignLock(t) \/ UnassignLock(t) \/ ReassignLock(t)) /\ ret' = "ok"
  <2>1. pc[t] \in ReadLabels /\ p \in Procs /\ InTaskList(p) /\ UNCHANGED procState
    BY <1>2, ReadKnows DEF AssignLock, UnassignLock, ReassignLock, ReadLabels, Commit
  <2>2. PICK new \in VecIds : new # vec[p] /\ vec' = [vec EXCEPT ![p] = new]
                              /\ \A v \in Ids : refcnt'[v] = IF v = new THEN refcnt[v] + 1
                                                            ELSE IF v = vec[p] THEN refcnt[v] - 1
                                                            ELSE refcnt[v]
    <3>1. CASE AssignLock(t)
      <4>1. vec[p] = 0 /\ call[t].new # 0 /\ call[t].new \in VecIds
        BY <3>1, CallShape DEF AssignLock, CallSafe
      <4>2. refcnt' = [refcnt EXCEPT ![call[t].new] = @ + 1] /\ vec' = [vec EXCEPT ![p] = call[t].new]
        BY <1>2, <2>1, <3>1 DEF AssignLock, TakeRef, Fail, Commit, SetVec
      <4>3. \A v \in Ids : v # vec[p] /\ refcnt'[v] = IF v = call[t].new THEN refcnt[v] + 1 ELSE refcnt[v]
        BY <4>1, <4>2 DEF TypeOK, Ids
      <4> QED
        BY <4>1, <4>2, <4>3
    <3>2. CASE UnassignLock(t)
      <4>1. vec[p] # 0 /\ call[t].old = vec[p] /\ vec[p] \in VecIds
        BY <3>2, <2>1, CallShape DEF UnassignLock, CallSafe
      <4>2. refcnt' = [refcnt EXCEPT ![vec[p]] = @ - 1] /\ vec' = [vec EXCEPT ![p] = 0]
        BY <1>2, <2>1, <3>2, <4>1 DEF UnassignLock, DropRef, Fail, Commit, SetVec
      <4>3. \A v \in Ids : v # 0 /\ refcnt'[v] = IF v = vec[p] THEN refcnt[v] - 1 ELSE refcnt[v]
        BY <4>1, <4>2 DEF TypeOK, Ids
      <4>4. 0 \in VecIds
        BY TblAssumption DEF VecIds
      <4> QED
        BY <4>1, <4>2, <4>3, <4>4
    <3>3. CASE ReassignLock(t)
      <4>1. /\ vec[p] # 0 /\ call[t].old = vec[p] /\ vec[p] \in VecIds
            /\ call[t].new \notin {0, vec[p]} /\ call[t].new \in VecIds
        BY <3>3, <2>1, CallShape DEF ReassignLock, CallSafe
      <4>2. /\ refcnt' = [refcnt EXCEPT ![vec[p]] = @ - 1, ![call[t].new] = @ + 1]
            /\ vec' = [vec EXCEPT ![p] = call[t].new]
        BY <1>2, <2>1, <3>3, <4>1 DEF ReassignLock, MoveRef, Fail, Commit, SetVec
      <4> QED
        BY <4>1, <4>2, TblAssumption DEF TypeOK, VecIds, Ids
    <3> QED
      BY <1>2, <3>1, <3>2, <3>3
  <2>3. \A v \in Ids : /\ p \in Users(v)' <=> v = new
                       /\ p \in Users(v) <=> v = vec[p]
                       /\ \A q \in Procs \ {p} : q \in Users(v)' <=> q \in Users(v)
    BY <2>1, <2>2 DEF Users, InTaskList, ProcShape
  <2>4. \A v \in Ids : refcnt[v] \in Nat
    BY DEF TypeOK
  <2> QED
    BY <2>1, <2>2, <2>3, <2>4, CountsPoint
<1>3. CASE (AssignLock(t) \/ UnassignLock(t) \/ ReassignLock(t)) /\ ret' # "ok"
  BY <1>1, <1>3
  DEF AssignLock, UnassignLock, ReassignLock, TakeRef, DropRef, MoveRef, Commit, Fail, tblVars, vecVars
<1>4. CASE AssignFind(t) \/ UnassignFind(t) \/ ReassignFind(t) \/ ReassignAgain(t)
  BY <1>1, <1>4
  DEF AssignFind, UnassignFind, ReassignFind, ReassignAgain, Return, Goto, Read, Fail,
      vars, tblVars, vecVars, procVars
<1> QED
  BY <1>2, <1>3, <1>4 DEF ThreadStep

\* What a call has read stays so while nothing happens to it or its process.
LEMMA CallSafeFrame ==
  ASSUME NEW u \in Threads, CallSafe(u), pc'[u] = pc[u], call'[u] = call[u],
         call[u].pid \in Procs => /\ procState'[call[u].pid] = procState[call[u].pid]
                                  /\ vec'[call[u].pid] = vec[call[u].pid]
  PROVE  CallSafe(u)'
<1>1. InTaskList(call[u].pid)' <=> InTaskList(call[u].pid)
  BY DEF InTaskList
<1>2. InTaskList(call[u].pid) => call[u].pid \in Procs
  BY DEF InTaskList
<1>3. CASE call[u].pid \in Procs
  BY <1>1, <1>3 DEF CallSafe
<1>4. CASE call[u].pid \notin Procs
  BY <1>1, <1>2, <1>4 DEF CallSafe, ReadLabels
<1> QED
  BY <1>3, <1>4

\* The thread that steps is the only one with its process.
LEMMA OthersCallSafe ==
  ASSUME TypeOK, ProcInv, NEW t \in Threads, ThreadStep(t), NEW u \in Threads \ {t}
  PROVE  CallSafe(u)'
<1>1. pc'[u] = pc[u] /\ call'[u] = call[u] /\ UNCHANGED procState
  BY ThreadFrame DEF ProcInv, ProcShape
<1>2. pc[t] # "idle"
  BY DEF ThreadStep, AssignFind, AssignLock, UnassignFind, UnassignLock,
         ReassignFind, ReassignAgain, ReassignLock
<1>3. CASE pc[u] = "idle"
  BY <1>1, <1>3 DEF CallSafe
<1>4. CASE pc[u] # "idle"
  <2>1. call[u].pid \in Procs => call[u].pid # call[t].pid
    BY <1>2, <1>4, ProcAssumption DEF ProcInv, Alone
  <2>2. call[u].pid \in Procs => vec'[call[u].pid] = vec[call[u].pid]
    BY <2>1, ThreadFrame DEF ProcInv, ProcShape
  <2> QED
    BY <1>1, <2>2, CallSafeFrame DEF ProcInv
<1> QED
  BY <1>3, <1>4

\* What the thread reads is so when it has read it.
LEMMA ThreadCallSafe ==
  ASSUME TypeOK, ProcInv, NEW t \in Threads, ThreadStep(t)
  PROVE  CallSafe(t)'
<1> USE DEF ProcInv
<1>1. pc'[t] \in Labels /\ UNCHANGED procState
  BY ThreadFrame
<1>2. CASE pc'[t] = "idle"
  BY <1>2 DEF CallSafe
<1>3. CASE pc'[t] # "idle"
  <2>1. /\ InTaskList(call[t].pid) /\ call[t].pid \in Procs
        /\ UNCHANGED vec
        /\ \/ AssignFind(t) \/ UnassignFind(t) \/ ReassignFind(t) \/ ReassignAgain(t)
    BY <1>3 DEF ThreadStep, AssignFind, AssignLock, UnassignFind, UnassignLock, ReassignFind,
       ReassignAgain, ReassignLock, Return, Commit, Leave, procVars, InTaskList, ProcShape
  <2>2. call'[t].pid = call[t].pid /\ call'[t].new = call[t].new /\ InTaskList(call[t].pid)'
    BY <1>1, <1>3, <2>1, ThreadFrame DEF InTaskList
  <2>3. CallSafe(t) /\ pc[t] # "idle"
    BY <2>1 DEF AssignFind, UnassignFind, ReassignFind, ReassignAgain
  <2>4. CASE AssignFind(t)
    BY <1>1, <1>3, <2>1, <2>2, <2>3, <2>4
    DEF AssignFind, Return, Leave, Goto, CallSafe, InTaskList, ProcShape, AssignLabels, ReadLabels
  <2>5. CASE UnassignFind(t)
    BY <1>1, <1>3, <2>1, <2>2, <2>3, <2>5, CallShape
    DEF UnassignFind, Return, Leave, Read, CallSafe, InTaskList, ProcShape, AssignLabels, ReadLabels
  <2>6. CASE ReassignFind(t)
    BY <1>1, <1>3, <2>1, <2>2, <2>3, <2>6, CallShape
    DEF ReassignFind, Return, Leave, Goto, Read, CallSafe, InTaskList, ProcShape, AssignLabels, ReadLabels
  <2>7. CASE ReassignAgain(t)
    BY <1>1, <1>3, <2>1, <2>2, <2>3, <2>7
    DEF ReassignAgain, Return, Leave, Goto, CallSafe, InTaskList, ProcShape, AssignLabels, ReadLabels
  <2> QED
    BY <2>1, <2>4, <2>5, <2>6, <2>7
<1> QED
  BY <1>2, <1>3

\* A step of a call starts no second call for any process.
LEMMA ThreadAlone ==
  ASSUME TypeOK, ProcInv, NEW t \in Threads, ThreadStep(t)
  PROVE  Alone'
<1>1. \A u \in Threads \ {t} : pc'[u] = pc[u] /\ call'[u] = call[u]
  BY ThreadFrame DEF ProcInv, ProcShape
<1>2. pc[t] # "idle" /\ (pc'[t] = "idle" \/ call'[t].pid = call[t].pid)
  <2>1. pc[t] # "idle"
    BY DEF ThreadStep, AssignFind, AssignLock, UnassignFind, UnassignLock,
           ReassignFind, ReassignAgain, ReassignLock
  <2> QED
    BY <2>1, ThreadFrame DEF ProcInv
<1> QED
  BY <1>1, <1>2 DEF ProcInv, Alone

\* The exit hook finds the vector and its count, and leaves the process without.
LEMMA ThreadExitSafe ==
  ASSUME TypeOK, ProcInv, NEW t \in Threads, ThreadStep(t), NEW p \in Procs
  PROVE  ExitSafe(p)'
<1> USE DEF ProcInv
<1>1. /\ UNCHANGED procState /\ p \in Threads
      /\ \A u \in Threads \ {t} : pc'[u] = pc[u] /\ call'[u] = call[u]
  BY ThreadFrame DEF ProcShape, Threads
<1>2. pc[t] # "idle"
  BY DEF ThreadStep, AssignFind, AssignLock, UnassignFind, UnassignLock,
         ReassignFind, ReassignAgain, ReassignLock
<1>3. CASE procState[p] \notin {"exiting", "zombie"}
  BY <1>1, <1>3 DEF ExitSafe
<1>4. CASE procState[p] \in {"exiting", "zombie"} /\ p # t
  <2>1. call[t].pid # p
    BY <1>2, <1>4 DEF CallSafe
  <2>2. vec'[p] = vec[p]
    BY <2>1, ThreadFrame DEF ProcShape
  <2> QED
    BY <1>1, <1>4, <2>2 DEF ExitSafe
<1>5. CASE procState[p] = "zombie" /\ p = t
  <2>1. call[t].pid # p
    BY <1>2, <1>5 DEF CallSafe
  <2>2. vec'[p] = vec[p]
    BY <2>1, ThreadFrame DEF ProcShape
  <2> QED
    BY <1>1, <1>5, <2>2 DEF ExitSafe
<1>6. CASE procState[p] = "exiting" /\ p = t
  <2>1. call[t].pid = t /\ pc[t] \in UnassignLabels \cup {"unassign_lock"} /\ InTaskList(t)
    BY <1>2, <1>6 DEF ExitSafe, InTaskList
  <2>2. CASE UnassignFind(t)
    BY <1>1, <1>6, <2>1, <2>2, CallShape
    DEF UnassignFind, Return, Leave, Read, procVars, ExitSafe, ProcShape, UnassignLabels
  <2>3. CASE UnassignLock(t)
    <3>1. vec[p] # 0 /\ call[t].old = vec[p]
      BY <1>6, <2>1, <2>3 DEF UnassignLock, CallSafe
    <3>2. call[t].old \in vectors /\ refcnt[call[t].old] # 0
      BY <1>6, <2>1, <3>1, HeldExists DEF TypeOK
    <3>3. ret' = "ok"
      BY <2>3, <3>2 DEF UnassignLock, DropRef
    <3>4. vec' = [vec EXCEPT ![p] = 0] /\ pc' = [pc EXCEPT ![t] = "idle"]
      BY <1>6, <2>1, <2>3, <3>3 DEF UnassignLock, Commit, SetVec, Leave
    <3> QED
      BY <1>1, <1>6, <3>4 DEF ExitSafe, ProcShape
  <2> QED
    BY <2>1, <2>2, <2>3
    DEF ThreadStep, UnassignLabels, AssignFind, AssignLock, ReassignFind, ReassignAgain, ReassignLock
<1> QED
  BY <1>3, <1>4, <1>5, <1>6

LEMMA ThreadInv ==
  ASSUME TypeOK, ProcInv, NEW t \in Threads, ThreadStep(t)
  PROVE  TypeOK' /\ ProcInv'
<1>1. TypeOK' /\ ProcShape'
  BY ThreadShape DEF ProcInv
<1>2. CountsExact'
  BY ThreadCounts DEF ProcInv
<1>3. \A u \in Threads : CallSafe(u)'
  BY OthersCallSafe, ThreadCallSafe
<1>4. \A p \in Procs : ExitSafe(p)'
  BY ThreadExitSafe
<1> QED
  BY <1>1, <1>2, <1>3, <1>4, ThreadAlone DEF ProcInv

-----------------------------------------------------------------------------
(* The callers and the life of processes.                                   *)

\* A step of one thread t and one process c keeps the invariant when it does
\* for these two, and no other call in progress is for a process it changes.
LEMMA CallerInv ==
  ASSUME ProcInv, ProcShape', CountsExact', NEW t \in Threads, NEW c \in Procs,
         \A u \in Threads \ {t} : pc'[u] = pc[u] /\ call'[u] = call[u],
         \A q \in Procs \ {c} : procState'[q] = procState[q] /\ vec'[q] = vec[q],
         \A u \in Threads \ {t} : pc[u] # "idle" /\ call[u].pid = c =>
           procState'[c] = procState[c] /\ vec'[c] = vec[c],
         \A u \in Threads \ {t} : pc'[t] # "idle" /\ pc[u] # "idle" =>
           call'[t].pid = NoPid \/ call[u].pid # call'[t].pid,
         CallSafe(t)', ExitSafe(c)', t \in Procs => ExitSafe(t)'
  PROVE  ProcInv'
<1> USE DEF ProcInv
<1>1. ASSUME NEW u \in Threads \ {t} PROVE CallSafe(u)'
  <2>1. CASE pc[u] = "idle"
    BY <2>1 DEF CallSafe
  <2>2. CASE pc[u] # "idle"
    BY <2>2, CallSafeFrame
  <2> QED
    BY <2>1, <2>2
<1>2. Alone'
  BY DEF Alone
<1>3. ASSUME NEW q \in Procs \ {c, t} PROVE ExitSafe(q)'
  <2>1. q \in Threads
    BY DEF Threads
  <2> QED
    BY <2>1 DEF ExitSafe
<1> QED
  BY <1>1, <1>2, <1>3

\* A child that inherits a vector is counted on it.
LEMMA InheritCounts ==
  ASSUME TypeOK, ProcShape, CountsExact, NEW p \in Procs, procState[p] = "run",
         NEW c \in Procs, procState[c] = "none", Fork(c, vec[p]),
         IF vec[p] \in vectors THEN TakeRef(vec[p]) ELSE UNCHANGED vars
  PROVE  CountsExact'
<1>1. vec[p] \in VecIds
  BY DEF ProcShape
<1>2. vec[p] # 0 => vec[p] \in vectors
  BY HeldExists DEF InTaskList
<1>3. \A v \in Ids : refcnt'[v] = refcnt[v] + (IF v = vec[p] THEN 1 ELSE 0)
  <2>1. CASE vec[p] \in vectors
    BY <2>1 DEF TakeRef, Fail, TypeOK
  <2>2. CASE vec[p] \notin vectors
    BY <1>2, <2>2 DEF vars, tblVars, vecVars, TypeOK, Ids
  <2> QED
    BY <2>1, <2>2
<1>4. \A v \in Ids : /\ c \in Users(v)' <=> v = vec[p]
                     /\ c \notin Users(v)
                     /\ \A q \in Procs \ {c} : q \in Users(v)' <=> q \in Users(v)
  BY <1>1, ForkShape DEF Users, InTaskList
<1>5. \A v \in Ids : refcnt[v] \in Nat
  BY DEF TypeOK
<1> QED
  BY <1>3, <1>4, <1>5, CountsPoint

\* A child on the default system calls is counted nowhere.
LEMMA ForkCounts ==
  ASSUME ProcShape, CountsExact, NEW c \in Procs, procState[c] = "none", Fork(c, 0), UNCHANGED refcnt
  PROVE  CountsExact'
<1>1. 0 \in VecIds
  BY TblAssumption DEF VecIds
<1>2. \A v \in Ids, q \in Procs : q \in Users(v)' <=> q \in Users(v)
  BY <1>1, ForkShape DEF Users, InTaskList, Ids
<1> QED
  BY <1>2, CountsFrame

\* A process may leave the task list when it is on no vector.
LEMMA StateCounts ==
  ASSUME ProcShape, CountsExact, NEW p \in Procs,
         NEW state, procState' = [procState EXCEPT ![p] = state], UNCHANGED <<refcnt, vec>>,
         vec[p] = 0 \/ (procState[p] = "run" /\ state = "exiting")
  PROVE  CountsExact'
<1>1. \A v \in Ids, q \in Procs : q \in Users(v)' <=> q \in Users(v)
  BY DEF Users, InTaskList, Ids, ProcShape
<1> QED
  BY <1>1, CountsFrame

\* No call in progress is for a process that is not there yet or is through
\* its exit hook; and by the rules none is when a process begins to exit.
LEMMA NotTargets ==
  ASSUME ProcInv, NEW p \in Procs, NEW u \in Threads, pc[u] # "idle"
  PROVE  /\ procState[p] \in {"none", "zombie"} => call[u].pid # p
         /\ procState[p] = "exiting" /\ u # p => call[u].pid # p
         /\ p \notin Targets => call[u].pid # p
BY DEF ProcInv, CallSafe, Targets, InFlight

LEMMA StartInv ==
  ASSUME ProcClauses \subseteq Contract, TypeOK, ProcInv,
         NEW t \in Admins, NEW entry \in Entries, NEW p \in Procs, NEW v \in VecIds,
         StartCall(t, entry, p, v)
  PROVE  ProcInv'
<1>1. /\ t \in Threads /\ t \notin Procs /\ entry \in AllLabels /\ entry \notin ReadLabels
      /\ entry # "idle"
  BY ProcAssumption DEF Threads, AllLabels, Labels, Entries, ReadLabels
<1>2. /\ procState[p] \in {"run", "reaped"} /\ p \notin Targets
      /\ entry = "assign" => vec[p] \in {0, v}
  BY DEF StartCall, Keeps, ProcClauses, ProcInv, ProcShape
<1>3. /\ UNCHANGED <<refcnt, procState, vec>> /\ ProcShape'
      /\ pc'[t] = entry /\ call'[t].pid = p /\ call'[t].new = v
      /\ \A u \in Threads \ {t} : pc'[u] = pc[u] /\ call'[u] = call[u]
  BY <1>1, StartShape, EnterShape DEF StartCall, ProcInv, vars, tblVars, vecVars, procVars
<1>4. CountsExact'
  BY <1>3, CountsFrame DEF ProcInv, Users, InTaskList
<1>5. CallSafe(t)'
  BY <1>1, <1>2, <1>3 DEF CallSafe, Entries, AssignLabels, ReadLabels
<1>6. ExitSafe(p)'
  <2>1. p \in Threads \ {t}
    BY <1>1 DEF Threads
  <2> QED
    BY <1>3, <2>1 DEF ProcInv, ExitSafe
<1> QED
  BY <1>1, <1>2, <1>3, <1>4, <1>5, <1>6, NotTargets, CallerInv

LEMMA InheritInv ==
  ASSUME TypeOK, ProcInv, NEW p \in Procs, NEW c \in Procs, Clone2Inherit(p, c)
  PROVE  ProcInv'
<1>1. /\ procState[p] = "run" /\ pc[p] = "idle" /\ procState[c] = "none" /\ Fork(c, vec[p])
      /\ IF vec[p] \in vectors THEN TakeRef(vec[p]) ELSE UNCHANGED vars
      /\ UNCHANGED <<pc, call>>
  BY DEF Clone2Inherit, threadVars
<1>2. p \in Threads /\ c \in Threads /\ vec[p] \in VecIds
  BY DEF Threads, ProcInv, ProcShape
<1>3. ProcShape' /\ CountsExact'
  BY <1>1, <1>2, ForkShape, InheritCounts DEF ProcInv, ProcShape
<1>4. /\ procState'[c] = "run"
      /\ \A q \in Procs \ {c} : procState'[q] = procState[q] /\ vec'[q] = vec[q]
  BY <1>1, <1>2, ForkShape DEF ProcInv
<1>5. CallSafe(p)' /\ ExitSafe(c)' /\ ExitSafe(p)'
  BY <1>1, <1>4 DEF CallSafe, ExitSafe
<1> QED
  BY <1>1, <1>2, <1>3, <1>4, <1>5, NotTargets, CallerInv

LEMMA AssignInv ==
  ASSUME TypeOK, ProcInv, NEW p \in Procs, NEW c \in Procs, NEW v \in VecIds, Clone2Assign(p, c, v)
  PROVE  ProcInv'
<1>1. /\ procState[p] = "run" /\ pc[p] = "idle" /\ UNCHANGED vars /\ UNCHANGED refcnt
      /\ p \in Threads /\ c \in Threads /\ 0 \in VecIds /\ {"assign"} \subseteq AllLabels
  BY TblAssumption DEF Clone2Assign, Threads, VecIds, AllLabels, AssignLabels, vars, tblVars, vecVars
<1>2. CASE procState[c] = "none" /\ Fork(c, 0) /\ Enter(p, "assign", c, v)
  <2>1. /\ procState'[c] = "run" /\ vec'[c] = 0
        /\ \A q \in Procs \ {c} : procState'[q] = procState[q] /\ vec'[q] = vec[q]
    BY <1>1, <1>2, ForkShape DEF ProcInv
  <2>2. /\ pc'[p] = "assign" /\ call'[p].pid = c /\ call'[p].new = v
        /\ \A u \in Threads \ {p} : pc'[u] = pc[u] /\ call'[u] = call[u]
    BY <1>1, <1>2, EnterShape DEF ProcInv
  <2>3. ProcShape' /\ CountsExact'
    BY <1>1, <1>2, ForkShape, EnterShape, ForkCounts DEF ProcInv, ProcShape
  <2>4. CallSafe(p)' /\ ExitSafe(c)' /\ ExitSafe(p)'
    BY <1>1, <1>2, <2>1, <2>2 DEF CallSafe, ExitSafe, ReadLabels
  <2> QED
    BY <1>1, <1>2, <2>1, <2>2, <2>3, <2>4, NotTargets, CallerInv
<1>3. CASE procState[c] = "none" /\ Fork(c, 0) /\ UNCHANGED threadVars
  <2>1. /\ procState'[c] = "run"
        /\ \A q \in Procs \ {c} : procState'[q] = procState[q] /\ vec'[q] = vec[q]
        /\ UNCHANGED <<pc, call>>
    BY <1>1, <1>3, ForkShape DEF ProcInv, threadVars
  <2>2. ProcShape' /\ CountsExact'
    BY <1>1, <1>3, <2>1, ForkShape, ForkCounts DEF ProcInv, ProcShape
  <2>3. CallSafe(p)' /\ ExitSafe(c)' /\ ExitSafe(p)'
    BY <1>1, <1>3, <2>1 DEF CallSafe, ExitSafe
  <2> QED
    BY <1>1, <1>3, <2>1, <2>2, <2>3, NotTargets, CallerInv
<1>4. CASE Enter(p, "assign", NoPid, v) /\ UNCHANGED procVars
  <2>1. /\ pc'[p] = "assign" /\ call'[p].pid = NoPid /\ UNCHANGED <<procState, vec>>
        /\ \A u \in Threads \ {p} : pc'[u] = pc[u] /\ call'[u] = call[u]
    BY <1>1, <1>4, EnterShape DEF ProcInv, procVars
  <2>2. ProcShape' /\ CountsExact'
    BY <1>1, <1>4, <2>1, EnterShape, CountsFrame DEF ProcInv, ProcShape, Users, InTaskList
  <2>3. CallSafe(p)' /\ ExitSafe(p)'
    BY <1>1, <2>1, ProcAssumption DEF CallSafe, ExitSafe, ReadLabels
  <2> QED
    BY <1>1, <2>1, <2>2, <2>3, CallerInv
<1> QED
  BY <1>2, <1>3, <1>4 DEF Clone2Assign

\* do_exit up to the hook, which is called or, in TableModule, not there.
LEMMA ExitInv ==
  ASSUME ProcClauses \subseteq Contract, TypeOK, ProcInv, NEW p \in Procs,
         procState[p] = "run", pc[p] = "idle", p \notin Targets,
         procState' = [procState EXCEPT ![p] = "exiting"], UNCHANGED <<refcnt, vec>>,
         \/ \E label \in UnassignLabels : Enter(p, label, p, 0)
         \/ vec[p] = 0 /\ UNCHANGED threadVars
  PROVE  ProcInv'
<1>1. p \in Threads /\ 0 \in VecIds /\ UnassignLabels \subseteq AllLabels
  BY TblAssumption DEF Threads, VecIds, AllLabels
<1>2. /\ \A u \in Threads \ {p} : pc'[u] = pc[u] /\ call'[u] = call[u]
      /\ \A q \in Procs \ {p} : procState'[q] = procState[q] /\ vec'[q] = vec[q]
      /\ procState'[p] = "exiting"
      /\ \/ pc'[p] \in UnassignLabels /\ call'[p].pid = p
         \/ vec[p] = 0 /\ pc'[p] = "idle"
  BY <1>1, EnterShape DEF ProcInv, ProcShape, threadVars
<1>3. ProcShape'
  BY <1>1, EnterShape DEF ProcInv, ProcShape, threadVars
<1>4. CountsExact'
  BY StateCounts DEF ProcInv
<1>5. CallSafe(p)' /\ ExitSafe(p)'
  BY <1>2 DEF CallSafe, ExitSafe, UnassignLabels, AssignLabels, ReadLabels
<1> QED
  BY <1>1, <1>2, <1>3, <1>4, <1>5, NotTargets, CallerInv

\* The end of a process: it leaves the task list without a vector.
LEMMA EndInv ==
  ASSUME TypeOK, ProcInv, NEW p \in Procs, Zombie(p) \/ Reap(p)
  PROVE  ProcInv'
<1>1. /\ p \in Threads /\ vec[p] = 0 /\ UNCHANGED <<refcnt, vec, pc, call>>
      /\ \E state \in {"zombie", "reaped"} : procState' = [procState EXCEPT ![p] = state]
      /\ procState[p] = "zombie" \/ (procState[p] = "exiting" /\ pc[p] = "idle")
  BY DEF ProcInv, ExitSafe, Zombie, Reap, Threads, threadVars, vars, tblVars, vecVars
<1>2. ProcShape' /\ CountsExact'
  BY <1>1, StateCounts DEF ProcInv, ProcShape
<1>3. \A q \in Procs \ {p} : procState'[q] = procState[q] /\ vec'[q] = vec[q]
  BY <1>1 DEF ProcInv, ProcShape
<1>4. \A u \in Threads : pc[u] # "idle" => call[u].pid # p
  BY <1>1, NotTargets
<1>5. CallSafe(p)'
  <2>1. CASE pc[p] = "idle"
    BY <1>1, <2>1 DEF CallSafe
  <2>2. CASE pc[p] # "idle"
    BY <1>1, <1>3, <1>4, <2>2, CallSafeFrame DEF ProcInv
  <2> QED
    BY <2>1, <2>2
<1>6. ExitSafe(p)'
  BY <1>1, <1>2 DEF ExitSafe, ProcShape, ProcInv
<1>7. ASSUME NEW u \in Threads \ {p}, pc'[p] # "idle", pc[u] # "idle"
      PROVE  call'[p].pid = NoPid \/ call[u].pid # call'[p].pid
  BY <1>1, <1>7 DEF ProcInv, Alone
<1> QED
  BY <1>1, <1>2, <1>3, <1>4, <1>5, <1>6, <1>7, CallerInv

LEMMA LifeInv ==
  ASSUME ProcClauses \subseteq Contract, TypeOK, ProcInv, LifeNext
  PROVE  ProcInv'
<1>1. PICK p \in Procs :
        \/ Exit(p) \/ Zombie(p) \/ Reap(p)
        \/ \E c \in Procs : Clone2Inherit(p, c) \/ \E v \in VecIds : Clone2Assign(p, c, v)
  BY DEF LifeNext
<1>2. CASE Exit(p)
  BY <1>2, ExitInv DEF Exit, Keeps, ProcClauses, UnassignLabels, vars, tblVars, vecVars
<1> QED
  BY <1>1, <1>2, EndInv, InheritInv, AssignInv

\* Steps that leave processes and threads alone, and every count.
LEMMA QuietInv ==
  ASSUME ProcInv, UNCHANGED <<refcnt, procState, vec, pc, call>>
  PROVE  ProcInv'
<1>1. CountsExact'
  BY CountsFrame DEF ProcInv, Users, InTaskList
<1>2. \A t \in Threads : CallSafe(t)'
  BY CallSafeFrame DEF ProcInv
<1> QED
  BY <1>1, <1>2 DEF ProcInv, ProcShape, Alone, ExitSafe

\* Any step, of a call, of a caller, of a process or of another user of the table.
LEMMA ProcStep ==
  ASSUME ProcClauses \subseteq Contract, TypeOK, ProcInv, [AssignNext]_assignVars
  PROVE  TypeOK' /\ ProcInv'
<1>1. CASE \E t \in Threads : ThreadStep(t)
  BY <1>1, ThreadInv
<1>2. CASE AdminNext
  BY <1>2, StartShape, StartInv DEF AdminNext, ProcInv
<1>3. CASE LifeNext
  BY <1>3, LifeShape, LifeInv DEF ProcInv
<1>4. CASE TableNext /\ UNCHANGED <<procVars, threadVars>>
  BY <1>4, NextTypeOK, TableKeepsCounts, QuietInv DEF Next, procVars, threadVars
<1>5. CASE UNCHANGED assignVars
  BY <1>5, NextTypeOK, QuietInv DEF assignVars, procVars, threadVars, vars, tblVars, vecVars
<1> QED
  BY <1>1, <1>2, <1>3, <1>4, <1>5 DEF AssignNext

LEMMA InitProcInv == AssignInit => TypeOK /\ ProcInv
<1> SUFFICES ASSUME AssignInit PROVE TypeOK /\ ProcInv
  OBVIOUS
<1>1. TypeOK
  BY InitTypeOK DEF AssignInit
<1>2. ProcShape
  BY ProcAssumption, TblAssumption DEF AssignInit, ProcShape, AllLabels, Labels, VecIds, Rest
<1>3. CountsExact
  <2>1. ASSUME NEW v \in Ids PROVE Users(v) = {}
    BY DEF AssignInit, Users, Ids
  <2> QED
    BY <2>1, FS_EmptySet DEF AssignInit, Init, CountsExact
<1>4. Alone /\ \A t \in Threads : CallSafe(t)
  BY DEF AssignInit, Alone, CallSafe, ReadLabels
<1>5. \A p \in Procs : ExitSafe(p)
  BY ProcAssumption DEF AssignInit, ExitSafe
<1> QED
  BY <1>1, <1>2, <1>3, <1>4, <1>5 DEF ProcInv

LEMMA ProcInvCorrect ==
  ASSUME ProcClauses \subseteq Contract
  PROVE  AssignSpec => [](TypeOK /\ ProcInv)
<1>1. TypeOK /\ ProcInv /\ [AssignNext]_assignVars => TypeOK' /\ ProcInv'
  BY ProcStep
<1> QED
  BY <1>1, InitProcInv, PTL DEF AssignSpec

-----------------------------------------------------------------------------
(* What the invariant is for.                                               *)

\* With callers that follow the rules of ProcClauses, the count of a vector is
\* the number of processes on it, through every interleaving of their calls
\* with each other, with forks, with exits and with changes of the table.
THEOREM RefcntCorrect ==
  ASSUME ProcClauses \subseteq Contract
  PROVE  AssignSpec => []RefcntExact
<1>1. TypeOK /\ ProcInv => RefcntExact
  BY DEF ProcInv, CountsExact, RefcntExact, TypeOK
<1> QED
  BY <1>1, ProcInvCorrect, PTL

LEMMA HeldExist == TypeOK /\ ProcInv => AssignedVectorExists
BY HeldExists DEF ProcInv, AssignedVectorExists

\* With such callers no process is ever left on a vector that was removed: the
\* test of refcnt in remove_syscall_vector is enough.
THEOREM AssignedExistsCorrect ==
  ASSUME ProcClauses \subseteq Contract
  PROVE  AssignSpec => []AssignedVectorExists
BY HeldExist, ProcInvCorrect, PTL

-----------------------------------------------------------------------------
(* Processes and vectors keep the promise of Pinning.                       *)

Holding(p) == IF InTaskList(p) THEN {vec[p]} \ {0} ELSE {}
ProcHolds == [p \in Procs |-> Holding(p)]

\* A step that changes one process is a Take or a Release.
LEMMA PointPins ==
  ASSUME NEW p \in Procs, UNCHANGED vectors, AssignedVectorExists', vec'[p] \in VecIds,
         \A q \in Procs \ {p} : procState'[q] = procState[q] /\ vec'[q] = vec[q]
  PROVE  VPins!Next
<1>1. \A q \in Procs \ {p} : Holding(q)' = Holding(q)
  BY DEF Holding, InTaskList
<1>2. ProcHolds' = [ProcHolds EXCEPT ![p] = Holding(p)']
  BY <1>1 DEF ProcHolds
<1>3. CASE Holding(p)' = {}
  BY <1>2, <1>3 DEF VPins!Next, VPins!Release, ProcHolds, Holding
<1>4. CASE Holding(p)' # {}
  <2>1. Holding(p)' = {vec'[p]} /\ vec'[p] \in Ids /\ vec'[p] \in vectors
    BY <1>4, TblAssumption DEF Holding, AssignedVectorExists, VecIds, Ids
  <2>2. ProcHolds' = [ProcHolds EXCEPT ![p] = {vec'[p]}]
    BY <1>2, <2>1
  <2>3. \E o \in Ids : VPins!Take(p, o)
    BY <2>1, <2>2 DEF VPins!Take, ProcHolds, Holding
  <2> QED
    BY <2>3 DEF VPins!Next
<1> QED
  BY <1>3, <1>4

\* A step of a call or of a process leaves the list of vectors alone and
\* changes at most one process.
LEMMA OneProcess ==
  ASSUME TypeOK, ProcShape, (\E t \in Threads : ThreadStep(t)) \/ AdminNext \/ LifeNext
  PROVE  /\ UNCHANGED vectors
         /\ \/ UNCHANGED procVars
            \/ \E p \in Procs : \A q \in Procs \ {p} : procState'[q] = procState[q] /\ vec'[q] = vec[q]
<1>1. CASE \E t \in Threads : ThreadStep(t)
  <2>1. PICK t \in Threads : ThreadStep(t)
    BY <1>1
  <2>2. UNCHANGED vectors
    BY <2>1 DEF ThreadStep, AssignFind, AssignLock, UnassignFind, UnassignLock, ReassignFind,
       ReassignAgain, ReassignLock, TakeRef, DropRef, MoveRef, CountVars, Return, Goto, Read, Fail,
       vars, tblVars, vecVars
  <2> QED
    BY <2>1, <2>2, ThreadFrame DEF procVars, InTaskList, ProcShape
<1>2. CASE AdminNext
  BY <1>2 DEF AdminNext, StartCall, procVars, vars, tblVars, vecVars
<1>3. CASE LifeNext
  <2>1. PICK p \in Procs :
          \/ Exit(p) \/ Zombie(p) \/ Reap(p)
          \/ \E c \in Procs : Clone2Inherit(p, c) \/ \E v \in VecIds : Clone2Assign(p, c, v)
    BY <1>3 DEF LifeNext
  <2>2. CASE Exit(p) \/ Zombie(p) \/ Reap(p)
    BY <2>2 DEF Exit, Zombie, Reap, ProcShape, vars, tblVars, vecVars
  <2>3. ASSUME NEW c \in Procs, Clone2Inherit(p, c)
        PROVE  UNCHANGED vectors /\ \A q \in Procs \ {c} : procState'[q] = procState[q] /\ vec'[q] = vec[q]
    BY <2>3 DEF Clone2Inherit, Fork, TakeRef, CountVars, Fail, ProcShape, vars, tblVars, vecVars
  <2>4. ASSUME NEW c \in Procs, NEW v \in VecIds, Clone2Assign(p, c, v)
        PROVE  UNCHANGED vectors /\ \A q \in Procs \ {c} : procState'[q] = procState[q] /\ vec'[q] = vec[q]
    BY <2>4 DEF Clone2Assign, Fork, ProcShape, procVars, vars, tblVars, vecVars
  <2> QED
    BY <2>1, <2>2, <2>3, <2>4
<1> QED
  BY <1>1, <1>2, <1>3

\* Vectors come with an id nobody holds and go with a count of zero.
LEMMA VectorPins ==
  ASSUME TypeOK, ProcInv, TableNext, UNCHANGED <<procVars, threadVars>>
  PROVE  [VPins!Next]_VPins!vars
<1>1. UNCHANGED ProcHolds
  BY DEF ProcHolds, Holding, InTaskList, procVars
<1>2. CASE UNCHANGED vectors
  BY <1>1, <1>2 DEF VPins!vars, ProcHolds, Holding
<1>3. ASSUME NEW v \in Ids, v \notin vectors, vectors' = vectors \cup {v}
      PROVE  VPins!Next
  BY <1>1, <1>3 DEF VPins!Next, VPins!Create, ProcHolds, Holding
<1>4. ASSUME NEW v \in Ids, v \in vectors, refcnt[v] <= 0, vectors' = vectors \ {v}
      PROVE  VPins!Next
  <2>1. Users(v) = {}
    BY <1>4, UsersFinite DEF ProcInv, CountsExact, TypeOK
  <2>2. \A p \in Procs : v \notin Holding(p)
    BY <2>1 DEF Users, Holding
  <2> QED
    BY <1>1, <1>4, <2>2 DEF VPins!Next, VPins!Destroy, ProcHolds, Holding
<1>5. CASE VectorNext
  <2>1. CASE \E code : Fail(code)
    BY <1>2, <2>1 DEF Fail, tblVars, vecVars
  <2>2. CASE AddSyscallVector /\ ~ \E code : Fail(code)
    <3>1. NextVectorId(vectors) \in Ids /\ vectors' = vectors \cup {NextVectorId(vectors)}
      BY <2>2 DEF AddSyscallVector
    <3>2. NextVectorId(vectors) \notin vectors
      BY FreshId, TblAssumption DEF TypeOK, Ids
    <3> QED
      BY <1>3, <3>1, <3>2
  <2>3. ASSUME NEW v \in Ids, RemoveSyscallVector(v), ~ \E code : Fail(code)
        PROVE  VPins!Next
    BY <1>4, <2>3 DEF RemoveSyscallVector
  <2> QED
    BY <1>5, <2>1, <2>2, <2>3 DEF VectorNext
<1>6. CASE NameNext
  BY <1>2, <1>6 DEF NameNext, RegisterSyscall, UnregisterSyscall, Fail, tblVars, vecVars
<1>7. CASE LoaderNext \/ MapNext \/ NoNameNext \/ NumNext
  BY <1>2, <1>7, QuietSteps
<1> QED
  BY <1>5, <1>6, <1>7 DEF TableNext

\* With such callers reference counting keeps its promise here too: processes
\* hold vectors as Pinning lets holders hold objects.  Assign and reassign are
\* Take, unassign and exit Release, add and remove of a vector Create and
\* Destroy; the window between reading vector_id and taking the lock is gone.
THEOREM VectorsPinnedCorrect ==
  ASSUME ProcClauses \subseteq Contract
  PROVE  AssignSpec => VectorsPinned
<1>1. AssignInit => VPins!Init
  <2> SUFFICES ASSUME AssignInit PROVE VPins!Init
    OBVIOUS
  <2>1. vectors = {} /\ \A p \in Procs : vec[p] = 0
    BY DEF AssignInit, Init
  <2> QED
    BY <2>1 DEF VPins!Init
<1>2. TypeOK /\ ProcInv /\ AssignedVectorExists' /\ ProcShape' /\ [AssignNext]_assignVars
        => [VPins!Next]_VPins!vars
  <2> SUFFICES ASSUME TypeOK, ProcInv, AssignedVectorExists', ProcShape', [AssignNext]_assignVars
               PROVE  [VPins!Next]_VPins!vars
    OBVIOUS
  <2>1. CASE UNCHANGED <<vectors, procVars>>
    BY <2>1 DEF VPins!vars, procVars, InTaskList
  <2>2. CASE (\E t \in Threads : ThreadStep(t)) \/ AdminNext \/ LifeNext
    BY <2>1, <2>2, OneProcess, PointPins DEF ProcInv, ProcShape
  <2>3. CASE TableNext /\ UNCHANGED <<procVars, threadVars>>
    BY <2>3, VectorPins
  <2>4. CASE UNCHANGED assignVars
    BY <2>1, <2>4 DEF assignVars, vars, tblVars, vecVars
  <2> QED
    BY <2>2, <2>3, <2>4 DEF AssignNext
<1>3. ProcInv => ProcShape
  BY DEF ProcInv
<1> QED
  BY <1>1, <1>2, <1>3, HeldExist, ProcInvCorrect, PTL DEF AssignSpec, VectorsPinned, VPins!Spec
-----------------------------------------------------------------------------
(* Composition: assign, unassign, reassign, clone2 and exit use the table as *)
(* SyscallTbl lets callers use it.                                          *)

\* A critical section of a call is one of the table's, for ids of vectors: a
\* call past its first step was not asked for vector 0 and moves between two.
LEMMA LockUsesTable ==
  ASSUME ProcShape, NEW t \in Threads, CallSafe(t),
         AssignLock(t) \/ UnassignLock(t) \/ ReassignLock(t)
  PROVE  CountNext
<1>1. ASSUME NEW v \in VecIds, v # 0 PROVE v \in Ids
  BY <1>1, TblAssumption DEF VecIds, Ids
<1>2. CASE AssignLock(t)
  BY <1>1, <1>2, CallShape DEF AssignLock, CallSafe, CountNext
<1>3. CASE UnassignLock(t)
  BY <1>1, <1>3, CallShape DEF UnassignLock, CallSafe, CountNext
<1>4. CASE ReassignLock(t)
  <2>1. call[t].old # 0 /\ call[t].new # 0 /\ call[t].old # call[t].new
    BY <1>4 DEF ReassignLock, CallSafe
  <2> QED
    BY <1>1, <1>4, <2>1, CallShape DEF ReassignLock, CountNext
<1> QED
  BY <1>2, <1>3, <1>4

LEMMA ThreadUsesTable ==
  ASSUME ProcShape, NEW t \in Threads, CallSafe(t), ThreadStep(t)
  PROVE  [Next]_vars
<1>1. CASE AssignLock(t) \/ UnassignLock(t) \/ ReassignLock(t)
  BY <1>1, LockUsesTable DEF Next
<1>2. CASE ReturnEarly
  BY <1>2 DEF Next, CountNext
<1>3. CASE UNCHANGED vars
  BY <1>3
<1> QED
  BY <1>1, <1>2, <1>3
  DEF ThreadStep, AssignFind, UnassignFind, ReassignFind, ReassignAgain, Return, Goto, Read, ReturnEarly

LEMMA StepUsesTable ==
  ASSUME TypeOK, ProcInv, [AssignNext]_assignVars
  PROVE  [Next]_vars
<1>1. CASE \E t \in Threads : ThreadStep(t)
  BY <1>1, ThreadUsesTable DEF ProcInv
<1>2. CASE AdminNext
  BY <1>2 DEF AdminNext, StartCall
<1>3. CASE LifeNext
  <2>1. ASSUME NEW p \in Procs, NEW c \in Procs, Clone2Inherit(p, c) PROVE [Next]_vars
    BY <2>1 DEF Clone2Inherit, TypeOK, Next, CountNext
  <2>2. ASSUME NEW p \in Procs,
               Exit(p) \/ Zombie(p) \/ Reap(p) \/ \E c \in Procs, v \in VecIds : Clone2Assign(p, c, v)
        PROVE  UNCHANGED vars
    BY <2>2 DEF Exit, Zombie, Reap, Clone2Assign
  <2> QED
    BY <1>3, <2>1, <2>2 DEF LifeNext
<1>4. CASE TableNext \/ UNCHANGED assignVars
  BY <1>4 DEF Next, assignVars
<1> QED
  BY <1>1, <1>2, <1>3, <1>4 DEF AssignNext

\* With such callers every theorem about the table alone holds of the table
\* with its processes: a call, a fork or an exit is a step of SyscallTbl or
\* leaves the table as it is.
THEOREM AssignUsesTable ==
  ASSUME ProcClauses \subseteq Contract
  PROVE  AssignSpec => Spec
<1>1. AssignInit => Init
  BY DEF AssignInit
<1>2. TypeOK /\ ProcInv /\ [AssignNext]_assignVars => [Next]_vars
  BY StepUsesTable
<1> QED
  BY <1>1, <1>2, ProcInvCorrect, PTL DEF AssignSpec, Spec

\* So no call sequence of processes and administrators that follow the rules
\* dispatches to code that is gone, and the module of the table stays while a
\* process is on a vector.
THEOREM AssignKeepsTable ==
  ASSUME ProcClauses \cup PinClauses \subseteq Contract
  PROVE  AssignSpec => [](RefcntExact /\ TblRefExact /\ MappedModuleLoaded)
<1>1. ProcClauses \subseteq Contract /\ PinClauses \subseteq Contract
  OBVIOUS
<1> QED
  BY <1>1, RefcntCorrect, AssignUsesTable, TblRefCorrect, MappedLoadedCorrect, PTL
=============================================================================

--------------------------- MODULE DispatchProofs ---------------------------
(* Theorems about Dispatch, from those about the table.                       *)
EXTENDS Dispatch, SyscallTblProofs

\* The shape of the processes' state.
TaskTypeOK ==
  /\ on \in [Tasks -> Ids \cup {0}]
  /\ pc \in [Tasks -> {"user", "lookup", "call", "running"}]
  /\ found \in [Tasks -> [v : Ids \cup {0}, num : Nums \cup {0}, name : Names \cup {NoName}]]
  /\ \A t \in Tasks : pc[t] # "user" => found[t].v \in Ids /\ found[t].num \in Nums

\* What a process found is still mapped in the vector it looked in.
FoundMapped == \A t \in Busy : found[t].name \in calls[found[t].v]

TaskInv == TypeOK /\ PinInv /\ TaskTypeOK /\ FoundMapped

\* Every step of a process is a step of the table or leaves the table alone.
LEMMA TableSteps ==
  ASSUME TaskTypeOK, [DispatchNext]_dispatchVars
  PROVE  [Next]_vars
<1>1. CASE TableStep
  BY <1>1 DEF TableStep, Next
<1>2. ASSUME NEW t \in Tasks, Unassign(t)
      PROVE  Next
  <2>1. on[t] \in Ids /\ DropRef(on[t])
    BY <1>2 DEF Unassign, TaskTypeOK
  <2> QED
    BY <2>1 DEF Next, CountNext
<1>3. ASSUME NEW t \in Tasks, NEW v \in Ids, Assign(t, v)
      PROVE  Next
  BY <1>3 DEF Assign, Next, CountNext
<1>4. ASSUME NEW t \in Tasks, Lookup(t)
      PROVE  Next
  <2>1. found[t].v \in Ids /\ found[t].num \in Nums /\ GetSyscallFn(found[t].v, found[t].num)
    BY <1>4 DEF Lookup, TaskTypeOK
  <2> QED
    BY <2>1 DEF Next, TableNext, NumNext
<1>5. ASSUME NEW t \in Tasks, Call(t) \/ Return(t) \/ \E num \in Nums : EnterSyscall(t, num)
      PROVE  UNCHANGED vars
  BY <1>5 DEF Call, Return, EnterSyscall
<1> QED
  BY <1>1, <1>2, <1>3, <1>4, <1>5 DEF DispatchNext, dispatchVars

\* Assigning, taking off and looking up leave the entries of vectors alone.
LEMMA TaskFrame ==
  ASSUME NEW t \in Tasks,
         \/ Unassign(t) \/ Lookup(t) \/ Call(t) \/ Return(t)
         \/ \E v \in Ids : Assign(t, v)
         \/ \E num \in Nums : EnterSyscall(t, num)
  PROVE  UNCHANGED calls
  BY DEF Unassign, Lookup, Call, Return, Assign, EnterSyscall, DropRef, TakeRef, CountVars,
         GetSyscallFn, Fail, vars, tblVars, vecVars

LEMMA TaskTypeStep ==
  ASSUME TypeOK, PinInv, TaskTypeOK, [DispatchNext]_dispatchVars
  PROVE  TaskTypeOK'
<1> USE DEF TaskTypeOK
<1>1. CASE UNCHANGED taskVars
  BY <1>1 DEF taskVars
<1>2. ASSUME NEW t \in Tasks, Unassign(t)
      PROVE  TaskTypeOK'
  BY <1>2 DEF Unassign
<1>3. ASSUME NEW t \in Tasks, NEW v \in Ids, Assign(t, v)
      PROVE  TaskTypeOK'
  BY <1>3 DEF Assign
<1>4. ASSUME NEW t \in Tasks, Lookup(t)
      PROVE  TaskTypeOK'
  <2>1. CASE ret' = "fn"
    <3>1. PICK n \in Hits(found[t].v, found[t].num) : found' = [found EXCEPT ![t].name = n]
      BY <1>4, <2>1 DEF Lookup
    <3>2. n \in Names \cup {NoName}
      BY <1>4, <3>1 DEF Hits, Match, Lookup, TypeOK
    <3>3. pc' = [pc EXCEPT ![t] = "call"] /\ UNCHANGED on /\ pc[t] = "lookup"
      BY <1>4, <2>1 DEF Lookup
    <3> QED
      BY <3>1, <3>2, <3>3
  <2>2. CASE ret' # "fn"
    BY <1>4, <2>2 DEF Lookup, AtRest
  <2> QED
    BY <2>1, <2>2
<1>5. ASSUME NEW t \in Tasks, Call(t)
      PROVE  TaskTypeOK'
  BY <1>5 DEF Call
<1>6. ASSUME NEW t \in Tasks, Return(t)
      PROVE  TaskTypeOK'
  BY <1>6 DEF Return, AtRest
<1>7. ASSUME NEW t \in Tasks, NEW num \in Nums, EnterSyscall(t, num)
      PROVE  TaskTypeOK'
  BY <1>7 DEF EnterSyscall
<1> QED
  BY <1>1, <1>2, <1>3, <1>4, <1>5, <1>6, <1>7
  DEF DispatchNext, TableStep, dispatchVars

\* The address a process has stays mapped until it returns.
LEMMA FoundStep ==
  ASSUME DispatchClauses \subseteq Contract, TaskInv, [DispatchNext]_dispatchVars
  PROVE  FoundMapped'
<1> USE DEF TaskInv, TaskTypeOK, FoundMapped, Busy
<1>1. CASE UNCHANGED dispatchVars
  BY <1>1 DEF dispatchVars, vars, tblVars, vecVars, taskVars
<1>2. CASE TableStep
  BY <1>2 DEF TableStep, taskVars, Keeps, DispatchClauses
<1>3. ASSUME NEW t \in Tasks,
             Unassign(t) \/ \E v \in Ids : Assign(t, v)
      PROVE  FoundMapped'
  BY <1>3, TaskFrame DEF Unassign, Assign
<1>4. ASSUME NEW t \in Tasks, Lookup(t)
      PROVE  FoundMapped'
  <2>1. UNCHANGED calls
    BY <1>4, TaskFrame
  <2>2. CASE ret' = "fn"
    <3>1. PICK n \in Hits(found[t].v, found[t].num) : found' = [found EXCEPT ![t].name = n]
      BY <1>4, <2>2 DEF Lookup
    <3>2. found[t].v \in Ids /\ freed[found[t].v] = 0
      BY <1>4 DEF Lookup, PinInv, NoFreedEntry
    <3>3. n \in calls[found[t].v]
      BY <3>1, <3>2 DEF Hits, Match
    <3>4. pc' = [pc EXCEPT ![t] = "call"]
      BY <1>4, <2>2 DEF Lookup
    <3> QED
      BY <2>1, <3>1, <3>3, <3>4
  <2>3. CASE ret' # "fn"
    BY <1>4, <2>1, <2>3 DEF Lookup, AtRest
  <2> QED
    BY <2>2, <2>3
<1>5. ASSUME NEW t \in Tasks, Call(t)
      PROVE  FoundMapped'
  BY <1>5, TaskFrame DEF Call
<1>6. ASSUME NEW t \in Tasks, Return(t)
      PROVE  FoundMapped'
  BY <1>6, TaskFrame DEF Return
<1>7. ASSUME NEW t \in Tasks, NEW num \in Nums, EnterSyscall(t, num)
      PROVE  FoundMapped'
  BY <1>7, TaskFrame DEF EnterSyscall
<1> QED
  BY <1>1, <1>2, <1>3, <1>4, <1>5, <1>6, <1>7 DEF DispatchNext

\* If, besides the rules of PinClauses, nothing is unmapped while a process is in
\* it, a process only ever runs the code of a loaded module: what it found is
\* mapped, and what is mapped is loaded.
THEOREM RunsLoadedCorrect ==
  ASSUME PinClauses \cup DispatchClauses \subseteq Contract
  PROVE  DispatchSpec => []RunsLoadedCode
<1>1. DispatchInit => TaskInv
  <2>1. ASSUME DispatchInit PROVE TaskTypeOK /\ FoundMapped
    BY <2>1 DEF DispatchInit, TaskTypeOK, FoundMapped, Busy, AtRest
  <2>2. ASSUME DispatchInit PROVE TypeOK
    BY <2>2, InitTypeOK DEF DispatchInit
  <2> QED
    BY <2>1, <2>2, InitPin DEF DispatchInit, TaskInv
<1>2. TaskInv /\ [DispatchNext]_dispatchVars => TaskInv'
  <2> SUFFICES ASSUME TaskInv, [DispatchNext]_dispatchVars PROVE TaskInv'
    OBVIOUS
  <2>1. [Next]_vars
    BY TableSteps DEF TaskInv
  <2> QED
    BY <2>1, NextTypeOK, PinStep, TaskTypeStep, FoundStep DEF TaskInv
<1>3. TaskInv => RunsLoadedCode
  BY DEF TaskInv, TaskTypeOK, FoundMapped, RunsLoadedCode, Busy, PinInv, MappedModuleLoaded, TypeOK
<1> QED
  BY <1>1, <1>2, <1>3, PTL DEF DispatchSpec
=============================================================================

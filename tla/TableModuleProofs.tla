------------------------- MODULE TableModuleProofs --------------------------
(***************************************************************************)
(* Theorems about TableModule: the chain of counts from processes to        *)
(* vectors to the module of the table keeps the table loaded for a process  *)
(* on a vector, and, with the rules of UnloadClauses, for everybody else    *)
(* who is in its code, but for an exit or a call on the default vector.     *)
(***************************************************************************)
EXTENDS TableModule, VectorAssignProofs

-----------------------------------------------------------------------------
(* The inductive invariant, beside that of VectorAssignProofs.              *)

\* The stages of the table's load and unload: what hangs on it exists only
\* while it is live, and its hooks only once it is allocated.
LoadShape ==
  /\ table \in {"absent", "loading", "ready", "live", "going"}
  /\ hooks \subseteq AllHooks
  /\ registered = {} /\ TblRefExact
  /\ table \in {"absent", "loading"} => hooks = {}
  /\ table = "live" => hooks = AllHooks
  /\ table # "live" => vectors = {} /\ ~ device
  /\ table = "going" => ~ sysptr

\* Where a thread may be: a process that is in a call lives, is in unassign
\* only on its exit, and never in reassign. In clone2 it keeps sysptr set, and
\* has found the hook of a table that cannot be unloaded meanwhile.
ThreadPlace(t) ==
  /\ pc[t] \in {"idle", "clone2"} => call[t].pid = NoPid
  /\ t \in Admins /\ pc[t] # "idle" => device
  /\ t \in Procs /\ pc[t] # "idle" =>
       /\ procState[t] \in {"run", "exiting"}
       /\ pc[t] \notin {"reassign", "reassign_again", "reassign_lock"}
       /\ pc[t] \in UnassignLabels \cup {"unassign_lock"} => procState[t] = "exiting"
       /\ InClone2(t) => sysptr /\ (InTable(t) => table \in {"ready", "live"})

LoadInv == TypeOK /\ ProcInv /\ LoadShape /\ \A t \in Threads : ThreadPlace(t)

-----------------------------------------------------------------------------
(* What the invariant says of the states.                                   *)

\* A process on a vector: the vector is on the list, so the table is live.
LEMMA KeepsTable == LoadInv => AssignedKeepsTable
BY HeldExists DEF LoadInv, ProcInv, LoadShape, AssignedKeepsTable

\* A thread in the table: an administrator came by the device, a process by
\* clone2, or it is on its exit or a system call, on a vector or Unheld.
LEMMA StaysInside == LoadInv => InsideLoaded
<1> SUFFICES ASSUME LoadInv, NEW t \in Threads, InTable(t)
             PROVE  table \in {"ready", "live"} \/ Unheld(t)
  BY DEF InsideLoaded
<1>1. CASE t \in Admins
  BY <1>1 DEF LoadInv, LoadShape, ThreadPlace, InTable
<1>2. CASE t \in Procs /\ InClone2(t)
  BY <1>2 DEF LoadInv, ThreadPlace, InTable
<1>3. CASE t \in Procs /\ ~ InClone2(t)
  <2>1. /\ pc[t] \in UnassignLabels \cup {"unassign_lock", "get_fn_hook"}
        /\ InTaskList(t)
        /\ pc[t] \in UnassignLabels \cup {"unassign_lock"} => procState[t] = "exiting"
    BY <1>3
    DEF LoadInv, ThreadPlace, InTable, InClone2, InTaskList, ProcInv, ProcShape, AllLabels, AssignLabels,
        UnassignLabels, Labels, Entries
  <2>2. CASE vec[t] # 0
    BY <1>3, <2>1, <2>2, KeepsTable DEF AssignedKeepsTable
  <2>3. CASE vec[t] = 0
    <3>1. pc[t] # "unassign_lock"
      BY <1>3, <2>1, <2>3 DEF LoadInv, ProcInv, ExitSafe, CallSafe, UnassignLabels
    <3> QED
      BY <1>3, <2>1, <2>3, <3>1 DEF Unheld, UnassignLabels
  <2> QED
    BY <2>2, <2>3
<1> QED
  BY <1>1, <1>2, <1>3 DEF Threads

\* When the table's own count is zero no vector is left, and by the rule there
\* is nobody in clone2 when the table is unloaded.
LEMMA NobodyInside ==
  ASSUME UnloadClauses \subseteq Contract, LoadInv, DeleteTable
  PROVE  vectors = {} /\ ~ sysptr /\ \A p \in Procs : ~ InClone2(p)
<1>1. Cardinality(vectors) + Cardinality(registered) = 0
  BY DEF DeleteTable, LoadInv, LoadShape, TblRefExact
<1>2. vectors = {}
  BY <1>1, Finite, FS_CardinalityType, FS_EmptySet DEF LoadInv
<1>3. ~ sysptr
  BY DEF DeleteTable, Keeps, UnloadClauses
<1>4. ASSUME NEW p \in Procs PROVE ~ InClone2(p)
  BY <1>3 DEF LoadInv, ThreadPlace, Threads, InClone2
<1> QED
  BY <1>2, <1>3, <1>4

-----------------------------------------------------------------------------
(* The loader.                                                              *)

\* kmalloc and the initialisation, of a table that was empty as well.
LEMMA InitTableInv ==
  ASSUME LoadInv, InitTable
  PROVE  LoadInv'
<1> USE DEF LoadInv
<1>1. table = "loading" /\ vectors = {} /\ registered = {} /\ hooks = {} /\ ~ device
  BY DEF InitTable, LoadShape
<1>2. /\ UNCHANGED <<vectors, refcnt, blocked, calls, freed, registered, modState, modRef, ret>>
      /\ UNCHANGED <<procState, vec, pc, call, hooks, device, sysptr>>
      /\ lock' \in {"free", lock} /\ tblRef' \in {0, tblRef}
      /\ table' \in {"absent", "ready"}
  BY <1>1 DEF InitTable, tblVars, vecVars, modVars, procVars, threadVars
<1>3. TypeOK'
  BY <1>2 DEF TypeOK
<1>4. ProcInv'
  BY <1>2, QuietInv
<1>5. tblRef = 0
  BY <1>1, FS_EmptySet DEF LoadShape, TblRefExact
<1>6. LoadShape'
  BY <1>1, <1>2, <1>5 DEF LoadShape, TblRefExact
<1>7. \A t \in Threads : ThreadPlace(t)'
  BY <1>1, <1>2 DEF ThreadPlace, InTable, InClone2
<1> QED
  BY <1>3, <1>4, <1>6, <1>7

\* The other steps of the loader leave the table and the threads alone.
LEMMA LoadNextInv ==
  ASSUME UnloadClauses \subseteq Contract, LoadInv, LoadNext
  PROVE  LoadInv'
<1>1. CASE InitTable
  BY <1>1, InitTableInv
<1>2. CASE ~ InitTable
  <2>1. UNCHANGED assignVars
    BY <1>2 DEF LoadNext, LoadTable, SetHook, InitDone, DeleteTable, ClearHook, FreeTable,
       LoadDevice, UnloadDevice, LoadClone2, UnloadClone2
  <2>2. UNCHANGED <<vars, vectors, refcnt, registered, tblRef, procState, vec, pc, call>>
    BY <2>1 DEF assignVars, vars, tblVars, vecVars, procVars, threadVars
  <2>3. TypeOK' /\ ProcInv'
    BY <2>2, NextTypeOK, QuietInv DEF LoadInv
  <2>4. TblRefExact'
    BY <2>2 DEF LoadInv, LoadShape, TblRefExact
  <2>5. \A i \in DOMAIN Hooks : Hooks[i] \in AllHooks
    BY DEF Hooks, AllHooks
  <2>6. LoadShape'
    <3>1. CASE DeleteTable
      BY <2>2, <2>4, <3>1, NobodyInside DEF LoadInv, LoadShape, DeleteTable
    <3>2. CASE SetHook \/ ClearHook
      BY <2>2, <2>4, <2>5, <3>2 DEF LoadInv, LoadShape, SetHook, ClearHook
    <3>3. CASE LoadTable \/ InitDone \/ FreeTable
      BY <2>2, <2>4, <3>3 DEF LoadInv, LoadShape, LoadTable, InitDone, FreeTable
    <3>4. CASE LoadDevice
      BY <2>2, <2>4, <3>4 DEF LoadInv, LoadShape, LoadDevice
    <3>5. CASE UnloadDevice
      BY <2>2, <2>4, <3>5 DEF LoadInv, LoadShape, UnloadDevice
    <3>6. CASE LoadClone2 \/ UnloadClone2
      <4>1. UNCHANGED <<table, hooks, device>> /\ (sysptr' => sysptr \/ table # "going")
        BY <3>6 DEF LoadClone2, UnloadClone2, Keeps, UnloadClauses
      <4> QED
        BY <2>2, <2>4, <4>1 DEF LoadInv, LoadShape
    <3> QED
      BY <1>2, <3>1, <3>2, <3>3, <3>4, <3>5, <3>6 DEF LoadNext
  <2>7. ASSUME NEW t \in Threads PROVE ThreadPlace(t)'
    <3>1. CASE DeleteTable
      BY <2>2, <2>7, <3>1, NobodyInside DEF LoadInv, ThreadPlace, DeleteTable, InTable, InClone2
    <3>2. CASE UnloadDevice \/ UnloadClone2
      BY <2>2, <2>7, <3>2
      DEF LoadInv, ThreadPlace, UnloadDevice, UnloadClone2, InTable, InClone2, Keeps, UnloadClauses
    <3>3. CASE LoadTable \/ InitDone \/ FreeTable
      BY <2>2, <2>7, <3>3 DEF LoadInv, ThreadPlace, InTable, InClone2, LoadTable, InitDone, FreeTable
    <3>4. CASE SetHook \/ ClearHook \/ LoadDevice \/ LoadClone2
      BY <2>2, <2>7, <3>4
      DEF LoadInv, ThreadPlace, InTable, InClone2, SetHook, ClearHook, LoadDevice, LoadClone2
    <3> QED
      BY <1>2, <3>1, <3>2, <3>3, <3>4 DEF LoadNext
  <2> QED
    BY <2>3, <2>6, <2>7 DEF LoadInv
<1> QED
  BY <1>1, <1>2

-----------------------------------------------------------------------------
(* Threads.                                                                 *)

LEMMA PlaceFrame ==
  ASSUME NEW u \in Threads, ThreadPlace(u), pc'[u] = pc[u], call'[u] = call[u], UNCHANGED loadVars,
         u \in Procs /\ pc[u] # "idle" => procState'[u] = procState[u]
  PROVE  ThreadPlace(u)'
BY DEF ThreadPlace, InTable, InClone2, UnassignLabels, loadVars

LEMMA LoadShapeFrame ==
  ASSUME LoadShape, UNCHANGED loadVars, UNCHANGED <<vectors, registered, tblRef>>
  PROVE  LoadShape'
BY DEF LoadShape, TblRefExact, loadVars

\* The critical sections of a thread change counts only.
LEMMA ThreadKeepsLists ==
  ASSUME NEW t \in Threads, ThreadStep(t)
  PROVE  UNCHANGED <<vectors, registered, tblRef>>
BY DEF ThreadStep, AssignFind, AssignLock, UnassignFind, UnassignLock, ReassignFind, ReassignAgain,
   ReassignLock, TakeRef, DropRef, MoveRef, CountVars, Return, Goto, Read, Fail, vars, tblVars, vecVars

\* A step inside the table begins there, and leaves it with the call done.
LEMMA ThreadPlaces ==
  ASSUME LoadInv, NEW t \in Threads, ThreadStep(t), UNCHANGED loadVars
  PROVE  ThreadPlace(t)'
<1> USE DEF LoadInv, ProcInv
<1>1. InTable(t) /\ pc[t] \notin {"idle", "clone2"}
  BY DEF ThreadStep, AssignFind, AssignLock, UnassignFind, UnassignLock,
         ReassignFind, ReassignAgain, ReassignLock, InTable
<1>2. t \in Admins => device
  BY <1>1 DEF ThreadPlace
<1>3. pc'[t] \in Labels /\ UNCHANGED procState /\ pc'[t] # "clone2"
  BY ThreadFrame DEF Labels, Entries
<1>4. CASE pc'[t] = "idle"
  <2>1. call'[t] = Rest
    BY <1>4, ThreadFrame DEF ThreadStep, AssignFind, AssignLock, UnassignFind, UnassignLock, ReassignFind,
       ReassignAgain, ReassignLock, Return, Goto, Read, Commit, Leave, ProcShape
  <2> QED
    BY <1>4, <2>1 DEF ThreadPlace, InTable, InClone2, Rest
<1>5. CASE pc'[t] # "idle"
  <2>1. \/ pc[t] = "assign" /\ pc'[t] = "assign_lock"
        \/ pc[t] = "unassign" /\ pc'[t] = "unassign_lock"
        \/ pc[t] \in {"reassign", "reassign_again"}
    BY <1>5 DEF ThreadStep, AssignFind, AssignLock, UnassignFind, UnassignLock, ReassignFind,
       ReassignAgain, ReassignLock, Return, Goto, Read, Commit, Leave, ProcShape
  <2>2. t \in Procs => /\ procState[t] \in {"run", "exiting"}
                       /\ pc[t] \notin {"reassign", "reassign_again"}
                       /\ pc[t] = "assign" => sysptr /\ table \in {"ready", "live"}
                       /\ pc[t] = "unassign" => procState[t] = "exiting"
    BY <1>1 DEF ThreadPlace, InClone2, UnassignLabels
  <2>3. t \in Procs => /\ pc'[t] \notin {"reassign", "reassign_again", "reassign_lock"}
                       /\ InClone2(t)' => sysptr /\ table \in {"ready", "live"}
                       /\ pc'[t] \in UnassignLabels \cup {"unassign_lock"} => procState[t] = "exiting"
    BY <2>1, <2>2 DEF InClone2, UnassignLabels
  <2> QED
    BY <1>2, <1>3, <1>5, <2>2, <2>3 DEF ThreadPlace, InTable, loadVars
<1> QED
  BY <1>4, <1>5

LEMMA ThreadLoadInv ==
  ASSUME LoadInv, NEW t \in Threads, ThreadStep(t), UNCHANGED loadVars
  PROVE  LoadInv'
<1> USE DEF LoadInv
<1>1. TypeOK' /\ ProcInv'
  BY ThreadInv
<1>2. LoadShape'
  BY ThreadKeepsLists, LoadShapeFrame
<1>3. ASSUME NEW u \in Threads \ {t} PROVE ThreadPlace(u)'
  BY ThreadFrame, PlaceFrame DEF ProcInv, ProcShape
<1> QED
  BY <1>1, <1>2, <1>3, ThreadPlaces

-----------------------------------------------------------------------------
(* Processes that come to the table by its hooks.                           *)

\* A step of one thread p that changes at most one process c, which is in no
\* call unless it is p itself.
LEMMA ProcLoadInv ==
  ASSUME LoadInv, TypeOK', ProcInv', UNCHANGED loadVars, UNCHANGED <<vectors, registered, tblRef>>,
         NEW p \in Threads, NEW c \in Procs,
         \A u \in Threads \ {p} : pc'[u] = pc[u] /\ call'[u] = call[u],
         \A q \in Procs \ {c} : procState'[q] = procState[q],
         c # p => procState[c] = "none" \/ procState'[c] = procState[c],
         ThreadPlace(p)'
  PROVE  LoadInv'
<1>1. LoadShape'
  BY LoadShapeFrame DEF LoadInv
<1>2. ASSUME NEW u \in Threads \ {p} PROVE ThreadPlace(u)'
  <2>1. ThreadPlace(u)
    BY DEF LoadInv
  <2>2. u \in Procs /\ pc[u] # "idle" => procState'[u] = procState[u]
    BY <2>1 DEF ThreadPlace
  <2> QED
    BY <2>1, <2>2, PlaceFrame
<1> QED
  BY <1>1, <1>2 DEF LoadInv

\* A hook that is set is that of a table in use, or of one on its way out.
LEMMA HookPlace ==
  ASSUME LoadInv, NEW hook \in hooks
  PROVE  table \in {"ready", "live", "going"} /\ (sysptr => table \in {"ready", "live"})
BY DEF LoadInv, LoadShape

\* A process in clone2, or between a test and its call, runs; a call without
\* a process keeps what the invariant says of calls.
LEMMA InFlightRuns ==
  ASSUME LoadInv, NEW p \in Procs
  PROVE  /\ p \in Threads /\ vec[p] \in VecIds
         /\ pc[p] \in {"clone2", "assign_hook", "get_fn_hook"} => procState[p] = "run"
         /\ pc[p] \in {"idle", "clone2"} => call[p].pid = NoPid
BY DEF LoadInv, ThreadPlace, ProcInv, ProcShape, ExitSafe, Threads, UnassignLabels

LEMMA NoTargetSafe ==
  ASSUME NEW t \in Threads, pc'[t] \notin ReadLabels, call'[t].pid = NoPid
  PROVE  CallSafe(t)'
BY ProcAssumption DEF CallSafe, ReadLabels

LEMMA EnterCloneInv ==
  ASSUME LoadInv, NEW p \in Procs, EnterClone2(p), UNCHANGED loadVars
  PROVE  LoadInv'
<1> USE DEF LoadInv
<1>1. /\ UNCHANGED <<vars, vectors, refcnt, registered, tblRef, procState, vec, call>>
      /\ pc' = [pc EXCEPT ![p] = "clone2"] /\ procState[p] = "run" /\ pc[p] = "idle" /\ sysptr
  BY DEF EnterClone2, vars, tblVars, vecVars, procVars
<1>2. /\ p \in Threads /\ call'[p].pid = NoPid /\ pc'[p] = "clone2"
      /\ \A u \in Threads \ {p} : pc'[u] = pc[u] /\ call'[u] = call[u]
  BY <1>1, InFlightRuns DEF ProcInv, ProcShape
<1>3. TypeOK'
  BY <1>1, NextTypeOK
<1>4. ProcShape' /\ CountsExact'
  BY <1>1, CountsFrame DEF ProcInv, ProcShape, AllLabels, Users, InTaskList
<1>5. CallSafe(p)' /\ ExitSafe(p)'
  BY <1>1, <1>2, NoTargetSafe DEF ReadLabels, ExitSafe
<1>6. ProcInv'
  BY <1>1, <1>2, <1>4, <1>5, CallerInv
<1>7. ThreadPlace(p)'
  BY <1>1, <1>2, ProcAssumption DEF ThreadPlace, InTable, InClone2, UnassignLabels, loadVars
<1> QED
  BY <1>1, <1>2, <1>3, <1>6, <1>7, ProcLoadInv

\* clone2 after the fork: the child is there, or not, and the parent goes on
\* to the hook or returns.
LEMMA ForkAndTestInv ==
  ASSUME UnloadClauses \subseteq Contract, LoadInv,
         NEW p \in Procs, NEW c \in Procs \cup {NoPid}, NEW v \in VecIds,
         ForkAndTest(p, c, v), UNCHANGED loadVars
  PROVE  LoadInv'
<1> USE DEF LoadInv
<1>1. /\ UNCHANGED <<vars, vectors, refcnt, registered, tblRef>>
      /\ pc[p] = "clone2" /\ procState[p] = "run" /\ p \in Threads /\ sysptr
      /\ {"assign_hook"} \subseteq AllLabels /\ 0 \in VecIds
  BY InFlightRuns, TblAssumption
  DEF ForkAndTest, vars, tblVars, vecVars, ThreadPlace, InClone2, AllLabels, AssignLabels, VecIds
<1>2. /\ \A u \in Threads \ {p} : pc'[u] = pc[u] /\ call'[u] = call[u]
      /\ \/ pc'[p] = "assign_hook" /\ call'[p].pid = c /\ call'[p].new = v /\ table \in {"ready", "live"}
         \/ pc'[p] = "idle" /\ call'[p].pid = NoPid
      /\ pc' \in [Threads -> AllLabels]
      /\ call' \in [Threads -> [pid : Procs \cup {NoPid}, new : VecIds, old : VecIds]]
  <2>1. CASE "assign" \in hooks /\ Enter(p, "assign_hook", c, v)
    BY <1>1, <2>1, EnterShape, HookPlace DEF ProcInv
  <2>2. CASE Leave(p)
    BY <1>1, <2>2, CallShape DEF Leave, ProcInv, ProcShape, AllLabels, Labels, Rest
  <2> QED
    BY <2>1, <2>2 DEF ForkAndTest
<1>3. ThreadPlace(p)'
  <2>1. c = NoPid \/ procState[c] = "none"
    BY DEF ForkAndTest
  <2>2. procState'[p] = "run"
    BY <1>1, <2>1, ForkShape DEF ForkAndTest, procVars, ProcInv
  <2> QED
    BY <1>1, <1>2, <2>2, ProcAssumption DEF ThreadPlace, InTable, InClone2, UnassignLabels, loadVars
<1>4. TypeOK'
  BY <1>1, NextTypeOK
<1>5. CASE c \in Procs
  <2>1. procState[c] = "none" /\ Fork(c, 0)
    BY <1>5, ProcAssumption DEF ForkAndTest
  <2>2. /\ procState'[c] = "run" /\ vec'[c] = 0 /\ procState'[p] = "run"
        /\ \A q \in Procs \ {c} : procState'[q] = procState[q] /\ vec'[q] = vec[q]
    BY <1>1, <1>5, <2>1, ForkShape DEF ProcInv
  <2>3. ProcShape' /\ CountsExact'
    BY <1>1, <1>2, <1>5, <2>1, ForkShape, ForkCounts DEF ProcInv, ProcShape
  <2>4. CallSafe(p)' /\ ExitSafe(c)' /\ ExitSafe(p)'
    BY <1>2, <1>5, <2>2 DEF CallSafe, ExitSafe, ReadLabels
  <2>5. ProcInv'
    BY <1>1, <1>2, <1>5, <2>1, <2>2, <2>3, <2>4, NotTargets, CallerInv
  <2> QED
    BY <1>1, <1>2, <1>3, <1>4, <1>5, <2>1, <2>2, <2>5, ProcLoadInv
<1>6. CASE c = NoPid
  <2>1. UNCHANGED <<procState, vec>>
    BY <1>6 DEF ForkAndTest, procVars
  <2>2. ProcShape' /\ CountsExact'
    BY <1>1, <1>2, <2>1, CountsFrame DEF ProcInv, ProcShape, Users, InTaskList
  <2>3. CallSafe(p)' /\ ExitSafe(p)'
    BY <1>1, <1>2, <1>6, <2>1, NoTargetSafe DEF ExitSafe, ReadLabels
  <2>4. ProcInv'
    BY <1>1, <1>2, <1>6, <2>1, <2>2, <2>3, CallerInv
  <2> QED
    BY <1>1, <1>2, <1>3, <1>4, <2>1, <2>4, ProcLoadInv
<1> QED
  BY <1>5, <1>6

LEMMA ForkInheritsInv ==
  ASSUME LoadInv, NEW p \in Procs, NEW c \in Procs, ForkInherits(p, c), UNCHANGED loadVars
  PROVE  LoadInv'
<1> USE DEF LoadInv
<1>1. /\ pc[p] = "clone2" /\ procState[p] = "run" /\ p \in Threads /\ vec[p] \in VecIds
      /\ procState[c] = "none" /\ Fork(c, vec[p]) /\ Leave(p)
      /\ IF vec[p] \in vectors THEN TakeRef(vec[p]) ELSE UNCHANGED vars
  BY InFlightRuns DEF ForkInherits
<1>2. UNCHANGED <<vectors, registered, tblRef>>
  BY <1>1 DEF TakeRef, Fail, CountVars, vars, tblVars, vecVars
<1>3. /\ pc'[p] = "idle" /\ call'[p].pid = NoPid
      /\ \A u \in Threads \ {p} : pc'[u] = pc[u] /\ call'[u] = call[u]
      /\ pc' \in [Threads -> AllLabels]
      /\ call' \in [Threads -> [pid : Procs \cup {NoPid}, new : VecIds, old : VecIds]]
  BY <1>1, CallShape DEF Leave, ProcInv, ProcShape, AllLabels, Labels, Rest
<1>4. /\ procState'[c] = "run" /\ procState'[p] = "run"
      /\ \A q \in Procs \ {c} : procState'[q] = procState[q] /\ vec'[q] = vec[q]
  BY <1>1, ForkShape DEF ProcInv
<1>5. TypeOK' /\ ProcShape' /\ CountsExact'
  BY <1>1, <1>3, ForkShape, InheritShape, InheritCounts DEF ProcInv, ProcShape
<1>6. CallSafe(p)' /\ ExitSafe(c)' /\ ExitSafe(p)'
  BY <1>3, <1>4 DEF CallSafe, ExitSafe
<1>7. ProcInv'
  BY <1>1, <1>3, <1>4, <1>5, <1>6, NotTargets, CallerInv
<1>8. ThreadPlace(p)'
  BY <1>3, <1>4, ProcAssumption DEF ThreadPlace, InTable, InClone2
<1> QED
  BY <1>1, <1>2, <1>3, <1>4, <1>5, <1>7, <1>8, ProcLoadInv

\* do_exit up to its hook.  When the hook is not set the table is not live, so
\* the process is on no vector that it would have to give back.
LEMMA ExitAndTestInv ==
  ASSUME ProcClauses \cup UnloadClauses \subseteq Contract, LoadInv, NEW p \in Procs,
         ExitAndTest(p), UNCHANGED loadVars
  PROVE  LoadInv'
<1> USE DEF LoadInv
<1>1. /\ procState[p] = "run" /\ pc[p] = "idle" /\ p \in Threads /\ p \notin Targets
      /\ procState' = [procState EXCEPT ![p] = "exiting"]
      /\ UNCHANGED <<vars, vectors, refcnt, registered, tblRef, vec>>
      /\ call[p].pid = NoPid /\ 0 \in VecIds /\ {"unassign_hook"} \subseteq AllLabels
  BY InFlightRuns, TblAssumption
  DEF ExitAndTest, Keeps, ProcClauses, vars, tblVars, vecVars, VecIds, AllLabels, UnassignLabels
<1>2. \/ Enter(p, "unassign_hook", p, 0)
      \/ vec[p] = 0 /\ UNCHANGED <<pc, call>>
  <2>1. CASE "unassign" \in hooks /\ Enter(p, "unassign_hook", p, 0)
    BY <2>1
  <2>2. CASE "unassign" \notin hooks /\ UNCHANGED threadVars
    BY <1>1, <2>2, KeepsTable DEF AssignedKeepsTable, InTaskList, AllHooks, threadVars
  <2> QED
    BY <2>1, <2>2 DEF ExitAndTest
<1>3. ProcInv'
  BY <1>1, <1>2, ExitInv DEF UnassignLabels, threadVars
<1>4. /\ \A u \in Threads \ {p} : pc'[u] = pc[u] /\ call'[u] = call[u]
      /\ \A q \in Procs \ {p} : procState'[q] = procState[q]
      /\ procState'[p] = "exiting"
      /\ \/ pc'[p] = "unassign_hook"
         \/ pc'[p] = "idle" /\ call'[p].pid = NoPid
  BY <1>1, <1>2, EnterShape DEF ProcInv, ProcShape
<1>5. ThreadPlace(p)'
  BY <1>4, ProcAssumption DEF ThreadPlace, InTable, InClone2, UnassignLabels, loadVars
<1>6. TypeOK'
  BY <1>1, NextTypeOK
<1> QED
  BY <1>1, <1>3, <1>4, <1>5, <1>6, ProcLoadInv

\* The entry of a system call of a process on a vector.
LEMMA SyscallInv ==
  ASSUME UnloadClauses \subseteq Contract, LoadInv, NEW p \in Procs,
         SyscallAndTest(p), UNCHANGED loadVars
  PROVE  LoadInv'
<1> USE DEF LoadInv
<1>1. /\ procState[p] = "run" /\ pc[p] = "idle" /\ p \in Threads /\ vec[p] \in VecIds
      /\ UNCHANGED <<vars, vectors, refcnt, registered, tblRef, procState, vec>>
      /\ Enter(p, "get_fn_hook", NoPid, vec[p]) /\ "get_fn_hook" \in AllLabels
  BY InFlightRuns DEF SyscallAndTest, vars, tblVars, vecVars, procVars, AllLabels
<1>2. /\ pc'[p] = "get_fn_hook" /\ call'[p].pid = NoPid
      /\ \A u \in Threads \ {p} : pc'[u] = pc[u] /\ call'[u] = call[u]
  BY <1>1, EnterShape DEF ProcInv
<1>3. ProcShape' /\ CountsExact'
  BY <1>1, EnterShape, CountsFrame DEF ProcInv, ProcShape, Users, InTaskList
<1>4. CallSafe(p)' /\ ExitSafe(p)'
  BY <1>1, <1>2, NoTargetSafe DEF ReadLabels, ExitSafe
<1>5. ProcInv'
  BY <1>1, <1>2, <1>3, <1>4, CallerInv
<1>6. ThreadPlace(p)'
  BY <1>1, <1>2, ProcAssumption DEF ThreadPlace, InTable, InClone2, UnassignLabels, loadVars
<1>7. TypeOK'
  BY <1>1, NextTypeOK
<1> QED
  BY <1>1, <1>2, <1>5, <1>6, <1>7, ProcLoadInv

\* The jump into the table, where the call is the one that was set up.
LEMMA CallHookInv ==
  ASSUME LoadInv, NEW p \in Procs, CallHook(p), UNCHANGED loadVars
  PROVE  LoadInv'
<1> USE DEF LoadInv
<1>1. /\ p \in Threads /\ UNCHANGED <<vectors, refcnt, registered, tblRef, procState, vec>>
      /\ TypeOK'
  <2>1. CASE UNCHANGED vars
    BY <2>1, NextTypeOK, InFlightRuns DEF CallHook, vars, tblVars, vecVars, procVars
  <2>2. CASE \E num \in Nums : GetSyscallFn(call[p].new, num)
    <3>1. PICK code \in Codes : Fail(code)
      BY <2>2 DEF GetSyscallFn, Codes
    <3> QED
      BY <3>1, FailTypeOK, InFlightRuns DEF CallHook, Fail, tblVars, vecVars, procVars
  <2> QED
    BY <2>1, <2>2 DEF CallHook, Goto
<1>2. /\ \A u \in Threads \ {p} : pc'[u] = pc[u] /\ call'[u] = call[u]
      /\ pc' \in [Threads -> AllLabels]
      /\ call' \in [Threads -> [pid : Procs \cup {NoPid}, new : VecIds, old : VecIds]]
      /\ \/ pc[p] = "assign_hook" /\ pc'[p] = "assign" /\ call'[p] = call[p]
         \/ pc[p] = "unassign_hook" /\ pc'[p] = "unassign" /\ call'[p] = call[p]
         \/ pc[p] = "get_fn_hook" /\ pc'[p] = "idle" /\ call'[p].pid = NoPid
  <2>1. {"assign", "unassign", "idle"} \subseteq AllLabels
    BY DEF AllLabels, AssignLabels, UnassignLabels, Labels, Entries
  <2>2. CASE pc[p] = "assign_hook" /\ Goto(p, "assign")
    BY <1>1, <2>1, <2>2 DEF Goto, ProcInv, ProcShape
  <2>3. CASE pc[p] = "unassign_hook" /\ Goto(p, "unassign")
    BY <1>1, <2>1, <2>3 DEF Goto, ProcInv, ProcShape
  <2>4. CASE pc[p] = "get_fn_hook" /\ Leave(p)
    BY <1>1, <2>1, <2>4, CallShape DEF Leave, ProcInv, ProcShape, Rest
  <2> QED
    BY <2>2, <2>3, <2>4 DEF CallHook
<1>3. ProcShape' /\ CountsExact'
  BY <1>1, <1>2, CountsFrame DEF ProcInv, ProcShape, Users, InTaskList
<1>4. CallSafe(p)'
  <2>1. CASE pc[p] = "get_fn_hook"
    BY <1>2, <2>1 DEF CallSafe
  <2>2. CASE call'[p] = call[p] /\ pc[p] \in {"assign_hook", "unassign_hook"}
    <3>1. InTaskList(call[p].pid)' <=> InTaskList(call[p].pid)
      BY <1>1, <2>2 DEF InTaskList
    <3>2. CallSafe(p)
      BY <1>1 DEF ProcInv
    <3> QED
      BY <1>1, <1>2, <2>2, <3>1, <3>2 DEF CallSafe, AssignLabels, ReadLabels
  <2> QED
    BY <1>2, <2>1, <2>2
<1>5. ExitSafe(p)'
  BY <1>1, <1>2, InFlightRuns DEF ProcInv, ExitSafe, UnassignLabels
<1>6. ProcInv'
  <2>1. ASSUME NEW u \in Threads \ {p}, pc'[p] # "idle", pc[u] # "idle"
        PROVE  call'[p].pid = NoPid \/ call[u].pid # call'[p].pid
    BY <1>1, <1>2, <2>1 DEF ProcInv, Alone
  <2> QED
    BY <1>1, <1>2, <1>3, <1>4, <1>5, <2>1, CallerInv
<1>7. ThreadPlace(p)'
  <2>1. ThreadPlace(p)
    BY <1>1
  <2> QED
    BY <1>1, <1>2, <2>1, ProcAssumption DEF ThreadPlace, InTable, InClone2, UnassignLabels, loadVars
<1> QED
  BY <1>1, <1>2, <1>6, <1>7, ProcLoadInv

LEMMA EndLoadInv ==
  ASSUME LoadInv, NEW p \in Procs, Zombie(p) \/ Reap(p), UNCHANGED loadVars
  PROVE  LoadInv'
<1> USE DEF LoadInv
<1>1. /\ p \in Threads /\ pc[p] = "idle"
      /\ UNCHANGED <<vars, vectors, refcnt, registered, tblRef, pc, call>>
      /\ \A q \in Procs \ {p} : procState'[q] = procState[q]
  BY InFlightRuns DEF Zombie, Reap, threadVars, vars, tblVars, vecVars, ThreadPlace, ProcInv, ProcShape
<1>2. ProcInv' /\ TypeOK'
  BY <1>1, EndInv, NextTypeOK
<1>3. ThreadPlace(p)'
  BY <1>1, ProcAssumption DEF ThreadPlace, InTable, InClone2
<1> QED
  BY <1>1, <1>2, <1>3, ProcLoadInv

-----------------------------------------------------------------------------
(* The device, and all steps together.                                      *)

LEMMA DeviceInv ==
  ASSUME ProcClauses \subseteq Contract, LoadInv, device, DeviceCall, UNCHANGED loadVars
  PROVE  LoadInv'
<1> USE DEF LoadInv
<1>1. table = "live"
  BY DEF LoadShape
<1>2. CASE AdminNext
  <2>1. PICK t \in Admins, entry \in Entries, q \in Procs, v \in VecIds : StartCall(t, entry, q, v)
    BY <1>2 DEF AdminNext
  <2>2. t \in Threads /\ t \notin Procs /\ entry \in AllLabels /\ entry \notin {"idle", "clone2"}
    BY ProcAssumption DEF Threads, Entries, AllLabels, Labels
  <2>3. /\ TypeOK' /\ ProcInv' /\ UNCHANGED <<vectors, registered, tblRef, procState>>
    BY <2>1, StartShape, StartInv DEF ProcInv, vars, tblVars, vecVars, procVars
  <2>4. /\ pc'[t] = entry /\ \A u \in Threads \ {t} : pc'[u] = pc[u] /\ call'[u] = call[u]
    BY <2>1, <2>2, EnterShape DEF StartCall, ProcInv
  <2>5. ThreadPlace(t)'
    BY <1>1, <2>2, <2>4 DEF ThreadPlace, InTable, loadVars
  <2> QED
    BY <2>2, <2>3, <2>4, <2>5, ProcLoadInv
<1>3. CASE (VectorNext \/ NumNext) /\ UNCHANGED <<procVars, threadVars>>
  <2>1. UNCHANGED <<refcnt, procState, vec, pc, call>>
    BY <1>3, TableKeepsCounts DEF TableNext, procVars, threadVars
  <2>2. TypeOK' /\ ProcInv'
    BY <1>3, <2>1, NextTypeOK, QuietInv DEF Next, TableNext
  <2>3. TblRefExact'
    BY <1>3, VectorTblRef, QuietSteps DEF LoadShape, TblRefExact
  <2>4. UNCHANGED registered
    BY <1>3, QuietSteps
    DEF VectorNext, AddSyscallVector, RemoveSyscallVector, Fail, tblVars
  <2>5. LoadShape'
    BY <1>1, <2>3, <2>4 DEF LoadShape, loadVars
  <2> QED
    BY <2>1, <2>2, <2>5, PlaceFrame
<1> QED
  BY <1>2, <1>3 DEF DeviceCall

LEMMA LoadStep ==
  ASSUME ProcClauses \cup UnloadClauses \subseteq Contract, LoadInv, [TableModuleNext]_tableVars
  PROVE  LoadInv'
<1>1. CASE LoadNext
  BY <1>1, LoadNextInv
<1>2. CASE (\E t \in Threads : ThreadStep(t)) /\ UNCHANGED loadVars
  BY <1>2, ThreadLoadInv
<1>3. CASE ProcNext /\ UNCHANGED loadVars
  BY <1>3, EnterCloneInv, ExitAndTestInv, SyscallInv, CallHookInv, EndLoadInv, ForkInheritsInv,
     ForkAndTestInv DEF ProcNext
<1>4. CASE device /\ DeviceCall /\ UNCHANGED loadVars
  BY <1>4, DeviceInv
<1>5. CASE UNCHANGED tableVars
  <2>1. UNCHANGED <<vars, vectors, refcnt, registered, tblRef, procState, vec, pc, call, loadVars>>
    BY <1>5 DEF tableVars, assignVars, vars, tblVars, vecVars, procVars, threadVars
  <2> QED
    BY <2>1, NextTypeOK, QuietInv, LoadShapeFrame, PlaceFrame DEF LoadInv
<1> QED
  BY <1>1, <1>2, <1>3, <1>4, <1>5 DEF TableModuleNext

LEMMA InitLoadInv == TableInit => LoadInv
<1> SUFFICES ASSUME TableInit PROVE LoadInv
  OBVIOUS
<1>1. TypeOK /\ ProcInv
  BY InitProcInv DEF TableInit
<1>2. LoadShape
  BY FS_EmptySet DEF TableInit, AssignInit, Init, LoadShape, TblRefExact
<1>3. \A t \in Threads : ThreadPlace(t)
  BY DEF TableInit, AssignInit, ThreadPlace, InTable, Rest
<1> QED
  BY <1>1, <1>2, <1>3 DEF LoadInv

LEMMA LoadInvCorrect ==
  ASSUME ProcClauses \cup UnloadClauses \subseteq Contract
  PROVE  TableSpec => []LoadInv
<1>1. LoadInv /\ [TableModuleNext]_tableVars => LoadInv'
  BY LoadStep
<1> QED
  BY <1>1, InitLoadInv, PTL DEF TableSpec

\* With callers that follow the rules, while a process is on a vector the
\* module of the table is live with its three hooks set: the reference that
\* each vector holds on SYSCALL_MODULE, and the count that each process holds
\* on its vector, keep rmmod from succeeding at any point of a call, fork or exit.
THEOREM AssignedKeepsTableCorrect ==
  ASSUME ProcClauses \cup UnloadClauses \subseteq Contract
  PROVE  TableSpec => []AssignedKeepsTable
BY LoadInvCorrect, KeepsTable, PTL

\* With such callers nobody executes, or is about to jump into, a table that
\* is not there or on its way out, but an exit or a system call of a process on
\* the default vector: hooks are set after the allocation and the counts of
\* vectors, the loader's dependency and the order of unloading keep the rest.
THEOREM InsideLoadedCorrect ==
  ASSUME ProcClauses \cup UnloadClauses \subseteq Contract
  PROVE  TableSpec => []InsideLoaded
BY LoadInvCorrect, StaysInside, PTL
=============================================================================

---------------------------- MODULE VectorAssign ----------------------------
(***************************************************************************)
(* Processes and their vectors: assign_, unassign_ and                      *)
(* reassign_syscall_vector of syscall_tbl.c, called by administrators (the  *)
(* ioctl handler, test.c), by clone2 for the child it forks and by the      *)
(* kernel for a process that exits.  Each call reads the task list and      *)
(* task->vector_id without the lock, then works on what it read in a        *)
(* critical section: one step each, so that other calls come in between.    *)
(***************************************************************************)
EXTENDS SyscallTbl

CONSTANTS
  Procs,      \* process ids
  InitProcs,  \* the processes that run before the table is used
  Admins      \* threads that call the table for other processes

\* More rules callers may or may not follow; see Clauses in SyscallTbl.
ProcClauses ==
  { "serial_per_pid",        \* no two calls for one process overlap
    "target_not_exiting",    \* no call for a process overlaps its exit
    "assign_from_default" }  \* test.c: assign, unlike reassign, starts from vector 0

NoPid == "nopid"  \* what _do_fork returns when it fails
Threads == Admins \cup Procs

ASSUME ProcAssumption ==
  /\ IsFiniteSet(Procs) /\ InitProcs \subseteq Procs
  /\ NoPid \notin Procs /\ Admins \cap Procs = {}

VARIABLES
  procState,  \* "none" before the fork, "run", "exiting", "zombie", "reaped"
  vec,        \* task->vector_id, 0 for the default system calls
  pc,         \* where each thread is in its call, "idle" between calls
  call        \* the arguments and locals of its call

procVars == <<procState, vec>>
threadVars == <<pc, call>>
assignVars == <<vars, procVars, threadVars>>

VecIds == 0..MaxVectorId
Rest == [pid |-> NoPid, new |-> 0, old |-> 0]
Entries == {"assign", "unassign", "reassign"}

AssignInit ==
  /\ Init
  /\ procState = [p \in Procs |-> IF p \in InitProcs THEN "run" ELSE "none"]
  /\ vec = [p \in Procs |-> 0]
  /\ pc = [t \in Threads |-> "idle"]
  /\ call = [t \in Threads |-> Rest]

-----------------------------------------------------------------------------
InTaskList(p) == p \in Procs /\ procState[p] \in {"run", "exiting", "zombie"}

InFlight == {t \in Threads : pc[t] # "idle"}
Targets == {call[t].pid : t \in InFlight}

\* Bound: calls start only while every count has room for those in flight.
Room == \A v \in Ids : refcnt[v] + Cardinality(InFlight) < MaxRefcnt

Enter(t, entry, p, v) ==
  /\ pc' = [pc EXCEPT ![t] = entry]
  /\ call' = [call EXCEPT ![t] = [pid |-> p, new |-> v, old |-> 0]]

Goto(t, label) == pc' = [pc EXCEPT ![t] = label] /\ UNCHANGED <<vars, call>>

Leave(t) == pc' = [pc EXCEPT ![t] = "idle"] /\ call' = [call EXCEPT ![t] = Rest]

Return(t, code) == Leave(t) /\ Fail(code)

\* A reaped task_struct is freed memory: what is written there is nobody's.
SetVec(p, v) == IF InTaskList(p) THEN vec' = [vec EXCEPT ![p] = v] ELSE UNCHANGED vec

\* Mutant of Commit: task->vector_id is written whatever the result.
CommitAlways(t, v) == SetVec(call[t].pid, v) /\ UNCHANGED procState /\ Leave(t)

\* End of a critical section: task->vector_id changes exactly when it succeeds.
Commit(t, v) ==
  /\ IF ret' = "ok" THEN SetVec(call[t].pid, v) ELSE UNCHANGED vec
  /\ UNCHANGED procState
  /\ Leave(t)

-----------------------------------------------------------------------------
(* assign_syscall_vector(new, pid)                                          *)

AssignFind(t) ==
  LET c == call[t] IN
  /\ pc[t] = "assign"
  /\ \/ ~ InTaskList(c.pid) /\ Return(t, "EINVAL")
     \/ InTaskList(c.pid) /\ vec[c.pid] = c.new /\ Return(t, "ok")
     \/ InTaskList(c.pid) /\ vec[c.pid] # c.new /\ Goto(t, "assign_lock")
  /\ UNCHANGED procVars

AssignLock(t) ==
  /\ pc[t] = "assign_lock"
  /\ TakeRef(call[t].new)
  /\ Commit(t, call[t].new)

(* unassign_syscall_vector(pid)                                             *)

Read(t, label) ==
  /\ pc' = [pc EXCEPT ![t] = label]
  /\ call' = [call EXCEPT ![t].old = vec[call[t].pid]]
  /\ UNCHANGED vars

UnassignFind(t) ==
  LET p == call[t].pid IN
  /\ pc[t] = "unassign"
  /\ \/ ~ InTaskList(p) /\ Return(t, "EINVAL")
     \/ InTaskList(p) /\ vec[p] = 0 /\ Return(t, "ok")
     \/ InTaskList(p) /\ vec[p] # 0 /\ Read(t, "unassign_lock")
  /\ UNCHANGED procVars

UnassignLock(t) ==
  /\ pc[t] = "unassign_lock"
  /\ DropRef(call[t].old)
  /\ Commit(t, 0)

(* reassign_syscall_vector(new, pid)                                        *)

ReassignFind(t) ==
  LET c == call[t] IN
  /\ pc[t] = "reassign"
  /\ \/ ~ InTaskList(c.pid) /\ Return(t, "EINVAL")
     \/ /\ InTaskList(c.pid)
        /\ \/ vec[c.pid] = c.new /\ Return(t, "ok")
           \/ vec[c.pid] # 0 /\ c.new = 0 /\ Goto(t, "unassign")
           \/ vec[c.pid] = 0 /\ c.new # 0 /\ Goto(t, "assign")
           \/ 0 \notin {vec[c.pid], c.new} /\ vec[c.pid] # c.new /\ Read(t, "reassign_again")
  /\ UNCHANGED procVars

\* The task is looked up a second time, the old vector id is not read again.
ReassignAgain(t) ==
  /\ pc[t] = "reassign_again"
  /\ \/ ~ InTaskList(call[t].pid) /\ Return(t, "EINVAL")
     \/ InTaskList(call[t].pid) /\ Goto(t, "reassign_lock")
  /\ UNCHANGED procVars

ReassignLock(t) ==
  /\ pc[t] = "reassign_lock"
  /\ MoveRef(call[t].old, call[t].new)
  /\ Commit(t, call[t].new)

ThreadStep(t) ==
  \/ AssignFind(t) \/ AssignLock(t)
  \/ UnassignFind(t) \/ UnassignLock(t)
  \/ ReassignFind(t) \/ ReassignAgain(t) \/ ReassignLock(t)

-----------------------------------------------------------------------------
(* The callers.                                                             *)

\* An administrator names a pid it has seen, which may be gone by now.
StartCall(t, entry, p, v) ==
  /\ pc[t] = "idle" /\ Room
  /\ procState[p] # "none"
  /\ Keeps("serial_per_pid", p \notin Targets)
  /\ Keeps("target_not_exiting", procState[p] \notin {"exiting", "zombie"})
  /\ Keeps("assign_from_default", entry = "assign" => vec[p] \in {0, v})
  /\ Enter(t, entry, p, v)
  /\ UNCHANGED <<vars, procVars>>

Fork(c, v) ==
  /\ procState' = [procState EXCEPT ![c] = "run"]
  /\ vec' = [vec EXCEPT ![c] = v]

\* clone2 with CLONE_SYSCALLS: copy_process (external) gives the child the
\* vector of its parent and counts it.
Clone2Inherit(p, c) ==
  /\ procState[p] = "run" /\ pc[p] = "idle" /\ procState[c] = "none" /\ Room
  /\ Fork(c, vec[p])
  /\ IF vec[p] \in vectors THEN TakeRef(vec[p]) ELSE UNCHANGED vars
  /\ UNCHANGED threadVars

\* clone2 without it: the child runs on the default calls from the fork on,
\* and the parent then assigns it the vector given, whatever comes of that.
Clone2Assign(p, c, v) ==
  /\ procState[p] = "run" /\ pc[p] = "idle" /\ Room
  /\ \/ procState[c] = "none" /\ Fork(c, 0) /\ v # 0 /\ Enter(p, "assign", c, v)
     \/ procState[c] = "none" /\ Fork(c, 0) /\ v = 0 /\ UNCHANGED threadVars
     \/ v # 0 /\ Enter(p, "assign", NoPid, v) /\ UNCHANGED procVars
  /\ UNCHANGED vars

\* do_exit (external) calls _unassign_syscall_vector for the process itself.
Exit(p) ==
  /\ procState[p] = "run" /\ pc[p] = "idle"
  /\ Keeps("target_not_exiting", p \notin Targets)
  /\ procState' = [procState EXCEPT ![p] = "exiting"]
  /\ Enter(p, "unassign", p, 0)
  /\ UNCHANGED <<vars, vec>>

Zombie(p) ==
  /\ procState[p] = "exiting" /\ pc[p] = "idle"
  /\ procState' = [procState EXCEPT ![p] = "zombie"]
  /\ UNCHANGED <<vars, vec, threadVars>>

Reap(p) ==
  /\ procState[p] = "zombie"
  /\ procState' = [procState EXCEPT ![p] = "reaped"]
  /\ UNCHANGED <<vars, vec, threadVars>>

-----------------------------------------------------------------------------
AdminNext ==
  \E t \in Admins, entry \in Entries, p \in Procs, v \in VecIds : StartCall(t, entry, p, v)

LifeNext ==
  \E p \in Procs :
    \/ Exit(p) \/ Zombie(p) \/ Reap(p)
    \/ \E c \in Procs : Clone2Inherit(p, c) \/ \E v \in VecIds : Clone2Assign(p, c, v)

AssignNext ==
  \/ \E t \in Threads : ThreadStep(t)
  \/ AdminNext
  \/ LifeNext
  \/ TableNext /\ UNCHANGED <<procVars, threadVars>>

\* A call is straight-line code, and a spinning caller gets a lock that is
\* free; nothing makes a caller call, a process exit or a parent reap.
Fairness ==
  /\ \A t \in Threads : WF_assignVars(ThreadStep(t))
  /\ \A p \in Procs : WF_assignVars(Zombie(p))

AssignSpec == AssignInit /\ [][AssignNext]_assignVars
FairAssignSpec == AssignSpec /\ Fairness

-----------------------------------------------------------------------------
(* Correctness.                                                             *)

Labels == {"idle", "assign_lock", "unassign_lock", "reassign_again", "reassign_lock"} \cup Entries

\* The shape of the state.
AssignTypeOK ==
  /\ TypeOK
  /\ procState \in [Procs -> {"none", "run", "exiting", "zombie", "reaped"}]
  /\ vec \in [Procs -> VecIds]
  /\ pc \in [Threads -> Labels]
  /\ call \in [Threads -> [pid : Procs \cup {NoPid}, new : VecIds, old : VecIds]]

\* Processes that the task list shows with vector v.
Users(v) == {p \in Procs : InTaskList(p) /\ vec[p] = v}

\* The count of a vector is the number of processes assigned to it, through
\* every interleaving of assign, unassign, reassign, clone2 and exit: a vector
\* can be removed exactly when no process is on it.
RefcntExact == \A v \in vectors : refcnt[v] = Cardinality(Users(v))

\* A process is never left with the id of a vector that was removed, which
\* add_syscall_vector may give to another table at any time.
AssignedVectorExists == \A p \in Procs : InTaskList(p) /\ vec[p] # 0 => vec[p] \in vectors

\* Processes hold vectors as Pinning promises.
VPins == INSTANCE Pinning WITH
  Objects <- Ids,
  Holders <- Procs,
  alive <- vectors,
  holds <- [p \in Procs |-> IF InTaskList(p) THEN {vec[p]} \ {0} ELSE {}]
VectorsPinned == VPins!Spec

\* Every call of assign, unassign or reassign returns to its caller.
CallsReturn == \A t \in Threads : pc[t] # "idle" ~> pc[t] = "idle"

\* A process that exits gets through its exit, whoever holds the table.
ExitCompletes == \A p \in Procs : procState[p] = "exiting" ~> procState[p] = "zombie"
=============================================================================

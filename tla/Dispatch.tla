------------------------------ MODULE Dispatch ------------------------------
(***************************************************************************)
(* A process on a vector makes system calls: the kernel asks get_syscall_fn *)
(* for the function and then calls it, after the lock has been released.    *)
(* The caller of the hook is the kernel's (README.pdf section 4); the       *)
(* lookup, and what the table and the modules do meanwhile, are SyscallTbl. *)
(***************************************************************************)
EXTENDS SyscallTbl

CONSTANT Tasks  \* processes that make system calls

\* One more rule; see Clauses in SyscallTbl.
DispatchClauses ==
  { "unmap_when_idle" }  \* an override is unmapped while no process is in it

VARIABLES
  on,    \* task->vector_id
  pc,    \* "user", "lookup", "call" (the address is in hand), "running"
  found  \* the lookup: vector and number asked for, then the name found

taskVars == <<on, pc, found>>
dispatchVars == <<vars, taskVars>>

NoName == "noname"
AtRest == [v |-> 0, num |-> 0, name |-> NoName]

DispatchInit ==
  /\ Init
  /\ on = [t \in Tasks |-> 0]
  /\ pc = [t \in Tasks |-> "user"]
  /\ found = [t \in Tasks |-> AtRest]

-----------------------------------------------------------------------------
\* Somebody assigns the process to a vector, or takes it off, at any time.
Assign(t, v) ==
  /\ on[t] = 0
  /\ TakeRef(v) /\ ret' = "ok"
  /\ on' = [on EXCEPT ![t] = v]
  /\ UNCHANGED <<pc, found>>

Unassign(t) ==
  /\ on[t] # 0
  /\ DropRef(on[t]) /\ ret' = "ok"
  /\ on' = [on EXCEPT ![t] = 0]
  /\ UNCHANGED <<pc, found>>

\* do_syscall_64 reads the vector of the process.
EnterSyscall(t, num) ==
  /\ pc[t] = "user" /\ on[t] # 0
  /\ pc' = [pc EXCEPT ![t] = "lookup"]
  /\ found' = [found EXCEPT ![t] = [v |-> on[t], num |-> num, name |-> NoName]]
  /\ UNCHANGED <<vars, on>>

\* What get_syscall_fn may take the address from: NoName is a freed syscall_t.
Hits(v, num) == Match(v, num) \cup (IF freed[v] > 0 THEN {NoName} ELSE {})

\* With a function in hand the call goes on; a blocked number, a number that
\* is not overridden and a missing vector are over as far as overrides go.
Lookup(t) ==
  /\ pc[t] = "lookup"
  /\ GetSyscallFn(found[t].v, found[t].num)
  /\ \/ /\ ret' = "fn"
        /\ pc' = [pc EXCEPT ![t] = "call"]
        /\ \E n \in Hits(found[t].v, found[t].num) : found' = [found EXCEPT ![t].name = n]
     \/ /\ ret' # "fn"
        /\ pc' = [pc EXCEPT ![t] = "user"]
        /\ found' = [found EXCEPT ![t] = AtRest]
  /\ UNCHANGED on

Call(t) ==
  /\ pc[t] = "call"
  /\ pc' = [pc EXCEPT ![t] = "running"]
  /\ UNCHANGED <<vars, on, found>>

Return(t) ==
  /\ pc[t] = "running"
  /\ pc' = [pc EXCEPT ![t] = "user"]
  /\ found' = [found EXCEPT ![t] = AtRest]
  /\ UNCHANGED <<vars, on>>

Busy == {t \in Tasks : pc[t] \in {"call", "running"}}

TableStep ==
  /\ TableNext
  /\ Keeps("unmap_when_idle", \A t \in Busy : found[t].name \in calls'[found[t].v])
  /\ UNCHANGED taskVars

DispatchNext ==
  \/ TableStep
  \/ \E t \in Tasks :
       \/ Unassign(t) \/ Lookup(t) \/ Call(t) \/ Return(t)
       \/ \E v \in Ids : Assign(t, v)
       \/ \E num \in Nums : EnterSyscall(t, num)

DispatchSpec == DispatchInit /\ [][DispatchNext]_dispatchVars

-----------------------------------------------------------------------------
(* Correctness.                                                             *)

\* A process that has the address of an override, or runs it, has it in a
\* module that is loaded: the module is not unloaded under the call.
RunsLoadedCode ==
  \A t \in Busy : LET n == found[t].name IN
    n \in Names /\ modState[ModOf[n]] \in {"coming", "live"}
=============================================================================

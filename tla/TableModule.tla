---------------------------- MODULE TableModule ----------------------------
(***************************************************************************)
(* The life of the module syscall_tbl_mod and of those that reach it.  The  *)
(* table is one allocation of init_syscall_tbl; the kernel reaches it by    *)
(* three hooks that init sets and exit clears, the device (here for every   *)
(* module that uses the exported symbols) by a dependency of the loader,    *)
(* and clone2 is reached by sysptr.  A caller tests a hook, and then calls. *)
(***************************************************************************)
EXTENDS VectorAssign, Sequences

\* More rules; see Clauses in SyscallTbl.
UnloadClauses ==
  { "clone2_first",   \* clone2 is unloaded before the table, and loaded after it is gone
    "modules_idle" }  \* the device and clone2 are unloaded when nobody is in them

VARIABLES
  table,   \* "absent", "loading", "ready" (allocated), "live", "going"
  hooks,   \* the hooks that are not NULL
  device,  \* whether hw3_ioctl is loaded
  sysptr   \* whether sysptr leads to clone2

loadVars == <<table, hooks, device, sysptr>>
tableVars == <<assignVars, loadVars>>

Hooks == <<"assign", "unassign", "get_fn">>
AllHooks == {"assign", "unassign", "get_fn"}

TableInit ==
  /\ AssignInit
  /\ table = "absent" /\ hooks = {}
  /\ device = FALSE /\ sysptr = FALSE

\* Where a thread is in the code of the table, or about to jump into it.
InTable(t) == pc[t] \notin {"idle", "clone2"}

-----------------------------------------------------------------------------
(* init_syscall_tbl and exit_syscall_tbl, between the steps of the loader.   *)

LoadTable ==
  /\ table = "absent" /\ table' = "loading"
  /\ UNCHANGED <<assignVars, hooks, device, sysptr>>

\* kmalloc, which may fail, and the empty lists and the free lock.
InitTable ==
  /\ table = "loading"
  /\ \/ table' = "absent" /\ UNCHANGED tblVars
     \/ /\ table' = "ready"
        /\ lock' = "free" /\ vectors' = {} /\ registered' = {} /\ tblRef' = 0
        /\ UNCHANGED <<refcnt, blocked, calls, freed>>
  /\ UNCHANGED <<modVars, ret, procVars, threadVars, hooks, device, sysptr>>

\* Mutant of SetHook: the hooks are set before the allocation.
SetHookEarly ==
  /\ table \in {"loading", "ready"}
  /\ \E i \in DOMAIN Hooks :
       hooks = {Hooks[j] : j \in 1..(i - 1)} /\ hooks' = hooks \cup {Hooks[i]}
  /\ UNCHANGED <<assignVars, table, device, sysptr>>

SetHook ==
  /\ table = "ready"
  /\ \E i \in DOMAIN Hooks :
       hooks = {Hooks[j] : j \in 1..(i - 1)} /\ hooks' = hooks \cup {Hooks[i]}
  /\ UNCHANGED <<assignVars, table, device, sysptr>>

InitDone ==
  /\ table = "ready" /\ hooks = AllHooks /\ table' = "live"
  /\ UNCHANGED <<assignVars, hooks, device, sysptr>>

\* delete_module: no reference of the table's own, no module that depends.
DeleteTable ==
  /\ table = "live" /\ tblRef = 0 /\ ~ device
  /\ Keeps("clone2_first", ~ sysptr)
  /\ table' = "going"
  /\ UNCHANGED <<assignVars, hooks, device, sysptr>>

ClearHook ==
  /\ table = "going"
  /\ \E i \in DOMAIN Hooks :
       hooks = {Hooks[j] : j \in i..Len(Hooks)} /\ hooks' = hooks \ {Hooks[i]}
  /\ UNCHANGED <<assignVars, table, device, sysptr>>

FreeTable ==
  /\ table = "going" /\ hooks = {} /\ table' = "absent"
  /\ UNCHANGED <<assignVars, hooks, device, sysptr>>

-----------------------------------------------------------------------------
(* The modules that reach the table.  The file operations of the device have *)
(* no owner and sysptr is a plain pointer, so a call pins neither of them.   *)

LoadDevice ==
  /\ ~ device /\ table = "live" /\ device' = TRUE
  /\ UNCHANGED <<assignVars, table, hooks, sysptr>>

UnloadDevice ==
  /\ device
  /\ Keeps("modules_idle", \A t \in Admins : pc[t] = "idle")
  /\ device' = FALSE
  /\ UNCHANGED <<assignVars, table, hooks, sysptr>>

InClone2(p) == pc[p] \in {"clone2", "assign_hook", "assign", "assign_lock"}

LoadClone2 ==
  /\ ~ sysptr
  /\ Keeps("clone2_first", table # "going")
  /\ sysptr' = TRUE
  /\ UNCHANGED <<assignVars, table, hooks, device>>

UnloadClone2 ==
  /\ sysptr
  /\ Keeps("modules_idle", \A p \in Procs : ~ InClone2(p))
  /\ sysptr' = FALSE
  /\ UNCHANGED <<assignVars, table, hooks, device>>

-----------------------------------------------------------------------------
(* Calls by way of the hooks.                                               *)

EnterClone2(p) ==
  /\ sysptr /\ procState[p] = "run" /\ pc[p] = "idle"
  /\ pc' = [pc EXCEPT ![p] = "clone2"]
  /\ UNCHANGED <<vars, procVars, call>>

\* _do_fork returns, with a child or an error; then clone2 tests the hook.
ForkAndTest(p, c, v) ==
  /\ pc[p] = "clone2" /\ Room
  /\ \/ c = NoPid /\ UNCHANGED procVars
     \/ c # NoPid /\ procState[c] = "none" /\ Fork(c, 0)
  /\ \/ v # 0 /\ "assign" \in hooks /\ Enter(p, "assign_hook", c, v)
     \/ (v = 0 \/ "assign" \notin hooks) /\ Leave(p)
  /\ UNCHANGED vars

\* With CLONE_SYSCALLS the fork (external) has given the child its vector.
ForkInherits(p, c) ==
  /\ pc[p] = "clone2" /\ procState[c] = "none" /\ Room
  /\ Fork(c, vec[p])
  /\ IF vec[p] \in vectors THEN TakeRef(vec[p]) ELSE UNCHANGED vars
  /\ Leave(p)

\* do_exit (external) tests its hook.
ExitAndTest(p) ==
  /\ procState[p] = "run" /\ pc[p] = "idle"
  /\ Keeps("target_not_exiting", p \notin Targets)
  /\ procState' = [procState EXCEPT ![p] = "exiting"]
  /\ \/ "unassign" \in hooks /\ Enter(p, "unassign_hook", p, 0)
     \/ "unassign" \notin hooks /\ UNCHANGED threadVars
  /\ UNCHANGED <<vars, vec>>

\* So does the entry of a system call (external) of a process on a vector.
SyscallAndTest(p) ==
  /\ procState[p] = "run" /\ pc[p] = "idle" /\ vec[p] # 0
  /\ "get_fn" \in hooks
  /\ Enter(p, "get_fn_hook", NoPid, vec[p])
  /\ UNCHANGED <<vars, procVars>>

CallHook(p) ==
  /\ \/ pc[p] = "assign_hook" /\ Goto(p, "assign")
     \/ pc[p] = "unassign_hook" /\ Goto(p, "unassign")
     \/ pc[p] = "get_fn_hook" /\ Leave(p) /\ \E num \in Nums : GetSyscallFn(call[p].new, num)
  /\ UNCHANGED procVars

\* Administrators call from the device.
DeviceCall ==
  \/ AdminNext
  \/ (VectorNext \/ NumNext) /\ UNCHANGED <<procVars, threadVars>>

-----------------------------------------------------------------------------
LoadNext ==
  \/ LoadTable \/ InitTable \/ SetHook \/ InitDone
  \/ DeleteTable \/ ClearHook \/ FreeTable
  \/ LoadDevice \/ UnloadDevice \/ LoadClone2 \/ UnloadClone2

ProcNext ==
  \E p \in Procs :
    \/ EnterClone2(p) \/ ExitAndTest(p) \/ SyscallAndTest(p) \/ CallHook(p)
    \/ Zombie(p) \/ Reap(p)
    \/ \E c \in Procs : ForkInherits(p, c)
    \/ \E c \in Procs \cup {NoPid}, v \in VecIds : ForkAndTest(p, c, v)

TableModuleNext ==
  \/ LoadNext
  \/ ((\E t \in Threads : ThreadStep(t)) \/ ProcNext) /\ UNCHANGED loadVars
  \/ device /\ DeviceCall /\ UNCHANGED loadVars

TableSpec == TableInit /\ [][TableModuleNext]_tableVars

-----------------------------------------------------------------------------
(* Correctness.                                                             *)

\* While a process is on a vector the table is there with all its hooks, so
\* that its system calls are looked up and its exit gives the vector back: the
\* chain of counts from task to vector to table holds the module.
AssignedKeepsTable ==
  \A p \in Procs : InTaskList(p) /\ vec[p] # 0 => table = "live" /\ hooks = AllHooks

\* Of what a process on the default vector does, an exit that has found its
\* hook set, and a system call begun before the process left its vector, are
\* held by nothing: the table may go away under them.
Unheld(t) ==
  t \in Procs /\ vec[t] = 0 /\ pc[t] \in {"unassign_hook", "unassign", "get_fn_hook"}

\* Everybody else who is in the table's functions, or has tested a hook and is
\* about to call it, finds the table allocated and not on its way out, whoever
\* loads and unloads what: calls of the device by the loader's dependency, a
\* process on a vector by its own count, and clone2 by the rules.
InsideLoaded ==
  \A t \in Threads : InTable(t) => table \in {"ready", "live"} \/ Unheld(t)
=============================================================================

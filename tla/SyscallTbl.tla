----------------------------- MODULE SyscallTbl -----------------------------
(***************************************************************************)
(* The shared table of syscall_module/syscall_tbl.c: registered override    *)
(* system calls, system-call vectors, the reference counts that tie them    *)
(* together, and the kernel modules that own the overrides.                 *)
(*                                                                          *)
(* Every exported operation does its work in one critical section of        *)
(* syscall_tbl->lock, so a call is one atomic step, enabled while the lock  *)
(* is free; what a call does before it takes the lock (kmalloc, the length  *)
(* of the name) is a separate outcome of the same action.                   *)
(***************************************************************************)
EXTENDS Integers, FiniteSets, IdAlloc

CONSTANTS
  Modules,      \* loadable modules that register override system calls
  Names,        \* names of override system calls (syscall_t.name)
  LongNames,    \* the names longer than MAX_NAME_LENGTH - 1
  ModOf,        \* name -> the module whose init registers it
  NumOf,        \* name -> the system call number it overrides
  Nums,         \* the numbers callers block, unblock and look up
  MaxVectorId,  \* bound: ids handed out (the code's bound is SHRT_MAX)
  MaxRefcnt,    \* bound: processes per vector (the code's bound is SHRT_MAX)
  MaxModRef,    \* bound: references on a module
  MaxFreed,     \* bound: entries per vector whose syscall_t was freed
  Contract      \* the rules the callers follow, a subset of Clauses

(***************************************************************************)
(* What callers may be trusted to do.  The code checks none of these; the   *)
(* in-tree callers named on the right follow them, other callers need not.  *)
(***************************************************************************)
Clauses ==
  { "unregister_at_exit",  \* test_syscalls.c and test.c: only in init or exit
    "no_map_while_going",  \* nothing is mapped while its module is unloading
    "remove_own",          \* test_vectors.c: a name is unmapped where it was mapped
    "empty_first",         \* test_vectors.c: a vector is emptied, then removed
    "name_given",          \* test_vectors.c: an override is mapped and unmapped by a name
    "block_existing" }     \* test.c: block and unblock an existing vector

Ids == 1..MaxVectorId

ASSUME TblAssumption ==
  /\ IsFiniteSet(Modules) /\ IsFiniteSet(Names) /\ LongNames \subseteq Names
  /\ ModOf \in [Names -> Modules]
  /\ NumOf \in [Names -> Int]
  /\ MaxVectorId \in Nat /\ MaxRefcnt \in Nat /\ MaxModRef \in Nat /\ MaxFreed \in Nat

VARIABLES
  lock,        \* "free", or "leaked": a call returned or died without spin_unlock
  vectors,     \* ids on syscall_tbl->vector_list
  refcnt,      \* syscall_vector_t.refcnt, 0 for an id with no vector
  blocked,     \* syscall_vector_t.blocked as the set of blocked numbers
  calls,       \* syscall_num_list: names whose (live) syscall_t an entry points to
  freed,       \* syscall_num_list: number of entries whose syscall_t was freed
  registered,  \* names on syscall_tbl->syscall_list
  tblRef,      \* references the table holds on its own module SYSCALL_MODULE
  modState,    \* struct module.state, or "unloaded"
  modRef,      \* module_refcount(): 1 while init runs, -1 once being removed
  ret          \* return code of the last call, "none" after any other step

vecVars == <<vectors, refcnt, blocked, calls, freed>>
tblVars == <<lock, vecVars, registered, tblRef>>
modVars == <<modState, modRef>>
vars == <<tblVars, modVars, ret>>

Codes ==
  { "none", "ok", "default", "fn", "ENOSYS", "ENOMEM", "EINVAL", "ENOENT", "EBUSY", "EPERM",
    "oops" }  \* none at all: the caller is killed in the call
Errors == {"ENOMEM", "EINVAL", "ENOENT", "EBUSY", "EPERM"}

Init ==
  /\ lock = "free"
  /\ vectors = {}
  /\ refcnt = [v \in Ids |-> 0]
  /\ blocked = [v \in Ids |-> {}]
  /\ calls = [v \in Ids |-> {}]
  /\ freed = [v \in Ids |-> 0]
  /\ registered = {}
  /\ tblRef = 0
  /\ modState = [m \in Modules |-> "unloaded"]
  /\ modRef = [m \in Modules |-> -1]
  /\ ret = "none"

-----------------------------------------------------------------------------
(* Building blocks.                                                         *)

Keeps(clause, condition) == clause \in Contract => condition

Unlocked == lock = "free"

Fail(code) == ret' = code /\ UNCHANGED <<tblVars, modVars>>

\* Mutant of Got: the reference is not taken.
GotNothing(m) == modRef

\* try_module_get, whose result the code ignores: a module being removed
\* (or whose count has been driven below its base) is left as it is.
Got(m) ==
  IF modState[m] # "going" /\ modRef[m] >= 0
  THEN [modRef EXCEPT ![m] = @ + 1] ELSE modRef

\* Mutant of Put: the reference is not given back.
PutNothing(m) == modRef

\* module_put: atomic_dec_if_positive of the count, whose base is -1 here.
Put(m) == IF modRef[m] > -1 THEN [modRef EXCEPT ![m] = @ - 1] ELSE modRef

\* get_syscall_of_syscall_vector finds an entry by number.  An entry whose
\* syscall_t was freed may or may not match: its number is freed memory.
Match(v, num) == {n \in calls[v] : NumOf[n] = num}
MayHit(v, num) == Match(v, num) # {} \/ freed[v] > 0

\* Mutant of MayMiss: the lookup by number is dropped.
MissAlways(v, num) == TRUE
MayMiss(v, num) == Match(v, num) = {}

-----------------------------------------------------------------------------
(* The module loader, which is the kernel's and not in the repository.      *)

LoaderStep == ret' = "none" /\ UNCHANGED tblVars

ModuleInit(m) ==
  /\ modState[m] = "unloaded"
  /\ modState' = [modState EXCEPT ![m] = "coming"]
  /\ modRef' = [modRef EXCEPT ![m] = 1]
  /\ LoaderStep

ModuleLive(m) ==
  /\ modState[m] = "coming"
  /\ modState' = [modState EXCEPT ![m] = "live"]
  /\ modRef' = [modRef EXCEPT ![m] = @ - 1]
  /\ LoaderStep

\* delete_module succeeds when the count is at its base.
ModuleDelete(m) ==
  /\ modState[m] = "live"
  /\ modRef[m] = 0
  /\ modState' = [modState EXCEPT ![m] = "going"]
  /\ modRef' = [modRef EXCEPT ![m] = -1]
  /\ LoaderStep

\* The exit handler unregisters every name of the module before it returns.
ModuleGone(m) ==
  /\ modState[m] = "going"
  /\ \A n \in registered : ModOf[n] # m
  /\ modState' = [modState EXCEPT ![m] = "unloaded"]
  /\ UNCHANGED modRef
  /\ LoaderStep

-----------------------------------------------------------------------------
(* Registered system calls.                                                 *)

\* Mutant of RegisterSyscall: a name that is there is registered again.
RegisterTwice(n) ==
  /\ modState[ModOf[n]] = "coming" /\ n \notin LongNames /\ Unlocked
  /\ registered' = registered \cup {n}
  /\ tblRef' = tblRef + 1
  /\ ret' = "ok"
  /\ UNCHANGED <<lock, vecVars, modVars>>

RegisterSyscall(n) ==
  /\ modState[ModOf[n]] = "coming"
  /\ \/ n \in LongNames /\ Fail("EINVAL")
     \/ n \notin LongNames /\ Fail("ENOMEM")
     \/ n \notin LongNames /\ Unlocked /\ n \in registered /\ Fail("EINVAL")
     \/ /\ n \notin LongNames /\ Unlocked /\ n \notin registered
        /\ registered' = registered \cup {n}
        /\ tblRef' = tblRef + 1
        /\ ret' = "ok"
        /\ UNCHANGED <<lock, vecVars, modVars>>

\* kfree(syscall_node) frees the syscall_t that vector entries point to: every
\* entry for n that is still on a vector becomes a pointer to freed memory.
UnregisterSyscall(n) ==
  /\ modState[ModOf[n]] \in {"coming", "live", "going"}
  /\ Keeps("unregister_at_exit", modState[ModOf[n]] # "live")
  /\ Unlocked
  /\ \/ n \notin registered /\ Fail("ENOENT")
     \/ n \in registered /\ modRef[ModOf[n]] > 1 /\ Fail("EBUSY")
     \/ /\ n \in registered /\ modRef[ModOf[n]] <= 1
        /\ \A v \in Ids : n \in calls[v] => freed[v] < MaxFreed
        /\ registered' = registered \ {n}
        /\ calls' = [v \in Ids |-> calls[v] \ {n}]
        /\ freed' = [v \in Ids |-> IF n \in calls[v] THEN freed[v] + 1 ELSE freed[v]]
        /\ tblRef' = tblRef - 1
        /\ ret' = "ok"
        /\ UNCHANGED <<lock, vectors, refcnt, blocked, modVars>>

-----------------------------------------------------------------------------
(* Vectors.                                                                 *)

\* Mutant of AddSyscallVector: the table's module is not referenced.
AddUncounted ==
  /\ Unlocked /\ NextVectorId(vectors) \in Ids
  /\ vectors' = vectors \cup {NextVectorId(vectors)}
  /\ ret' = "ok"
  /\ UNCHANGED <<lock, refcnt, blocked, calls, freed, registered, tblRef, modVars>>

AddSyscallVector ==
  \/ Fail("ENOMEM")
  \/ /\ Unlocked
     /\ NextVectorId(vectors) \in Ids
     /\ LET id == NextVectorId(vectors) IN
          /\ vectors' = vectors \cup {id}
          /\ refcnt' = [refcnt EXCEPT ![id] = 0]
          /\ calls' = [calls EXCEPT ![id] = {}]
          /\ freed' = [freed EXCEPT ![id] = 0]
          /\ blocked' = [blocked EXCEPT ![id] = {}]
     /\ tblRef' = tblRef + 1
     /\ ret' = "ok"
     /\ UNCHANGED <<lock, registered, modVars>>

\* The node and its syscall_vector_t are freed; the entries of its
\* syscall_num_list, and the references they stand for, are not released.
RemoveSyscallVector(v) ==
  /\ Keeps("empty_first", calls[v] = {} /\ freed[v] = 0)
  /\ Unlocked
  /\ \/ v \notin vectors /\ Fail("ENOENT")
     \/ v \in vectors /\ refcnt[v] > 0 /\ Fail("EBUSY")
     \/ /\ v \in vectors /\ refcnt[v] <= 0
        /\ vectors' = vectors \ {v}
        /\ refcnt' = [refcnt EXCEPT ![v] = 0]
        /\ blocked' = [blocked EXCEPT ![v] = {}]
        /\ calls' = [calls EXCEPT ![v] = {}]
        /\ freed' = [freed EXCEPT ![v] = 0]
        /\ tblRef' = tblRef - 1
        /\ ret' = "ok"
        /\ UNCHANGED <<lock, registered, modVars>>

AddSyscallToVector(v, n) ==
  /\ Keeps("no_map_while_going", modState[ModOf[n]] # "going")
  /\ \/ Fail("ENOMEM")
     \/ Unlocked /\ n \notin registered /\ Fail("ENOENT")
     \/ Unlocked /\ n \in registered /\ v \notin vectors /\ Fail("ENOENT")
     \/ Unlocked /\ n \in registered /\ v \in vectors /\ MayHit(v, NumOf[n]) /\ Fail("EPERM")
     \/ /\ Unlocked /\ n \in registered /\ v \in vectors /\ MayMiss(v, NumOf[n])
        /\ modRef[ModOf[n]] < MaxModRef
        /\ calls' = [calls EXCEPT ![v] = @ \cup {n}]
        /\ modRef' = Got(ModOf[n])
        /\ ret' = "ok"
        /\ UNCHANGED <<lock, vectors, refcnt, blocked, freed, registered, tblRef, modState>>

\* The entry taken off the list is the one found by number; the reference
\* dropped is that of the module which registered the name given.
RemoveSyscallFromVector(v, n) ==
  /\ Keeps("remove_own", Match(v, NumOf[n]) \subseteq {n})
  /\ Unlocked
  /\ \/ (n \notin registered \/ v \notin vectors) /\ Fail("ENOENT")
     \/ n \in registered /\ v \in vectors /\ MayMiss(v, NumOf[n]) /\ Fail("ENOENT")
     \/ /\ n \in registered /\ v \in vectors
        /\ \/ \E e \in Match(v, NumOf[n]) :
                calls' = [calls EXCEPT ![v] = @ \ {e}] /\ UNCHANGED freed
           \/ freed[v] > 0 /\ freed' = [freed EXCEPT ![v] = @ - 1] /\ UNCHANGED calls
        /\ modRef' = Put(ModOf[n])
        /\ ret' = "ok"
        /\ UNCHANGED <<lock, vectors, refcnt, blocked, registered, tblRef, modState>>

\* get_syscall takes the length of a name that is NULL: the kernel kills the
\* caller, and nobody gives the lock back.
Oops ==
  /\ ret' = "oops"
  /\ lock' = "leaked"
  /\ UNCHANGED <<vecVars, registered, tblRef, modVars>>

\* add_syscall_to_vector and remove_syscall_from_vector without a name.
AddNoName ==
  /\ Keeps("name_given", FALSE)
  /\ Fail("ENOMEM") \/ (Unlocked /\ Oops)

RemoveNoName ==
  /\ Keeps("name_given", FALSE)
  /\ Unlocked /\ Oops

-----------------------------------------------------------------------------
(* Blocking and lookup.                                                     *)

\* The exit taken for a missing vector skips spin_unlock.
LeakLock(v) ==
  /\ v \notin vectors
  /\ ret' = "ENOENT"
  /\ lock' = "leaked"
  /\ UNCHANGED <<vecVars, registered, tblRef, modVars>>

BlockSyscallNum(v, num) ==
  /\ Keeps("block_existing", v \in vectors)
  /\ Unlocked
  /\ \/ LeakLock(v)
     \/ /\ v \in vectors
        /\ blocked' = [blocked EXCEPT ![v] = @ \cup {num}]
        /\ ret' = "ok"
        /\ UNCHANGED <<lock, vectors, refcnt, calls, freed, registered, tblRef, modVars>>

UnblockSyscallNum(v, num) ==
  /\ Keeps("block_existing", v \in vectors)
  /\ Unlocked
  /\ \/ LeakLock(v)
     \/ /\ v \in vectors
        /\ blocked' = [blocked EXCEPT ![v] = @ \ {num}]
        /\ ret' = "ok"
        /\ UNCHANGED <<lock, vectors, refcnt, calls, freed, registered, tblRef, modVars>>

GetSyscallFn(v, num) ==
  /\ Unlocked
  /\ \/ v \notin vectors /\ Fail("ENOENT")
     \/ v \in vectors /\ num \in blocked[v] /\ Fail("ENOSYS")
     \/ v \in vectors /\ num \notin blocked[v] /\ MayMiss(v, num) /\ Fail("default")
     \/ v \in vectors /\ num \notin blocked[v] /\ MayHit(v, num) /\ Fail("fn")

-----------------------------------------------------------------------------
(* The critical sections of assign_, unassign_ and reassign_syscall_vector  *)
(* on the table; module VectorAssign adds the process side of each.         *)

CountVars == <<lock, vectors, blocked, calls, freed, registered, tblRef, modVars>>

\* Mutant of TakeRef: refcnt is not incremented.
TakeUncounted(v) ==
  /\ Unlocked /\ v \in vectors
  /\ ret' = "ok"
  /\ UNCHANGED <<refcnt, CountVars>>

\* Mutant of TakeRef: the exit for a missing vector skips spin_unlock.
TakeLeaks(v) ==
  /\ Unlocked
  /\ \/ LeakLock(v)
     \/ /\ v \in vectors /\ refcnt[v] < MaxRefcnt
        /\ refcnt' = [refcnt EXCEPT ![v] = @ + 1]
        /\ ret' = "ok"
        /\ UNCHANGED CountVars

TakeRef(v) ==
  /\ Unlocked
  /\ \/ v \notin vectors /\ Fail("ENOENT")
     \/ /\ v \in vectors /\ refcnt[v] < MaxRefcnt
        /\ refcnt' = [refcnt EXCEPT ![v] = @ + 1]
        /\ ret' = "ok"
        /\ UNCHANGED CountVars

\* Mutant of DropRef: the test for a count of zero is dropped.
DropUnchecked(v) ==
  /\ Unlocked /\ v \in vectors
  /\ refcnt' = [refcnt EXCEPT ![v] = @ - 1]
  /\ ret' = "ok"
  /\ UNCHANGED CountVars

\* Mutant of DropRef: the exit for a missing vector skips spin_unlock.
DropLeaks(v) ==
  /\ Unlocked
  /\ \/ LeakLock(v)
     \/ /\ v \in vectors /\ refcnt[v] # 0
        /\ refcnt' = [refcnt EXCEPT ![v] = @ - 1]
        /\ ret' = "ok"
        /\ UNCHANGED CountVars

DropRef(v) ==
  /\ Unlocked
  /\ \/ v \notin vectors /\ Fail("ENOENT")
     \/ v \in vectors /\ refcnt[v] = 0 /\ Fail("EPERM")
     \/ /\ v \in vectors /\ refcnt[v] # 0
        /\ refcnt' = [refcnt EXCEPT ![v] = @ - 1]
        /\ ret' = "ok"
        /\ UNCHANGED CountVars

\* Mutant of MoveRef: the old vector is released before the new one is found.
MoveDropsFirst(old, v) ==
  /\ Unlocked /\ old \in vectors /\ refcnt[old] # 0
  /\ \/ /\ v \notin vectors
        /\ refcnt' = [refcnt EXCEPT ![old] = @ - 1]
        /\ ret' = "ENOENT"
        /\ UNCHANGED CountVars
     \/ /\ v \in vectors /\ refcnt[v] < MaxRefcnt
        /\ refcnt' = [refcnt EXCEPT ![old] = @ - 1, ![v] = @ + 1]
        /\ ret' = "ok"
        /\ UNCHANGED CountVars

\* Mutant of MoveRef: the exit for a missing vector skips spin_unlock.
MoveLeaks(old, v) ==
  /\ Unlocked
  /\ \/ old \notin vectors /\ LeakLock(old)
     \/ v \notin vectors /\ LeakLock(v)
     \/ /\ {v, old} \subseteq vectors /\ refcnt[old] # 0 /\ refcnt[v] < MaxRefcnt
        /\ refcnt' = [refcnt EXCEPT ![old] = @ - 1, ![v] = @ + 1]
        /\ ret' = "ok"
        /\ UNCHANGED CountVars

\* Mutant of MoveRef: the two vectors are mixed up.
MoveSwapped(old, v) ==
  /\ Unlocked /\ {v, old} \subseteq vectors /\ refcnt[old] # 0
  /\ refcnt' = [refcnt EXCEPT ![old] = @ + 1, ![v] = @ - 1]
  /\ ret' = "ok"
  /\ UNCHANGED CountVars

\* Mutant of MoveRef: the old vector keeps its count.
MoveKeepsOld(old, v) ==
  /\ Unlocked /\ {v, old} \subseteq vectors /\ refcnt[v] < MaxRefcnt
  /\ refcnt' = [refcnt EXCEPT ![v] = @ + 1]
  /\ ret' = "ok"
  /\ UNCHANGED CountVars

MoveRef(old, v) ==
  /\ Unlocked
  /\ \/ ~ {v, old} \subseteq vectors /\ Fail("ENOENT")
     \/ {v, old} \subseteq vectors /\ refcnt[old] = 0 /\ Fail("EPERM")
     \/ /\ {v, old} \subseteq vectors /\ refcnt[old] # 0 /\ refcnt[v] < MaxRefcnt
        /\ refcnt' = [refcnt EXCEPT ![old] = @ - 1, ![v] = @ + 1]
        /\ ret' = "ok"
        /\ UNCHANGED CountVars

\* A call that returns before it reaches the lock.
ReturnEarly == \E code \in {"ok", "EINVAL"} : Fail(code)

-----------------------------------------------------------------------------
LoaderNext ==
  \E m \in Modules : ModuleInit(m) \/ ModuleLive(m) \/ ModuleDelete(m) \/ ModuleGone(m)

NameNext == \E n \in Names : RegisterSyscall(n) \/ UnregisterSyscall(n)

MapNext ==
  \E v \in Ids, n \in Names : AddSyscallToVector(v, n) \/ RemoveSyscallFromVector(v, n)

NoNameNext == AddNoName \/ RemoveNoName

VectorNext == AddSyscallVector \/ \E v \in Ids : RemoveSyscallVector(v)

NumNext ==
  \E v \in Ids, num \in Nums :
    BlockSyscallNum(v, num) \/ UnblockSyscallNum(v, num) \/ GetSyscallFn(v, num)

CountNext ==
  \/ ReturnEarly
  \/ \E v \in Ids : TakeRef(v) \/ DropRef(v)
  \/ \E old, v \in Ids : old # v /\ MoveRef(old, v)

TableNext == LoaderNext \/ NameNext \/ MapNext \/ NoNameNext \/ VectorNext \/ NumNext

Next == TableNext \/ CountNext

Spec == Init /\ [][Next]_vars

-----------------------------------------------------------------------------
(* Correctness.                                                             *)

\* The shape of the state: fields of an id that is on no list are at rest,
\* and an entry that points to a live syscall_t names a registered call.
TypeOK ==
  /\ lock \in {"free", "leaked"}
  /\ vectors \subseteq Ids
  /\ refcnt \in [Ids -> Nat]
  /\ blocked \in [Ids -> SUBSET Nums]
  /\ calls \in [Ids -> SUBSET registered]
  /\ freed \in [Ids -> Nat]
  /\ registered \subseteq Names \ LongNames
  /\ tblRef \in Int
  /\ modState \in [Modules -> {"unloaded", "coming", "live", "going"}]
  /\ modRef \in [Modules -> Int]
  /\ ret \in Codes
  /\ \A v \in Ids \ vectors :
       refcnt[v] = 0 /\ blocked[v] = {} /\ calls[v] = {} /\ freed[v] = 0

\* The table holds exactly one reference on its own module for every vector
\* and every registered call, so syscall_tbl cannot be unloaded, and its lists
\* freed by exit_syscall_tbl, while anything is on them; and can be when empty.
TblRefExact == tblRef = Cardinality(vectors) + Cardinality(registered)

\* A vector never holds two live entries for one number: the dispatch of a
\* number is decided by one override whatever sequence of calls built the list.
OneEntryPerNum ==
  \A v \in Ids : \A m, n \in calls[v] : NumOf[m] = NumOf[n] => m = n

\* No vector holds an entry whose syscall_t was freed by unregister_syscall.
NoFreedEntry == \A v \in Ids : freed[v] = 0

\* An override that a vector still maps belongs to a loaded module that is not
\* being removed: dispatch never finds the address of unloaded code.
MappedModuleLoaded ==
  \A v \in Ids : \A n \in calls[v] : modState[ModOf[n]] \in {"coming", "live"}

\* The references on a module are the one held while its init runs and one for
\* each vector entry: it can be unloaded exactly when no vector maps it.
Mappings(m) == {e \in Ids \X Names : e[2] \in calls[e[1]] /\ ModOf[e[2]] = m}
BaseRef(m) ==
  CASE modState[m] = "coming" -> 1
    [] modState[m] = "live" -> 0
    [] OTHER -> -1
ModRefExact == \A m \in Modules : modRef[m] = BaseRef(m) + Cardinality(Mappings(m))

\* A call that reports an error has changed nothing, neither the table nor a
\* reference count (every error exit undoes or precedes the work).
ErrorLeavesNoTrace == [][ret' \in Errors => UNCHANGED <<tblVars, modVars>>]_vars

\* The table keeps the promise of Pinning for modules: an entry of a vector
\* holds the module of its override, and a module leaves the loaded ones only
\* when no entry holds it.
LoadedModules == {m \in Modules : modState[m] \in {"coming", "live"}}
EntryHolds == [e \in Ids \X Names |-> IF e[2] \in calls[e[1]] THEN {ModOf[e[2]]} ELSE {}]
Pins == INSTANCE Pinning WITH
  Objects <- Modules, Holders <- Ids \X Names, alive <- LoadedModules, holds <- EntryHolds
ModulesPinned == Pins!Spec

\* Seen without its counters and modules the table is that of TblSets: one
\* override per number, names unregistered only when no vector maps them.
Sets == INSTANCE TblSets
ImplementsSets == Sets!Spec
=============================================================================

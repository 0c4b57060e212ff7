# Per-process system call tables: specification and proofs

This directory specifies, in TLA+, the kernel modules of this repository that
let each process run on its own table of system calls. TLC checks the
specification on small instances; TLAPS proves every invariant that the runs check, and
most of the action properties and refinements, for every value of the constants. Paths below are relative to the repository root.

## 1. The system

A *vector* is a table of override system calls: for some numbers it says which
function to run instead of the kernel's, and it may block numbers. Processes are
assigned to vectors; vector 0 is the kernel's own table. Overrides are exported by
loadable modules, which must stay loaded while a vector maps one of their calls,
and a vector must stay while a process is assigned to it. Both are done with
reference counts.

| Part | Source | State | Operations |
|---|---|---|---|
| Table | `syscall_module/syscall_tbl.c`, `.h` | `syscall_tbl`: a spin lock, `vector_list` (each vector: `id`, `refcnt`, `blocked`, `syscall_num_list`), `syscall_list`; references on modules, its own (`SYSCALL_MODULE`) included | register/unregister a call, add/remove a vector, map/unmap a call in a vector, block/unblock a number, look up a function, list everything |
| Assignment | `syscall_tbl.c` 479-668 | `task->vector_id` of every process, `refcnt` of every vector | assign, unassign, reassign, get |
| Lists | `syscall_module/list.c` | `node_t` lists kept in order | add_node, add_node_end, remove_node, get_node |
| clone2 | `clone2/sys_clone2.c` | the hook `sysptr` | fork a child that inherits the vector (CLONE_SYSCALLS) or is assigned one |
| Hooks | `syscall_tbl.c` 132-134, 150-152 | `_assign_syscall_vector`, `_unassign_syscall_vector`, `_get_syscall_fn` | set at load, cleared at unload; called by clone2, by the kernel's exit and system call paths (a kernel patch that is not in the repository) |
| ioctl device | `syscall_module/hw3_ioctl.c` | none between calls | one table operation per ioctl |
| user_ioctl | `ioctl_module/user_ioctl.c` | none | command line to one ioctl, its result to a message |
| Override modules | `syscall_module/test_syscalls.c`, `test_vectors.c` | a shared `struct file *` | register and map the overrides at load, undo it at unload |
| Tests | `syscall_module/test.c`, `clone2/test*_clone2.c`, `test_clone2.c` | | straight-line |

How the parts meet: `test_syscalls` registers overrides in its init handler and
unregisters them in its exit handler; `test_vectors` maps them. The ioctl
handler runs table operations for administrators, on any CPU at any time. clone2
assigns a vector to the child it has just forked; the kernel's exit path
unassigns the process that exits; both go through hooks that the table's init
handler sets and its exit handler clears. user_ioctl is the client of the device.
All share the one spin lock and the lists
under it, but the task list and `task->vector_id` are read outside it.

What is hard here is what a test does not reach:

* calls on the same process overlap, and each acts on a `vector_id` it read
  before it had the lock;
* a process exits while somebody assigns it a vector, and the task list goes on
  showing it;
* the module that owns an override is loading, live or being removed, and
  `module_refcount` means something different in each state;
* an entry of a vector is a bare pointer to the `syscall_t` of a registered call;
* two overrides of one number;
* a hook is tested and then called, while the module behind it may be unloading;
* the table is walked without the lock, to be shown and to be copied to the user;
* callers that ignore every result, and go on with their next call all the same;
* error exits, one of which keeps the lock;
* vector ids, which creep upwards in a `short`.

What makes each part correct: the table is correct if its counts are exact and
no entry outlives what it points to; assignment, if a vector's `refcnt` is the
number of its processes and no process is left on a removed vector; the lists,
if they stay ordered and an id names one vector; clone2 and the exit path, if
they keep the counts and come to an end; the ioctl handler, if it passes on the
table's result and frees what it allocated; the client, if it makes the call its
words stand for and tells the user what came of it; the sample modules, if they keep
the rules the table leaves to its callers, whatever fails on the way; the hooks, if
nobody is in the table's code or data when they go.

## 2. Modules

| Module | What it is | Extends / instantiates |
|---|---|---|
| `IdAlloc` | the choice of a vector id, as a function of the ids in use | |
| `Pinning` | abstract: holders hold objects, a held object stays | |
| `TblSets` | abstract: the table as sets, one override per number | `IdAlloc` |
| `SyscallTbl` | the table with lock, counts, errors, and module life cycle | `IdAlloc`; implements `Pinning` and `TblSets` |
| `VectorAssign` | processes and threads over the table | `SyscallTbl`; implements `Pinning` |
| `Dispatch` | processes that make system calls, over the table | `SyscallTbl` |
| `TableModule` | the life of the table's module, its hooks and the modules that reach it | `VectorAssign` |
| `TestModules` | `test_syscalls` and `test_vectors`, call by call, among administrators | `SyscallTbl`; implements it under all rules |
| `IoctlHandler` | the calls of the device, over the table | `SyscallTbl` |
| `UserIoctl` | the client `user_ioctl` over the device | `IoctlHandler` |
| `TblLists` | the table as linked lists with a `short` id | `IdAlloc`; implements `TblSets` |
| `Snapshot` | the walk of `get_syscall_tbl_info` over the lists | `TblLists` |
| `IdAllocProofs`, `SyscallTblProofs`, `DispatchProofs`, `VectorAssignProofs`, `TableModuleProofs`, `UserIoctlProofs`, `TblListsProofs`, `SnapshotProofs` | theorems about the module each is named after (`UserIoctlProofs` also has those of `IoctlHandler`) | that module, and the proofs it builds on |
| `MCSyscallTbl`, `MCVectorAssign`, `MCDispatch`, `MCTableModule`, `MCTestModules`, `MCUserIoctl`, `MCTblLists`, `MCSnapshot` | instances for TLC | |

### SyscallTbl

Each exported operation does all of its work in one critical section of
`syscall_tbl->lock`, so each is one action named after it, enabled while `lock =
"free"`. Its disjuncts are the exits of the function in the order of the code:
kmalloc failure and the length of the name before the lock, then one disjunct for
each error, then the success. `ret` is the result of the last call. The state:

* `vectors`, `refcnt`, `blocked` are the fields of the vectors on the list;
* `calls[v]` are the entries of v's `syscall_num_list` that point to a
  `syscall_t` that still exists, by name; `freed[v]` counts the entries whose
  `syscall_t` was freed by `unregister_syscall`. Looking an entry up reads the
  number in that memory, so a freed entry may match any number or none (`MayHit`,
  `MayMiss`): both outcomes are allowed;
* `registered` is `syscall_list`; `tblRef` the references on `SYSCALL_MODULE`;
* `modState`, `modRef` are the kernel's `struct module` for the owners of the
  overrides: `module_refcount` is 1 while init runs, 0 when live and unused, -1
  once removal has begun; `try_module_get` fails on a module being removed
  and `module_put` does not go below the base. The loader (`ModuleInit`,
  `ModuleLive`, `ModuleDelete`, `ModuleGone`) is external. A module registers its
  calls in init and has unregistered them when its exit handler returns, as
  `test_syscalls.c` does.

`block_` and `unblock_syscall_num` return from a missing vector without
`spin_unlock`: `LeakLock` leaves `lock = "leaked"`, and then no operation is
enabled, which is what a spinning caller sees. `get_syscall` takes the length of a name under the
lock; for a name that is NULL (`AddNoName`, `RemoveNoName`) that is the end of the caller and
the lock is kept as well (`Oops`, `ret = "oops"`).

`TakeRef`, `DropRef` and `MoveRef` are the critical sections of assign, unassign
and reassign on the table alone; `VectorAssign` puts the process side around them.

### The rules callers follow

The code relies on its callers in ways it does not check. The constant
`Contract` says which of these rules a run assumes, so that every property is
checked under the weakest assumption it needs:

| Rule | Who follows it in the repository | Without it |
|---|---|---|
| `unregister_at_exit` | `test_syscalls.c`, `test.c`: calls are unregistered in init or exit handlers | a live module whose call one vector maps has a count of 1, and `module_refcount(...) > 1` lets it unregister the call: `NoFreedEntry` fails (contract `LiveUnregister`) |
| `no_map_while_going` | nobody enforces it: an ioctl may map at any time | a call mapped while its module is being removed takes no reference, because the result of `try_module_get` is ignored: `MappedModuleLoaded` fails |
| `remove_own` | `test_vectors.c` unmaps the names it mapped | with two overrides of a number, removing the entry under the other name puts the other module's reference, and the module still mapped can be unloaded: `MappedModuleLoaded` fails |
| `empty_first` | `test_vectors.c` empties a vector, then removes it; `user_ioctl` need not | entries are freed with the references they stand for: `ModRefExact` fails |
| `block_existing` | `test.c` | run `block_missing` |
| `name_given` | `test_vectors.c`, `test.c`, and user_ioctl unless a flag is repeated | `strlen` of NULL under the lock: `CallsReturn` and `ExitCompletes` fail |
| `unmap_when_idle` | nobody enforces it: an ioctl may unmap at any time | run `dispatch_unload` |
| `serial_per_pid` | nobody enforces it | run `overlapping_calls` |
| `target_not_exiting` | nobody enforces it: clone2's child may exit at once | a vector assigned to a process that has passed its exit hook is counted for ever: `RefcntExact` fails |
| `assign_from_default` | `test.c` uses assign from vector 0, reassign otherwise; the ioctl only reassigns | the old vector keeps its count: `RefcntExact` fails |
| `clone2_first` | whoever unloads the modules; `ins_modules.sh` does not | a process on vector 0 has tested the hook of clone2, and the table is freed before it calls: `InsideLoaded` fails |
| `modules_idle` | nobody enforces it: the device's file operations name no owner and `sysptr` is a bare pointer | a call is in the device or in clone2 when it is unloaded: `InsideLoaded` fails |
| `one_at_a_time` | whoever loads and unloads the two modules | `test_vectors` maps calls of a module that is being removed: `FollowsRules` fails |
| `hands_off` | nobody enforces it: an ioctl may name any vector | an id that `test_vectors` remembers is removed and handed out again: `FollowsRules`, `OthersStay` and `UnloadReleases` fail |

Three of the rows have a run of their own (section 3). The others
can be seen with TLC by taking the rule out of the `Contract` of the run that checks the property:
`MCSyscallTbl` and `MCVectorAssign` define these contracts (`MapWhileGoing`, `RemoveOther`,
`RemoveNonEmpty`, `ExitingTarget`, `AssignOver`). A property that holds only with a rule says nothing
of the hazard the rule excludes: such a hazard is listed in PROJECT.json without a property.

### VectorAssign

Threads are administrators (the ioctl handler, `test.c`) and the processes
themselves, which call the table from clone2 and from exit. `pc[t]` is where a
thread is, `call[t]` its arguments and locals. A call has two or three steps,
split exactly where the code gives others a chance: the lookup of the task with
the read of `vector_id` (`AssignFind`, `UnassignFind`, `ReassignFind`), the second
lookup that reassign makes (`ReassignAgain`), and the critical section
(`AssignLock`, ...), which uses what was read before. `reassign` redirects
to the other two from the beginning, as the code calls them. A process is `run`,
`exiting` (in its exit hook), `zombie`, `reaped`; the task list
(`InTaskList`) shows all but the last, as `for_each_process` does. A call that
still works on a reaped task writes to freed memory, which belongs to nobody.
The inheritance of a vector by `copy_process`, the exit hook and reaping are the
kernel's and are external; they follow README.pdf section 6.

### Dispatch

A process on a vector enters the kernel with a number (`EnterSyscall`), the kernel
asks `get_syscall_fn` for the function (`Lookup`, which is `GetSyscallFn` of the
table with what the process makes of its result), then calls the address
(`Call`, `Return`). The lock is held in `Lookup` only. `found[t]` is the override
whose address the process has; an address read from freed memory is `NoName`.
Meanwhile the table, the modules and the vectors of processes change as they do in
`SyscallTbl`. The hook's caller is the kernel's `do_syscall_64` (README.pdf section
4) and is external. When the vector is gone `get_syscall_fn` returns -ENOENT as a
function; what the kernel's patch makes of that is not in the repository, and the
call ends here as it does for a blocked number.

### IoctlHandler

`Begin` is `manipulate_syscalls` from its entry to the switch, with one disjunct
for each way of failing there; `Switch` runs the operation (an action of
`SyscallTbl`) and leaves by a label. `Leave` and `Freed` are the three labels, which
fall through: `heap` is what the call has allocated. `BLOCK` and `UNBLOCK` leave by
`out_sys` whatever their result, the others by `out_name` when it is negative.
A name is copied when the caller passes one (`withName`), whatever the command: the two commands that
need a name run without one if none was passed (`AddSyscall`, `RemoveSyscall`), and such a call
ends in `pc = "oops"`.
`out_name` leaks `sys` when an operation is refused, of which no document speaks (`FreedOnReturn`
allows that and nothing else). When `sys` cannot be allocated, or the command is unknown, the call
returns the 0 of its last copy, so 0 does not say that anything was done.
`reassign_syscall_vector` is one step here; its races are those of `VectorAssign`.

### UserIoctl

`Parse` is `getcommandlineargs`: a command line is how often `-c` and `-p` occur, how many
words follow, and the value of the first (3 stands for every value that is no
command). `"crash"` is `strtol` of the NULL that ends `argv`, which a repeated flag leads to,
since it counts towards `argc` but not as an operand. A name is not read by the client: with
`-c -c 4 1` it is that NULL, and is passed to the device (`NameGiven`, `named`), which kills the client
(`"killed"`). `Open`, `Ioctl`, `Serve`, `Report` are
`main`: the call itself is `Begin` and `Switch` of `IoctlHandler`, so the client's
message is compared with what the kernel really did (`fate`: failed before the operation, no memory for `sys`, refused or done). With no
memory for `sys` the client says that a number was blocked when nothing was done: that is how
the code behaves, and `SaysWhatWasDone` leaves the case out. The results of GET_INFO and
GET_VECTOR_ID_OF_PROCESS are not looked at by the code, and are not in the model. Opening the
device is external.

### TestModules

The init and exit handlers of the two modules are scripts, run one call at a
time by `InitTestSyscalls`, `ExitTestSyscalls` and `VectorsStep`: a call may fail in each
way it can fail in `SyscallTbl`, and the next one is made regardless, as in the code.
`vectorId` are `vector_id1` and `vector_id2`; an error code stored there names no vector
and is 0. Administrators follow all rules of `SyscallTbl` (`Rules`), the two modules are held to none:
`FollowsRules` says that their steps satisfy the rules nevertheless, by refinement of
`SyscallTbl` under all of `Clauses`. So the rules the proofs assume are rules that the
repository's own callers keep. `others` is history. What the overrides do when called is
not modelled.

### TableModule

`table` is where the module `syscall_tbl_mod` is in its life; the actions of `init_syscall_tbl`
(`InitTable`, then `SetHook` three times) and `exit_syscall_tbl` (`ClearHook` three times, then
`FreeTable`) are single steps, because each hook is a plain store that any CPU may see. `FreeTable`
leaves the fields as they are: nobody may look at them then, which is what `InsideLoaded` says. It makes
an exception for what no count and no order of unloading can hold (`Unheld`): a process on vector 0 that
exits, between its test of the hook and its return, and a system call that was begun before the process
was taken off its vector. Whether such a process gets through or stops there for good, the code it runs
being gone, both are behaviours of the model (no fairness is assumed). A
process tests a hook (`ForkAndTest`, `ExitAndTest`, `SyscallAndTest`) and calls it in a later step
(`CallHook`); the steps inside the call are those of `VectorAssign`. `DeleteTable` is the loader's test, with the references
that `try_module_get(SYSCALL_MODULE)` took. `device` stands for every module that uses the
exported symbols, which the loader counts. `do_exit`, the entry of a system call, `_do_fork` and
the loader are external. clone2 passes on what `_do_fork` returns whether the assignment worked or
not: a failed assignment leaves the child on vector 0, and that is a behaviour of the model.

### Snapshot

`get_syscall_tbl_info` takes no lock. Each read of a `next` pointer is a step: `pos` and
`pos1` are the nodes the two loops stand on, `info` is the `syscall_tbl_info` so far.
Between steps vectors are added, calls registered, unregistered and mapped, as
`TblLists` does it; a node is complete before it is linked. Removals happen
between walks only: with one under a walk the code reads a freed node, about
which there is nothing left to check. `witness` is an element that was there when the
walk began, chosen once, which makes `MissesNothing` an invariant. `CopiesTable` gives that the copy
never outgrows the table. The copy of the model has no limit: the code's arrays of 10 vectors and 20 names
are not checked, and a table with more of them overruns them. `show_syscall_tbl` walks in the same
way.

### TblLists and IdAlloc

`TblLists` keeps the lists in order as sequences, with the operations of
`list.c`; names are numbered in the order of `strncmp`. `StopAt` is the loop of
`__add_syscall_vector`: it stops at a vector after which there is a gap, unless the
next vector is the last one; `NewId` adds one and stores the sum in a short, whose greatest
value is `MaxShort` (32767 in the code). `IdAlloc!NextVectorId` says the same as a function of the set of
ids, which is what `SyscallTbl` uses; run `lists`, in which gaps are filled, shows that they agree.

### Abstract specifications

`Pinning` has no counters: `Create`, `Destroy` of an object nobody holds, `Take`,
`Release`. The table implements it for modules held by vector entries
(`ModulesPinned`), and processes hold vectors in the same way (`VectorsPinned`).
`TblSets` is the table seen by a caller that gets no error: registered names,
vectors, and a partial function from numbers to overrides in each
(`ImplementsSets` in both `SyscallTbl` and `TblLists`).

## 3. Runs

| Run | Module | Contract | Shows |
|---|---|---|---|
| `tbl_contract` | `MCSyscallTbl` | all of `Clauses` but `name_given` | exact counts (`TblRefExact`, `ModRefExact`), `OneEntryPerNum`, `NoFreedEntry`, `MappedModuleLoaded`, `ErrorLeavesNoTrace`, both refinements |
| `assign_contract` | `MCVectorAssign` | `ProcClauses` | `AssignTypeOK`, `RefcntExact`, `AssignedVectorExists`, `VectorsPinned` |
| `assign_liveness` | `MCVectorAssign` | `block_existing`, `name_given` | `CallsReturn`, `ExitCompletes` with arbitrary overlap |
| `dispatch_contract` | `MCDispatch` | all | `RunsLoadedCode` |
| `ioctl` | `MCUserIoctl` | none | `TypeOK`, `TblRefExact` and `OneEntryPerNum` need no help from callers; of the device `OutcomeTold`, `FreedOnReturn`; of the client `ParsesAsUsage`, `SaysWhatWasDone` |
| `table_module` | `MCTableModule` | all but `DispatchClauses`, with `UnloadClauses` | `AssignedKeepsTable`, `InsideLoaded` |
| `test_modules` | `MCTestModules` | `TestClauses` for the two modules, all for administrators | `FollowsRules`, `OthersStay`, `UnloadReleases` |
| `lists` | `MCTblLists` | | `TypeOK`, `ListsSorted`, `FreshPositiveId` and `ImplementsSets` while ids last |
| `snapshot` | `MCSnapshot` | no removal under a walk | `CopiesTable`, `MissesNothing` |
| `dispatch_unload` | `MCDispatch` | without `unmap_when_idle` | violates `RunsLoadedCode` |
| `overlapping_calls` | `MCVectorAssign` | without `serial_per_pid` | violates `AssignedVectorExists` |
| `block_missing` | `MCVectorAssign` | without `block_existing` | violates `ExitCompletes` |

The runs from `dispatch_unload` on are disagreements between the code and what its documents, comments,
messages or tests say; PROJECT.json quotes the lines:

1. A system call that is under way does not keep its override's module: once the
   address is out of `get_syscall_fn`, unmapping puts the only reference and the
   module can be deleted under the call.
2. Two overlapping calls on one process leave it on a vector that can be removed.
3. Blocking a number in a vector that does not exist keeps the lock: the next
   process that exits spins for ever.

The table of rules has more of what goes wrong when callers are trusted less. One thing is not about callers: past 32767 the id
wraps, to negative ids and in the end to ids in use, and `ListsSorted` and `FreshPositiveId` fail with
`MayWrap = TRUE` (`MaxShort = 3` shows it).

### Bounds

* `MCSyscallTbl`: two modules, two vector ids, and three overrides, two of them of
  the same number and in different modules (with a fourth whose name is too
  long): enough for a wrong module to lose a reference and for a gap between ids;
  a third id is needed for the loop to fill a gap, which `lists` has. `MaxModRef` is
  above what two vectors and an init can hold under the contract (it never cuts).
  `MaxFreed`
  bounds the freed entries of a vector. `MaxRefcnt` stands for SHRT_MAX; counts
  without processes are only exercised up to it, `VectorAssign` has the processes.
* `MCVectorAssign`: two processes, one forked by the other, two administrators, two
  vectors: a call can overlap another call, a fork, an exit and a removal. The
  overrides have no bearing on assignment and are left out. `Room` keeps calls from
  starting when every count could overflow. `assign_liveness` has two
  administrators, two vectors and one process: what a call waits for is the lock alone, so the
  least that shows it is a call between two vectors that overlaps another call and an exit.
* `MCDispatch`: two overrides of one number in two modules. `dispatch_contract` has
  two processes on one vector, so that one is in an override while the other is
  looking it up; `dispatch_unload` needs one process only.
* `MCUserIoctl`: one module with two overrides of one number, one vector, one run of the
  client at a time; calls share nothing but the table, whose steps are atomic, so a second
  would add no behaviour. `MaxWords` words after the flags are as many as a command can
  take. Callers follow no rule, so references leak
  and `MaxModRef` does cut. A call may keep the lock here, and then everybody stops:
  hence CHECK_DEADLOCK FALSE.
* `MCTableModule`: one vector, two processes (one may fork the other), two administrators, so
  that a call of each kind is in flight during an unload. `Room` keeps only a fourth
  overlapping call from starting, on a vector that both processes are on.
* `MCTestModules`: one override for each of the two vectors, so that a wrong vector and a
  wrong name differ, with two ids: administrators compete for the ids that `test_vectors`
  gets. `MaxModRef` never cuts; `MaxRefcnt` is one process on a vector, which is enough to
  keep it from being removed.
* `MCTblLists`: four vectors at a time with ids up to 5 (`MaxShort`): a gap needs three vectors, and
  is filled by the fourth; three names,
  two for one number. `MaxId` is out of reach. The instance may
  stop when its ids are used up, hence CHECK_DEADLOCK FALSE.
* `MCSnapshot`: four vectors with ids up to 4 are the least with which a vector is
  inserted in the middle, ahead of a walk or behind it (the loop fills a gap only
  in front of a node that is not the last); two names whose order by number is the
  opposite of that by name.

### Fairness

Only `FairAssignSpec` has fairness: weak fairness of each thread's steps inside a
call (straight-line kernel code; a ticket spin lock hands a free lock to each
waiter) and of `Zombie` (do_exit goes on after its hook). Nothing makes a caller
call, a process exit or a parent reap.

## 4. Proofs

Every theorem is about the specification itself, for all values of its constants. The
hypotheses are the rules of the table in section 2 (each theorem names the weakest set that
its proof needs), and these assumptions on constants:

* `TblAssumption`: modules and names are finite sets, every name has a module and a number,
  bounds are numbers;
* `ProcAssumption`: processes are a finite set, an administrator is no process, and what a
  failed fork returns is no process;
* `WordsAssumption`: a command line has at most a number of words;
* `ListAssumption`: names are natural numbers (their order is that of `strncmp`), numbers are
  integers, `MaxShort` is at least 1; `NoneAssumption`: NULL is no name.

`~ MayWrap` is not an assumption on the code's inputs but the scope of a theorem: as long as no
id has gone past the greatest short. Beyond it the properties are false (section 3).
`PinClauses` are the rules of `Clauses` but the two about the lock.

| Module | Theorem | Assumes | Says |
|---|---|---|---|
| `IdAllocProofs` | `FreshId` | | a new id is positive and not in use |
| `SyscallTblProofs` | `TypeCorrect`, `TblRefCorrect`, `OneEntryCorrect` | | `Spec => []TypeOK`, `[]TblRefExact`, `[]OneEntryPerNum` |
| | `ModRefCorrect`, `NoFreedCorrect`, `MappedLoadedCorrect` | `PinClauses` | `[]ModRefExact`, `[]NoFreedEntry`, `[]MappedModuleLoaded` |
| | `ErrorsCorrect` | `block_existing` | `ErrorLeavesNoTrace` |
| | `ModulesPinnedCorrect`, `ImplementsSetsCorrect` | `PinClauses` | the table implements `Pinning` and `TblSets` |
| `DispatchProofs` | `RunsLoadedCorrect` | `PinClauses`, `DispatchClauses` | `[]RunsLoadedCode` |
| `VectorAssignProofs` | `AssignTypeCorrect` | | `[]AssignTypeOK` |
| | `RefcntCorrect`, `AssignedExistsCorrect` | `ProcClauses` | `[]RefcntExact`, `[]AssignedVectorExists` |
| | `VectorsPinnedCorrect` | `ProcClauses` | processes and vectors implement `Pinning` |
| | `AssignUsesTable` | `ProcClauses` | `AssignSpec => Spec` |
| | `AssignKeepsTable` | `ProcClauses`, `PinClauses` | hence the theorems about the table hold under processes |
| `TableModuleProofs` | `AssignedKeepsTableCorrect`, `InsideLoadedCorrect` | `ProcClauses`, `UnloadClauses` | `[]AssignedKeepsTable`, `[]InsideLoaded` |
| `UserIoctlProofs` | `FreedCorrect`, `OutcomeCorrect` | | of the device: `[]FreedOnReturn`, `OutcomeTold` |
| | `ClientUsesDevice`, `ClientUsesTable` | | `UserSpec => IoctlSpec`, `UserSpec => Spec` |
| | `TableBehindDevice` | | hence `TypeOK`, `TblRefExact`, `OneEntryPerNum` behind the device |
| | `SaysCorrect`, `ParsesCorrect` | | `[]SaysWhatWasDone`, `[]ParsesAsUsage` |
| `TblListsProofs` | `ListsTypeCorrect` | | `[]TypeOK` |
| | `ListsSortedCorrect`, `FreshIdCorrect` | `~ MayWrap` | `[]ListsSorted`, `[]FreshPositiveId` |
| | `ListsImplementSetsCorrect` | `~ MayWrap` | the lists implement `TblSets` |
| `SnapshotProofs` | `WalkUsesLists` | | `SnapSpec => Spec` (of `TblLists`) |
| | `CopiesTableCorrect`, `MissesNothingCorrect` | `~ MayWrap` | `[]CopiesTable`, `[]MissesNothing` |

### The table

`FreshId` rests on two lemmas on the least and the greatest element of a finite set of
numbers (`NatMin`, `BoundedMax`). `TypeOK` is inductive as it stands. `TblRefExact` and
`OneEntryPerNum` are inductive with it: the first counts two finite sets, the second needs
only that an operation adds at most one entry and checks its number (`CallsGrow`).

`ModRefExact`, `NoFreedEntry` and `MappedModuleLoaded` are not inductive one by
one: that a mapped module is loaded follows from its count being exact, and
unregistering frees no mapped entry because the count of a module that is not live says
there is none. The inductive invariant `PinInv` is their conjunction with the
fact that the module of a registered call is not unloaded. The proof has one
lemma per group of actions; the two that count, `MapPin` and `UnmapPin`, compare
the cardinalities of `Mappings` before and after. `ModulesPinnedCorrect` then
maps each step to a step of `Pinning` or a stutter; the deletion of a module is the
interesting one, where a count of zero says that the set of its mappings is empty.
`ImplementsSetsCorrect` needs `PinInv` as well: without freed entries a lookup is exact.

In `Dispatch` every step is one of the table or leaves it alone (`TableSteps`), so `PinInv`
carries over from `PinStep`; what it adds is that the override a process found is still
mapped where it was found (`FoundMapped`), which the lookup makes true because no entry
dangles, and the rule keeps true. What is mapped is loaded, by `PinInv`.

### Processes and the table's module

`RefcntExact` is not inductive: a call moves a process from the vector it has *read* to
another, later, under the lock. `ProcInv` adds what makes that right: no two calls in progress
are for one process (`Alone`), what a call has read of its process is still so, and it is
for a process that lives or for one that is gone altogether (`CallSafe`), and a process is past
its exit hook only without a vector (`ExitSafe`). The first two are what the rules `serial_per_pid` and
`target_not_exiting` give; without one of them the next step of another call breaks `CallSafe`,
which is the counterexample of run `overlapping_calls`. The lemmas are about the step of
one thread and cover the labels of `TableModule`, so that `LoadInv` takes them over. It adds the
stages of load and unload (`LoadShape`: vectors and the device only while the module is live, all
hooks then, and no clone2 while it goes) and where a thread may be (`ThreadPlace`). The unload itself is `NobodyInside`:
a table count of zero says there is no vector, hence no process on one, the loader says there is no device, and
the rules say that nobody is in clone2. `InsideLoaded` follows from `LoadInv` by where the thread came from
(`StaysInside`).

### Device and client

`CallInv` says which buffers a call holds at each of its labels. `UserInv` says what the client
knows of its call: the device serves the command its words stand for, and the sign of the code is
what became of it. Nothing here assumes a rule; the theorems about the table that need none carry over by
`ClientUsesTable`.

### Lists and the walk

`ListInv` is the shape, the order of names and numbers, and the order of positive ids. Order is what makes the rest inductive: `AddNode` keeps it because it
stops at the first greater key, and `NewIdPlace` shows that the place where the loop of
`__add_syscall_vector` stops fits the id it hands out. Two steps lead to the refinement: a lookup by id or number finds the
one node there is (`View`, from `IdsOnce` and `SortedOnce`), and the loop over the sorted list
picks `NextVectorId` of the set of ids (`NewIdIsNext`). The lemmas about sequences (what an
insertion or a removal does to positions, order and set of elements) come first in the module.

`WalkInv` relates the copy to where the walk stands: all that is copied is in the table, sorted, and before
`pos` and `pos1` (`Copied`, `Stands`); what was there at the start still is, and is copied if
the walk has passed it (`Seen`). `next` in a sorted list is the next higher key whatever was linked in
meanwhile (`NextVectorIs`, `NextNameIs`), and nothing leaves the table during a walk (`AddsKeep`).

### Only model-checked

* `CallsReturn`, `ExitCompletes`: liveness under fairness is outside the prover's reach.
* `FollowsRules`, `OthersStay`, `UnloadReleases` of `TestModules`: not proved yet. The scripts are sequences
  built from constants, so that an invariant has to say where in a script each
  name stands.

Each inductive invariant was checked with TLC on the run's instance before it was proved.

## 5. Not modelled, and the plan

Not modelled:

* the register-level wrapper `sys_clone2_lib.c`, the test programs, `checkpatch.pl` and the
  build files: straight-line code in which a state machine tells nothing;
* what the overrides of `test_syscalls.c` and `test.c` do to files, and the `struct file *`
  they share;
* names of exactly 63 characters, which `strncpy` leaves without a terminator (names are
  compared as wholes), and system call numbers outside the `blocked` array;
* a removal under an unlocked walk (see Snapshot): what follows a freed node is not
  determined by the code;
* command-line flags of user_ioctl other than `-c` and `-p`.

Left in the plan: the theorems of `TestModules`, from an invariant that says of each name of a
script whether it is mapped, by how far the script has come; `FollowsRules` first, because it shows that the
sample modules meet the hypotheses of the theorems above.

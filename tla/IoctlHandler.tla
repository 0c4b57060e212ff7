---------------------------- MODULE IoctlHandler ----------------------------
(***************************************************************************)
(* manipulate_syscalls of syscall_module/hw3_ioctl.c: a call of the device  *)
(* copies its arguments, runs one operation of the table and leaves by one  *)
(* of three labels that free what was allocated, or never returns.  Calls   *)
(* of several administrators interleave; the operation is that of           *)
(* SyscallTbl, where reassign_syscall_vector counts as its critical section.*)
(***************************************************************************)
EXTENDS SyscallTbl

CONSTANT Handlers  \* calls of the device that may be in progress at a time

VARIABLES
  pc,      \* "idle", "switch" (arguments copied), "done" (about to return), "oops" (killed)
  cmd,     \* the ioctl being served, "other" again once it is
  heap,    \* the buffers the call has allocated and not freed
  rc       \* its return code: "neg", "zero" or "pos"

callVars == <<pc, cmd, heap, rc>>
ioctlVars == <<vars, callVars>>

Commands ==
  { "ADD_VECTOR", "REMOVE_VECTOR", "ADD_SYSCALL_TO_VECTOR", "REMOVE_SYSCALL_FROM_VECTOR",
    "ASSIGN_VECTOR_TO_PROCESS", "GET_VECTOR_ID_OF_PROCESS", "GET_INFO", "BLOCK", "UNBLOCK",
    "other" }

Buffers == {"arglist", "name", "sys"}

IoctlInit ==
  /\ Init
  /\ pc = [h \in Handlers |-> "idle"]
  /\ cmd = [h \in Handlers |-> "other"]
  /\ heap = [h \in Handlers |-> {}]
  /\ rc = [h \in Handlers |-> "zero"]

-----------------------------------------------------------------------------
\* Mutant of Freed: out_name returns before it gets to arglist.
FreedEarly(bufs, label) ==
  CASE label = "out_sys" -> {}
    [] label = "out_name" -> bufs \ {"name"}
    [] label = "out_arglist" -> bufs \ {"arglist"}

\* What is left of the buffers on the way from a label to the return.
Freed(bufs, label) ==
  CASE label = "out_sys" -> {}
    [] label = "out_name" -> bufs \ {"name", "arglist"}
    [] label = "out_arglist" -> bufs \ {"arglist"}

Leave(h, bufs, label, code) ==
  /\ pc' = [pc EXCEPT ![h] = "done"]
  /\ cmd' = [cmd EXCEPT ![h] = "other"]
  /\ heap' = [heap EXCEPT ![h] = Freed(bufs, label)]
  /\ rc' = [rc EXCEPT ![h] = code]

\* From the entry to the switch.  A name is copied when the caller passes one,
\* which no command makes it do.  Nothing is freed of sys when it is sys that
\* could not be had; the return code then still is that of the last copy.
Begin(h, c, withName) ==
  LET name == IF withName THEN {"name"} ELSE {} IN
  /\ pc[h] # "switch"
  /\ UNCHANGED vars
  /\ \/ Leave(h, {}, "out_arglist", "neg")
     \/ withName /\ Leave(h, {"arglist"}, "out_name", "neg")
     \/ Leave(h, {"arglist"} \cup name, "out_name", "neg")
     \/ Leave(h, {"arglist"} \cup name, "out_sys", "zero")
     \/ /\ pc' = [pc EXCEPT ![h] = "switch"]
        /\ cmd' = [cmd EXCEPT ![h] = c]
        /\ heap' = [heap EXCEPT ![h] = {"arglist", "sys"} \cup name]
        /\ rc' = [rc EXCEPT ![h] = "zero"]

-----------------------------------------------------------------------------
(* The operation of each command on the table, given the call's buffers.    *)

Reassign ==
  \/ ReturnEarly
  \/ \E v \in Ids : TakeRef(v) \/ DropRef(v)
  \/ \E old, v \in Ids : old # v /\ MoveRef(old, v)

AddSyscall(bufs) ==
  \/ "name" \notin bufs /\ AddNoName
  \/ "name" \in bufs /\ \E v \in Ids, n \in Names : AddSyscallToVector(v, n)

RemoveSyscall(bufs) ==
  \/ "name" \notin bufs /\ RemoveNoName
  \/ "name" \in bufs /\ \E v \in Ids, n \in Names : RemoveSyscallFromVector(v, n)

Operation(c, bufs) ==
  CASE c = "ADD_VECTOR" -> AddSyscallVector
    [] c = "REMOVE_VECTOR" -> \E v \in Ids : RemoveSyscallVector(v)
    [] c = "ADD_SYSCALL_TO_VECTOR" -> AddSyscall(bufs)
    [] c = "REMOVE_SYSCALL_FROM_VECTOR" -> RemoveSyscall(bufs)
    [] c = "ASSIGN_VECTOR_TO_PROCESS" -> Reassign
    [] c = "GET_VECTOR_ID_OF_PROCESS" -> ReturnEarly
    [] c = "BLOCK" -> \E v \in Ids, num \in Nums : BlockSyscallNum(v, num)
    [] c = "UNBLOCK" -> \E v \in Ids, num \in Nums : UnblockSyscallNum(v, num)
    [] c = "GET_INFO" -> Fail("ok")
    [] OTHER -> Fail("none")

\* An error leaves by out_name, but for block and unblock, which break.
ErrorLabel(c) == IF c \in {"BLOCK", "UNBLOCK"} THEN "out_sys" ELSE "out_name"

\* Mutant of Results: the id of a new vector is negated, as a failed copy is.
ResultsNegated(c) == IF c = "ADD_VECTOR" THEN {"neg"} ELSE {"zero", "pos"}

\* What a success returns: the id of a new vector, the number of bytes that
\* copy_to_user left uncopied, or 0.
Results(c) ==
  CASE c = "ADD_VECTOR" -> {"pos"}
    [] c \in {"GET_VECTOR_ID_OF_PROCESS", "GET_INFO"} -> {"zero", "pos"}
    [] OTHER -> {"zero"}

Switch(h) ==
  /\ pc[h] = "switch"
  /\ Operation(cmd[h], heap[h])
  /\ \/ ret' = "oops" /\ pc' = [pc EXCEPT ![h] = "oops"] /\ UNCHANGED <<cmd, heap, rc>>
     \/ ret' \in Errors /\ Leave(h, heap[h], ErrorLabel(cmd[h]), "neg")
     \/ /\ ret' \notin Errors \cup {"oops"}
        /\ \E code \in Results(cmd[h]) : Leave(h, heap[h], "out_sys", code)

IoctlNext ==
  \/ \E h \in Handlers : Switch(h) \/ \E c \in Commands, withName \in BOOLEAN : Begin(h, c, withName)
  \/ (LoaderNext \/ NameNext) /\ UNCHANGED callVars

IoctlSpec == IoctlInit /\ [][IoctlNext]_ioctlVars

-----------------------------------------------------------------------------
(* Correctness.                                                             *)

\* The administrator is told the truth about the table: a call that returns a
\* negative code has changed nothing in it (it may have kept its lock), and an
\* operation that was refused returns a negative code.  A code that is not
\* negative does not say that the operation was done: see README.
OutcomeTold ==
  [][\A h \in Handlers : pc[h] = "switch" /\ pc'[h] = "done" =>
       /\ rc'[h] = "neg" => UNCHANGED <<vecVars, registered, tblRef, modVars>>
       /\ ret' \in Errors => rc'[h] = "neg"]_ioctlVars

\* Whatever fails, a call that returns has freed arglist and name, and sys too
\* unless the operation was refused: a call that succeeds leaks nothing.
FreedOnReturn ==
  \A h \in Handlers :
    pc[h] = "done" => heap[h] \subseteq IF rc[h] = "neg" THEN {"sys"} ELSE {}
=============================================================================

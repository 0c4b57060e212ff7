---------------------------- MODULE TestModules ----------------------------
(***************************************************************************)
(* Two callers as they are in the tree: test_syscalls.c, which registers    *)
(* overrides when it is loaded and unregisters them when it is removed, and *)
(* test_vectors.c, which adds two vectors, maps the overrides and takes it  *)
(* all back.  Both ignore every result, and they run among administrators   *)
(* who follow the rules of SyscallTbl.  The question is whether they do.    *)
(***************************************************************************)
EXTENDS SyscallTbl, Sequences

CONSTANTS
  Owner,      \* the module test_syscalls
  Registers,  \* the names it registers, in order
  Mapped      \* for each of the two vectors, the names mapped, in order

\* More rules; see Clauses in SyscallTbl.
TestClauses ==
  { "one_at_a_time",  \* test_vectors is not loaded while test_syscalls unloads
    "hands_off" }     \* administrators leave the maps of test_vectors alone

VARIABLES
  tsDone,    \* calls that the init or exit of test_syscalls has made
  tv,        \* test_vectors: "unloaded", "init", "live", "exit"
  tvDone,    \* calls that its init or exit has made
  vectorId,  \* vector_id1 and vector_id2, 0 also for an error code
  others     \* history: the vectors that administrators added

testVars == <<vars, tsDone, tv, tvDone, vectorId, others>>

Rules == INSTANCE SyscallTbl WITH Contract <- Clauses

TestInit ==
  /\ Init
  /\ tsDone = 0 /\ tvDone = 0 /\ tv = "unloaded"
  /\ vectorId = <<0, 0>> /\ others = {}

-----------------------------------------------------------------------------
(* test_syscalls                                                            *)

SyscallsLoad == ModuleInit(Owner) /\ tsDone' = 0
SyscallsLive == ModuleLive(Owner) /\ tsDone = Len(Registers) /\ UNCHANGED tsDone

SyscallsDelete ==
  /\ ModuleDelete(Owner) /\ tsDone' = 0
  /\ Keeps("one_at_a_time", tv # "init")

InitTestSyscalls ==
  /\ modState[Owner] = "coming" /\ tsDone < Len(Registers)
  /\ RegisterSyscall(Registers[tsDone + 1])
  /\ tsDone' = tsDone + 1

\* Mutant of ExitTestSyscalls: the last name is forgotten.
ExitForgetsName ==
  /\ modState[Owner] = "going" /\ tsDone < Len(Registers) - 1
  /\ UnregisterSyscall(Registers[tsDone + 1])
  /\ tsDone' = IF tsDone = Len(Registers) - 2 THEN Len(Registers) ELSE tsDone + 1

ExitTestSyscalls ==
  /\ modState[Owner] = "going" /\ tsDone < Len(Registers)
  /\ UnregisterSyscall(Registers[tsDone + 1])
  /\ tsDone' = tsDone + 1

\* The loader frees the module when its exit handler is through, whatever
\* became of the calls it made.
SyscallsGone ==
  /\ modState[Owner] = "going" /\ tsDone = Len(Registers)
  /\ modState' = [modState EXCEPT ![Owner] = "unloaded"]
  /\ LoaderStep
  /\ UNCHANGED <<modRef, tsDone>>

-----------------------------------------------------------------------------
(* test_vectors: a script for its init and one for its exit.                *)

Op(do, i) == <<[do |-> do, slot |-> i, name |-> "noname"]>>
Each(do, i) == [k \in DOMAIN Mapped[i] |-> [do |-> do, slot |-> i, name |-> Mapped[i][k]]]

InitScript == Op("add", 1) \o Each("map", 1) \o Op("add", 2) \o Each("map", 2)

\* Mutant of ExitScript: the overrides of the second vector are forgotten.
ExitForgets == Each("unmap", 1) \o Op("remove", 1) \o Op("remove", 2)

\* Mutant of ExitScript: vector_id1 is removed twice.
ExitRepeats == Each("unmap", 1) \o Each("unmap", 2) \o Op("remove", 1) \o Op("remove", 1)

ExitScript == Each("unmap", 1) \o Each("unmap", 2) \o Op("remove", 1) \o Op("remove", 2)

Do(op) ==
  LET v == vectorId[op.slot] IN
  \/ /\ op.do = "add" /\ AddSyscallVector
     /\ vectorId' = [vectorId EXCEPT ![op.slot] = IF ret' = "ok" THEN NextVectorId(vectors) ELSE 0]
  \/ /\ op.do # "add" /\ UNCHANGED vectorId
     /\ \/ v = 0 /\ Unlocked /\ UNCHANGED vars
        \/ v # 0 /\ op.do = "map" /\ AddSyscallToVector(v, op.name)
        \/ v # 0 /\ op.do = "unmap" /\ RemoveSyscallFromVector(v, op.name)
        \/ v # 0 /\ op.do = "remove" /\ RemoveSyscallVector(v)

Script == IF tv = "init" THEN InitScript ELSE IF tv = "exit" THEN ExitScript ELSE <<>>

VectorsStep ==
  /\ tvDone < Len(Script)
  /\ Do(Script[tvDone + 1])
  /\ tvDone' = tvDone + 1
  /\ UNCHANGED tv

VectorsLoad ==
  /\ tv = "unloaded" /\ tv' = "init" /\ tvDone' = 0
  /\ Keeps("one_at_a_time", modState[Owner] # "going")
  /\ UNCHANGED <<vars, vectorId>>

\* Init is through; the module can be removed at any time, nothing refers to
\* it; exit is through, and the remembered ids are reset.
VectorsTurn ==
  /\ tvDone = Len(Script) /\ tvDone' = 0
  /\ \/ tv = "init" /\ tv' = "live" /\ UNCHANGED vectorId
     \/ tv = "live" /\ tv' = "exit" /\ UNCHANGED vectorId
     \/ tv = "exit" /\ tv' = "unloaded" /\ vectorId' = <<0, 0>>
  /\ UNCHANGED vars

-----------------------------------------------------------------------------
(* Administrators.                                                          *)

Remembered == {vectorId[i] : i \in 1..2}

AdminAdds ==
  /\ Rules!AddSyscallVector
  /\ others' = IF ret' = "ok" THEN others \cup {NextVectorId(vectors)} ELSE others

\* Processes are assigned to any vector and taken off it, which is what the
\* vectors are for.
AdminWorks ==
  /\ \E v \in Ids :
       \/ TakeRef(v) \/ DropRef(v)
       \/ /\ Keeps("hands_off", v \notin Remembered)
          /\ \/ Rules!RemoveSyscallVector(v)
             \/ \E n \in Names :
                  Rules!AddSyscallToVector(v, n) \/ Rules!RemoveSyscallFromVector(v, n)
  /\ others' = others \cap vectors'

SyscallsNext ==
  \/ SyscallsLoad \/ InitTestSyscalls \/ SyscallsLive
  \/ SyscallsDelete \/ ExitTestSyscalls \/ SyscallsGone

TestNext ==
  \/ SyscallsNext /\ UNCHANGED <<tv, tvDone, vectorId, others>>
  \/ (VectorsLoad \/ VectorsStep \/ VectorsTurn) /\ others' = others \cap vectors' /\ UNCHANGED tsDone
  \/ (AdminAdds \/ AdminWorks) /\ UNCHANGED <<tsDone, tv, tvDone, vectorId>>

TestSpec == TestInit /\ [][TestNext]_testVars

-----------------------------------------------------------------------------
(* Correctness.                                                             *)

\* Whatever fails on the way, the two modules keep the rules that the table
\* leaves to its callers: nothing is mapped while its module goes, a name is
\* unmapped where it was mapped, a vector is empty when it is removed, and a
\* module that is gone has no name left in the table.
FollowsRules == Rules!Spec

\* A vector that an administrator added is not removed by the exit handler of
\* test_vectors, which goes by the ids it remembers.
OthersStay == [][\A v \in others \ vectors' : UNCHANGED tvDone]_testVars

\* When test_vectors is gone no vector of its maps an override, even one that
\* could not be removed for the processes on it: test_syscalls can be unloaded.
UnloadReleases ==
  [][tv = "exit" /\ tv' = "unloaded" =>
       \A v \in (Remembered \cap vectors) \ others : calls[v] = {}]_testVars
=============================================================================

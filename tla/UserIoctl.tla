----------------------------- MODULE UserIoctl ------------------------------
(***************************************************************************)
(* The command-line client ioctl_module/user_ioctl.c over the device: it    *)
(* reads its words, opens the device, makes the one call they stand for,    *)
(* says what came of it and exits with the code of the call, unless it is   *)
(* killed inside it.                                                        *)
(***************************************************************************)
EXTENDS IoctlHandler

CONSTANT MaxWords  \* bound: words after the flags of a command line

ASSUME WordsAssumption == MaxWords \in Nat

\* A command line: how many words are -c, -p and neither, and the value of
\* the first that is neither (3 stands for every value that is no command).
Values == {1, 2, 3, 4, 8, 16, 32, 64}
Words == [c : 0..2, p : 0..2, n : 0..MaxWords, value : Values]

VARIABLES
  want,  \* the call the client is to make, "none" before its words are read
  named, \* the words give send_arg.name, which is NULL before
  at,    \* "start", "open", "call", "wait", "exit"
  said,  \* what it printed last
  fate   \* history: what became of the call in the kernel ("failed" before the
         \* switch with a negative code, "no_sys" there with 0, ...)

userVars == <<ioctlVars, want, named, at, said, fate>>

UserInit ==
  /\ IoctlInit
  /\ want = [h \in Handlers |-> "none"]
  /\ named = [h \in Handlers |-> FALSE]
  /\ at = [h \in Handlers |-> "start"]
  /\ said = [h \in Handlers |-> "nothing"]
  /\ fate = [h \in Handlers |-> "none"]

-----------------------------------------------------------------------------
(* getcommandlineargs.  argv ends in a NULL, which strtol does not survive:  *)
(* "crash".  As a name it is only passed on.                                *)

CommandOf == [v \in {1, 2, 4, 8, 16, 32, 64} |->
  CASE v = 1 -> "ADD_VECTOR"
    [] v = 2 -> "REMOVE_VECTOR"
    [] v = 4 -> "ADD_SYSCALL_TO_VECTOR"
    [] v = 8 -> "REMOVE_SYSCALL_FROM_VECTOR"
    [] v = 16 -> "ASSIGN_VECTOR_TO_PROCESS"
    [] v = 32 -> "BLOCK"
    [] v = 64 -> "UNBLOCK"]

\* Mutant of Argc: the program's own name is not counted.
ArgcShort(v) == IF v = 1 THEN 2 ELSE IF v = 2 THEN 3 ELSE 4

Argc(v) == IF v = 1 THEN 3 ELSE IF v = 2 THEN 4 ELSE 5

\* Words that go through strtol when the value is v, the value included.
Numbers(v) == IF v = 1 THEN 1 ELSE IF v \in {2, 4, 8} THEN 2 ELSE 3

Reads(w, numbers, command) == IF w.n < numbers THEN "crash" ELSE command

Parse(w) ==
  LET argc == 1 + w.c + w.p + w.n IN
  CASE w.c > 0 /\ w.p > 0 -> "usage"
    [] w.c = 0 /\ w.p = 0 -> IF argc = 1 THEN "GET_INFO" ELSE "none"
    [] w.c = 0 /\ w.p > 0 ->
         IF argc < 3 THEN "usage" ELSE Reads(w, 1, "GET_VECTOR_ID_OF_PROCESS")
    [] w.c > 0 /\ w.p = 0 ->
         IF argc < 3 THEN "usage"
         ELSE IF w.n = 0 THEN "crash"
         ELSE IF w.value \notin DOMAIN CommandOf \/ argc < Argc(w.value) THEN "usage"
         ELSE Reads(w, Numbers(w.value), CommandOf[w.value])

\* args->name is the word after the vector id, if there is one.
NameGiven(w) == Parse(w) \in {"ADD_SYSCALL_TO_VECTOR", "REMOVE_SYSCALL_FROM_VECTOR"} /\ w.n > 2

-----------------------------------------------------------------------------
(* main                                                                     *)

Say(u, what) == at' = [at EXCEPT ![u] = "exit"] /\ said' = [said EXCEPT ![u] = what]

Start(u) ==
  /\ at[u] = "start"
  /\ \E w \in Words :
       LET todo == Parse(w) IN
       \/ todo \in {"usage", "crash"} /\ Say(u, todo) /\ UNCHANGED <<want, named>>
       \/ /\ todo \notin {"usage", "crash"}
          /\ want' = [want EXCEPT ![u] = todo]
          /\ named' = [named EXCEPT ![u] = NameGiven(w)]
          /\ at' = [at EXCEPT ![u] = "open"]
          /\ UNCHANGED said
  /\ UNCHANGED <<ioctlVars, fate>>

\* open, which fails when there is no device; words that ask for no call are
\* taken for success.
Open(u) ==
  /\ at[u] = "open"
  /\ \/ Say(u, "no device")
     \/ want[u] = "none" /\ Say(u, "nothing")
     \/ want[u] # "none" /\ at' = [at EXCEPT ![u] = "call"] /\ UNCHANGED said
  /\ UNCHANGED <<ioctlVars, want, named, fate>>

Ioctl(u) ==
  /\ at[u] = "call"
  /\ Begin(u, want[u], named[u])
  /\ at' = [at EXCEPT ![u] = "wait"]
  /\ fate' = [fate EXCEPT ![u] = IF pc'[u] = "switch" THEN "none"
                                  ELSE IF rc'[u] = "neg" THEN "failed" ELSE "no_sys"]
  /\ UNCHANGED <<want, named, said>>

Serve(u) ==
  /\ at[u] = "wait" /\ Switch(u)
  /\ fate' = [fate EXCEPT ![u] =
       IF ret' \in Errors THEN "refused" ELSE IF ret' = "oops" THEN "oops" ELSE "done"]
  /\ IF ret' = "oops" THEN Say(u, "killed") ELSE UNCHANGED <<at, said>>
  /\ UNCHANGED <<want, named>>

\* The message of a success, or of a call whose result is not looked at.
Message(command) ==
  CASE command = "GET_INFO" -> "table"
    [] command = "GET_VECTOR_ID_OF_PROCESS" -> "vector id"
    [] command = "BLOCK" -> "blocked"
    [] command = "UNBLOCK" -> "unblocked"
    [] OTHER -> "nothing"

\* Mutant of Unchecked: block and unblock do not look at the result either.
UncheckedAll == {"GET_INFO", "GET_VECTOR_ID_OF_PROCESS", "BLOCK", "UNBLOCK"}

Unchecked == {"GET_INFO", "GET_VECTOR_ID_OF_PROCESS"}

Report(u) ==
  /\ at[u] = "wait" /\ pc[u] = "done"
  /\ Say(u, IF rc[u] = "neg" /\ want[u] \notin Unchecked THEN "issues" ELSE Message(want[u]))
  /\ UNCHANGED <<ioctlVars, want, named, fate>>

\* The next command is another run of the program.
Again(u) ==
  /\ at[u] = "exit"
  /\ at' = [at EXCEPT ![u] = "start"]
  /\ want' = [want EXCEPT ![u] = "none"]
  /\ named' = [named EXCEPT ![u] = FALSE]
  /\ said' = [said EXCEPT ![u] = "nothing"]
  /\ fate' = [fate EXCEPT ![u] = "none"]
  /\ UNCHANGED ioctlVars

UserNext ==
  \/ \E u \in Handlers : Start(u) \/ Open(u) \/ Ioctl(u) \/ Serve(u) \/ Report(u) \/ Again(u)
  \/ (LoaderNext \/ NameNext) /\ UNCHANGED <<callVars, want, named, at, said, fate>>

UserSpec == UserInit /\ [][UserNext]_userVars

-----------------------------------------------------------------------------
(* Correctness.                                                             *)

\* What displayhelp says of the words that follow one flag: a value and its
\* operands.  Given one flag, the program makes the call that its usage names
\* exactly when the operands are there, reads no further than they go, and
\* passes a name with the calls that take one.
Operands(v) == IF v = 1 THEN 0 ELSE IF v = 2 THEN 1 ELSE 2
ParsesAsUsage ==
  \A u \in Handlers : at[u] = "start" =>
    \A n \in 0..MaxWords, v \in Values :
      LET w == [c |-> 1, p |-> 0, n |-> n, value |-> v]
          complete == v \in DOMAIN CommandOf /\ n > Operands(v)
      IN /\ Parse(w) = IF complete THEN CommandOf[v] ELSE "usage"
         /\ NameGiven(w) <=> complete /\ v \in {4, 8}

\* The user is told the outcome of the operation: of issues if the arguments did
\* not get through or the table refused it, of none if it was done, whichever way
\* out the kernel took.  Two cases are no part of this: the queries are printed
\* without a look at the result, and for want of sys ("no_sys") the device returns
\* 0 and the program says that a number was blocked when nothing was done.
Queries == {"GET_INFO", "GET_VECTOR_ID_OF_PROCESS"}
SaysWhatWasDone ==
  \A u \in Handlers : at[u] = "exit" =>
    /\ fate[u] \in {"failed", "refused"} /\ want[u] \notin Queries => said[u] = "issues"
    /\ fate[u] = "done" => said[u] # "issues"
=============================================================================

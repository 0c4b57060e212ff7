-------------------------- MODULE UserIoctlProofs ---------------------------
(***************************************************************************)
(* Theorems about IoctlHandler and UserIoctl, for callers that follow no    *)
(* rule at all: the client is a use of the device and the device a use of   *)
(* the table, so that what is proved of the table holds behind them; what   *)
(* the device frees and tells; and what the client makes of it.             *)
(***************************************************************************)
EXTENDS UserIoctl, SyscallTblProofs

-----------------------------------------------------------------------------
(* The device.                                                              *)

\* What FreedOnReturn needs of the calls in progress: their buffers are those
\* that the way out knows.
CallInv ==
  /\ pc \in [Handlers -> {"idle", "switch", "done", "oops"}]
  /\ cmd \in [Handlers -> Commands]
  /\ heap \in [Handlers -> SUBSET Buffers]
  /\ rc \in [Handlers -> {"neg", "zero", "pos"}]
  /\ FreedOnReturn

\* A call on its way out by a label that frees what it holds.
LEMMA LeaveInv ==
  ASSUME CallInv, NEW h \in Handlers, NEW bufs \in SUBSET Buffers, NEW label, NEW code,
         Leave(h, bufs, label, code),
         \/ label = "out_sys" /\ code \in {"neg", "zero", "pos"}
         \/ label = "out_name" /\ code = "neg"
         \/ label = "out_arglist" /\ code = "neg" /\ "name" \notin bufs
  PROVE  CallInv'
<1>1. /\ Freed(bufs, label) \in SUBSET Buffers
      /\ Freed(bufs, label) \subseteq IF code = "neg" THEN {"sys"} ELSE {}
  <2>1. CASE label = "out_sys"
    BY <2>1 DEF Freed
  <2>2. CASE label = "out_name" /\ code = "neg"
    BY <2>2 DEF Freed, Buffers
  <2>3. CASE label = "out_arglist" /\ code = "neg" /\ "name" \notin bufs
    BY <2>3 DEF Freed, Buffers
  <2> QED
    BY <2>1, <2>2, <2>3
<1>2. /\ pc' \in [Handlers -> {"idle", "switch", "done", "oops"}] /\ cmd' \in [Handlers -> Commands]
      /\ heap' \in [Handlers -> SUBSET Buffers] /\ rc' \in [Handlers -> {"neg", "zero", "pos"}]
      /\ heap'[h] = Freed(bufs, label) /\ rc'[h] = code
      /\ \A g \in Handlers \ {h} : pc'[g] = pc[g] /\ heap'[g] = heap[g] /\ rc'[g] = rc[g]
  BY <1>1 DEF CallInv, Leave, Commands
<1>3. FreedOnReturn'
  BY <1>1, <1>2 DEF CallInv, FreedOnReturn
<1> QED
  BY <1>2, <1>3 DEF CallInv

LEMMA BeginInv ==
  ASSUME CallInv, NEW h \in Handlers, NEW c \in Commands, NEW withName \in BOOLEAN, Begin(h, c, withName)
  PROVE  CallInv'
<1> DEFINE name == IF withName THEN {"name"} ELSE {}
<1>1. {"arglist"} \in SUBSET Buffers /\ {"arglist"} \cup name \in SUBSET Buffers
      /\ {"arglist", "sys"} \cup name \in SUBSET Buffers /\ {} \in SUBSET Buffers
  BY DEF Buffers
<1>2. CASE /\ pc' = [pc EXCEPT ![h] = "switch"] /\ cmd' = [cmd EXCEPT ![h] = c]
           /\ heap' = [heap EXCEPT ![h] = {"arglist", "sys"} \cup name]
           /\ rc' = [rc EXCEPT ![h] = "zero"]
  BY <1>1, <1>2 DEF CallInv, FreedOnReturn
<1>3. CASE \/ Leave(h, {}, "out_arglist", "neg") \/ Leave(h, {"arglist"}, "out_name", "neg")
           \/ Leave(h, {"arglist"} \cup name, "out_name", "neg")
           \/ Leave(h, {"arglist"} \cup name, "out_sys", "zero")
  BY <1>1, <1>3, LeaveInv
<1> QED
  BY <1>2, <1>3 DEF Begin

LEMMA SwitchInv ==
  ASSUME CallInv, NEW h \in Handlers, Switch(h)
  PROVE  CallInv'
<1>1. heap[h] \in SUBSET Buffers
  BY DEF CallInv
<1>2. ErrorLabel(cmd[h]) \in {"out_sys", "out_name"} /\ Results(cmd[h]) \subseteq {"zero", "pos"}
  BY DEF ErrorLabel, Results
<1>3. CASE pc' = [pc EXCEPT ![h] = "oops"] /\ UNCHANGED <<cmd, heap, rc>>
  BY <1>3 DEF CallInv, FreedOnReturn
<1> QED
  BY <1>1, <1>2, <1>3, LeaveInv DEF Switch

LEMMA InitCallInv == IoctlInit => CallInv
BY DEF IoctlInit, CallInv, FreedOnReturn, Commands

LEMMA CallStep ==
  ASSUME CallInv, [IoctlNext]_ioctlVars
  PROVE  CallInv'
<1>1. CASE \E h \in Handlers : Switch(h) \/ \E c \in Commands, withName \in BOOLEAN : Begin(h, c, withName)
  BY <1>1, SwitchInv, BeginInv
<1>2. CASE UNCHANGED callVars
  BY <1>2 DEF callVars, CallInv, FreedOnReturn
<1> QED
  BY <1>1, <1>2 DEF IoctlNext, ioctlVars

LEMMA CallInvCorrect == IoctlSpec => []CallInv
<1>1. CallInv /\ [IoctlNext]_ioctlVars => CallInv'
  BY CallStep
<1> QED
  BY <1>1, InitCallInv, PTL DEF IoctlSpec

\* Whatever fails on the way, and however calls of the device interleave,
\* arglist and name are freed, and sys too unless the operation was refused.
THEOREM FreedCorrect == IoctlSpec => []FreedOnReturn
<1>1. CallInv => FreedOnReturn
  BY DEF CallInv
<1> QED
  BY <1>1, CallInvCorrect, PTL

\* The operation of a command is one of the table's, with or without a name.
LEMMA OperationNext ==
  ASSUME NEW c \in Commands \ {"other"}, NEW bufs, Operation(c, bufs)
  PROVE  Next
<1>1. CASE c \in {"ADD_VECTOR", "REMOVE_VECTOR"}
  BY <1>1 DEF Operation, Next, TableNext, VectorNext
<1>2. CASE c \in {"ADD_SYSCALL_TO_VECTOR", "REMOVE_SYSCALL_FROM_VECTOR"}
  <2>1. AddSyscall(bufs) \/ RemoveSyscall(bufs)
    BY <1>2 DEF Operation
  <2> QED
    BY <2>1 DEF AddSyscall, RemoveSyscall, Next, TableNext, MapNext, NoNameNext
<1>3. CASE c \in {"BLOCK", "UNBLOCK"}
  BY <1>3 DEF Operation, Next, TableNext, NumNext
<1>4. CASE c \in {"ASSIGN_VECTOR_TO_PROCESS", "GET_VECTOR_ID_OF_PROCESS"}
  BY <1>4 DEF Operation, Next, CountNext, Reassign
<1>5. CASE c = "GET_INFO"
  BY <1>5 DEF Operation, Next, CountNext, ReturnEarly
<1> QED
  BY <1>1, <1>2, <1>3, <1>4, <1>5 DEF Commands

\* An operation that is refused has changed at most the lock.
LEMMA RefusedQuiet ==
  ASSUME NEW c \in Commands, NEW bufs, Operation(c, bufs), ret' \in Errors
  PROVE  UNCHANGED <<vecVars, registered, tblRef, modVars>>
<1>1. CASE c = "other"
  BY <1>1 DEF Operation, Fail, Errors
<1>2. CASE c # "other"
  <2>1. CASE \E code : Fail(code)
    BY <2>1 DEF Fail, tblVars
  <2>2. CASE \E v \in Ids, num \in Nums : BlockSyscallNum(v, num) \/ UnblockSyscallNum(v, num)
    BY <2>2 DEF BlockSyscallNum, UnblockSyscallNum, LeakLock, Errors
  <2> QED
    BY <1>2, <2>1, <2>2, OperationNext, ErrorStep
<1> QED
  BY <1>1, <1>2

\* The end of a call, whatever happens in the meantime: it returns a code that
\* tells a refusal, or is killed.
LEMMA SwitchTells ==
  ASSUME CallInv, NEW h \in Handlers, Switch(h)
  PROVE  /\ ret' = "oops" => pc'[h] = "oops"
         /\ ret' # "oops" => pc'[h] = "done" /\ (rc'[h] = "neg" <=> ret' \in Errors)
         /\ ret' \in Errors => UNCHANGED <<vecVars, registered, tblRef, modVars>>
         /\ \A g \in Handlers \ {h} : pc'[g] = pc[g] /\ rc'[g] = rc[g] /\ cmd'[g] = cmd[g]
<1>1. cmd[h] \in Commands /\ Operation(cmd[h], heap[h]) /\ "neg" \notin Results(cmd[h])
  BY DEF CallInv, Switch, Results
<1>2. CASE ret' = "oops"
  <2>1. ret' \notin Errors /\ pc' = [pc EXCEPT ![h] = "oops"] /\ UNCHANGED <<cmd, rc>>
    BY <1>2 DEF Switch, Errors
  <2> QED
    BY <1>2, <2>1 DEF CallInv
<1>3. CASE ret' # "oops"
  <2>1. PICK label, code : /\ Leave(h, heap[h], label, code)
                           /\ code = "neg" <=> ret' \in Errors
    BY <1>1, <1>3 DEF Switch
  <2> QED
    BY <1>1, <1>3, <2>1, RefusedQuiet DEF CallInv, Leave
<1> QED
  BY <1>2, <1>3

\* A negative code of the device says that the lists, counts and references are
\* as they were, and an operation that was refused gets a negative code.
THEOREM OutcomeCorrect == IoctlSpec => OutcomeTold
<1> DEFINE Told == \A h \in Handlers : pc[h] = "switch" /\ pc'[h] = "done" =>
                     /\ rc'[h] = "neg" => UNCHANGED <<vecVars, registered, tblRef, modVars>>
                     /\ ret' \in Errors => rc'[h] = "neg"
<1>1. CallInv /\ [IoctlNext]_ioctlVars => [Told]_ioctlVars
  <2> SUFFICES ASSUME CallInv, IoctlNext, NEW h \in Handlers, pc[h] = "switch", pc'[h] = "done"
               PROVE  /\ rc'[h] = "neg" => UNCHANGED <<vecVars, registered, tblRef, modVars>>
                      /\ ret' \in Errors => rc'[h] = "neg"
    OBVIOUS
  <2>1. CASE UNCHANGED callVars
    BY <2>1 DEF callVars
  <2>2. ASSUME NEW g \in Handlers, NEW c \in Commands, NEW withName \in BOOLEAN, Begin(g, c, withName)
        PROVE  FALSE
    BY <2>2 DEF Begin, Leave, CallInv
  <2>3. ASSUME NEW g \in Handlers, Switch(g) PROVE g = h
    BY <2>3, SwitchTells
  <2> QED
    BY <2>1, <2>2, <2>3, SwitchTells DEF IoctlNext
<1> QED
  BY <1>1, CallInvCorrect, PTL DEF IoctlSpec, OutcomeTold

-----------------------------------------------------------------------------
(* The client.                                                              *)

Calls == Commands \ {"other"}
Sayings ==
  { "nothing", "usage", "crash", "no device", "issues",
    "table", "vector id", "blocked", "unblocked", "killed" }

\* What the client knows of its call: the device serves the command its words
\* stood for, and the sign of the code is what became of the operation.
ClientSafe(u) ==
  /\ at[u] \in {"call", "wait"} => want[u] # "none"
  /\ pc[u] = "switch" => at[u] = "wait" /\ cmd[u] = want[u]
  /\ at[u] = "wait" /\ pc[u] = "done" =>
       /\ fate[u] \in {"failed", "no_sys", "refused", "done"}
       /\ fate[u] \in {"failed", "refused"} => rc[u] = "neg"
       /\ fate[u] = "done" => rc[u] # "neg"

UserInv ==
  /\ want \in [Handlers -> Calls \cup {"none"}]
  /\ named \in [Handlers -> BOOLEAN]
  /\ at \in [Handlers -> {"start", "open", "call", "wait", "exit"}]
  /\ said \in [Handlers -> Sayings]
  /\ fate \in [Handlers -> {"none", "failed", "no_sys", "refused", "done", "oops"}]
  /\ \A u \in Handlers : at[u] \in {"start", "open", "call"} => fate[u] = "none"
  /\ \A u \in Handlers : ClientSafe(u)
  /\ SaysWhatWasDone

LEMMA CommandNames ==
  ASSUME NEW v \in DOMAIN CommandOf
  PROVE  CommandOf[v] \in Calls
BY DEF CommandOf, Calls, Commands

\* Words stand for a call, for none, for the usage, or the program crashes.
LEMMA ParseNames ==
  ASSUME NEW w \in Words
  PROVE  Parse(w) \in Calls \cup {"none", "usage", "crash"}
<1>1. CASE w.c > 0 /\ w.p = 0
  BY <1>1, CommandNames DEF Parse, Words, Reads
<1>2. CASE w.c = 0 /\ w.p = 0
  BY <1>2 DEF Parse, Words, Calls, Commands
<1>3. CASE w.c = 0 /\ w.p > 0
  BY <1>3 DEF Parse, Words, Reads, Calls, Commands
<1>4. CASE w.c > 0 /\ w.p > 0
  BY <1>4 DEF Parse
<1> QED
  BY <1>1, <1>2, <1>3, <1>4 DEF Words

LEMMA StartInv ==
  ASSUME UserInv, NEW u \in Handlers, Start(u)
  PROVE  UserInv'
<1>1. PICK todo \in Calls \cup {"none", "usage", "crash"} :
        \/ todo \in {"usage", "crash"} /\ Say(u, todo) /\ UNCHANGED <<want, named>>
        \/ /\ todo \notin {"usage", "crash"}
           /\ want' = [want EXCEPT ![u] = todo]
           /\ \E b \in BOOLEAN : named' = [named EXCEPT ![u] = b]
           /\ at' = [at EXCEPT ![u] = "open"]
           /\ UNCHANGED said
  BY ParseNames DEF Start, NameGiven
<1>2. UNCHANGED <<pc, cmd, rc, fate>> /\ at[u] = "start" /\ fate[u] = "none"
  BY DEF Start, ioctlVars, callVars, UserInv
<1>3. at'[u] \in {"open", "exit"} /\ \A g \in Handlers \ {u} : at'[g] = at[g] /\ want'[g] = want[g] /\ said'[g] = said[g]
  BY <1>1 DEF UserInv, Say
<1>4. \A g \in Handlers : ClientSafe(g)'
  BY <1>2, <1>3 DEF UserInv, ClientSafe
<1>5. SaysWhatWasDone'
  BY <1>2, <1>3 DEF UserInv, SaysWhatWasDone
<1>6. {"usage", "crash"} \subseteq Sayings
  BY DEF Sayings
<1>7. at' \in [Handlers -> {"start", "open", "call", "wait", "exit"}] /\ said' \in [Handlers -> Sayings]
  BY <1>1, <1>6 DEF UserInv, Say
<1>8. want' \in [Handlers -> Calls \cup {"none"}] /\ named' \in [Handlers -> BOOLEAN]
  BY <1>1 DEF UserInv
<1>9. \A g \in Handlers : at'[g] \in {"start", "open", "call"} => fate'[g] = "none"
  BY <1>2, <1>3 DEF UserInv
<1> QED
  BY <1>2, <1>4, <1>5, <1>7, <1>8, <1>9 DEF UserInv

LEMMA OpenInv ==
  ASSUME UserInv, NEW u \in Handlers, Open(u)
  PROVE  UserInv'
<1>1. /\ UNCHANGED <<pc, cmd, rc, fate, want, named>> /\ at[u] = "open" /\ fate[u] = "none"
      /\ \/ at' = [at EXCEPT ![u] = "exit"] /\ \E what \in {"no device", "nothing"} : said' = [said EXCEPT ![u] = what]
         \/ at' = [at EXCEPT ![u] = "call"] /\ want[u] # "none" /\ UNCHANGED said
  BY DEF Open, Say, ioctlVars, callVars, UserInv
<1>2. \A g \in Handlers : ClientSafe(g)'
  BY <1>1 DEF UserInv, ClientSafe
<1>3. SaysWhatWasDone'
  BY <1>1 DEF UserInv, SaysWhatWasDone
<1>4. {"no device", "nothing"} \subseteq Sayings
  BY DEF Sayings
<1>5. at' \in [Handlers -> {"start", "open", "call", "wait", "exit"}] /\ said' \in [Handlers -> Sayings]
  BY <1>1, <1>4 DEF UserInv
<1>6. \A g \in Handlers : at'[g] \in {"start", "open", "call"} => fate'[g] = "none"
  BY <1>1 DEF UserInv
<1> QED
  BY <1>1, <1>2, <1>3, <1>5, <1>6 DEF UserInv

\* A call gets to the switch, or ends before it.
LEMMA BeginTells ==
  ASSUME CallInv, NEW h \in Handlers, NEW c \in Commands, NEW withName \in BOOLEAN, Begin(h, c, withName)
  PROVE  /\ (pc'[h] = "switch" /\ cmd'[h] = c) \/ pc'[h] = "done"
         /\ \A g \in Handlers \ {h} : pc'[g] = pc[g] /\ rc'[g] = rc[g] /\ cmd'[g] = cmd[g]
BY DEF CallInv, Begin, Leave

LEMMA IoctlInv ==
  ASSUME CallInv, UserInv, NEW u \in Handlers, Ioctl(u)
  PROVE  UserInv'
<1>1. /\ want[u] \in Commands /\ want[u] # "none" /\ named[u] \in BOOLEAN /\ at[u] = "call"
      /\ Begin(u, want[u], named[u])
      /\ at' = [at EXCEPT ![u] = "wait"] /\ UNCHANGED <<want, named, said>>
      /\ fate' = [fate EXCEPT ![u] = IF pc'[u] = "switch" THEN "none"
                                     ELSE IF rc'[u] = "neg" THEN "failed" ELSE "no_sys"]
  BY DEF Ioctl, UserInv, ClientSafe, Calls
<1>2. /\ (pc'[u] = "switch" /\ cmd'[u] = want[u]) \/ pc'[u] = "done"
      /\ \A g \in Handlers \ {u} : pc'[g] = pc[g] /\ rc'[g] = rc[g] /\ cmd'[g] = cmd[g]
  BY <1>1, BeginTells
<1>3. \A g \in Handlers : ClientSafe(g)'
  BY <1>1, <1>2 DEF UserInv, ClientSafe
<1>4. SaysWhatWasDone'
  BY <1>1 DEF UserInv, SaysWhatWasDone
<1>5. \A g \in Handlers : at'[g] \in {"start", "open", "call"} => fate'[g] = "none"
  BY <1>1 DEF UserInv
<1> QED
  BY <1>1, <1>3, <1>4, <1>5 DEF UserInv

LEMMA ServeInv ==
  ASSUME CallInv, UserInv, NEW u \in Handlers, Serve(u)
  PROVE  UserInv'
<1> DEFINE end == IF ret' \in Errors THEN "refused" ELSE IF ret' = "oops" THEN "oops" ELSE "done"
<1>1. /\ at[u] = "wait" /\ Switch(u) /\ UNCHANGED <<want, named>>
      /\ fate' = [fate EXCEPT ![u] = end]
      /\ IF ret' = "oops" THEN Say(u, "killed") ELSE UNCHANGED <<at, said>>
  BY DEF Serve
<1>2. /\ ret' = "oops" => pc'[u] = "oops"
      /\ ret' # "oops" => pc'[u] = "done" /\ (rc'[u] = "neg" <=> ret' \in Errors)
      /\ \A g \in Handlers \ {u} : pc'[g] = pc[g] /\ rc'[g] = rc[g] /\ cmd'[g] = cmd[g]
  BY <1>1, SwitchTells
<1>3. /\ at'[u] \in {"wait", "exit"} /\ (at'[u] = "exit" => ret' = "oops")
      /\ \A g \in Handlers \ {u} : at'[g] = at[g] /\ said'[g] = said[g]
      /\ at' \in [Handlers -> {"start", "open", "call", "wait", "exit"}] /\ said' \in [Handlers -> Sayings]
  BY <1>1 DEF Say, UserInv, Sayings
<1>4. /\ end \in {"refused", "oops", "done"}
      /\ ret' = "oops" <=> end = "oops"
      /\ end = "refused" <=> ret' \in Errors
  BY DEF Errors
<1> HIDE DEF end
<1>5. \A g \in Handlers : ClientSafe(g)'
  BY <1>1, <1>2, <1>3, <1>4 DEF UserInv, ClientSafe
<1>6. SaysWhatWasDone'
  BY <1>1, <1>3, <1>4 DEF UserInv, SaysWhatWasDone
<1>7. \A g \in Handlers : at'[g] \in {"start", "open", "call"} => fate'[g] = "none"
  BY <1>1, <1>3 DEF UserInv
<1> QED
  BY <1>1, <1>3, <1>4, <1>5, <1>6, <1>7 DEF UserInv

LEMMA ReportInv ==
  ASSUME UserInv, NEW u \in Handlers, Report(u) \/ Again(u)
  PROVE  UserInv'
<1>1. CASE Report(u)
  <2> DEFINE what == IF rc[u] = "neg" /\ want[u] \notin Unchecked THEN "issues" ELSE Message(want[u])
  <2>1. /\ at[u] = "wait" /\ pc[u] = "done" /\ UNCHANGED <<pc, cmd, rc, want, named, fate>>
        /\ at' = [at EXCEPT ![u] = "exit"] /\ said' = [said EXCEPT ![u] = what]
    BY <1>1 DEF Report, Say, ioctlVars, callVars
  <2>2. /\ what \in Sayings
        /\ what = "issues" => rc[u] = "neg"
        /\ rc[u] = "neg" /\ want[u] \notin Queries => what = "issues"
    BY DEF Message, Sayings, Unchecked, Queries
  <2> HIDE DEF what
  <2>3. /\ fate[u] \in {"failed", "refused"} /\ want[u] \notin Queries => what = "issues"
        /\ fate[u] = "done" => what # "issues"
    BY <2>1, <2>2 DEF UserInv, ClientSafe
  <2>4. \A g \in Handlers : ClientSafe(g)'
    BY <2>1 DEF UserInv, ClientSafe
  <2>5. SaysWhatWasDone'
    BY <2>1, <2>3 DEF UserInv, SaysWhatWasDone
  <2> QED
    BY <2>1, <2>2, <2>4, <2>5 DEF UserInv
<1>2. CASE Again(u)
  <2>1. /\ at[u] = "exit" /\ UNCHANGED <<pc, cmd, rc>>
        /\ at' = [at EXCEPT ![u] = "start"] /\ want' = [want EXCEPT ![u] = "none"]
        /\ named' = [named EXCEPT ![u] = FALSE]
        /\ said' = [said EXCEPT ![u] = "nothing"] /\ fate' = [fate EXCEPT ![u] = "none"]
    BY <1>2 DEF Again, ioctlVars, callVars
  <2>2. \A g \in Handlers : ClientSafe(g)'
    BY <2>1 DEF UserInv, ClientSafe
  <2>3. SaysWhatWasDone'
    BY <2>1 DEF UserInv, SaysWhatWasDone
  <2> QED
    BY <2>1, <2>2, <2>3 DEF UserInv, Sayings
<1> QED
  BY <1>1, <1>2

LEMMA QuietClient ==
  ASSUME UserInv, UNCHANGED <<callVars, want, named, at, said, fate>>
  PROVE  UserInv'
BY DEF UserInv, ClientSafe, SaysWhatWasDone, callVars

LEMMA UserStep ==
  ASSUME CallInv, UserInv, [UserNext]_userVars
  PROVE  UserInv'
<1>1. CASE UserNext
  BY <1>1, StartInv, OpenInv, IoctlInv, ServeInv, ReportInv, QuietClient DEF UserNext
<1>2. CASE UNCHANGED userVars
  BY <1>2, QuietClient DEF userVars, ioctlVars
<1> QED
  BY <1>1, <1>2

LEMMA UserInitInv == UserInit => UserInv
BY DEF UserInit, IoctlInit, UserInv, ClientSafe, SaysWhatWasDone, Sayings

\* A step of the client is one of the device, or leaves the device alone.
LEMMA ClientStep ==
  ASSUME UserInv, [UserNext]_userVars
  PROVE  [IoctlNext]_ioctlVars
<1>1. CASE \E u \in Handlers : Ioctl(u)
  <2>1. PICK u \in Handlers : Ioctl(u)
    BY <1>1
  <2>2. want[u] \in Commands /\ named[u] \in BOOLEAN /\ Begin(u, want[u], named[u])
    BY <2>1 DEF Ioctl, UserInv, ClientSafe, Calls
  <2> QED
    BY <2>2 DEF IoctlNext
<1>2. CASE \E u \in Handlers : Serve(u)
  BY <1>2 DEF Serve, IoctlNext
<1>3. CASE \E u \in Handlers : Start(u) \/ Open(u) \/ Report(u) \/ Again(u)
  BY <1>3 DEF Start, Open, Report, Again
<1>4. CASE (LoaderNext \/ NameNext) /\ UNCHANGED <<callVars, want, named, at, said, fate>>
  BY <1>4 DEF IoctlNext
<1>5. CASE UNCHANGED userVars
  BY <1>5 DEF userVars
<1> QED
  BY <1>1, <1>2, <1>3, <1>4, <1>5 DEF UserNext

\* What the client does to the device is what IoctlHandler lets callers do, so
\* that its theorems hold for the device under user_ioctl.
THEOREM ClientUsesDevice == UserSpec => IoctlSpec
<1>1. UserInit => IoctlInit
  BY DEF UserInit
<1>2. CallInv /\ [IoctlNext]_ioctlVars => CallInv'
  BY CallStep
<1>3. CallInv /\ UserInv /\ [UserNext]_userVars => UserInv' /\ [IoctlNext]_ioctlVars
  BY UserStep, ClientStep
<1> QED
  BY <1>1, <1>2, <1>3, InitCallInv, UserInitInv, PTL DEF UserSpec, IoctlSpec

LEMMA UserInvCorrect == UserSpec => [](CallInv /\ UserInv)
<1>1. CallInv /\ UserInv /\ [UserNext]_userVars => UserInv'
  BY UserStep
<1> QED
  BY <1>1, ClientUsesDevice, CallInvCorrect, UserInitInv, PTL DEF UserSpec

\* The client, the device and the module loader together only ever take steps
\* of the table's own specification: everything that SyscallTblProofs proves
\* of Spec is so of the table behind the device.
THEOREM ClientUsesTable == UserSpec => Spec
<1>1. UserInit => Init
  BY DEF UserInit, IoctlInit
<1>2. CallInv /\ UserInv /\ [UserNext]_userVars => [Next]_vars
  <2> SUFFICES ASSUME CallInv, UserInv, [UserNext]_userVars PROVE [Next]_vars
    OBVIOUS
  <2>1. CASE \E u \in Handlers : Serve(u)
    <3>1. PICK u \in Handlers : at[u] = "wait" /\ Switch(u)
      BY <2>1 DEF Serve
    <3>2. cmd[u] \in Calls /\ Operation(cmd[u], heap[u])
      BY <3>1 DEF Switch, UserInv, ClientSafe
    <3> QED
      BY <3>2, OperationNext DEF Calls
  <2>2. CASE LoaderNext \/ NameNext
    BY <2>2 DEF Next, TableNext
  <2>3. CASE \E u \in Handlers : Start(u) \/ Open(u) \/ Ioctl(u) \/ Report(u) \/ Again(u)
    BY <2>3 DEF Start, Open, Ioctl, Begin, Report, Again, ioctlVars
  <2>4. CASE UNCHANGED userVars
    BY <2>4 DEF userVars, ioctlVars
  <2> QED
    BY <2>1, <2>2, <2>3, <2>4 DEF UserNext
<1> QED
  BY <1>1, <1>2, UserInvCorrect, PTL DEF UserSpec, Spec

\* So the table behind the device has the shape, the count on its own module
\* and the single override per number that the table has for any callers.
THEOREM TableBehindDevice == UserSpec => [](TypeOK /\ TblRefExact /\ OneEntryPerNum)
BY ClientUsesTable, TypeCorrect, TblRefCorrect, OneEntryCorrect, PTL

\* The user is told of issues if the operation was refused, when the program
\* looks at the result, and never if it was done.
THEOREM SaysCorrect == UserSpec => []SaysWhatWasDone
<1>1. UserInv => SaysWhatWasDone
  BY DEF UserInv
<1> QED
  BY <1>1, UserInvCorrect, PTL

\* getcommandlineargs makes of the words after one flag what displayhelp says.
THEOREM ParsesCorrect == UserSpec => []ParsesAsUsage
<1>1. ASSUME NEW n \in 0..MaxWords, NEW v \in Values, NEW w, w = [c |-> 1, p |-> 0, n |-> n, value |-> v]
      PROVE  LET complete == v \in DOMAIN CommandOf /\ n > Operands(v)
             IN /\ Parse(w) = IF complete THEN CommandOf[v] ELSE "usage"
                /\ NameGiven(w) <=> complete /\ v \in {4, 8}
  <2> DEFINE complete == v \in DOMAIN CommandOf /\ n > Operands(v)
  <2>1. n \in Nat /\ w.n = n /\ w.value = v
    BY <1>1, WordsAssumption
  <2>2. Parse(w) = IF n + 2 < 3 THEN "usage"
                   ELSE IF n = 0 THEN "crash"
                   ELSE IF v \notin DOMAIN CommandOf \/ n + 2 < Argc(v) THEN "usage"
                   ELSE Reads(w, Numbers(v), CommandOf[v])
    BY <1>1, <2>1 DEF Parse
  <2>3. Argc(v) = Operands(v) + 3 /\ Operands(v) \in Nat
        /\ Numbers(v) \in Nat /\ (v \in DOMAIN CommandOf => Numbers(v) <= Operands(v) + 1)
    BY DEF Argc, Operands, Numbers, Values
  <2>4. n + 2 >= Argc(v) /\ v \in DOMAIN CommandOf => Reads(w, Numbers(v), CommandOf[v]) = CommandOf[v]
    BY <2>1, <2>3 DEF Reads
  <2>5. Parse(w) = IF complete THEN CommandOf[v] ELSE "usage"
    BY <2>1, <2>2, <2>3, <2>4
  <2>6. v \in DOMAIN CommandOf =>
          (CommandOf[v] \in {"ADD_SYSCALL_TO_VECTOR", "REMOVE_SYSCALL_FROM_VECTOR"} <=> v \in {4, 8})
    BY DEF CommandOf, Values
  <2>7. v \in {4, 8} => Operands(v) = 2
    BY DEF Operands
  <2>8. NameGiven(w) <=> complete /\ v \in {4, 8}
    BY <2>1, <2>5, <2>6, <2>7 DEF NameGiven
  <2> QED
    BY <2>5, <2>8
<1>2. ParsesAsUsage
  BY <1>1 DEF ParsesAsUsage
<1> QED
  BY <1>2, PTL
=============================================================================

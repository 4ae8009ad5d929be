--------------------------- MODULE ExtensionProofs ---------------------------
(***************************************************************************)
(* Proofs about the two parts of the VS Code extension, for any number of  *)
(* processes, rebuilds, restarts, crashes and compiles.                    *)
(*                                                                         *)
(* ServerRestart: never two servers, none that the next restart would not  *)
(* end, no more crashes of a window followed by a restart than             *)
(* MAX_CRASHES, and none of a process that is not the one running.  The    *)
(* first two rest on what each stage of the running restart has taken and  *)
(* set: from the moment it has the client stopped until it has a process   *)
(* of its own, no other process is known and none runs but the one it      *)
(* ends.  The third rests on the crashes a restart followed being among    *)
(* those remembered: counted from the newest, each is at least as old.     *)
(*                                                                         *)
(* CompileCommand: a spinner has a compile.                                *)
(***************************************************************************)
EXTENDS MCExtension, FiniteSetTheorems, SequenceTheorems, WellFoundedInduction, TLAPS

Entries == [stage : Stages, stopping : BOOLEAN, ending : Procs \union {None},
            read : 0 .. MaxBuilds]

Types ==
    /\ restarting \in Seq(Entries)
    /\ client \in BOOLEAN
    /\ wasiProcess \in Procs \union {None}
    /\ proc \in [Procs -> {"free", "up", "exiting", "ended"}]
    /\ native \in Procs \union {None}
    /\ file \in 0 .. MaxBuilds

(* Only the first restart of the chain runs. *)
OthersWait == \A i \in DOMAIN restarting : i # 1 => restarting[i] = Waiting

First == IF restarting = <<>> THEN Waiting ELSE restarting[1]

(* What runs is the native server, the WASI process or the one being ended,
   and no two of these are set. *)
Known ==
    /\ native # None => proc[native] = "up"
    /\ native = None \/ wasiProcess = None
    /\ Up \subseteq {native, wasiProcess, First.ending}
    /\ First.ending # None => native = None /\ wasiProcess = None

(* The stage of the running restart says what it has taken and set. *)
Progress ==
    /\ native # None => client \/ (First.stage = "stopping" /\ First.stopping)
    /\ First.stage # "ending" => First.ending = None
    /\ First.stage \in {"ending", "spawning", "loading", "reading"} =>
          native = None /\ wasiProcess = None
    /\ First.stage \in {"spawning", "loading", "reading", "starting"} => client
    /\ First.stage = "stopping" => ~client

IInv == Types /\ OthersWait /\ Known /\ Progress

LEMMA WaitingIsEntry == Waiting \in Entries
BY ConstantAssumption DEF Waiting, Entries, Stages

-----------------------------------------------------------------------------
(* How the chain changes. *)

LEMMA QueueKeeps ==
    ASSUME restarting \in Seq(Entries), OthersWait, Queue, Waiting \in Entries
    PROVE  restarting' \in Seq(Entries) /\ OthersWait' /\ First' = First
<1> DEFINE n == Len(restarting)
<1>1. /\ restarting' \in Seq(Entries)
      /\ Len(restarting') = n + 1
      /\ \A i \in 1 .. n : restarting'[i] = restarting[i]
      /\ restarting'[n + 1] = Waiting
      /\ restarting' # <<>>
      /\ n \in Nat
  BY DEF Queue
<1>2. OthersWait'
  BY <1>1 DEF OthersWait
<1>3. CASE restarting = <<>>
  BY <1>1, <1>2, <1>3 DEF First
<1>4. CASE restarting # <<>>
  BY <1>1, <1>2, <1>4 DEF First
<1> QED
  BY <1>3, <1>4

LEMMA DoneKeeps ==
    ASSUME restarting \in Seq(Entries), OthersWait, restarting # <<>>, Done(1)
    PROVE  restarting' \in Seq(Entries) /\ OthersWait' /\ First' = Waiting
<1> DEFINE n == Len(restarting)
<1> DEFINE u == SubSeq(restarting, 2, n)
<1>1. n \in Nat \ {0}
  OBVIOUS
<1>a. restarting' = SubSeq(restarting, 1, 0) \o u
  BY DEF Done
<1>b. SubSeq(restarting, 1, 0) = <<>>
  BY <1>1
<1>c. \A i \in 2 .. n : restarting[i] \in Entries
  BY <1>1
<1>d. /\ u \in Seq(Entries)
      /\ Len(u) = IF 2 <= n THEN n - 2 + 1 ELSE 0
      /\ \A i \in 1 .. n - 2 + 1 : u[i] = restarting[2 + i - 1]
  BY <1>1, <1>c, SubSeqProperties
<1> HIDE DEF u
<1>e. restarting' = u
  BY <1>a, <1>b, <1>d, ConcatEmptySeq
<1>2. /\ restarting' \in Seq(Entries)
      /\ Len(restarting') = n - 1
      /\ \A i \in 1 .. n - 1 : restarting'[i] = restarting[i + 1]
  BY <1>1, <1>d, <1>e
<1>3. \A i \in DOMAIN restarting' : restarting'[i] = Waiting
  BY <1>1, <1>2 DEF OthersWait
<1>4. First' = Waiting
  BY <1>2, <1>3 DEF First
<1> QED
  BY <1>2, <1>3, <1>4 DEF OthersWait

LEMMA StageKeeps ==
    ASSUME restarting \in Seq(Entries), OthersWait, restarting # <<>>,
           NEW e \in Entries, restarting' = [restarting EXCEPT ![1] = e]
    PROVE  restarting' \in Seq(Entries) /\ OthersWait' /\ First' = e
<1>1. 1 \in DOMAIN restarting
  OBVIOUS
<1>2. restarting' \in Seq(Entries) /\ restarting' # <<>> /\ DOMAIN restarting' = DOMAIN restarting
  BY <1>1
<1> QED
  BY <1>1, <1>2 DEF OthersWait, First

LEMMA RunningIsFirst ==
    ASSUME IInv, NEW i, NEW step, At(i, step)
    PROVE  i = 1 /\ restarting # <<>> /\ First = restarting[1] /\ First.stage = step
           /\ First \in Entries
BY DEF At, MayRun, First, IInv, Types

-----------------------------------------------------------------------------
(* Each step of the running restart. *)

LEMMA StopClientKeeps ==
    ASSUME IInv, NEW i \in DOMAIN restarting, StopClient(i) PROVE IInv'
<1> DEFINE e == [First EXCEPT !.stage = "stopping", !.stopping = client]
<1>1. i = 1 /\ restarting # <<>> /\ First = restarting[1] /\ First.stage = "waiting" /\ First \in Entries
  BY RunningIsFirst DEF StopClient
<1>2. e \in Entries /\ restarting' = [restarting EXCEPT ![1] = e]
  BY <1>1 DEF StopClient, IInv, Types, Entries, Stages
<1>3. restarting' \in Seq(Entries) /\ OthersWait' /\ First' = e
  BY <1>1, <1>2, StageKeeps DEF IInv, Types
<1>4. e.stage = "stopping" /\ e.stopping = client /\ e.ending = First.ending
  BY <1>1 DEF Entries
<1>5. First.ending = None
  BY <1>1 DEF IInv, Progress
<1> HIDE DEF e
<1>6. Types'
  BY <1>3 DEF StopClient, IInv, Types, watch
<1>7. Known'
  BY <1>3, <1>4, <1>5 DEF StopClient, IInv, Known, Up
<1>8. Progress'
  BY <1>1, <1>3, <1>4, <1>5 DEF StopClient, IInv, Progress
<1> QED
  BY <1>3, <1>6, <1>7, <1>8 DEF IInv

LEMMA TerminateKeeps ==
    ASSUME IInv, NEW i \in DOMAIN restarting, Terminate(i) PROVE IInv'
<1> DEFINE e == [First EXCEPT !.stage = "ending", !.ending = wasiProcess]
<1>1. i = 1 /\ restarting # <<>> /\ First = restarting[1] /\ First.stage = "stopping" /\ First \in Entries
  BY RunningIsFirst DEF Terminate
<1>2. e \in Entries /\ restarting' = [restarting EXCEPT ![1] = e]
  BY <1>1 DEF Terminate, Ending, IInv, Types, Entries, Stages
<1>3. restarting' \in Seq(Entries) /\ OthersWait' /\ First' = e
  BY <1>1, <1>2, StageKeeps DEF IInv, Types
<1>4. e.stage = "ending" /\ e.ending = wasiProcess
  BY <1>1 DEF Entries
<1>5. First.ending = None
  BY <1>1 DEF IInv, Progress
<1> HIDE DEF e
<1>6. Types'
  BY <1>3 DEF Terminate, IInv, Types, watch
<1>7. native' = None /\ wasiProcess' = None
  <2>1. CASE First.stopping
    BY <1>1, <2>1 DEF Terminate
  <2>2. CASE ~First.stopping
    <3>1. client = FALSE
      BY <1>1 DEF IInv, Progress
    <3> QED
      BY <1>1, <2>2, <3>1 DEF Terminate, IInv, Progress
  <2> QED
    BY <2>1, <2>2
<1>8. Up' \subseteq {wasiProcess}
  <2>1. CASE First.stopping
    <3>1. Up' \subseteq Up \ {native}
      BY <1>1, <2>1 DEF Terminate, Up, IInv, Types
    <3> QED
      BY <3>1, <1>5, ConstantAssumption DEF IInv, Known, Up, None
  <2>2. CASE ~First.stopping
    <3>1. native = None /\ Up' = Up
      BY <1>1, <2>2, <1>7 DEF Terminate, Up
    <3> QED
      BY <3>1, <1>5, ConstantAssumption DEF IInv, Known, Up, None
  <2> QED
    BY <2>1, <2>2
<1>9. Known'
  BY <1>3, <1>4, <1>7, <1>8 DEF Known
<1>10. Progress'
  BY <1>3, <1>4, <1>7 DEF Progress
<1> QED
  BY <1>3, <1>6, <1>9, <1>10 DEF IInv

(* Once the process being ended has ended, none runs. *)
LEMMA TerminatedEnds ==
    ASSUME IInv, NEW i \in DOMAIN restarting, Terminated(i)
    PROVE  /\ i = 1 /\ restarting # <<>> /\ First = restarting[1]
           /\ First.stage = "ending" /\ First \in Entries
           /\ native = None /\ wasiProcess = None
           /\ proc' \in [Procs -> {"free", "up", "exiting", "ended"}]
           /\ Up' = {}
<1>1. i = 1 /\ restarting # <<>> /\ First = restarting[1] /\ First.stage = "ending" /\ First \in Entries
  BY RunningIsFirst DEF Terminated
<1>2. native = None /\ wasiProcess = None
  BY <1>1 DEF IInv, Progress
<1>3. Up \subseteq {First.ending}
  BY <1>2, ConstantAssumption DEF IInv, Known, Up, None
<1>4. proc' \in [Procs -> {"free", "up", "exiting", "ended"}]
  BY DEF Terminated, IInv, Types
<1>5. Up' = {}
  BY <1>1, <1>3 DEF Terminated, Up
<1> QED
  BY <1>1, <1>2, <1>4, <1>5

LEMMA NoServerKeeps ==
    ASSUME IInv, NEW i \in DOMAIN restarting, NoServer(i) PROVE IInv'
<1>1. /\ i = 1 /\ restarting # <<>>
      /\ native = None /\ wasiProcess = None /\ Up' = {}
      /\ proc' \in [Procs -> {"free", "up", "exiting", "ended"}]
  BY TerminatedEnds DEF NoServer
<1>2. restarting' \in Seq(Entries) /\ OthersWait' /\ First' = Waiting
  BY <1>1, DoneKeeps DEF NoServer, IInv, Types
<1>3. Types'
  BY <1>1, <1>2 DEF NoServer, IInv, Types, watch
<1>4. Known' /\ Progress'
  BY <1>1, <1>2 DEF NoServer, Known, Progress, Waiting
<1> QED
  BY <1>2, <1>3, <1>4 DEF IInv

LEMMA StartClientKeeps ==
    ASSUME IInv, NEW i \in DOMAIN restarting, StartClient(i) PROVE IInv'
<1> DEFINE e == [Waiting EXCEPT !.stage = IF mode = "native" THEN "spawning" ELSE "loading"]
<1>1. /\ i = 1 /\ restarting # <<>>
      /\ native = None /\ wasiProcess = None /\ Up' = {}
      /\ proc' \in [Procs -> {"free", "up", "exiting", "ended"}]
  BY TerminatedEnds DEF StartClient
<1>2. e \in Entries /\ e.stage \in {"spawning", "loading"} /\ e.ending = None
  BY WaitingIsEntry DEF Waiting, Entries, Stages
<1>3. restarting' = [restarting EXCEPT ![1] = e]
  BY <1>1 DEF StartClient
<1> HIDE DEF e
<1>4. restarting' \in Seq(Entries) /\ OthersWait' /\ First' = e
  BY <1>1, <1>2, <1>3, StageKeeps DEF IInv, Types
<1>5. Types'
  BY <1>1, <1>4 DEF StartClient, IInv, Types
<1>6. Known' /\ Progress'
  BY <1>1, <1>2, <1>4 DEF StartClient, Known, Progress
<1> QED
  BY <1>4, <1>5, <1>6 DEF IInv

(* The next stage of the running restart, what it holds unchanged. *)
LEMMA GotoKeeps ==
    ASSUME IInv, restarting # <<>>, First = restarting[1], First \in Entries,
           NEW step \in Stages, Goto(1, step)
    PROVE  /\ restarting' \in Seq(Entries) /\ OthersWait'
           /\ First'.stage = step /\ First'.ending = First.ending
<1> DEFINE e == [First EXCEPT !.stage = step]
<1>1. e \in Entries /\ e.stage = step /\ e.ending = First.ending
  BY DEF Entries
<1>2. restarting' = [restarting EXCEPT ![1] = e]
  BY DEF Goto
<1> HIDE DEF e
<1>3. restarting' \in Seq(Entries) /\ OthersWait' /\ First' = e
  BY <1>1, <1>2, StageKeeps DEF IInv, Types
<1> QED
  BY <1>1, <1>3

LEMMA SpawnKeeps ==
    ASSUME IInv, NEW i \in DOMAIN restarting, Spawn(i) PROVE IInv'
<1>1. i = 1 /\ restarting # <<>> /\ First = restarting[1] /\ First.stage = "spawning" /\ First \in Entries
  BY RunningIsFirst DEF Spawn
<1>2. native = None /\ wasiProcess = None /\ First.ending = None /\ client
  BY <1>1 DEF IInv, Progress
<1>3. Up = {}
  BY <1>2, ConstantAssumption DEF IInv, Known, Up, None
<1>4. /\ restarting' \in Seq(Entries) /\ OthersWait'
      /\ First'.stage = "starting" /\ First'.ending = None
  BY <1>1, <1>2, GotoKeeps DEF Spawn, Stages
<1>5. PICK p \in Procs : proc' = [proc EXCEPT ![p] = "up"] /\ native' = p
  BY DEF Spawn, FreeProcs
<1>6. Types'
  BY <1>4, <1>5 DEF Spawn, IInv, Types, watch
<1>7. proc'[p] = "up" /\ Up' = {p}
  BY <1>3, <1>5 DEF Up, IInv, Types
<1>8. Known' /\ Progress'
  BY <1>2, <1>4, <1>5, <1>7 DEF Spawn, Known, Progress
<1> QED
  BY <1>4, <1>6, <1>8 DEF IInv

LEMMA ReadWasmKeeps ==
    ASSUME IInv, NEW i \in DOMAIN restarting, ReadWasm(i) PROVE IInv'
<1> DEFINE e == [First EXCEPT !.stage = "reading", !.read = file]
<1>1. i = 1 /\ restarting # <<>> /\ First = restarting[1] /\ First.stage = "loading" /\ First \in Entries
  BY RunningIsFirst DEF ReadWasm
<1>2. e \in Entries /\ restarting' = [restarting EXCEPT ![1] = e]
  BY <1>1 DEF ReadWasm, IInv, Types, Entries, Stages
<1>3. e.stage = "reading" /\ e.ending = First.ending
  BY <1>1 DEF Entries
<1> HIDE DEF e
<1>4. restarting' \in Seq(Entries) /\ OthersWait' /\ First' = e
  BY <1>1, <1>2, StageKeeps DEF IInv, Types
<1>5. Types'
  BY <1>4 DEF ReadWasm, IInv, Types, host, watch
<1>6. Known' /\ Progress'
  BY <1>1, <1>3, <1>4 DEF ReadWasm, IInv, Known, Progress, Up, host
<1> QED
  BY <1>4, <1>5, <1>6 DEF IInv

LEMMA CreateProcessKeeps ==
    ASSUME IInv, NEW i \in DOMAIN restarting, CreateProcess(i) PROVE IInv'
<1>1. i = 1 /\ restarting # <<>> /\ First = restarting[1] /\ First.stage = "reading" /\ First \in Entries
  BY RunningIsFirst DEF CreateProcess
<1>2. native = None /\ wasiProcess = None /\ First.ending = None /\ client
  BY <1>1 DEF IInv, Progress
<1>3. Up = {}
  BY <1>2, ConstantAssumption DEF IInv, Known, Up, None
<1>4. /\ restarting' \in Seq(Entries) /\ OthersWait'
      /\ First'.stage = "starting" /\ First'.ending = None
  BY <1>1, <1>2, GotoKeeps DEF CreateProcess, Stages
<1>5. PICK p \in Procs : proc' = [proc EXCEPT ![p] = "up"] /\ wasiProcess' = p
  BY DEF CreateProcess, FreeProcs
<1>6. Types'
  BY <1>4, <1>5 DEF CreateProcess, IInv, Types, watch
<1>7. Up' = {p}
  BY <1>3, <1>5 DEF Up, IInv, Types
<1>8. Known' /\ Progress'
  BY <1>2, <1>4, <1>5, <1>7 DEF CreateProcess, Known, Progress
<1> QED
  BY <1>4, <1>6, <1>8 DEF IInv

LEMMA StartedKeeps ==
    ASSUME IInv, NEW i \in DOMAIN restarting, Started(i) PROVE IInv'
<1>1. i = 1 /\ restarting # <<>> /\ First.stage = "starting"
  BY RunningIsFirst DEF Started
<1>2. First.ending = None
  BY <1>1 DEF IInv, Progress
<1>3. restarting' \in Seq(Entries) /\ OthersWait' /\ First' = Waiting
  BY <1>1, DoneKeeps DEF Started, IInv, Types
<1>4. Types'
  BY <1>3 DEF Started, IInv, Types, host, watch
<1>5. Known' /\ Progress'
  BY <1>1, <1>2, <1>3 DEF Started, IInv, Known, Progress, Up, host, Waiting
<1> QED
  BY <1>3, <1>4, <1>5 DEF IInv

LEMMA FailedStartKeeps ==
    ASSUME IInv, NEW i \in DOMAIN restarting, FailedStart(i) PROVE IInv'
<1>1. /\ i = 1 /\ restarting # <<>>
      /\ First.stage \in {"spawning", "loading", "reading", "starting"}
  BY RunningIsFirst DEF FailedStart
<1>2. First.ending = None /\ client
  BY <1>1 DEF IInv, Progress
<1>3. restarting' \in Seq(Entries) /\ OthersWait' /\ First' = Waiting
  BY <1>1, DoneKeeps DEF FailedStart, IInv, Types
<1>4. Types'
  BY <1>3 DEF FailedStart, IInv, Types, host, watch
<1>5. Known' /\ Progress'
  BY <1>1, <1>2, <1>3 DEF FailedStart, IInv, Known, Progress, Up, host, Waiting
<1> QED
  BY <1>3, <1>4, <1>5 DEF IInv

LEMMA RestartKeeps ==
    ASSUME IInv, NEW i \in DOMAIN restarting, Restart(i) PROVE IInv'
BY StopClientKeeps, TerminateKeeps, NoServerKeeps, StartClientKeeps, SpawnKeeps,
   ReadWasmKeeps, CreateProcessKeeps, StartedKeeps, FailedStartKeeps DEF Restart

-----------------------------------------------------------------------------
(* The steps outside the running restart. *)

(* The chain as it was, or one restart longer. *)
LEMMA ChainKeeps ==
    ASSUME IInv, Queue \/ UNCHANGED restarting
    PROVE  restarting' \in Seq(Entries) /\ OthersWait' /\ First' = First
<1>1. CASE Queue
  BY <1>1, QueueKeeps, WaitingIsEntry DEF IInv, Types
<1>2. CASE UNCHANGED restarting
  BY <1>2 DEF IInv, Types, OthersWait, First
<1> QED
  BY <1>1, <1>2

LEMMA HostKeeps ==
    ASSUME IInv, Queue \/ UNCHANGED restarting, UNCHANGED host, file' \in 0 .. MaxBuilds
    PROVE  IInv'
<1>1. restarting' \in Seq(Entries) /\ OthersWait' /\ First' = First
  BY ChainKeeps
<1>2. Types'
  BY <1>1 DEF IInv, Types, host
<1>3. Known' /\ Progress'
  BY <1>1 DEF IInv, Known, Progress, Up, host
<1> QED
  BY <1>1, <1>2, <1>3 DEF IInv

LEMMA CrashKeeps ==
    ASSUME IInv, NEW p \in Procs, Crash(p) PROVE IInv'
<1>1. restarting' \in Seq(Entries) /\ OthersWait' /\ First' = First
  BY ChainKeeps DEF Crash
<1>2. Types'
  BY <1>1 DEF Crash, IInv, Types, watch
<1>3. Up' \subseteq Up /\ (native # None => proc'[native] = proc[native])
  BY DEF Crash, Up, IInv, Types
<1>4. Known' /\ Progress'
  BY <1>1, <1>3 DEF Crash, IInv, Known, Progress
<1> QED
  BY <1>1, <1>2, <1>4 DEF IInv

LEMMA OnWasiExitKeeps ==
    ASSUME IInv, NEW p \in Procs, OnWasiExit(p) PROVE IInv'
<1>1. restarting' \in Seq(Entries) /\ OthersWait' /\ First' = First
  BY ChainKeeps DEF OnWasiExit
<1>2. Types'
  BY <1>1 DEF OnWasiExit, IInv, Types, watch
<1>3. Up' = Up /\ (native # None => proc'[native] = "up")
  BY DEF OnWasiExit, Up, IInv, Types, Known
<1>4. Known' /\ Progress'
  BY <1>1, <1>3 DEF OnWasiExit, IInv, Known, Progress
<1> QED
  BY <1>1, <1>2, <1>4 DEF IInv

-----------------------------------------------------------------------------
(* The inductive invariant. *)

LEMMA InitHolds == Init => IInv
<1> SUFFICES ASSUME Init PROVE IInv
  OBVIOUS
<1>1. restarting \in Seq(Entries) /\ OthersWait /\ First = Waiting
  BY WaitingIsEntry DEF Init, OthersWait, First
<1>2. proc \in [Procs -> {"free", "up", "exiting", "ended"}] /\ file \in 0 .. MaxBuilds
  BY ConstantAssumption DEF Init
<1>3. Types
  BY <1>1, <1>2 DEF Init, Types
<1>4. Known /\ Progress
  BY <1>1 DEF Init, Known, Progress, Up, Waiting
<1> QED
  BY <1>1, <1>3, <1>4 DEF IInv

LEMMA StepKeeps == IInv /\ [Next]_vars => IInv'
<1> SUFFICES ASSUME IInv, [Next]_vars PROVE IInv'
  OBVIOUS
<1>0. file \in 0 .. MaxBuilds /\ file \in Int /\ MaxBuilds \in Nat
  BY ConstantAssumption DEF IInv, Types
<1>1. CASE Restarts
  BY <1>1, RestartKeeps DEF Restarts
<1>2. CASE Exits
  BY <1>2, OnWasiExitKeeps DEF Exits
<1>3. CASE \E p \in Procs : Crash(p)
  BY <1>3, CrashKeeps
<1>4. CASE \E m \in Modes : Ask(m)
  BY <1>0, <1>4, HostKeeps DEF Ask, watch
<1>5. CASE Rebuild
  BY <1>0, <1>5, HostKeeps DEF Rebuild
<1>6. CASE FileChanged
  BY <1>0, <1>6, HostKeeps DEF FileChanged
<1>7. CASE DebounceEnds
  BY <1>0, <1>7, HostKeeps DEF DebounceEnds
<1>8. CASE TimePasses
  BY <1>0, <1>8, HostKeeps DEF TimePasses, watch
<1>9. CASE UNCHANGED vars
  BY <1>0, <1>9, HostKeeps DEF vars, watch
<1> QED
  BY <1>1, <1>2, <1>3, <1>4, <1>5, <1>6, <1>7, <1>8, <1>9 DEF Next

(* What is known of the processes and of the running restart holds always. *)
THEOREM Invariant == Spec => []IInv
<1> QED
  BY InitHolds, StepKeeps, PTL DEF Spec

(* However restarts, rebuilds, crashes and exits fall together, no two servers
   run: the process a restart ends has ended before it starts another. *)
THEOREM NeverTwoServers == Spec => []OneServer
<1>1. IInv => OneServer
  <2> SUFFICES ASSUME IInv PROVE OneServer
    OBVIOUS
  <2>1. \E p : Up \subseteq {p}
    BY ConstantAssumption DEF IInv, Known, Up, None
  <2>2. PICK p : Up \subseteq {p}
    BY <2>1
  <2>3. IsFiniteSet({p}) /\ Cardinality({p}) = 1
    BY FS_Singleton
  <2>4. Cardinality(Up) <= Cardinality({p})
    BY <2>2, <2>3, FS_Subset
  <2> QED
    BY <2>3, <2>4 DEF OneServer
<1> QED
  BY <1>1, Invariant, PTL

(* Whatever server runs is one the next restart ends: the native one of a
   client that is set or being stopped, the WASI process the extension knows,
   or the one a restart is ending already. *)
THEOREM NoServerStrays == Spec => []NoStray
<1>1. IInv => NoStray
  <2> SUFFICES ASSUME IInv, NEW p \in Up
               PROVE  \/ p = native /\ (client \/ \E i \in DOMAIN restarting :
                                                     restarting[i].stopping)
                      \/ p = wasiProcess
                      \/ \E i \in DOMAIN restarting : restarting[i].ending = p
    BY DEF NoStray
  <2>1. p # None
    BY ConstantAssumption DEF Up, None
  <2>2. CASE p = First.ending
    <3>1. restarting # <<>>
      BY <2>1, <2>2 DEF First, Waiting
    <3>2. 1 \in DOMAIN restarting /\ First = restarting[1]
      BY <3>1 DEF IInv, Types, First
    <3> QED
      BY <2>2, <3>2
  <2>3. CASE p = native
    <3>1. CASE client
      BY <2>3, <3>1
    <3>2. CASE First.stage = "stopping" /\ First.stopping
      <4>1. restarting # <<>>
        BY <3>2 DEF First, Waiting
      <4>2. 1 \in DOMAIN restarting /\ First = restarting[1]
        BY <4>1 DEF IInv, Types, First
      <4> QED
        BY <2>3, <3>2, <4>2
    <3> QED
      BY <2>1, <2>3, <3>1, <3>2 DEF IInv, Progress
  <2>4. CASE p = wasiProcess
    BY <2>4
  <2> QED
    BY <2>2, <2>3, <2>4 DEF IInv, Known
<1> QED
  BY <1>1, Invariant, PTL

-----------------------------------------------------------------------------
(* The crashes remembered. *)

Ages == 0 .. Window + 1

(* Oldest first. *)
InOrder(times) == \A i, j \in 1 .. Len(times) : i <= j => times[j] <= times[i]

(* Counted from the newest, each of `older` is at least as old. *)
Within(older, times) ==
    /\ Len(older) <= Len(times)
    /\ \A j \in 0 .. Len(older) - 1 : times[Len(times) - j] <= older[Len(older) - j]

(* The crashes a restart followed are among those of the window the extension
   remembers, hence never more than it restarts after. *)
Remembered(times, older) ==
    /\ times \in Seq(Ages) /\ InOrder(times)
    /\ older \in Seq(0 .. Window) /\ InOrder(older)
    /\ Within(older, times)
    /\ Len(older) <= MAX_CRASHES

LEMMA LeastNatural ==
    ASSUME NEW S, S \subseteq Nat, S # {}
    PROVE  \E m \in S : \A n \in S : m <= n
<1>1. PICK m \in S : \A n \in S : ~ (<<n, m>> \in OpToRel(<, Nat))
  BY NatLessThanWellFounded, WFMin
<1>2. \A n \in S : ~ (n < m)
  BY <1>1 DEF OpToRel
<1> QED
  BY <1>2

LEMMA WithinAt ==
    ASSUME NEW older, NEW times, Within(older, times), NEW j \in 0 .. Len(older) - 1
    PROVE  times[Len(times) - j] <= older[Len(older) - j]
BY DEF Within

LEMMA PassedSplits ==
    ASSUME NEW times \in Seq(Ages)
    PROVE  /\ Passed(times) \in 0 .. Len(times)
           /\ \A i \in 1 .. Passed(times) : times[i] > Window
           /\ Passed(times) < Len(times) => times[Passed(times) + 1] <= Window
<1> DEFINE Split(k) == /\ \A i \in 1 .. k : times[i] > Window
                       /\ k < Len(times) => times[k + 1] <= Window
<1> DEFINE Stops == {k \in 0 .. Len(times) : k < Len(times) => times[k + 1] <= Window}
<1>0. Len(times) \in Nat /\ Window \in Nat /\ \A i \in 1 .. Len(times) : times[i] \in Ages
  BY ConstantAssumption
<1>1. Stops \subseteq Nat /\ Len(times) \in Stops
  BY <1>0
<1>2. PICK k \in Stops : \A n \in Stops : k <= n
  BY <1>1, LeastNatural
<1>3. ASSUME NEW i \in 1 .. k PROVE times[i] > Window
  <2>1. k \in 0 .. Len(times) /\ i \in 1 .. Len(times) /\ i - 1 \in 0 .. Len(times)
        /\ ~(k <= i - 1)
    BY <1>0, <1>2
  <2>2. i - 1 \notin Stops
    BY <1>2, <2>1
  <2>3. ~(i - 1 < Len(times) => times[i - 1 + 1] <= Window)
    BY <2>1, <2>2
  <2>4. i - 1 + 1 = i /\ i - 1 < Len(times) /\ times[i] \in Ages
    BY <1>0, <2>1
  <2>5. ~(times[i] <= Window)
    BY <2>3, <2>4
  <2> QED
    BY <1>0, <2>4, <2>5 DEF Ages
<1>4. k \in 0 .. Len(times) /\ Split(k)
  BY <1>2, <1>3
<1>5. Passed(times) = CHOOSE n \in 0 .. Len(times) : Split(n)
  BY DEF Passed
<1> HIDE DEF Split
<1>6. Passed(times) \in 0 .. Len(times) /\ Split(Passed(times))
  BY <1>4, <1>5
<1> QED
  BY <1>6 DEF Split

LEMMA RecentIs ==
    ASSUME NEW times \in Seq(Ages), InOrder(times)
    PROVE  /\ Recent(times) \in Seq(0 .. Window) /\ InOrder(Recent(times))
           /\ Len(Recent(times)) = Len(times) - Passed(times)
           /\ \A i \in 1 .. Len(Recent(times)) : Recent(times)[i] = times[Passed(times) + i]
<1> DEFINE k == Passed(times)
<1>1. /\ k \in 0 .. Len(times)
      /\ \A i \in 1 .. k : times[i] > Window
      /\ k < Len(times) => times[k + 1] <= Window
  BY PassedSplits
<1>2. Len(times) \in Nat /\ Window \in Nat /\ \A i \in 1 .. Len(times) : times[i] \in Ages
  BY ConstantAssumption
<1> HIDE DEF k
<1>3. \A i \in k + 1 .. Len(times) : times[i] \in 0 .. Window
  BY <1>1, <1>2 DEF InOrder, Ages
<1> DEFINE r == SubSeq(times, k + 1, Len(times))
<1>4. /\ r \in Seq(0 .. Window)
      /\ Len(r) = IF k + 1 <= Len(times) THEN Len(times) - (k + 1) + 1 ELSE 0
      /\ \A i \in 1 .. Len(times) - (k + 1) + 1 : r[i] = times[k + 1 + i - 1]
  BY <1>1, <1>2, <1>3, SubSeqProperties
<1>5. Recent(times) = r
  BY DEF Recent, k
<1> HIDE DEF r
<1>6. Len(r) = Len(times) - k /\ \A i \in 1 .. Len(r) : r[i] = times[k + i]
  BY <1>1, <1>2, <1>4
<1>7. InOrder(r)
  BY <1>1, <1>2, <1>6 DEF InOrder
<1> QED
  BY <1>4, <1>5, <1>6, <1>7 DEF k

LEMMA AgeIs ==
    ASSUME NEW times \in Seq(Ages), InOrder(times)
    PROVE  /\ Age(times) \in Seq(Ages) /\ InOrder(Age(times))
           /\ Len(Age(times)) = Len(times)
           /\ \A i \in 1 .. Len(times) :
                 Age(times)[i] = IF times[i] <= Window THEN times[i] + 1 ELSE times[i]
<1>1. Len(times) \in Nat /\ Window \in Nat /\ DOMAIN times = 1 .. Len(times)
      /\ \A i \in 1 .. Len(times) : times[i] \in Ages
  BY ConstantAssumption
<1> DEFINE aged == [i \in 1 .. Len(times) |->
                       IF times[i] <= Window THEN times[i] + 1 ELSE times[i]]
<1>2. aged \in [1 .. Len(times) -> Ages]
  BY <1>1 DEF Ages
<1>3. aged \in Seq(Ages) /\ Len(aged) = Len(times)
  BY <1>1, <1>2, SeqDef
<1>4. Age(times) = aged
  BY <1>1 DEF Age
<1>5. InOrder(aged)
  BY <1>1, <1>3 DEF InOrder, Ages
<1> QED
  BY <1>3, <1>4, <1>5

LEMMA AllRecent ==
    ASSUME NEW times \in Seq(0 .. Window), InOrder(times)
    PROVE  Recent(times) = times
<1>1. times \in Seq(Ages) /\ Len(times) \in Nat /\ Window \in Nat
      /\ \A i \in 1 .. Len(times) : times[i] \in 0 .. Window
  BY ConstantAssumption DEF Ages
<1>2. Passed(times) = 0
  BY <1>1, PassedSplits
<1>3. /\ Recent(times) \in Seq(0 .. Window)
      /\ Len(Recent(times)) = Len(times)
      /\ \A i \in 1 .. Len(times) : Recent(times)[i] = times[i]
  BY <1>1, <1>2, RecentIs
<1> QED
  BY <1>3, SeqEqual

(* The crashes a restart followed are not shifted out. *)
LEMMA RecentWithin ==
    ASSUME NEW times, NEW older, Remembered(times, older)
    PROVE  Within(older, Recent(times))
<1> DEFINE k == Passed(times)
<1> DEFINE r == Recent(times)
<1>1. /\ Len(times) \in Nat /\ Len(older) \in Nat /\ Window \in Nat
      /\ \A i \in 1 .. Len(older) : older[i] \in 0 .. Window
  BY ConstantAssumption DEF Remembered
<1>2. /\ k \in 0 .. Len(times)
      /\ \A i \in 1 .. k : times[i] > Window
  BY PassedSplits DEF Remembered
<1>3. /\ Len(r) = Len(times) - k
      /\ \A i \in 1 .. Len(r) : r[i] = times[k + i]
  BY RecentIs DEF Remembered
<1> HIDE DEF k, r
<1>4. ASSUME NEW j \in 0 .. Len(older) - 1 PROVE times[Len(times) - j] <= Window
  <2>1. older[Len(older) - j] \in 0 .. Window
    BY <1>1
  <2>2. /\ times[Len(times) - j] <= older[Len(older) - j]
        /\ times[Len(times) - j] \in Ages
    BY <1>1 DEF Remembered, Within
  <2> QED
    BY <1>1, <2>1, <2>2 DEF Ages
<1>5. ASSUME NEW j \in 0 .. Len(older) - 1 PROVE Len(times) - j > k
  <2>1. Len(times) - j \in 1 .. Len(times) /\ times[Len(times) - j] \in Ages
    BY <1>1 DEF Remembered, Within
  <2>2. Len(times) - j \notin 1 .. k
    BY <1>1, <1>2, <1>4, <2>1 DEF Ages
  <2> QED
    BY <1>1, <1>2, <2>1, <2>2
<1>6. Len(older) <= Len(r)
  <2>1. CASE Len(older) = 0
    BY <1>1, <1>2, <1>3, <2>1
  <2>2. CASE Len(older) > 0
    <3>0. Len(older) - 1 \in 0 .. Len(older) - 1
      BY <1>1, <2>2
    <3>1. Len(times) - (Len(older) - 1) > k
      BY <1>5, <3>0
    <3> QED
      BY <1>1, <1>2, <1>3, <3>1
  <2> QED
    BY <1>1, <2>1, <2>2
<1>7. ASSUME NEW j \in 0 .. Len(older) - 1 PROVE r[Len(r) - j] = times[Len(times) - j]
  <2>1. Len(r) - j \in 1 .. Len(r) /\ k + (Len(r) - j) = Len(times) - j
    BY <1>1, <1>2, <1>3, <1>6
  <2> QED
    BY <1>3, <2>1
<1>8. Within(older, r)
  BY <1>6, <1>7 DEF Remembered, Within
<1> QED
  BY <1>8 DEF r

(* A crash is remembered, none of the restarts before it forgotten. *)
LEMMA GiveUpRemembers ==
    ASSUME NEW times, NEW older, Remembered(times, older)
    PROVE  Remembered(Append(Recent(times), 0), older)
<1> DEFINE r == Recent(times)
<1> DEFINE a == Append(r, 0)
<1>1. r \in Seq(0 .. Window) /\ InOrder(r) /\ Within(older, r)
  BY RecentIs, RecentWithin DEF Remembered, r
<1> HIDE DEF r
<1>2. /\ Len(r) \in Nat /\ Len(older) \in Nat /\ Window \in Nat
      /\ \A i \in 1 .. Len(older) : older[i] \in 0 .. Window
      /\ \A i \in 1 .. Len(r) : r[i] \in 0 .. Window
  BY <1>1, ConstantAssumption DEF Remembered
<1>3. /\ a \in Seq(Ages) /\ Len(a) = Len(r) + 1 /\ a[Len(r) + 1] = 0
      /\ \A i \in 1 .. Len(r) : a[i] = r[i]
  BY <1>1, <1>2 DEF Ages
<1> HIDE DEF a
<1>4. InOrder(a)
  BY <1>1, <1>2, <1>3 DEF InOrder
<1>5. ASSUME NEW j \in 0 .. Len(older) - 1
      PROVE  a[Len(a) - j] <= older[Len(older) - j]
  <2>1. CASE j = 0
    BY <1>2, <1>3, <2>1
  <2>2. CASE j > 0
    <3>1. /\ Len(a) - j \in 1 .. Len(r)
          /\ Len(a) - j = Len(r) - (j - 1)
          /\ Len(older) <= Len(r)
      BY <1>1, <1>2, <1>3, <2>2 DEF Within
    <3>0. j - 1 \in 0 .. Len(older) - 1
      BY <1>2, <2>2
    <3>2. r[Len(r) - (j - 1)] <= older[Len(older) - (j - 1)]
      BY <1>1, <3>0, WithinAt
    <3>4. /\ Len(older) - j \in 1 .. Len(older)
          /\ Len(older) - (j - 1) \in 1 .. Len(older)
          /\ Len(older) - j <= Len(older) - (j - 1)
      BY <1>2, <2>2
    <3>3. older[Len(older) - (j - 1)] <= older[Len(older) - j]
      BY <3>4 DEF Remembered, InOrder
    <3>5. a[Len(a) - j] = r[Len(r) - (j - 1)]
      BY <1>3, <3>1
    <3>6. /\ r[Len(r) - (j - 1)] \in 0 .. Window
          /\ older[Len(older) - j] \in 0 .. Window
          /\ older[Len(older) - (j - 1)] \in 0 .. Window
      BY <1>2, <3>1, <3>4
    <3> QED
      BY <1>2, <3>2, <3>3, <3>5, <3>6
  <2> QED
    BY <1>2, <2>1, <2>2
<1>6. Within(older, a)
  BY <1>1, <1>2, <1>3, <1>5 DEF Within
<1>7. Remembered(a, older)
  BY <1>3, <1>4, <1>6 DEF Remembered
<1> QED
  BY <1>7 DEF a, r

(* So is one that a restart follows, unless it is one too many. *)
LEMMA ReviveRemembers ==
    ASSUME NEW times, NEW older, Remembered(times, older),
           ~TooMany(Append(Recent(times), 0))
    PROVE  Remembered(Append(Recent(times), 0), Append(Recent(older), 0))
<1> DEFINE r == Recent(times)
<1> DEFINE a == Append(r, 0)
<1> DEFINE o == Append(older, 0)
<1>1. r \in Seq(0 .. Window) /\ Within(older, r)
  BY RecentIs, RecentWithin DEF Remembered, r
<1>2. Remembered(a, older)
  BY GiveUpRemembers DEF a, r
<1>3. Recent(older) = older
  BY AllRecent DEF Remembered
<1>4. Len(a) <= MAX_CRASHES
  <2>1. a \in Seq(Ages) /\ Len(a) \in Nat /\ ~(Len(a) > MAX_CRASHES) /\ MAX_CRASHES \in Nat
    BY <1>2, ConstantAssumption DEF TooMany, Remembered, a, r
  <2> QED
    BY <2>1
<1> HIDE DEF r
<1>5. /\ Len(r) \in Nat /\ Len(older) \in Nat /\ Window \in Nat
      /\ \A i \in 1 .. Len(older) : older[i] \in 0 .. Window
      /\ Len(a) = Len(r) + 1 /\ a[Len(r) + 1] = 0
      /\ \A i \in 1 .. Len(r) : a[i] = r[i]
      /\ o \in Seq(0 .. Window) /\ Len(o) = Len(older) + 1 /\ o[Len(older) + 1] = 0
      /\ \A i \in 1 .. Len(older) : o[i] = older[i]
  BY <1>1, ConstantAssumption DEF Remembered
<1> HIDE DEF a, o
<1>6. InOrder(o)
  <2> SUFFICES ASSUME NEW i \in 1 .. Len(o), NEW j \in 1 .. Len(o), i <= j
               PROVE  o[j] <= o[i]
    BY DEF InOrder
  <2>1. o[i] \in 0 .. Window /\ o[j] \in 0 .. Window
    BY <1>5
  <2>2. CASE j = Len(older) + 1
    BY <1>5, <2>1, <2>2
  <2>3. CASE j \in 1 .. Len(older)
    <3>1. i \in 1 .. Len(older) /\ o[i] = older[i] /\ o[j] = older[j]
      BY <1>5, <2>3
    <3> QED
      BY <2>3, <3>1 DEF InOrder, Remembered
  <2> QED
    BY <1>5, <2>2, <2>3
<1>7. ASSUME NEW j \in 0 .. Len(o) - 1
      PROVE  a[Len(a) - j] <= o[Len(o) - j]
  <2>1. CASE j = 0
    BY <1>5, <2>1
  <2>2. CASE j > 0
    <3>1. /\ Len(a) - j = Len(r) - (j - 1) /\ Len(a) - j \in 1 .. Len(r)
          /\ Len(o) - j = Len(older) - (j - 1) /\ Len(o) - j \in 1 .. Len(older)
      BY <1>1, <1>5, <2>2 DEF Within
    <3>0. j - 1 \in 0 .. Len(older) - 1
      BY <1>5, <2>2
    <3>2. r[Len(r) - (j - 1)] <= older[Len(older) - (j - 1)]
      BY <1>1, <3>0, WithinAt
    <3> QED
      BY <1>5, <3>1, <3>2
  <2> QED
    BY <1>5, <2>1, <2>2
<1>8. Len(o) <= Len(a)
  BY <1>1, <1>5 DEF Within
<1>9. Within(o, a)
  BY <1>7, <1>8 DEF Within
<1>10. Len(o) <= MAX_CRASHES
  BY <1>4, <1>5, <1>8, ConstantAssumption
<1>11. Remembered(a, o)
  BY <1>2, <1>5, <1>6, <1>9, <1>10 DEF Remembered
<1> QED
  BY <1>3, <1>11 DEF a, o, r

(* A unit of time: what leaves the window is forgotten from the old end. *)
LEMMA TimeRemembers ==
    ASSUME NEW times, NEW older, Remembered(times, older)
    PROVE  /\ Remembered(Age(times), Recent(Age(older)))
           /\ Len(Recent(Age(older))) <= Len(older)
<1> DEFINE t == Age(times)
<1> DEFINE o == Age(older)
<1> DEFINE k == Passed(o)
<1> DEFINE r == Recent(o)
<1>0. older \in Seq(Ages) /\ InOrder(older) /\ times \in Seq(Ages) /\ InOrder(times)
  BY ConstantAssumption DEF Remembered, Ages
<1>1. /\ t \in Seq(Ages) /\ InOrder(t) /\ Len(t) = Len(times)
      /\ \A i \in 1 .. Len(times) :
            t[i] = IF times[i] <= Window THEN times[i] + 1 ELSE times[i]
  BY <1>0, AgeIs
<1>2. /\ o \in Seq(Ages) /\ InOrder(o) /\ Len(o) = Len(older)
      /\ \A i \in 1 .. Len(older) :
            o[i] = IF older[i] <= Window THEN older[i] + 1 ELSE older[i]
  BY <1>0, AgeIs
<1> HIDE DEF t, o
<1>3. k \in 0 .. Len(o)
  BY <1>2, PassedSplits
<1>4. /\ r \in Seq(0 .. Window) /\ InOrder(r)
      /\ Len(r) = Len(o) - k
      /\ \A i \in 1 .. Len(r) : r[i] = o[k + i]
  BY <1>2, RecentIs
<1>5. /\ Len(times) \in Nat /\ Len(older) \in Nat /\ Window \in Nat /\ MAX_CRASHES \in Nat
      /\ \A i \in 1 .. Len(older) : older[i] \in Ages
      /\ \A i \in 1 .. Len(times) : times[i] \in Ages
  BY <1>0, ConstantAssumption
<1> HIDE DEF k, r
<1>6. Len(r) <= Len(older)
  BY <1>2, <1>3, <1>4, <1>5
<1>7. ASSUME NEW j \in 0 .. Len(r) - 1
      PROVE  t[Len(t) - j] <= r[Len(r) - j]
  <2>0. Within(older, times) /\ Len(older) <= Len(times)
    BY DEF Remembered, Within
  <2>a. k \in 0 .. Len(older) /\ Len(r) = Len(older) - k
    BY <1>2, <1>3, <1>4
  <2>1. /\ Len(r) - j \in 1 .. Len(r) /\ k + (Len(r) - j) = Len(older) - j
        /\ Len(older) - j \in 1 .. Len(older) /\ Len(times) - j \in 1 .. Len(times)
        /\ j \in 0 .. Len(older) - 1
    BY <1>5, <2>0, <2>a
  <2>2. times[Len(times) - j] <= older[Len(older) - j]
    BY <2>0, <2>1, WithinAt
  <2>3. r[Len(r) - j] = o[Len(older) - j]
    BY <1>4, <2>1
  <2> DEFINE x == times[Len(times) - j]
  <2> DEFINE y == older[Len(older) - j]
  <2>b. x \in Ages /\ y \in Ages
    BY <1>5, <2>1
  <2>c. /\ t[Len(times) - j] = IF x <= Window THEN x + 1 ELSE x
        /\ o[Len(older) - j] = IF y <= Window THEN y + 1 ELSE y
    BY <1>1, <1>2, <2>1
  <2>d. x <= y
    BY <2>2
  <2> HIDE DEF x, y
  <2>4. t[Len(times) - j] <= o[Len(older) - j]
    BY <1>5, <2>b, <2>c, <2>d DEF Ages
  <2> QED
    BY <1>1, <2>3, <2>4
<1>8. Within(r, t)
  BY <1>1, <1>5, <1>6, <1>7 DEF Remembered, Within
<1>9. Len(r) <= MAX_CRASHES
  BY <1>4, <1>5, <1>6 DEF Remembered
<1>10. Remembered(t, r)
  BY <1>1, <1>4, <1>8, <1>9 DEF Remembered
<1> QED
  BY <1>6, <1>10 DEF t, r, o

-----------------------------------------------------------------------------
(* What is left of the types, and the crashes remembered. *)

Rest ==
    /\ built \in [Procs -> 0 .. MaxBuilds]
    /\ mode \in Modes
    /\ orphans \in Nat
    /\ asked \in 0 .. MaxAsked
    /\ crashes \in 0 .. MaxCrashes

Flags == {watching, event, armed, gaveUp, failed} \subseteq BOOLEAN

CInv == Rest /\ Flags /\ Remembered(crashTimes, revived)

LEMMA RestHolds == Init => CInv
<1> SUFFICES ASSUME Init PROVE CInv
  OBVIOUS
<1>1. Rest
  BY ConstantAssumption DEF Init, Rest
<1>2. Flags
  BY Zenon DEF Init, Flags
<1>3. Remembered(<<>>, <<>>)
  BY ConstantAssumption DEF Remembered, InOrder, Within
<1> QED
  BY <1>1, <1>2, <1>3 DEF Init, CInv

LEMMA RestKeeps ==
    ASSUME IInv, Rest, [Next]_vars PROVE Rest'
<1>0. /\ file \in 0 .. MaxBuilds /\ orphans \in Nat
      /\ MaxAsked \in Nat /\ MaxCrashes \in Nat /\ MaxBuilds \in Nat
      /\ asked \in 0 .. MaxAsked /\ crashes \in 0 .. MaxCrashes
  BY ConstantAssumption DEF IInv, Types, Rest
<1>1. ASSUME NEW i \in DOMAIN restarting, Restart(i) PROVE Rest'
  <2>1. CASE StopClient(i)
    BY <2>1 DEF StopClient, Rest, watch, bounds
  <2>2. CASE Terminate(i)
    BY <2>2 DEF Terminate, Rest, watch, bounds
  <2>3. CASE NoServer(i)
    BY <2>3 DEF NoServer, Rest, watch, bounds
  <2>4. CASE StartClient(i)
    BY <1>0, <2>4 DEF StartClient, WatchForRebuild, Rest, bounds
  <2>5. CASE Spawn(i)
    BY <1>0, <2>5 DEF Spawn, FreeProcs, Rest, watch, bounds
  <2>6. CASE ReadWasm(i)
    BY <2>6 DEF ReadWasm, Rest, host, watch, bounds
  <2>7. CASE CreateProcess(i)
    <3>1. restarting[i].read \in 0 .. MaxBuilds
      BY <2>7, RunningIsFirst DEF CreateProcess, Entries
    <3> QED
      BY <2>7, <3>1 DEF CreateProcess, FreeProcs, Rest, watch, bounds
  <2>8. CASE Started(i)
    BY <2>8 DEF Started, Rest, host, watch, bounds
  <2>9. CASE FailedStart(i)
    BY <2>9 DEF FailedStart, Rest, host, watch, bounds
  <2> QED
    BY <1>1, <2>1, <2>2, <2>3, <2>4, <2>5, <2>6, <2>7, <2>8, <2>9 DEF Restart
<1>2. ASSUME NEW p \in Procs, OnWasiExit(p) PROVE Rest'
  BY <1>2 DEF OnWasiExit, Rest, watch, bounds
<1>3. ASSUME NEW p \in Procs, Crash(p) PROVE Rest'
  BY <1>0, <1>3 DEF Crash, Rest, watch
<1>4. ASSUME NEW m \in Modes, Ask(m) PROVE Rest'
  BY <1>0, <1>4 DEF Ask, Rest, host, watch
<1>5. CASE Rebuild
  BY <1>5 DEF Rebuild, Rest, host, bounds
<1>6. CASE FileChanged
  BY <1>6 DEF FileChanged, Rest, host, bounds
<1>7. CASE DebounceEnds
  BY <1>0, <1>7 DEF DebounceEnds, Rest, host, bounds
<1>8. CASE TimePasses
  BY <1>8 DEF TimePasses, Rest, host, watch, bounds
<1>9. CASE UNCHANGED vars
  BY <1>9 DEF vars, Rest, host, watch, bounds
<1> QED
  BY <1>1, <1>2, <1>3, <1>4, <1>5, <1>6, <1>7, <1>8, <1>9 DEF Next, Restarts, Exits

LEMMA FlagsKeep ==
    ASSUME Flags, [Next]_vars PROVE Flags'
<1>0. /\ watching \in BOOLEAN /\ event \in BOOLEAN /\ armed \in BOOLEAN
      /\ gaveUp \in BOOLEAN /\ failed \in BOOLEAN
  BY Zenon DEF Flags
<1> SUFFICES /\ watching' \in BOOLEAN /\ event' \in BOOLEAN /\ armed' \in BOOLEAN
             /\ gaveUp' \in BOOLEAN /\ failed' \in BOOLEAN
  BY Zenon DEF Flags
<1>1. ASSUME NEW i \in DOMAIN restarting, Restart(i)
      PROVE  /\ watching' \in BOOLEAN /\ event' \in BOOLEAN /\ armed' \in BOOLEAN
             /\ gaveUp' \in BOOLEAN /\ failed' \in BOOLEAN
  BY <1>0, <1>1, Zenon DEF Restart, StopClient, Terminate, NoServer, StartClient, Spawn,
     ReadWasm, CreateProcess, Started, FailedStart, WatchForRebuild, watch, told
<1>2. ASSUME NEW p \in Procs, OnWasiExit(p)
      PROVE  /\ watching' \in BOOLEAN /\ event' \in BOOLEAN /\ armed' \in BOOLEAN
             /\ gaveUp' \in BOOLEAN /\ failed' \in BOOLEAN
  BY <1>0, <1>2, Zenon DEF OnWasiExit, watch
<1>3. CASE \/ \E p \in Procs : Crash(p)
           \/ \E m \in Modes : Ask(m)
           \/ Rebuild \/ FileChanged \/ DebounceEnds \/ TimePasses
           \/ UNCHANGED vars
  BY <1>0, <1>3, Zenon DEF Crash, Ask, Rebuild, FileChanged, DebounceEnds, TimePasses,
     watch, told, vars
<1> QED
  BY <1>1, <1>2, <1>3, Zenon DEF Next, Restarts, Exits

(* A crash is only followed by a restart when the process that ended was the
   one the extension runs, and then nothing else runs. *)
LEMMA DeadRevived ==
    ASSUME IInv, NEW p \in Procs, OnWasiExit(p), IsCurrent(p)
    PROVE  Up = {}
<1>1. proc[p] = "exiting" /\ wasiProcess = p /\ p # None
  BY ConstantAssumption DEF OnWasiExit, IsCurrent, None
<1>2. native = None /\ First.ending = None
  BY <1>1 DEF IInv, Known
<1>3. Up \subseteq {p} /\ p \notin Up
  BY <1>1, <1>2, ConstantAssumption DEF IInv, Known, Up, None
<1> QED
  BY <1>3

LEMMA TimesKeep ==
    ASSUME IInv, Remembered(crashTimes, revived), [Next]_vars
    PROVE  /\ Remembered(crashTimes, revived)'
           /\ Len(revived') > Len(revived) => Up = {}
<1>0. Len(revived) \in Nat
  BY DEF Remembered
<1>1. CASE UNCHANGED <<crashTimes, revived>>
  BY <1>0, <1>1 DEF Remembered, InOrder, Within
<1>2. ASSUME NEW p \in Procs, OnWasiExit(p)
      PROVE  /\ Remembered(crashTimes, revived)'
             /\ Len(revived') > Len(revived) => Up = {}
  <2> DEFINE times == Append(Recent(crashTimes), 0)
  <2>1. CASE ~IsCurrent(p)
    BY <1>1, <1>2, <2>1 DEF OnWasiExit
  <2>2. CASE IsCurrent(p)
    <3>1. Up = {}
      BY <1>2, <2>2, DeadRevived
    <3>2. crashTimes' = times
      BY <1>2, <2>2 DEF OnWasiExit
    <3>3. \/ revived' = revived
          \/ ~TooMany(times) /\ revived' = Append(Recent(revived), 0)
      BY <1>2, <2>2 DEF OnWasiExit
    <3>4. Remembered(times, revived)
      BY GiveUpRemembers
    <3>5. ~TooMany(times) => Remembered(times, Append(Recent(revived), 0))
      BY ReviveRemembers
    <3> HIDE DEF times
    <3>6. Remembered(crashTimes', revived')
      BY <3>2, <3>3, <3>4, <3>5
    <3> QED
      BY <3>1, <3>6
  <2> QED
    BY <2>1, <2>2
<1>3. CASE TimePasses
  <2>1. /\ Remembered(crashTimes', revived')
        /\ Len(revived') <= Len(revived) /\ revived' \in Seq(0 .. Window)
    BY <1>3, TimeRemembers DEF TimePasses, Remembered
  <2>2. Len(revived') \in Nat
    BY <2>1
  <2> QED
    BY <1>0, <2>1, <2>2
<1>4. ASSUME NEW i \in DOMAIN restarting, Restart(i) PROVE UNCHANGED <<crashTimes, revived>>
  BY <1>4 DEF Restart, StopClient, Terminate, NoServer, StartClient, Spawn, ReadWasm,
     CreateProcess, Started, FailedStart, told
<1>5. CASE \/ \E p \in Procs : Crash(p)
           \/ \E m \in Modes : Ask(m)
           \/ Rebuild \/ FileChanged \/ DebounceEnds
           \/ UNCHANGED vars
  BY <1>1, <1>5 DEF Crash, Ask, Rebuild, FileChanged, DebounceEnds, told, vars
<1> QED
  BY <1>1, <1>2, <1>3, <1>4, <1>5 DEF Next, Restarts, Exits

LEMMA CStepKeeps == IInv /\ CInv /\ [Next]_vars => CInv'
BY RestKeeps, FlagsKeep, TimesKeep DEF CInv

LEMMA CInvariant == Spec => [](IInv /\ CInv)
<1>1. Init => IInv /\ CInv
  BY InitHolds, RestHolds
<1>2. IInv /\ CInv /\ [Next]_vars => (IInv /\ CInv)'
  BY StepKeeps, CStepKeeps
<1> QED
  BY <1>1, <1>2, PTL DEF Spec

(* No more than MAX_CRASHES crashes of a window are followed by a restart,
   whatever else restarts the server in between; and every variable is of its
   type. *)
THEOREM RestartsRight == Spec => []RestartsInv
<1>1. IInv /\ CInv => RestartsInv
  <2> SUFFICES ASSUME IInv, CInv PROVE RestartsInv
    OBVIOUS
  <2>1. crashTimes \in Seq(0 .. Window + 1)
    BY DEF CInv, Remembered, Ages
  <2>2. revived \in Seq(0 .. Window + 1)
    <3>1. revived \in Seq(0 .. Window)
      BY DEF CInv, Remembered
    <3> QED
      BY <3>1, ConstantAssumption
  <2>3. TypeOK
    BY <2>1, <2>2 DEF TypeOK, IInv, Types, Entries, CInv, Rest, Flags
  <2> QED
    BY <2>3 DEF RestartsInv, CrashLimit, CInv, Remembered
<1> QED
  BY <1>1, CInvariant, PTL

(* The late exit of a process that a restart ended never restarts the server
   that came after it: only while none runs is an exit taken for a crash. *)
THEOREM NoneElseRevived == Spec => OnlyTheDeadRevived
<1>1. IInv /\ CInv /\ [Next]_vars => [Len(revived') > Len(revived) => Up = {}]_vars
  BY TimesKeep DEF CInv
<1> QED
  BY <1>1, CInvariant, PTL DEF Spec, OnlyTheDeadRevived

-----------------------------------------------------------------------------
(* The indicator of the compile command. *)

(* What a report may turn the spinner by is a compile in flight, and every
   failure still shown or being hidden is that of a compile that is done. *)
CommandInv ==
    /\ stage \in [Compiles -> {"new", "saving", "sent", "done"}]
    /\ reports \subseteq Compiles
    /\ compiling \in BOOLEAN
    /\ status \in {"hidden", "spinner", "failed"}
    /\ restarts \in 0 .. MaxRestarts
    /\ compiling \/ status = "spinner" => \E c \in Compiles : stage[c] = "sent"
    /\ hides \in Nat /\ hides <= Cardinality({c \in Compiles : stage[c] = "done"})

LEMMA CommandInit == Command!Init => CommandInv
<1> SUFFICES ASSUME Command!Init PROVE CommandInv
  OBVIOUS
<1>1. {c \in Compiles : stage[c] = "done"} = {}
  BY DEF Command!Init
<1>2. Cardinality({c \in Compiles : stage[c] = "done"}) = 0
  BY <1>1, FS_EmptySet
<1>3. restarts \in 0 .. MaxRestarts /\ hides = 0
  BY CommandAssumption DEF Command!Init
<1>4. stage \in [Compiles -> {"new", "saving", "sent", "done"}]
  BY DEF Command!Init
<1>5. compiling = FALSE /\ status = "hidden" /\ reports = {}
  BY DEF Command!Init
<1>6. compiling \in BOOLEAN /\ ~(compiling \/ status = "spinner")
  BY <1>5
<1>7. hides \in Nat /\ hides <= Cardinality({c \in Compiles : stage[c] = "done"})
  BY <1>2, <1>3
<1> QED
  BY <1>3, <1>4, <1>5, <1>6, <1>7 DEF CommandInv

LEMMA DoneIsNumber == Cardinality({c \in Compiles : stage[c] = "done"}) \in Nat
  BY CommandAssumption, FS_Subset, FS_CardinalityType

(* Only a compile that was sent is done: none of those done is another again,
   and an answer adds its own. *)
LEMMA DoneGrows ==
    ASSUME NEW c \in Compiles, CommandInv, stage[c] = "sent",
           stage' = [stage EXCEPT ![c] = "done"]
    PROVE  Cardinality({d \in Compiles : stage'[d] = "done"})
              = Cardinality({d \in Compiles : stage[d] = "done"}) + 1
<1> DEFINE Answered == {d \in Compiles : stage[d] = "done"}
<1>1. IsFiniteSet(Answered)
  BY CommandAssumption, FS_Subset
<1>2. {d \in Compiles : stage'[d] = "done"} = Answered \union {c}
  BY DEF CommandInv
<1>3. c \notin Answered
  OBVIOUS
<1> HIDE DEF Answered
<1>4. Cardinality(Answered \union {c}) = Cardinality(Answered) + 1
  BY <1>1, <1>3, FS_AddElement
<1> QED
  BY <1>2, <1>4 DEF Answered

LEMMA CommandStep == CommandInv /\ [Command!Next]_(Command!vars) => CommandInv'
<1> SUFFICES ASSUME CommandInv, [Command!Next]_(Command!vars) PROVE CommandInv'
  OBVIOUS
<1> USE DEF CommandInv
<1>1. ASSUME NEW c \in Compiles, Command!Invoke(c) PROVE CommandInv'
  <2>1. \A d \in Compiles : (stage'[d] = "sent" <=> stage[d] = "sent")
                            /\ (stage'[d] = "done" <=> stage[d] = "done")
    BY <1>1 DEF Command!Invoke
  <2>2. {d \in Compiles : stage'[d] = "done"} = {d \in Compiles : stage[d] = "done"}
    BY <2>1
  <2> QED
    BY <1>1, <2>1, <2>2 DEF Command!Invoke
<1>2. ASSUME NEW c \in Compiles, Command!Send(c) PROVE CommandInv'
  <2>1. stage'[c] = "sent" /\ \A d \in Compiles : stage'[d] = "done" <=> stage[d] = "done"
    BY <1>2 DEF Command!Send
  <2>2. {d \in Compiles : stage'[d] = "done"} = {d \in Compiles : stage[d] = "done"}
    BY <2>1
  <2> QED
    BY <1>2, <2>1, <2>2 DEF Command!Send
<1>3. ASSUME NEW c \in Compiles, Command!Progress(c) PROVE CommandInv'
  BY <1>3 DEF Command!Progress, Command!ReportsCount
<1>4. ASSUME NEW c \in Compiles, Command!Failed(c) PROVE CommandInv'
  <2>1. /\ stage[c] = "sent" /\ stage' = [stage EXCEPT ![c] = "done"]
        /\ hides' = hides + 1 /\ status' = "failed" /\ compiling' = FALSE
        /\ UNCHANGED <<reports, restarts>>
    BY <1>4 DEF Command!Failed, Command!ShowFailure
  <2>2. hides' \in Nat /\ hides' <= Cardinality({d \in Compiles : stage'[d] = "done"})
    <3>1. hides \in Nat /\ hides <= Cardinality({d \in Compiles : stage[d] = "done"})
      OBVIOUS
    <3>2. Cardinality({d \in Compiles : stage'[d] = "done"})
              = Cardinality({d \in Compiles : stage[d] = "done"}) + 1
      BY <2>1, DoneGrows
    <3> QED
      BY <2>1, <3>1, <3>2, DoneIsNumber
  <2> QED
    BY <2>1, <2>2
<1>5. ASSUME NEW c \in Compiles, Command!Built(c) PROVE CommandInv'
  <2>1. /\ stage[c] = "sent" /\ stage' = [stage EXCEPT ![c] = "done"]
        /\ hides' = hides /\ status' = "hidden" /\ compiling' = FALSE
        /\ UNCHANGED <<reports, restarts>>
    BY <1>5 DEF Command!Built
  <2>2. hides' \in Nat /\ hides' <= Cardinality({d \in Compiles : stage'[d] = "done"})
    <3>1. hides \in Nat /\ hides <= Cardinality({d \in Compiles : stage[d] = "done"})
      OBVIOUS
    <3>2. Cardinality({d \in Compiles : stage'[d] = "done"})
              = Cardinality({d \in Compiles : stage[d] = "done"}) + 1
      BY <2>1, DoneGrows
    <3> QED
      BY <2>1, <3>1, <3>2, DoneIsNumber
  <2> QED
    BY <2>1, <2>2
<1>6. CASE Command!HideTimer
  BY <1>6, FS_CardinalityType, CommandAssumption, FS_Subset DEF Command!HideTimer
<1>7. CASE Command!RestartServer
  BY <1>7, CommandAssumption DEF Command!RestartServer
<1>8. CASE UNCHANGED Command!vars
  BY <1>8 DEF Command!vars
<1> QED
  BY <1>1, <1>2, <1>3, <1>4, <1>5, <1>6, <1>7, <1>8 DEF Command!Next, Command!Answer

(* Progress reports come in any order, even after the answer of their compile
   or while another one runs: the spinner turns only while a compile is in
   flight; and every variable is of its type. *)
THEOREM SpinnerHasReason == Command!Spec => []IndicatorRight
<1>1. CommandInv => IndicatorRight
  <2> SUFFICES ASSUME CommandInv PROVE IndicatorRight
    OBVIOUS
  <2>1. Cardinality({c \in Compiles : stage[c] = "done"}) <= Cardinality(Compiles)
        /\ Cardinality(Compiles) \in Nat
        /\ Cardinality({c \in Compiles : stage[c] = "done"}) \in Nat
    BY CommandAssumption, FS_Subset, FS_CardinalityType
  <2>2. hides \in 0 .. Cardinality(Compiles)
    BY <2>1 DEF CommandInv
  <2>3. Command!Cardinality(Compiles) = Cardinality(Compiles)
    BY DEF Command!Cardinality, Cardinality
  <2> QED
    BY <2>2, <2>3 DEF CommandInv, IndicatorRight, Command!IndicatorRight, Command!TypeOK,
       Command!SpinnerHasCompile
<1> QED
  BY <1>1, CommandInit, CommandStep, PTL DEF Command!Spec
=============================================================================

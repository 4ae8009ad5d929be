--------------------------- MODULE ServerRestart ---------------------------
(***************************************************************************)
(* Starting and stopping the language server from the VS Code extension,   *)
(* editors/vscode/src/extension.ts, with the WASI host of wasi.ts.         *)
(*                                                                         *)
(* The extension is one thread; its functions give way at each await.      *)
(* Restarts are asked for by the user, by settings, by a rebuilt server    *)
(* file (half a second after the last change) and by a WASI server that    *)
(* dies, and are chained: each waits for the one before it.                *)
(*                                                                         *)
(* External: the language client ends a native server when it is stopped,  *)
(* and starts it again itself when it crashes; starting a client ends in   *)
(* success or failure; a rebuild replaces the file at once.                *)
(***************************************************************************)
EXTENDS Integers, Sequences, FiniteSets

CONSTANTS
    Procs,        \* names for server processes, used again once forgotten
    MAX_CRASHES,
    Window,       \* CRASH_WINDOW_MS, in the model's units of time
    MaxBuilds,    \* bound: rebuilds of the server file
    MaxAsked,     \* bound: restarts the user asks for
    MaxCrashes    \* bound: deaths of WASI servers

ASSUME ConstantAssumption ==
    /\ IsFiniteSet(Procs)
    /\ "none" \notin Procs
    /\ MAX_CRASHES \in Nat
    /\ Window \in Nat
    /\ {MaxBuilds, MaxAsked, MaxCrashes} \subseteq Nat

VARIABLES
    restarting,   \* the restarts still in the chain, the running one first
    client,       \* a client is set
    wasiProcess,  \* the WASI process the extension knows of, or None
    proc,         \* per process: free, up, exiting (onExit is due) or ended
    built,        \* per process, the build its file was read from
    native,       \* the process that is the client's native server, or None
    mode,         \* the server chooseServer picks: native or wasi
    file,         \* the build in the server's file
    watching,     \* a watcher is set on the file
    event,        \* the watcher has a change to report
    armed,        \* the debounce timer of that watcher is running
    orphans,      \* running debounce timers of watchers closed meanwhile
    crashTimes,   \* the ages of the crashes remembered, oldest first
    revived,      \* the ages of the crashes a restart followed (history)
    gaveUp,       \* the last crash was not followed by a restart (history)
    failed,       \* the last client failed to start (history)
    asked,        \* restarts the user asked for (bound)
    crashes       \* deaths of WASI servers (bound)

host   == <<client, wasiProcess, proc, built, native>>
watch  == <<file, watching, event, armed, orphans>>
told   == <<revived, gaveUp, failed>>
bounds == <<asked, crashes>>
vars   == <<restarting, host, mode, watch, crashTimes, told, bounds>>

None  == "none"
Modes == {"native", "wasi"}

(* A restart's stages, each up to its next await. *)
Stages == {"waiting", "stopping", "ending", "spawning", "loading", "reading",
           "starting"}
Waiting == [stage |-> "waiting", stopping |-> FALSE, ending |-> None, read |-> 0]

Up == {p \in Procs : proc[p] = "up"}

TypeOK ==
    /\ restarting \in Seq([stage : Stages, stopping : BOOLEAN,
                           ending : Procs \union {None}, read : 0 .. MaxBuilds])
    /\ client \in BOOLEAN
    /\ wasiProcess \in Procs \union {None}
    /\ proc \in [Procs -> {"free", "up", "exiting", "ended"}]
    /\ built \in [Procs -> 0 .. MaxBuilds]
    /\ native \in Procs \union {None}
    /\ mode \in Modes
    /\ file \in 0 .. MaxBuilds
    /\ {watching, event, armed, gaveUp, failed} \subseteq BOOLEAN
    /\ orphans \in Nat
    /\ crashTimes \in Seq(0 .. Window + 1)
    /\ revived \in Seq(0 .. Window + 1)
    /\ asked \in 0 .. MaxAsked
    /\ crashes \in 0 .. MaxCrashes

(* activate() ends with a first restart. *)
Init ==
    /\ restarting = <<Waiting>>
    /\ client = FALSE
    /\ wasiProcess = None
    /\ proc = [p \in Procs |-> "free"]
    /\ built = [p \in Procs |-> 0]
    /\ native = None
    /\ mode \in Modes
    /\ file = 0
    /\ watching = FALSE
    /\ event = FALSE
    /\ armed = FALSE
    /\ orphans = 0
    /\ crashTimes = <<>>
    /\ revived = <<>>
    /\ gaveUp = FALSE
    /\ failed = FALSE
    /\ asked = 0
    /\ crashes = 0

-----------------------------------------------------------------------------
(* The restarts in the chain. *)

(* Mutant: a restart that is asked for is dropped. *)
QueueNone == UNCHANGED restarting

(* restart() *)
Queue == restarting' = Append(restarting, Waiting)

(* Mutant: restarts do not wait for one another. *)
MayRunAtOnce(i) == TRUE

(* Restart `i` runs once those before it are done. *)
MayRun(i) == i = 1

At(i, step) ==
    /\ i \in DOMAIN restarting
    /\ restarting[i].stage = step
    /\ MayRun(i)

Goto(i, step) == restarting' = [restarting EXCEPT ![i].stage = step]

Done(i) == restarting' = SubSeq(restarting, 1, i - 1)
                            \o SubSeq(restarting, i + 1, Len(restarting))

(* stopClient takes the client and asks it to stop. *)
StopClient(i) ==
    /\ At(i, "waiting")
    /\ restarting' = [restarting EXCEPT ![i].stage = "stopping",
                                        ![i].stopping = client]
    /\ client' = FALSE
    /\ UNCHANGED <<wasiProcess, proc, built, native, mode, watch, crashTimes, told,
                   bounds>>

(* Mutant: a process is forgotten without being ended. *)
EndingNot(i) == None

(* The WASI process restart `i` is to end. *)
Ending(i) == wasiProcess

(* The client has stopped, and its native server with it.  The WASI process
   is forgotten, then asked to end. *)
Terminate(i) ==
    /\ At(i, "stopping")
    /\ restarting' = [restarting EXCEPT ![i].stage = "ending", ![i].ending = Ending(i)]
    /\ wasiProcess' = None
    /\ IF restarting[i].stopping
       THEN /\ native' = None
            /\ proc' = [p \in Procs |-> IF p = native THEN "free" ELSE proc[p]]
       ELSE UNCHANGED <<native, proc>>
    /\ UNCHANGED <<client, built, mode, watch, crashTimes, told, bounds>>

(* Mutant: a new client is started without a watcher of its file. *)
WatchForRebuildNot ==
    /\ watching' = FALSE
    /\ event' = FALSE
    /\ armed' = FALSE
    /\ orphans' = IF armed THEN orphans + 1 ELSE orphans

(* The old watcher is closed, but its timer goes on. *)
WatchForRebuild ==
    /\ watching' = TRUE
    /\ event' = FALSE
    /\ armed' = FALSE
    /\ orphans' = IF armed THEN orphans + 1 ELSE orphans

(* The process restart `i` ends has ended, by itself or now. *)
Terminated(i) ==
    /\ At(i, "ending")
    /\ proc' = [p \in Procs |-> IF p = restarting[i].ending /\ proc[p] = "up"
                               THEN "exiting" ELSE proc[p]]

(* The settings name a server that is not there: none is started. *)
NoServer(i) ==
    /\ Terminated(i)
    /\ Done(i)
    /\ failed' = TRUE
    /\ gaveUp' = FALSE
    /\ UNCHANGED <<client, wasiProcess, built, native, mode, watch, crashTimes, revived,
                   bounds>>

(* The server is chosen, its client set and its file watched. *)
StartClient(i) ==
    /\ Terminated(i)
    /\ restarting' = [restarting EXCEPT ![i] =
                        [Waiting EXCEPT !.stage = IF mode = "native" THEN "spawning"
                                                  ELSE "loading"]]
    /\ client' = TRUE
    /\ WatchForRebuild
    /\ gaveUp' = FALSE
    /\ UNCHANGED <<wasiProcess, built, native, mode, file, crashTimes, revived, failed,
                   bounds>>

(* The names no process has any more. *)
FreeProcs == {p \in Procs : /\ proc[p] \in {"free", "ended"}
                            /\ p # wasiProcess
                            /\ \A i \in DOMAIN restarting : restarting[i].ending # p}

(* start() runs a native server from its file. *)
Spawn(i) ==
    /\ At(i, "spawning")
    /\ FreeProcs # {}
    /\ LET p == CHOOSE q \in FreeProcs : TRUE
       IN  /\ proc' = [proc EXCEPT ![p] = "up"]
           /\ built' = [built EXCEPT ![p] = file]
           /\ native' = p
    /\ Goto(i, "starting")
    /\ UNCHANGED <<client, wasiProcess, mode, watch, crashTimes, told, bounds>>

(* startWasiServer: the file is read, later the process created and known. *)
ReadWasm(i) ==
    /\ At(i, "loading")
    /\ restarting' = [restarting EXCEPT ![i].stage = "reading", ![i].read = file]
    /\ UNCHANGED <<host, mode, watch, crashTimes, told, bounds>>

CreateProcess(i) ==
    /\ At(i, "reading")
    /\ FreeProcs # {}
    /\ LET p == CHOOSE q \in FreeProcs : TRUE
       IN  /\ proc' = [proc EXCEPT ![p] = "up"]
           /\ built' = [built EXCEPT ![p] = restarting[i].read]
           /\ wasiProcess' = p
    /\ Goto(i, "starting")
    /\ UNCHANGED <<client, native, mode, watch, crashTimes, told, bounds>>

Started(i) ==
    /\ At(i, "starting")
    /\ \E p \in Up : p \in {native, wasiProcess}
    /\ Done(i)
    /\ failed' = FALSE
    /\ UNCHANGED <<host, mode, watch, crashTimes, revived, gaveUp, bounds>>

(* Any of these steps may fail: the message is shown, the client stays set. *)
FailedStart(i) ==
    /\ \/ At(i, "spawning") \/ At(i, "loading")
       \/ At(i, "reading")  \/ At(i, "starting")
    /\ Done(i)
    /\ failed' = TRUE
    /\ UNCHANGED <<host, mode, watch, crashTimes, revived, gaveUp, bounds>>

-----------------------------------------------------------------------------
(* WASI servers that end. *)

Crash(p) ==
    /\ crashes < MaxCrashes
    /\ proc[p] = "up"
    /\ p # native
    /\ proc' = [proc EXCEPT ![p] = "exiting"]
    /\ crashes' = crashes + 1
    /\ UNCHANGED <<restarting, client, wasiProcess, built, native, mode, watch,
                   crashTimes, told, asked>>

(* Mutant: the exit of any process is taken for a crash of the server. *)
IsCurrentAlways(p) == TRUE

(* The process that ended is the one the extension runs. *)
IsCurrent(p) == p = wasiProcess

(* Mutant: one crash too many is followed by a restart. *)
TooManyByOne(times) == Len(times) > MAX_CRASHES + 1

TooMany(times) == Len(times) > MAX_CRASHES

(* How many of `times`, oldest first, are shifted out: those before the first
   one within the window. *)
Passed(times) ==
    CHOOSE k \in 0 .. Len(times) :
        /\ \A i \in 1 .. k : times[i] > Window
        /\ k < Len(times) => times[k + 1] <= Window

Recent(times) == SubSeq(times, Passed(times) + 1, Len(times))

OnWasiExit(p) ==
    /\ proc[p] = "exiting"
    /\ proc' = [proc EXCEPT ![p] = "ended"]
    /\ LET times == Append(Recent(crashTimes), 0)
       IN  \/ /\ ~IsCurrent(p)
              /\ UNCHANGED <<restarting, crashTimes, revived, gaveUp>>
           \/ /\ IsCurrent(p)
              /\ crashTimes' = times
              /\ TooMany(times)
              /\ gaveUp' = TRUE
              /\ UNCHANGED <<restarting, revived>>
           \/ /\ IsCurrent(p)
              /\ crashTimes' = times
              /\ ~TooMany(times)
              /\ Queue
              /\ revived' = Append(Recent(revived), 0)
              /\ UNCHANGED gaveUp
    /\ UNCHANGED <<client, wasiProcess, built, native, mode, watch, failed, bounds>>

(* A unit of time; ages past the window are all alike. *)
Age(times) == [i \in DOMAIN times |->
                  IF times[i] <= Window THEN times[i] + 1 ELSE times[i]]

TimePasses ==
    /\ crashTimes' = Age(crashTimes)
    /\ revived' = Recent(Age(revived))
    /\ crashTimes' # crashTimes
    /\ UNCHANGED <<restarting, host, mode, watch, gaveUp, failed, bounds>>

-----------------------------------------------------------------------------
(* What asks for restarts. *)

Rebuild ==
    /\ file < MaxBuilds
    /\ file' = file + 1
    /\ event' = watching
    /\ UNCHANGED <<restarting, host, mode, watching, armed, orphans, crashTimes, told,
                   bounds>>

(* A change starts the debounce timer, again if it is running. *)
FileChanged ==
    /\ event
    /\ event' = FALSE
    /\ armed' = TRUE
    /\ UNCHANGED <<restarting, host, mode, file, watching, orphans, crashTimes, told,
                   bounds>>

DebounceEnds ==
    /\ \/ armed /\ armed' = FALSE /\ UNCHANGED orphans
       \/ orphans > 0 /\ orphans' = orphans - 1 /\ UNCHANGED armed
    /\ Queue
    /\ UNCHANGED <<host, mode, file, watching, event, crashTimes, told, bounds>>

(* The restart command, a changed setting, new workspace folders. *)
Ask(m) ==
    /\ asked < MaxAsked
    /\ asked' = asked + 1
    /\ mode' = m
    /\ Queue
    /\ UNCHANGED <<host, watch, crashTimes, told, crashes>>

Restart(i) ==
    \/ StopClient(i) \/ Terminate(i) \/ NoServer(i) \/ StartClient(i)
    \/ Spawn(i) \/ ReadWasm(i) \/ CreateProcess(i)
    \/ Started(i) \/ FailedStart(i)

Restarts == \E i \in DOMAIN restarting : Restart(i)
Exits    == \E p \in Procs : OnWasiExit(p)

Next ==
    \/ Restarts
    \/ Exits
    \/ \E p \in Procs : Crash(p)
    \/ \E m \in Modes : Ask(m)
    \/ Rebuild \/ FileChanged \/ DebounceEnds \/ TimePasses

(* Promises settle, callbacks are called and timers run out. *)
Fairness ==
    /\ WF_vars(Restarts)
    /\ WF_vars(Exits)
    /\ WF_vars(FileChanged)
    /\ WF_vars(DebounceEnds)

Spec == Init /\ [][Next]_vars /\ Fairness

-----------------------------------------------------------------------------
(* Properties. *)

(* "Restarts run one after another, so a burst of rebuilds or setting changes
   never leaves two servers running." *)
OneServer == Cardinality(Up) <= 1

(* No server runs that the next restart would not end. *)
NoStray ==
    \A p \in Up :
        \/ p = native /\ (client \/ \E i \in DOMAIN restarting : restarting[i].stopping)
        \/ p = wasiProcess
        \/ \E i \in DOMAIN restarting : restarting[i].ending = p

(* A process that ends is taken for a crash only while no server runs: the
   late exit of one that a restart ended never restarts the new server. *)
OnlyTheDeadRevived == [][Len(revived') > Len(revived) => Up = {}]_vars

(* "A WASI server that stops more than MAX_CRASHES times within
   CRASH_WINDOW_MS is left stopped": whatever else restarts it in between,
   no more than MAX_CRASHES crashes of a window are followed by a restart. *)
CrashLimit == Len(revived) <= MAX_CRASHES

RestartsInv == TypeOK /\ CrashLimit

(* In the end a server runs that was started from the newest file, in whatever
   moment of a restart it was rebuilt and however often it died, unless it kept
   dying or the last one did not start. *)
RunsNewest ==
    <>[](failed \/ gaveUp \/ \E p \in Up : built[p] = file)
=============================================================================

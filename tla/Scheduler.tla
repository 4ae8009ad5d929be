----------------------------- MODULE Scheduler -----------------------------
(***************************************************************************)
(* The tick of the gate simulator, crates/wirescript-sim/src/machine.rs.   *)
(*                                                                         *)
(* A program is a set of units (gates a tick can start), each of its own   *)
(* rank.  A tick runs the late work first (what the last tick carried      *)
(* over, world events, landed buffers, container detectors, then custom    *)
(* events), then the pending units in rank order.  Running a unit runs an  *)
(* exec chain: it writes variables, sends events, writes containers and    *)
(* arms buffers; when the chain is done its writes are published and the   *)
(* watched inputs they reach start further units, this tick or the next.   *)
(*                                                                         *)
(* What a chain does is left open: at every gate it may do any of the      *)
(* things an exec gate does, so the model stands for every program over    *)
(* these units.  The values computed by pure gates are abstracted to       *)
(* whether a re-read watched input changed in the way its gate reacts to.  *)
(* The activations waiting for one unit differ only in their data, which   *)
(* an open chain ignores, so the queues of one unit are counts.            *)
(***************************************************************************)
EXTENDS Integers, Sequences

CONSTANTS
    Units,          \* gates of is_unit
    Rank,           \* rank of each unit: the save's order, or a seeded shuffle
    Vars,           \* Variable gates
    Watchers,       \* units started by a change of a watched input
    EdgeDetectors,  \* the watchers that are EdgeExec detectors
    Readers,        \* the watchers whose input cone reads a variable
    OutReaders,     \* the watchers whose cone reads an exec gate's data output
    TimeReaders,    \* the watchers whose cone reads a time source or a pulse
    LoadUnits,      \* Load Event gates
    WorldUnits,     \* gates the world's events start
    Clocks,         \* Clock gates
    Timers,         \* stopwatches, tweens and queues
    Buffers,        \* exec-mode Buffer Ticks gates
    Delay,          \* the ticks a buffer holds a call (TicksToWait.max(1))
    Senders,        \* Send Custom Event gates
    Receivers,      \* the units each sender's event reaches, in gate order
    ContainerWatchers, \* Container Change Detectors (all of one container)
    MaxSteps,       \* MAX_STEPS_PER_TICK
    MaxDepth,       \* MAX_DEPTH of nested callables
    Seeded          \* a seed shuffles the delivery of custom events

(* What the code guarantees about a program: every unit has a rank of its
   own, and the roles are played by units. *)
ASSUME ProgramAssumption ==
    /\ Rank \in [Units -> Nat]
    /\ \A u, w \in Units : Rank[u] = Rank[w] => u = w
    /\ Watchers \subseteq Units
    /\ EdgeDetectors \subseteq Watchers
    /\ Readers \in [Vars -> SUBSET Watchers]
    /\ OutReaders \subseteq Watchers
    /\ TimeReaders \subseteq Watchers
    /\ LoadUnits \subseteq Units
    /\ WorldUnits \subseteq Units
    /\ Clocks \subseteq Units
    /\ Timers \subseteq Units
    /\ Buffers \subseteq Units
    /\ ContainerWatchers \subseteq Units
    /\ Receivers \in [Senders -> Seq(Units)]

ASSUME BoundAssumption ==
    /\ MaxSteps \in Nat
    /\ MaxDepth \in Nat
    /\ Delay \in Nat \ {0}
    /\ Seeded \in BOOLEAN

VARIABLES
    pc,               \* where the run stands, see Phases
    in_late,          \* the late pass is running
    cursor,           \* rank of the unit the pass is running, or None
    steps,            \* exec gates run this tick
    depth,            \* callables running inside one another
    pending,          \* activations for this tick's pass, per unit
    late,             \* activations for the late pass, per unit
    late_events,      \* receivers of last tick's custom events, in order
    carried,          \* activations for the next tick's late pass, per unit
    forks,            \* remote calls waiting for the chain to end
    written_in_plane, \* variables this chain wrote inside a callable
    written_outside,  \* variables this chain wrote outside any callable
    to_check,         \* watched inputs to re-read at the next settle
    outbox,           \* custom events sent this tick, one per send gate
    container_fires,  \* container detectors to fire next tick
    fires             \* per buffer, the calls landing in k ticks

work   == <<pending, late, late_events, carried>>
chain  == <<depth, forks, written_in_plane, written_outside, to_check>>
sent   == <<outbox, container_fires, fires>>
vars   == <<pc, in_late, cursor, steps, work, chain, sent>>

Phases == {"new", "idle", "deliver", "late", "pass", "chain", "error"}
None   == -1
NoWork == [u \in Units |-> 0]

(* One more activation for each unit of `us`. *)
Add(bag, us) == [u \in Units |-> IF u \in us THEN bag[u] + 1 ELSE bag[u]]

(* The lowest-ranked unit with work in `bag`: a BTreeMap's first entry. *)
IsFirst(u, bag) ==
    /\ bag[u] > 0
    /\ \A w \in Units : bag[w] > 0 => Rank[u] <= Rank[w]

(* Mutant: a unit may set itself off in the pass it runs in. *)
BehindStrictly(u) == Rank[u] < cursor

(* The pass has reached `u` or gone past it. *)
Behind(u) == Rank[u] <= cursor

TypeOK ==
    /\ pc \in Phases
    /\ in_late \in BOOLEAN
    /\ cursor \in Nat \union {None}
    /\ steps \in 0 .. MaxSteps
    /\ depth \in 0 .. MaxDepth
    /\ pending \in [Units -> Nat]
    /\ late \in [Units -> Nat]
    /\ late_events \in Seq(Units)
    /\ carried \in [Units -> Nat]
    /\ forks \in Nat
    /\ written_in_plane \subseteq Vars
    /\ written_outside \subseteq Vars
    /\ to_check \subseteq Watchers
    /\ outbox \in Seq(Senders)
    /\ container_fires \subseteq ContainerWatchers
    /\ fires \in [Buffers -> [1 .. Delay -> Nat]]

Init ==
    /\ pc = "new"
    /\ in_late = FALSE
    /\ cursor = None
    /\ steps = 0
    /\ depth = 0
    /\ pending = NoWork
    /\ late = NoWork
    /\ late_events = <<>>
    /\ carried = NoWork
    /\ forks = 0
    /\ written_in_plane = {}
    /\ written_outside = {}
    /\ to_check = {}
    /\ outbox = <<>>
    /\ container_fires = {}
    /\ fires = [b \in Buffers |-> [k \in 1 .. Delay |-> 0]]

-----------------------------------------------------------------------------
(* Starting units. *)

(* Mutant: a reaction behind the cursor is late work at once. *)
ActivatedLateAtOnce(us) == IF in_late THEN us ELSE {u \in us : Behind(u)}

(* Mutant: activate forgets the cursor. *)
ActivatedPendingAlways(us) == IF in_late THEN {} ELSE us

(* activate: where an activation of each unit of `us` goes. *)
ActivatedLate(us)    == IF in_late THEN us ELSE {}
ActivatedCarried(us) == IF in_late THEN {} ELSE {u \in us : Behind(u)}
ActivatedPending(us) == IF in_late THEN {} ELSE {u \in us : ~ Behind(u)}

(* settle: of the watched inputs `check`, those in `changed` changed.  A
   change detector or Exec pin reached only by writes made inside a callable
   (`marked`) acts next tick; an edge detector is activated whatever the
   mark. *)
Settle(check, marked) ==
    \E changed \in SUBSET check :
        LET deferred == IF in_late
                        THEN {}
                        ELSE (changed \intersect marked) \ EdgeDetectors
            now      == changed \ deferred
        IN  /\ late'    = Add(late, ActivatedLate(now))
            /\ carried' = Add(carried, deferred \union ActivatedCarried(now))
            /\ pending' = Add(pending, ActivatedPending(now))

-----------------------------------------------------------------------------
(* The tick. *)

(* start: tick 0 settles the saved state (an edge detector may be seeded
   with another value), fires the Load Events and the due clocks, and runs
   the pass; it has no late pass. *)
Start ==
    /\ pc = "new"
    /\ pc' = "pass"
    /\ \E seeded \in SUBSET EdgeDetectors, ticked \in SUBSET Clocks :
         pending' = Add(Add(Add(pending, seeded), LoadUnits), ticked)
    /\ UNCHANGED <<in_late, cursor, steps, late, late_events, carried, chain, sent>>

(* Mutant: what was carried is dropped. *)
BeginTickDropping ==
    /\ pc = "idle"
    /\ pc' = "deliver"
    /\ steps' = 0
    /\ carried' = NoWork
    /\ UNCHANGED <<in_late, cursor, pending, late, late_events, chain, sent>>

(* step, its first half: what the last tick carried becomes late work. *)
BeginTick ==
    /\ pc = "idle"
    /\ pc' = "deliver"
    /\ steps' = 0
    /\ late' = [u \in Units |-> late[u] + carried[u]]
    /\ carried' = NoWork
    /\ UNCHANGED <<in_late, cursor, pending, late_events, chain, sent>>

(* deliver_events: one send, in order, or any order under a seed. *)
DeliverEvent ==
    /\ pc = "deliver"
    /\ \E k \in 1 .. Len(outbox) :
         /\ Seeded \/ k = 1
         /\ late_events' = late_events \o Receivers[outbox[k]]
         /\ outbox' = SubSeq(outbox, 1, k - 1) \o SubSeq(outbox, k + 1, Len(outbox))
    /\ UNCHANGED <<pc, in_late, cursor, steps, pending, late, carried, chain,
                   container_fires, fires>>

(* step, its second half: world events, container detectors, landed buffers
   and expired timers are late work; clocks go to the pass; the time sources
   move and what reads them settles; then the late pass opens. *)
OpenLatePass ==
    /\ pc = "deliver"
    /\ outbox = <<>>
    /\ pc' = "late"
    /\ in_late' = TRUE
    /\ \E raised \in SUBSET WorldUnits, expired \in SUBSET Timers,
          ticked \in SUBSET Clocks, moved \in SUBSET TimeReaders :
         LET landed(u) == IF u \in Buffers THEN fires[u][1] ELSE 0
         IN  /\ late' = [u \in Units |->
                           Add(Add(Add(late, raised), container_fires), expired)[u]
                             + landed(u)]
             /\ pending' = Add(Add(pending, ticked), moved)
    /\ fires' = [b \in Buffers |->
                   [k \in 1 .. Delay |-> IF k < Delay THEN fires[b][k + 1] ELSE 0]]
    /\ container_fires' = {}
    /\ UNCHANGED <<cursor, steps, late_events, carried, chain, outbox>>

(* late_pass: the lowest-ranked late unit, ahead of any custom event.  A
   world event sets the gate's outputs first. *)
RunLate(u) ==
    /\ pc = "late"
    /\ IsFirst(u, late)
    /\ late' = [late EXCEPT ![u] = @ - 1]
    /\ pc' = "chain"
    /\ \E set \in SUBSET OutReaders :
         /\ u \in WorldUnits \/ set = {}
         /\ to_check' = to_check \union set
    /\ UNCHANGED <<in_late, cursor, steps, pending, late_events, carried, depth,
                   forks, written_in_plane, written_outside, sent>>

(* late_pass, once no late unit is left: the next custom event arrives. *)
RunEvent ==
    /\ pc = "late"
    /\ late = NoWork
    /\ late_events # <<>>
    /\ late_events' = Tail(late_events)
    /\ pc' = "chain"
    /\ \E set \in SUBSET OutReaders : to_check' = to_check \union set
    /\ UNCHANGED <<in_late, cursor, steps, pending, late, carried, depth, forks,
                   written_in_plane, written_outside, sent>>

(* Mutant: the late pass ends without its custom events. *)
CloseLatePassEarly ==
    /\ pc = "late"
    /\ late = NoWork
    /\ in_late' = FALSE
    /\ pc' = "pass"
    /\ UNCHANGED <<cursor, steps, work, chain, sent>>

(* late_pass ends; pass begins. *)
CloseLatePass ==
    /\ pc = "late"
    /\ late = NoWork
    /\ late_events = <<>>
    /\ in_late' = FALSE
    /\ pc' = "pass"
    /\ UNCHANGED <<cursor, steps, work, chain, sent>>

(* pass: the lowest-ranked pending unit. *)
RunPending(u) ==
    /\ pc = "pass"
    /\ IsFirst(u, pending)
    /\ pending' = [pending EXCEPT ![u] = @ - 1]
    /\ cursor' = Rank[u]
    /\ pc' = "chain"
    /\ UNCHANGED <<in_late, steps, late, late_events, carried, chain, sent>>

(* pass ends, and the tick with it. *)
ClosePass ==
    /\ pc = "pass"
    /\ pending = NoWork
    /\ cursor' = None
    /\ pc' = "idle"
    /\ UNCHANGED <<in_late, steps, work, chain, sent>>

-----------------------------------------------------------------------------
(* Chains: one exec gate at a time, each counted against the tick. *)

(* Mutant: the bound is passed by one gate. *)
ExecGateOffByOne ==
    /\ pc = "chain"
    /\ steps <= MaxSteps
    /\ steps' = steps + 1
    /\ UNCHANGED <<pc, in_late, cursor, work>>

ExecGate ==
    /\ pc = "chain"
    /\ steps < MaxSteps
    /\ steps' = steps + 1
    /\ UNCHANGED <<pc, in_late, cursor, work>>

(* The gate that would pass the bound stops the run. *)
Runaway ==
    /\ pc = "chain"
    /\ steps = MaxSteps
    /\ pc' = "error"
    /\ UNCHANGED <<in_late, cursor, steps, work, chain, sent>>

(* A gate with no effect outside the chain: a branch, a reroute, a print. *)
PlainGate ==
    /\ ExecGate
    /\ UNCHANGED <<chain, sent>>

(* Set Variable, Increment Variable: record_write. *)
WriteVar(v) ==
    /\ ExecGate
    /\ IF depth > 0
       THEN /\ written_in_plane' = written_in_plane \union {v}
            /\ UNCHANGED written_outside
       ELSE /\ written_outside' = written_outside \union {v}
            /\ UNCHANGED written_in_plane
    /\ UNCHANGED <<depth, forks, to_check, sent>>

(* set_out of an exec gate's data output: its readers are marked at once. *)
SetOut ==
    /\ ExecGate
    /\ to_check' = to_check \union OutReaders
    /\ UNCHANGED <<depth, forks, written_in_plane, written_outside, sent>>

(* Send Custom Event: the first of a gate's sends in a tick counts. *)
SendEvent(s) ==
    /\ ExecGate
    /\ outbox' = IF \E k \in 1 .. Len(outbox) : outbox[k] = s
                 THEN outbox
                 ELSE Append(outbox, s)
    /\ UNCHANGED <<chain, container_fires, fires>>

(* container_changed: the container's detectors fire next tick, once. *)
WriteContainer ==
    /\ ExecGate
    /\ container_fires' = container_fires \union ContainerWatchers
    /\ UNCHANGED <<chain, outbox, fires>>

(* A Buffer Ticks gate entered by an exec call. *)
ArmBuffer(b) ==
    /\ ExecGate
    /\ fires' = [fires EXCEPT ![b][Delay] = @ + 1]
    /\ UNCHANGED <<chain, outbox, container_fires>>

(* push_calls of a remote call: it runs when the chain is done. *)
CallRemote ==
    /\ ExecGate
    /\ forks' = forks + 1
    /\ UNCHANGED <<depth, written_in_plane, written_outside, to_check, sent>>

(* Mutant: a callable's runs are not counted. *)
EnterBodyUncounted ==
    /\ pc = "chain"
    /\ depth < MaxDepth
    /\ depth' = depth + 1
    /\ UNCHANGED <<pc, in_late, cursor, steps, work, forks, written_in_plane,
                   written_outside, to_check, sent>>

(* A Function Call or a loop iteration: run_body, in and out. *)
EnterBody ==
    /\ ExecGate
    /\ depth < MaxDepth
    /\ depth' = depth + 1
    /\ UNCHANGED <<forks, written_in_plane, written_outside, to_check, sent>>

LeaveBody ==
    /\ pc = "chain"
    /\ depth > 0
    /\ depth' = depth - 1
    /\ UNCHANGED <<pc, in_late, cursor, steps, work, forks, written_in_plane,
                   written_outside, to_check, sent>>

(* finish_chain, while forks are left: the next one runs, outside any
   callable. *)
RunFork ==
    /\ pc = "chain"
    /\ depth = 0
    /\ forks > 0
    /\ forks' = forks - 1
    /\ UNCHANGED <<pc, in_late, cursor, steps, work, depth, written_in_plane,
                   written_outside, to_check, sent>>

(* publish_writes and mark_readers: the watched inputs reached by a plain
   write or an output, and those reached by a variable written only inside a
   callable.  One reached both ways is marked late or not, as the stale pure
   gates the two ways share stop the second mark. *)
ReadersOf(written) == UNION {Readers[v] : v \in written}
PlainlyReached == to_check \union ReadersOf(written_outside)

(* Mutant: the mark asks for writes on both sides. *)
MarkedLateBoth == ReadersOf(written_in_plane \intersect written_outside)

MarkedLate     == ReadersOf(written_in_plane \ written_outside)

(* finish_chain: the writes are published and settle. *)
FinishChain ==
    /\ pc = "chain"
    /\ depth = 0
    /\ forks = 0
    /\ pc' = IF in_late THEN "late" ELSE "pass"
    /\ \E shared \in SUBSET (MarkedLate \intersect PlainlyReached) :
         Settle(PlainlyReached \union ReadersOf(written_in_plane),
                (MarkedLate \ PlainlyReached) \union shared)
    /\ written_in_plane' = {}
    /\ written_outside' = {}
    /\ to_check' = {}
    /\ UNCHANGED <<in_late, cursor, steps, late_events, depth, forks, sent>>

-----------------------------------------------------------------------------
ChainStep ==
    \/ PlainGate
    \/ \E v \in Vars : WriteVar(v)
    \/ SetOut
    \/ \E s \in Senders : SendEvent(s)
    \/ WriteContainer
    \/ \E b \in Buffers : ArmBuffer(b)
    \/ CallRemote
    \/ EnterBody
    \/ LeaveBody
    \/ RunFork
    \/ FinishChain
    \/ Runaway

TickStep ==
    \/ DeliverEvent
    \/ OpenLatePass
    \/ \E u \in Units : RunLate(u)
    \/ RunEvent
    \/ CloseLatePass
    \/ \E u \in Units : RunPending(u)
    \/ ClosePass
    \/ ChainStep

(* A run that stopped with an error stays stopped. *)
Stopped == pc = "error" /\ UNCHANGED vars

Next == Start \/ BeginTick \/ TickStep \/ Stopped

(* One thread runs a tick from its start to its end; nothing obliges the host
   to ask for another tick. *)
Spec == Init /\ [][Next]_vars /\ WF_vars(Start) /\ WF_vars(TickStep)
-----------------------------------------------------------------------------
(* Safety. *)

(* The chain state between chains: no fork, callable, unpublished write or
   unsettled input of one unit is left for the next. *)
ChainClean ==
    /\ depth = 0
    /\ forks = 0
    /\ written_in_plane = {}
    /\ written_outside = {}
    /\ to_check = {}

(* Between ticks nothing of the finished tick waits: whatever a handler set
   off ran in its tick, or is carried, sent or buffered for the next one
   (machine.rs step, late_pass, pass). *)
TickDone ==
    pc = "idle" =>
        /\ pending = NoWork
        /\ late = NoWork
        /\ late_events = <<>>
        /\ ChainClean

(* A tick's handlers run only once all its late work has: no reaction, event
   or landed buffer of the last tick is overtaken by a handler of the pass,
   nor is one added behind the pass (activate, finish_chain). *)
LateBeforePass ==
    cursor # None => late = NoWork /\ late_events = <<>>

(* The pass only moves up the ranks: nothing waiting for it is behind the
   unit it runs (activate, pass). *)
PendingAhead ==
    \A u \in Units : pending[u] > 0 => Rank[u] >= cursor

(* A unit gets no further turn in the pass that has reached it: a reaction at
   or behind the cursor is never added to the running pass, so a handler that
   sets itself off goes on next tick (activate). *)
NoSecondTurn ==
    [][\A u \in Units :
         cursor # None /\ Rank[u] <= cursor => pending'[u] <= pending[u]]_vars

(* Which pass runs in which phase, and what is empty in it. *)
PhaseInv ==
    /\ pc \in {"new", "idle", "deliver"} => ~ in_late /\ cursor = None /\ pending = NoWork
    /\ pc = "late" => in_late
    /\ pc = "pass" => ~ in_late
    /\ pc = "chain" => in_late \/ cursor # None
    /\ in_late => cursor = None
    /\ ~ in_late /\ pc # "deliver" => late = NoWork /\ late_events = <<>>
    /\ pc \notin {"chain", "error"} => ChainClean

(* The inductive invariant. *)
SchedulerInv == TypeOK /\ PhaseInv /\ PendingAhead

(* What `u` may see of the chain that just ended only through variables
   written inside a callable. *)
OnlyInPlane(u) ==
    /\ u \in ReadersOf(written_in_plane)
    /\ u \notin ReadersOf(written_outside)
    /\ u \notin to_check

(* `u`'s change waits for the next tick: it is not added to the pass. *)
NotInThisPass(u) ==
    cursor # None /\ OnlyInPlane(u) => pending'[u] <= pending[u]

(* A change that comes only from writes made inside a callable starts a change
   handler or an Exec pin no earlier than the next tick, even one ahead of the
   cursor (publish_writes, settle). *)
ChangeReactionsWait ==
    [][\A u \in Watchers \ EdgeDetectors : NotInThisPass(u)]_vars

(* pending_work: what would still run on a later tick. *)
PendingWork ==
    \/ outbox # <<>>
    \/ carried # NoWork
    \/ late # NoWork
    \/ pending # NoWork
    \/ \E b \in Buffers, k \in 1 .. Delay : fires[b][k] > 0

(* A run that ends with no pending work has no handler due (the comment on
   pending_work, which a test's verdict rests on). *)
NoHandlerMissed ==
    pc = "idle" /\ ~ PendingWork => container_fires = {}

-----------------------------------------------------------------------------
(* Liveness. *)

(* Every tick that starts ends, normally or with the runaway error: late work
   that keeps setting itself off cannot hold the run (late_pass,
   MAX_STEPS_PER_TICK). *)
TickEnds == pc \notin {"idle", "error"} ~> pc \in {"idle", "error"}
=============================================================================

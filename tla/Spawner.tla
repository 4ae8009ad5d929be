------------------------------ MODULE Spawner ------------------------------
(***************************************************************************)
(* Prefab spawners of the gate simulator, crates/wirescript-sim/src/       *)
(* machine.rs: spawn, destroy, destroy_entity and the spawner's share of   *)
(* exec_gate and advance_timers.                                           *)
(*                                                                         *)
(* Copy 0 is the save a run starts from; the others are numbered as they   *)
(* are spawned, which is also how their entities and gates are numbered:   *)
(* no id is ever used again, and a spawner's list of copies, oldest first, *)
(* is their set in the order of their numbers.  Every copy has a Load      *)
(* Event, a handler and its own spawners, so copies nest.  What a chain    *)
(* does is left open: at every gate it may be a spawner, destroy a copy it *)
(* once got, send an event or set off a handler.  Wires stay within a      *)
(* copy, so the gates of a chain are those of the copy its unit is in.     *)
(*                                                                         *)
(* destroy leaves the work that waits for the gates of a copy where it is. *)
(* Whether such work can still do anything is what this module is about.   *)
(***************************************************************************)
EXTENDS Integers, FiniteSets

CONSTANTS
    Slots,      \* the Prefab Spawner gates of a copy
    Limits,     \* the values a spawner may find on Limit, 0 for none
    Lifetimes,  \* the values it may find on Lifetime, 0 for ever
    Deltas,     \* the dt a tick may take
    MaxCopies,  \* copies that fit into MAX_GATES
    MaxGatesRun    \* MAX_STEPS_PER_TICK

ASSUME SpawnerAssumption ==
    /\ Limits \subseteq Nat /\ Limits # {}
    /\ Lifetimes \subseteq Nat
    /\ Deltas \subseteq Nat \ {0}
    /\ MaxCopies \in Nat
    /\ MaxGatesRun \in Nat

VARIABLES
    pc,          \* where the run stands, see Phases
    in_late,     \* the late pass is running
    cursor,      \* the unit the pass is running, or None
    gates_run,   \* exec gates run this tick
    made,        \* copies spawned so far (`spawned`, and the graph's length)
    dead,        \* copies whose gates are Op::Dead
    held,        \* per spawner, the copies it holds
    left,        \* per held copy, ends_at less the uptime, or Never
    late,        \* units with work in the late pass
    pending,     \* units with work in this tick's pass
    carried,     \* units with work in the next tick's late pass
    late_events, \* receivers of last tick's event, run in gate order
    outbox,      \* an event was sent this tick
    at,          \* the copy whose gates the running chain runs
    wrote,       \* the running chain wrote a variable of its copy
    loaded       \* copies whose Load Event has run (history)

queues == <<late, pending, carried, late_events, outbox>>
copyVars == <<pc, in_late, cursor, gates_run, made, dead, held, left, queues,
            at, wrote, loaded>>

Phases == {"idle", "late", "pass", "chain", "error"}
Never  == -1
Copies == 0 .. MaxCopies
Spawners == Copies \X Slots
Kinds  == {"load", "work"}
Units  == Copies \X Kinds
None   == <<-1, "none">>

Alive == (0 .. made) \ dead

(* The order of ranks: a copy's units come after those of every earlier
   one; in a copy the Load Event has the lower rank. *)
Before(u, w) ==
    \/ u[1] < w[1]
    \/ u[1] = w[1] /\ u[2] = "load" /\ w[2] = "work"

IsFirst(u, set) == u \in set /\ \A w \in set : w # u => Before(u, w)

SpawnerTypeOK ==
    /\ pc \in Phases
    /\ in_late \in BOOLEAN
    /\ cursor \in Units \union {None}
    /\ gates_run \in 0 .. MaxGatesRun
    /\ made \in Copies
    /\ dead \subseteq 1 .. made
    /\ held \in [Spawners -> SUBSET (1 .. made)]
    /\ left \in [Copies -> Nat \union {Never}]
    /\ late \subseteq Units
    /\ pending \subseteq Units
    /\ carried \subseteq Units
    /\ late_events \subseteq Units
    /\ outbox \in BOOLEAN
    /\ at \in Copies
    /\ wrote \in BOOLEAN
    /\ loaded \subseteq Copies

(* Tick 0 runs the save's own Load Event. *)
SpawnerInit ==
    /\ pc = "pass"
    /\ in_late = FALSE
    /\ cursor = None
    /\ gates_run = 0
    /\ made = 0
    /\ dead = {}
    /\ held = [g \in Spawners |-> {}]
    /\ left = [c \in Copies |-> Never]
    /\ late = {}
    /\ pending = {<<0, "load">>}
    /\ carried = {}
    /\ late_events = {}
    /\ outbox = FALSE
    /\ at = 0
    /\ wrote = FALSE
    /\ loaded = {}

-----------------------------------------------------------------------------
(* Holding and destroying copies. *)

(* The copies the spawners of copy `c` hold. *)
Inside(c) == UNION {held[<<c, s>>] : s \in Slots}

(* Mutant: destroy does not go on to what a destroyed spawner held. *)
FallsAlone(cs) == cs

(* The copies that go with `cs`: a copy a destroyed copy spawned goes with
   it, and so on down. *)
Falls(cs) ==
    LET closed == {t \in SUBSET Copies :
                      cs \subseteq t /\ \A c \in t : Inside(c) \subseteq t}
    IN  {d \in Copies : \A t \in closed : d \in t}

(* What the spawners hold once `cs` are destroyed. *)
HeldWithout(cs) ==
    LET fallen == Falls(cs)
    IN  [g \in Spawners |-> IF g[1] \in fallen THEN {} ELSE held[g] \ fallen]

(* The time left to the copies that remain. *)
LeftWithout(cs) ==
    LET fallen == Falls(cs)
    IN  [c \in Copies |-> IF c \in fallen THEN Never ELSE left[c]]

Destroy(cs) ==
    /\ dead' = dead \union Falls(cs)
    /\ held' = HeldWithout(cs)
    /\ left' = LeftWithout(cs)

(* Mutant: a copy is there for one more tick after its lifetime. *)
EndedLate(dt) == {c \in Alive \ {0} : left[c] # Never /\ left[c] < dt}

(* The copies whose lifetime is over once another `dt` has passed. *)
Ended(dt) == {c \in Alive \ {0} : left[c] # Never /\ left[c] <= dt}

(* `ls` with `dt` less to live. *)
Aged(dt, ls) == [c \in Copies |-> IF ls[c] = Never THEN Never ELSE ls[c] - dt]

-----------------------------------------------------------------------------
(* Starting units. *)

(* Mutant: whatever the pass sets off waits for the next tick. *)
ReachedAlways(u) == TRUE

(* The pass has come to `u` or is past it. *)
Reached(u) == u = cursor \/ Before(u, cursor)

(* Set off `u`: in the late pass at once, else in this tick's pass when it
   lies ahead and in the next tick when it does not. *)
Activate(u) ==
    /\ late'    = late    \union {w \in {u} : in_late}
    /\ pending' = pending \union {w \in {u} : ~in_late /\ ~Reached(w)}
    /\ carried' = carried \union {w \in {u} : ~in_late /\ Reached(w)}

(* Mutant: run_unit starts the unit of a destroyed copy as any other. *)
RunBlindly(u) ==
    /\ pc' = "chain"
    /\ at' = u[1]
    /\ wrote' = FALSE
    /\ loaded' = loaded \union {c \in {u[1]} : u[2] = "load"}

(* Run `u`, unless it is a dead gate. *)
RunUnit(u) ==
    /\ pc' = IF u[1] \in dead THEN pc ELSE "chain"
    /\ at' = IF u[1] \in dead THEN at ELSE u[1]
    /\ wrote' = FALSE
    /\ loaded' = loaded \union {c \in {u[1]} \ dead : u[2] = "load"}

(* The receivers of an event: the handlers of the copies that are left. *)
Receivers == {<<c, "work">> : c \in {d \in Alive : outbox}}

(* A tick starts: last tick's events find their receivers, the world starts
   some handlers, and copies whose lifetime is over are destroyed. *)
BeginSpawnerTick(dt, world) ==
    /\ pc = "idle"
    /\ gates_run' = 0
    /\ late' = late \union carried \union {<<c, "work">> : c \in world}
    /\ carried' = {}
    /\ late_events' = late_events \union Receivers
    /\ outbox' = FALSE
    /\ dead' = dead \union Falls(Ended(dt))
    /\ held' = HeldWithout(Ended(dt))
    /\ left' = Aged(dt, LeftWithout(Ended(dt)))
    /\ pc' = "late"
    /\ in_late' = TRUE
    /\ UNCHANGED <<cursor, made, pending, at, wrote, loaded>>

RunLate(u) ==
    /\ pc = "late"
    /\ IsFirst(u, late)
    /\ late' = late \ {u}
    /\ RunUnit(u)
    /\ UNCHANGED <<in_late, cursor, gates_run, made, dead, held, left, pending, carried,
                   late_events, outbox>>

RunEvent(u) ==
    /\ pc = "late"
    /\ late = {}
    /\ IsFirst(u, late_events)
    /\ late_events' = late_events \ {u}
    /\ RunUnit(u)
    /\ UNCHANGED <<in_late, cursor, gates_run, made, dead, held, left, late, pending,
                   carried, outbox>>

CloseLatePass ==
    /\ pc = "late"
    /\ late = {}
    /\ late_events = {}
    /\ pc' = "pass"
    /\ in_late' = FALSE
    /\ UNCHANGED <<cursor, gates_run, made, dead, held, left, queues, at, wrote, loaded>>

RunPending(u) ==
    /\ pc = "pass"
    /\ IsFirst(u, pending)
    /\ pending' = pending \ {u}
    /\ cursor' = u
    /\ RunUnit(u)
    /\ UNCHANGED <<in_late, gates_run, made, dead, held, left, late, carried, late_events,
                   outbox>>

ClosePass ==
    /\ pc = "pass"
    /\ pending = {}
    /\ pc' = "idle"
    /\ cursor' = None
    /\ UNCHANGED <<in_late, gates_run, made, dead, held, left, queues, at, wrote, loaded>>

-----------------------------------------------------------------------------
(* The gates of a chain. *)

(* The chain runs one more gate of its copy; a dead gate does nothing. *)
ExecGate ==
    /\ pc = "chain"
    /\ at \notin dead
    /\ gates_run < MaxGatesRun
    /\ gates_run' = gates_run + 1

(* Mutant: a full spawner drops none of its copies. *)
OldestNever(cs, limit) == {}

(* The copy that makes room for a new one. *)
Oldest(cs, limit) ==
    {c \in cs : /\ limit > 0
                /\ Cardinality(cs) >= limit
                /\ \A d \in cs : c <= d}

(* Load one more copy behind all others and set off its Load Event. *)
NewCopy ==
    /\ made < MaxCopies
    /\ made' = made + 1
    /\ Activate(<<made + 1, "load">>)

(* Spawner `s` of the chain's copy is entered through Spawn. *)
Spawn(s, limit, lifetime) ==
    LET copy == made + 1
        gone == Oldest(held[<<at, s>>], limit)
    IN
    /\ ExecGate
    /\ NewCopy
    /\ dead' = dead \union Falls(gone)
    /\ held' = [HeldWithout(gone) EXCEPT ![<<at, s>>] = @ \union {copy}]
    /\ left' = [LeftWithout(gone) EXCEPT ![copy] =
                   IF lifetime > 0 THEN lifetime ELSE Never]
    /\ UNCHANGED <<pc, in_late, cursor, late_events, outbox, at, wrote, loaded>>

(* The copy no longer fits, or the tick ran too many gates: the run ends. *)
Overflow ==
    /\ pc = "chain"
    /\ at \notin dead
    /\ made = MaxCopies \/ gates_run = MaxGatesRun
    /\ pc' = "error"
    /\ UNCHANGED <<in_late, cursor, gates_run, made, dead, held, left, queues, at, wrote,
                   loaded>>

(* Spawner `s` is entered through DestroyAll. *)
DestroyAll(s) ==
    /\ ExecGate
    /\ Destroy(held[<<at, s>>])
    /\ UNCHANGED <<pc, in_late, cursor, made, queues, at, wrote, loaded>>

(* Destroy Prefab with the entity of copy `c`, whoever spawned it and whether
   it is still there. *)
DestroyPrefab(c) ==
    /\ ExecGate
    /\ c \in 1 .. made
    /\ Destroy({d \in {c} : \E o \in Alive : d \in Inside(o)})
    /\ UNCHANGED <<pc, in_late, cursor, made, queues, at, wrote, loaded>>

SendEvent ==
    /\ ExecGate
    /\ outbox' = TRUE
    /\ UNCHANGED <<pc, in_late, cursor, made, dead, held, left, late, pending, carried,
                   late_events, at, wrote, loaded>>

WriteVar ==
    /\ ExecGate
    /\ wrote' = TRUE
    /\ UNCHANGED <<pc, in_late, cursor, made, dead, held, left, queues, at, loaded>>

(* The chain is done: what it wrote may set off the handler of its copy.
   The watched input stays queued even if the copy has been destroyed. *)
FinishChain(reacts) ==
    /\ pc = "chain"
    /\ reacts => wrote
    /\ pc' = IF in_late THEN "late" ELSE "pass"
    /\ \/ reacts /\ Activate(<<at, "work">>)
       \/ ~reacts /\ UNCHANGED <<late, pending, carried>>
    /\ UNCHANGED <<in_late, cursor, gates_run, made, dead, held, left, late_events, outbox,
                   at, wrote, loaded>>

Chain ==
    \/ \E s \in Slots, n \in Limits, t \in Lifetimes : Spawn(s, n, t)
    \/ \E s \in Slots : DestroyAll(s)
    \/ \E c \in Copies : DestroyPrefab(c)
    \/ SendEvent
    \/ WriteVar
    \/ \E r \in BOOLEAN : FinishChain(r)
    \/ Overflow

Tick ==
    \/ \E dt \in Deltas, w \in SUBSET Alive : BeginSpawnerTick(dt, w)
    \/ \E u \in Units : RunLate(u) \/ RunEvent(u) \/ RunPending(u)
    \/ CloseLatePass
    \/ ClosePass

SpawnerNext == Tick \/ Chain

(* The host runs tick after tick, and a chain runs to its end. *)
SpawnerSpec == SpawnerInit /\ [][SpawnerNext]_copyVars

-----------------------------------------------------------------------------
(* Properties. *)

(* Every copy that is not destroyed is held by exactly one spawner, one that
   is alive itself, and spawners hold nothing that was destroyed.  A copy
   nobody holds could be neither destroyed nor ever end. *)
HeldOnce ==
    /\ \A c \in Alive \ {0} : \E g \in Spawners :
          g[1] \in Alive /\ c \in held[g]
    /\ \A g, h \in Spawners : g # h => held[g] \intersect held[h] = {}
    /\ \A g \in Spawners : held[g] \subseteq Alive

(* While units run, no copy is there whose lifetime is over. *)
NoneOverdue == \A c \in Alive : left[c] = Never \/ left[c] > 0

(* A spawner that is always told to keep at most some number of copies never
   holds more than the largest it was told. *)
LimitKept ==
    0 \notin Limits =>
        \A g \in Spawners : \E n \in Limits : Cardinality(held[g]) <= n

(* "Load a copy ... and run its Load Event this tick": when a tick is over,
   the Load Event of every copy that is left has run. *)
LoadedInItsTick == pc = "idle" => Alive \subseteq loaded

(* Lifetimes, limits and loads are kept to the tick. *)
CopiesInTime == SpawnerTypeOK /\ NoneOverdue /\ LimitKept /\ LoadedInItsTick

InertStep ==
    /\ loaded' \ loaded \subseteq Alive
    /\ pc # "chain" /\ pc' = "chain" => at' \in Alive
    /\ pc = "chain" /\ at \in dead => UNCHANGED <<made, held, outbox>>

(* "Make the gates of a copy inert ... nothing waiting for them runs": what
   is queued for a destroyed copy is dropped, and a chain that destroys its
   own copy does nothing more. *)
DeadStayInert == [][InertStep]_copyVars
=============================================================================

----------------------------- MODULE PureGates -----------------------------
(***************************************************************************)
(* The pure gates of the simulator, machine.rs: their cached outputs       *)
(* (mark_readers, refresh, recompute), the watched inputs behind them      *)
(* (watch, settle) and when a write reaches them (set_out, publish_writes, *)
(* invalidate).                                                            *)
(*                                                                         *)
(* A node is a pure gate, a var, the output of an exec gate, or the clock  *)
(* the time sources read.  A chain reads its own var writes at once; the   *)
(* gates off a var see them when the chain ends.  The order of to_check is *)
(* left open.                                                              *)
(***************************************************************************)
EXTENDS Naturals, FiniteSets

CONSTANTS
    Pure,       \* the pure gates
    Vars,       \* the vars
    Outs,       \* the outputs of exec gates
    Clock,      \* what the time sources read
    Source,     \* the nodes each pure gate reads
    Watched,    \* the watched inputs
    Reads,      \* the node each watched input reads
    Pulses,     \* the outputs a value detector pulses, per watched input
    Seeded,     \* the watched inputs checked at load against a saved value
    Stored,     \* the values a var, an output or the clock may hold
    High,       \* the value of a pulsed output
    Saved,      \* the values the save holds for pure gates and watched inputs
    Law(_, _)   \* what a pure gate computes from its inputs

Leaves == Vars \union Outs \union {Clock}
Nodes  == Pure \union Leaves

ASSUME GraphAssumption ==
    /\ Pure \intersect Leaves = {}
    /\ Vars \intersect Outs = {} /\ Clock \notin Vars \union Outs
    /\ Source \in [Pure -> SUBSET Nodes]
    /\ Reads \in [Watched -> Nodes]
    /\ Pulses \in [Watched -> SUBSET Outs]
    /\ Seeded \subseteq Watched
    /\ \A o \in Outs : High[o] \in Stored[o]

(* Pure gates form no cycle: every set of them has one that reads none of the
   others.  The load computes every pure gate, and refresh stops it with an
   error when they form a cycle. *)
ASSUME AcyclicAssumption ==
    \A S \in SUBSET Pure : S # {} => \E g \in S : Source[g] \intersect S = {}

VARIABLES
    leaf,             \* the value of each var, output and the clock
    cached,           \* outs: the value each pure gate was last computed with
    dirty,            \* the pure gates whose value is stale
    stale,            \* those marked since the last settle
    queued_check,     \* the watched inputs to check (to_check holds each once)
    late_checks,      \* those whose change acts a tick late
    last,             \* the value each watched input last saw
    written,          \* vars and clock changed and not yet published
    written_in_plane, \* those written inside a callable
    written_outside,  \* those written by a plain chain
    late_vars,        \* history: vars the last chain published late
    phase             \* what the machine is doing

cache == <<dirty, stale, queued_check, late_checks>>
chain == <<written, written_in_plane, written_outside, late_vars>>
vars  == <<leaf, cached, cache, last, chain, phase>>

Init ==
    /\ leaf \in {f \in [Leaves -> UNION {Stored[l] : l \in Leaves}] :
                   \A l \in Leaves : f[l] \in Stored[l]}
    /\ cached = [g \in Pure |-> Saved[g]]
    /\ dirty = Pure
    /\ stale = {}
    /\ queued_check = {}
    /\ late_checks = {}
    /\ last = [w \in Watched |-> Saved[w]]
    /\ written = {}
    /\ written_in_plane = {}
    /\ written_outside = {}
    /\ late_vars = {}
    /\ phase = "load"

-----------------------------------------------------------------------------
(* Values. *)

Value(n) == IF n \in Pure THEN cached[n] ELSE leaf[n]

Computed(g) == Law(g, [s \in Source[g] |-> Value(s)])

(* `root` and the pure gates it reads, through any depth of them. *)
Cone(root) ==
    {g \in Pure : \A T \in SUBSET Pure :
       /\ {root} \intersect Pure \subseteq T
       /\ \A h \in T : Source[h] \intersect Pure \subseteq T
       => g \in T}

-----------------------------------------------------------------------------
(* Marking. *)

ReadBy(S) == {g \in Pure : Source[g] \intersect S # {}}

(* mark_readers: the clean pure gates reached from `n` through clean ones. *)
NewlyStale(n) ==
    {g \in Pure \ dirty : \A T \in SUBSET (Pure \ dirty) :
       /\ ReadBy({n}) \ dirty \subseteq T
       /\ \A h \in T : ReadBy({h}) \ dirty \subseteq T
       => g \in T}

(* Mutant: the watched inputs behind a pure gate are not queued. *)
ReachedDirectly(n) == {w \in Watched : Reads[w] = n}
Reached(n) == {w \in Watched : Reads[w] \in NewlyStale(n) \union {n}}

(* mark_readers, with `queue` the inputs queued before. *)
MarkReaders(n, queue, late) ==
    /\ dirty' = dirty \union NewlyStale(n)
    /\ stale' = stale \union NewlyStale(n)
    /\ queued_check' = queue \union Reached(n)
    /\ late_checks' = (IF late THEN Reached(n) ELSE {})
                        \union (late_checks \intersect queue)

-----------------------------------------------------------------------------
(* recompute: one step of refresh, which computes the stale gates a read
   needs, sources first. *)
(* Mutant: whatever their sources are. *)
ReadyToComputeAnyhow(g) == g \in dirty
ReadyToCompute(g) == g \in dirty /\ Source[g] \intersect dirty = {}

(* The stale gates something reads now: anything for a load, a tick's timers
   or a chain; the marked ones, then the checked inputs, for a settle. *)
Wanted ==
    CASE phase \in {"load", "tick", "chain"} -> dirty
      [] phase = "stale" -> dirty \intersect stale
      [] phase = "check" -> dirty \intersect {Reads[w] : w \in queued_check}
      [] OTHER -> {}

Recompute(g) ==
    /\ ReadyToCompute(g)
    /\ \E root \in Wanted : g \in Cone(root)
    /\ cached' = [cached EXCEPT ![g] = Computed(g)]
    /\ dirty' = dirty \ {g}
    /\ UNCHANGED <<leaf, stale, queued_check, late_checks, last, chain, phase>>

-----------------------------------------------------------------------------
(* settle_new, once every gate is computed: each watched input notes what it
   holds, or is checked against what the save says it held. *)
Loaded ==
    /\ phase = "load"
    /\ dirty = {}
    /\ last' = [w \in Watched |-> IF w \in Seeded THEN last[w] ELSE Value(Reads[w])]
    /\ queued_check' = queued_check \union Seeded
    /\ phase' = "stale"
    /\ UNCHANGED <<leaf, cached, dirty, stale, late_checks, chain>>

(* step: the tick and its uptime move on. *)
Tick ==
    /\ phase = "ready"
    /\ \E v \in Stored[Clock] : leaf' = [leaf EXCEPT ![Clock] = v]
    /\ written' = written \union {Clock}
    /\ phase' = "tick"
    /\ UNCHANGED <<cached, cache, last, written_in_plane, written_outside, late_vars>>

(* set_out: a timer, buffer or ended pulse of the tick, or a gate of a chain,
   changes an output, which reaches its readers at once. *)
SetOut(o, v) ==
    /\ phase \in {"tick", "chain"}
    /\ leaf[o] # v
    /\ leaf' = [leaf EXCEPT ![o] = v]
    /\ MarkReaders(o, queued_check, FALSE)
    /\ UNCHANGED <<cached, last, chain, phase>>

(* invalidate, for every time source; then the tick settles. *)
Invalidate ==
    /\ phase = "tick"
    /\ MarkReaders(Clock, queued_check, FALSE)
    /\ written' = written \ {Clock}
    /\ phase' = "stale"
    /\ UNCHANGED <<leaf, cached, last, written_in_plane, written_outside, late_vars>>

(* run_unit. *)
RunUnit ==
    /\ phase = "ready"
    /\ phase' = "chain"
    /\ late_vars' = {}
    /\ UNCHANGED <<leaf, cached, cache, last, written, written_in_plane, written_outside>>

(* record_write. *)
WriteVar(x, v, inside) ==
    /\ phase = "chain"
    /\ leaf' = [leaf EXCEPT ![x] = v]
    /\ written' = written \union {x}
    /\ written_in_plane' = IF inside THEN written_in_plane \union {x} ELSE written_in_plane
    /\ written_outside' = IF inside THEN written_outside ELSE written_outside \union {x}
    /\ UNCHANGED <<cached, cache, last, late_vars, phase>>

(* finish_chain. *)
FinishChain ==
    /\ phase = "chain"
    /\ phase' = "publish"
    /\ UNCHANGED <<leaf, cached, cache, last, chain>>

(* Mutant: a plain write does not make the var act on time. *)
MarkingLateWhenever(x) == x \in written_in_plane
MarkingLate(x) == x \in written_in_plane /\ x \notin written_outside

(* publish_writes, one var of it. *)
(* Mutant: the var stays among those written by a plain chain. *)
PublishOutside(x) ==
    /\ phase = "publish"
    /\ MarkReaders(x, queued_check, MarkingLate(x))
    /\ written' = written \ {x}
    /\ written_in_plane' = written_in_plane \ {x}
    /\ late_vars' = late_vars \union ({x} \intersect (written_in_plane \ written_outside))
    /\ UNCHANGED <<leaf, cached, last, written_outside, phase>>

Publish(x) ==
    /\ phase = "publish"
    /\ MarkReaders(x, queued_check, MarkingLate(x))
    /\ written' = written \ {x}
    /\ written_in_plane' = written_in_plane \ {x}
    /\ written_outside' = written_outside \ {x}
    /\ late_vars' = late_vars \union ({x} \intersect (written_in_plane \ written_outside))
    /\ UNCHANGED <<leaf, cached, last, phase>>

Published ==
    /\ phase = "publish"
    /\ written = {}
    /\ phase' = "stale"
    /\ UNCHANGED <<leaf, cached, cache, last, chain>>

(* settle: once the marked gates are computed, the watched inputs are checked. *)
SettleStale ==
    /\ phase = "stale"
    /\ dirty \intersect stale = {}
    /\ stale' = {}
    /\ phase' = "check"
    /\ UNCHANGED <<leaf, cached, dirty, queued_check, late_checks, last, chain>>

(* detect: what a pulse sets its output to. *)
(* Mutant: the other of its values. *)
PulseValueToggled(o) == CHOOSE v \in Stored[o] : v # leaf[o]
PulseValue(o) == High[o]

(* settle: one watched input.  A change of a value detector's input may pulse
   an output of it; every other change only starts or defers a unit. *)
Check(w) ==
    /\ phase = "check"
    /\ Reads[w] \notin dirty
    /\ last' = [last EXCEPT ![w] = Value(Reads[w])]
    /\ \/ /\ queued_check' = queued_check \ {w}
          /\ late_checks' = late_checks \ {w}
          /\ UNCHANGED <<leaf, dirty, stale>>
       \/ /\ last'[w] # last[w]
          /\ \E o \in Pulses[w] :
               /\ leaf[o] # PulseValue(o)
               /\ leaf' = [leaf EXCEPT ![o] = PulseValue(o)]
               /\ MarkReaders(o, queued_check \ {w}, FALSE)
    /\ UNCHANGED <<cached, chain, phase>>

Settled ==
    /\ phase = "check"
    /\ queued_check = {}
    /\ phase' = "ready"
    /\ UNCHANGED <<leaf, cached, cache, last, chain>>

-----------------------------------------------------------------------------
SettleStep ==
    \/ \E g \in Pure : Recompute(g)
    \/ SettleStale
    \/ \E w \in queued_check : Check(w)
    \/ Settled

Next ==
    \/ SettleStep
    \/ Loaded \/ Tick \/ Invalidate
    \/ RunUnit \/ FinishChain \/ Published
    \/ \E o \in Outs : \E v \in Stored[o] : SetOut(o, v)
    \/ \E x \in Vars, inside \in BOOLEAN : \E v \in Stored[x] : WriteVar(x, v, inside)
    \/ \E x \in written : Publish(x)

Spec == Init /\ [][Next]_vars /\ WF_vars(phase \in {"stale", "check"} /\ SettleStep)

-----------------------------------------------------------------------------
TypeOK ==
    /\ leaf = [l \in Leaves |-> leaf[l]]
    /\ \A l \in Leaves : leaf[l] \in Stored[l]
    /\ cached = [g \in Pure |-> cached[g]]
    /\ dirty \subseteq Pure
    /\ stale \subseteq Pure
    /\ queued_check \subseteq Watched
    /\ late_checks \subseteq queued_check
    /\ last = [w \in Watched |-> last[w]]
    /\ written \subseteq Vars \union {Clock}
    /\ written_in_plane \union written_outside = written \ {Clock}
    /\ late_vars \subseteq Vars
    /\ phase \in {"load", "ready", "tick", "chain", "publish", "stale", "check"}

(* What is written waits only while a tick begins or a chain runs, and what a
   settle takes is nothing less than every stale gate. *)
PhaseOK ==
    /\ phase \notin {"tick", "chain", "publish"} => written = {}
    /\ phase = "tick" => written = {Clock}
    /\ phase \in {"chain", "publish"} => Clock \notin written
    /\ phase # "load" => dirty \subseteq stale
    /\ phase = "ready" => queued_check = {}

(* The pure gates behind a stale one are stale, and the watched inputs behind
   it are queued: mark_readers may stop at a gate it finds stale. *)
StaleClosed ==
    /\ \A g \in dirty : ReadBy({g}) \subseteq dirty
    /\ phase # "load" => \A w \in Watched : Reads[w] \in dirty => w \in queued_check

(* A pure gate that is not stale holds what it computes from the values of its
   inputs, except from writes the running chain has not published. *)
CleanComputed ==
    \A g \in Pure \ dirty : Source[g] \intersect written = {} => cached[g] = Computed(g)

(* A watched input that is not queued has seen the value it reads, but for
   writes not yet published. *)
WatchedSeen ==
    phase # "load" =>
      \A w \in Watched \ queued_check :
        Reads[w] \notin written => last[w] = Value(Reads[w])

CacheInv == TypeOK /\ PhaseOK /\ StaleClosed /\ CleanComputed /\ WatchedSeen

(* The value of a node computed afresh from the vars, outputs and the clock. *)
Now ==
    LET value[n \in Nodes] ==
          IF n \in Pure THEN Law(n, [s \in Source[n] |-> value[s]]) ELSE leaf[n]
    IN  value

(* No change is missed: between units and ticks every watched input has seen
   the value its cone has now, whatever marking stopped short. *)
NothingMissed == phase = "ready" => \A w \in Watched : last[w] = Now[Reads[w]]

(* No glitch: a settle never shows a watched input a value computed from old
   and new inputs together, which would start a unit for no change. *)
NoGlitch ==
    [][\A w \in Watched :
         phase = "check" /\ last'[w] # last[w] => last'[w] = Now[Reads[w]]]_vars

(* An input acts late only if a var the chain wrote only inside callables
   reaches it (the comment on written_in_plane). *)
Behind(x) == {w \in Watched : Reads[w] = x \/ \E g \in ReadBy({x}) : g \in Cone(Reads[w])}

LateOnlyInPlane == \A w \in late_checks : \E x \in late_vars : w \in Behind(x)

WatchedRight == NothingMissed /\ LateOnlyInPlane

(* Every settle ends, even when a detector feeds itself. *)
SettleEnds == phase \in {"stale", "check"} ~> phase = "ready"
=============================================================================

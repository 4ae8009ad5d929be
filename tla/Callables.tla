----------------------------- MODULE Callables -----------------------------
(***************************************************************************)
(* Function calls and loop planes of the simulator, machine/callable.rs,   *)
(* with the Exec Unions inside and around them: run_body, function_call,   *)
(* run_loop, begin_invocation, frame_of and lose.                          *)
(*                                                                         *)
(* A chain is any order of the gates that matter here; a body runs inside  *)
(* the gate that calls it.  Whether a loop has another item is decided     *)
(* before each iteration, as run_loop reads an array's length, and may be  *)
(* so for ever: an array its own body appends to never runs out.           *)
(***************************************************************************)
EXTENDS Naturals, SequencesExt

CONSTANTS
    Functions,       \* the function definitions
    Loops,           \* the loop shells
    Unions,          \* the Exec Unions
    Holders,         \* per Union, the callable planes around it, innermost first
    Feeds,           \* per Union, the Unions its output calls
    MaxInvocations,  \* MAX_INVOCATIONS_PER_TICK
    MaxDepth,        \* MAX_DEPTH
    MaxSteps         \* MAX_STEPS_PER_TICK

Shells == Functions \union Loops

ASSUME CallableAssumption ==
    /\ Functions \intersect Loops = {}
    /\ Holders \in [Unions -> Seq(Shells)]
    /\ Feeds \in [Unions -> SUBSET Unions]
    /\ {MaxInvocations, MaxDepth, MaxSteps} \subseteq Nat

VARIABLES
    frames,          \* the running callables, outermost first
    break_requested, \* a Break ran inside the innermost running loop
    unions_passed,   \* the Unions passed, for the tick and each running body
    invocations,     \* callable invocations this tick
    steps,           \* exec gates this tick
    phase,           \* "idle" between chains, "chain", or "failed"
    ran,             \* history: bodies run this tick
    aborted,         \* history: a callable was aborted this tick
    lost             \* history: the Unions a lost exec went through this tick

history == <<ran, aborted, lost>>
vars    == <<frames, break_requested, unions_passed, invocations, steps, phase, history>>

Init ==
    /\ frames = <<>>
    /\ break_requested = FALSE
    /\ unions_passed = <<{}>>
    /\ invocations = 0
    /\ steps = 0
    /\ phase = "idle"
    /\ ran = 0
    /\ aborted = FALSE
    /\ lost = {}

-----------------------------------------------------------------------------
Top == Last(frames)

(* Every running callable is in its body, but a loop between two of them. *)
Depth == Len(unions_passed) - 1
Is(at) == phase = "chain" /\ frames # <<>> /\ Top.at = at
InChain == Is("body") \/ (phase = "chain" /\ frames = <<>>)

AtTop(at) == [frames EXCEPT ![Len(frames)].at = at]

(* fire_chain: one more exec gate, unless it is one too many. *)
Step == InChain /\ steps < MaxSteps /\ steps' = steps + 1

(* An error leaves every body, popping its frame. *)
Fail ==
    /\ phase' = "failed"
    /\ frames' = <<>>
    /\ unions_passed' = <<unions_passed[1]>>
    /\ UNCHANGED break_requested

Runaway ==
    /\ InChain
    /\ steps = MaxSteps
    /\ Fail
    /\ UNCHANGED <<invocations, steps, history>>

-----------------------------------------------------------------------------
BeginTick ==
    /\ phase = "idle"
    /\ invocations' = 0 /\ steps' = 0
    /\ ran' = 0 /\ aborted' = FALSE /\ lost' = {}
    /\ unions_passed' = <<{}>>
    /\ UNCHANGED <<frames, break_requested, phase>>

BeginChain ==
    /\ phase = "idle"
    /\ phase' = "chain"
    /\ UNCHANGED <<frames, break_requested, unions_passed, invocations, steps, history>>

EndChain ==
    /\ phase = "chain"
    /\ frames = <<>>
    /\ phase' = "idle"
    /\ UNCHANGED <<frames, break_requested, unions_passed, invocations, steps, history>>

Break ==
    /\ Step
    /\ break_requested' = TRUE
    /\ UNCHANGED <<frames, unions_passed, invocations, phase, history>>

(* frame_of: the innermost running body that holds the Union, 0 for none. *)
FrameOf(u) ==
    LET runs(n) == {k \in 1 .. Depth : frames[k].shell = Holders[u][n]}
        running == {n \in DOMAIN Holders[u] : runs(n) # {}}
        inner == CHOOSE n \in running : \A m \in running : n <= m
    IN  IF running = {} THEN 0
        ELSE CHOOSE k \in runs(inner) : \A j \in runs(inner) : j <= k

(* An exec reaches a Union of its own body.  One that passed stops it. *)
Union(u) ==
    /\ Step
    /\ FrameOf(u) = Depth
    /\ unions_passed' = [unions_passed EXCEPT ![Depth + 1] = @ \union {u}]
    /\ UNCHANGED <<frames, break_requested, invocations, phase, history>>

(* The Unions of new an exec goes through from u. *)
Through(u, new) ==
    {v \in new : \A closed \in SUBSET new :
        /\ {u} \intersect new \subseteq closed
        /\ \A t \in closed : Feeds[t] \intersect new \subseteq closed
        => v \in closed}

(* lose: the Unions the exec passes through, until one that passed. *)
(* Mutant: only the Union it reaches first. *)
LoseFirst(u, frame) ==
    unions_passed' = [unions_passed EXCEPT ![frame + 1] = @ \union {u}]

Lose(u, frame) ==
    unions_passed' = [unions_passed EXCEPT ![frame + 1] = @ \union Through(u, Unions \ @)]

(* push_calls_in_plane: a call out of the running body runs nothing. *)
Leave(u) ==
    /\ Step
    /\ FrameOf(u) # Depth
    /\ Lose(u, FrameOf(u))
    /\ lost' = lost \union Through(u, {v \in Unions : v \notin unions_passed[FrameOf(v) + 1]})
    /\ UNCHANGED <<frames, break_requested, invocations, phase, ran, aborted>>

-----------------------------------------------------------------------------
(* begin_invocation. *)
Counted == invocations' = invocations + 1

(* Mutant: only the one that passes the cap aborts. *)
WithinCapOnce == invocations # MaxInvocations
WithinCap == invocations + 1 <= MaxInvocations

(* run_body: its Unions' frame, unless it is nested too deeply. *)
(* Mutant: one body deeper. *)
RunBodyDeeper(running) ==
    IF Depth > MaxDepth
    THEN Fail /\ UNCHANGED history
    ELSE /\ frames' = running
         /\ unions_passed' = Append(unions_passed, {})
         /\ ran' = ran + 1
         /\ UNCHANGED <<phase, break_requested, aborted, lost>>

RunBody(running) ==
    IF Depth >= MaxDepth
    THEN Fail /\ UNCHANGED history
    ELSE /\ frames' = running
         /\ unions_passed' = Append(unions_passed, {})
         /\ ran' = ran + 1
         /\ UNCHANGED <<phase, break_requested, aborted, lost>>

(* Past the cap the callable completes without running its body. *)
Abort(running) ==
    /\ aborted' = TRUE
    /\ frames' = running
    /\ UNCHANGED <<break_requested, unions_passed, phase, ran, lost>>

FunctionCall(f) ==
    /\ Step
    /\ Counted
    /\ IF WithinCap
       THEN RunBody(Append(frames, [shell |-> f, at |-> "body", saved_break |-> FALSE]))
       ELSE Abort(frames)

EndCall ==
    /\ Is("body")
    /\ Top.shell \in Functions
    /\ frames' = Front(frames)
    /\ unions_passed' = Front(unions_passed)
    /\ UNCHANGED <<break_requested, invocations, steps, phase, history>>

(* Mutant: the gate of a loop is not counted. *)
BeginLoopUncounted(l) ==
    /\ InChain
    /\ frames' = Append(frames, [shell |-> l, at |-> "test", saved_break |-> break_requested])
    /\ break_requested' = FALSE
    /\ UNCHANGED <<unions_passed, invocations, steps, phase, history>>

(* run_loop, up to its first test. *)
BeginLoop(l) ==
    /\ Step
    /\ frames' = Append(frames, [shell |-> l, at |-> "test", saved_break |-> break_requested])
    /\ break_requested' = FALSE
    /\ UNCHANGED <<unions_passed, invocations, phase, history>>

(* There is one more item. *)
Iterate ==
    /\ Is("test")
    /\ Counted
    /\ IF WithinCap THEN RunBody(AtTop("body")) ELSE Abort(AtTop("left"))
    /\ UNCHANGED steps

NoMore ==
    /\ Is("test")
    /\ frames' = AtTop("left")
    /\ UNCHANGED <<break_requested, unions_passed, invocations, steps, phase, history>>

(* The body of an iteration is done. *)
EndIteration ==
    /\ Is("body")
    /\ Top.shell \in Loops
    /\ frames' = AtTop(IF break_requested THEN "left" ELSE "test")
    /\ break_requested' = FALSE
    /\ unions_passed' = Front(unions_passed)
    /\ UNCHANGED <<invocations, steps, phase, history>>

(* Mutant: what was requested of the loop around is not given back. *)
EndLoopForgetting ==
    /\ Is("left")
    /\ frames' = Front(frames)
    /\ break_requested' = FALSE
    /\ UNCHANGED <<unions_passed, invocations, steps, phase, history>>

EndLoop ==
    /\ Is("left")
    /\ frames' = Front(frames)
    /\ break_requested' = Top.saved_break
    /\ UNCHANGED <<unions_passed, invocations, steps, phase, history>>

-----------------------------------------------------------------------------
ChainStep ==
    \/ Runaway \/ EndChain \/ Break
    \/ \E u \in Unions : Union(u) \/ Leave(u)
    \/ \E f \in Functions : FunctionCall(f)
    \/ \E l \in Loops : BeginLoop(l)
    \/ EndCall \/ Iterate \/ NoMore \/ EndIteration \/ EndLoop

Next == BeginTick \/ BeginChain \/ ChainStep

(* The simulator runs a chain it began to its end. *)
Spec == Init /\ [][Next]_vars /\ WF_vars(ChainStep)

-----------------------------------------------------------------------------
(* The variables hold values of their kinds, there is one frame of Unions  *)
(* per body in progress, and at most the innermost callable is outside its *)
(* body: run_body and run_loop push and pop together.                      *)
TypeOK ==
    /\ frames \in Seq([shell : Shells, at : {"test", "body", "left"}, saved_break : BOOLEAN])
    /\ break_requested \in BOOLEAN
    /\ unions_passed \in Seq(SUBSET Unions)
    /\ invocations \in Nat /\ steps \in 0 .. MaxSteps /\ ran \in Nat
    /\ phase \in {"idle", "chain", "failed"}
    /\ aborted \in BOOLEAN /\ lost \subseteq Unions
    /\ \A k \in DOMAIN frames : k < Len(frames) => frames[k].at = "body"
    /\ Depth = IF frames = <<>> \/ Top.at = "body" THEN Len(frames) ELSE Len(frames) - 1
    /\ Depth <= MaxDepth
    /\ phase # "chain" => frames = <<>>

(* No tick runs more bodies than the cap, however calls and loops nest,    *)
(* and one that aborted a callable runs no body after it.                  *)
CapKept == ran <= MaxInvocations
AbortSticks == [][aborted /\ aborted' => ran' = ran]_vars

(* Calls nest within the bounds of the code: a frame of Unions per body,   *)
(* no deeper than MAX_DEPTH, and no more bodies in a tick than the cap.    *)
CallsBounded == TypeOK /\ CapKept

(* The loops in progress, for LoopBreaks: the request a running loop has   *)
(* pending is break_requested, or what the next loop inside it saved.      *)
LoopsAt(fs) == {k \in DOMAIN fs : fs[k].shell \in Loops}
Nth(fs, n) == {k \in LoopsAt(fs) : Cardinality({j \in LoopsAt(fs) : j <= k}) = n}
LoopsOf(fs) ==
    [n \in 1 .. Cardinality(LoopsAt(fs)) |-> fs[CHOOSE k \in Nth(fs, n) : TRUE]]

Pending(ls, k) == IF k = Len(ls) THEN break_requested ELSE ls[k + 1].saved_break

RunningLoops ==
    LET ls == LoopsOf(frames)
    IN  [k \in 1 .. Len(ls) |-> [inside |-> ls[k].at = "body",
                                 last   |-> ls[k].at = "left" \/ Pending(ls, k)]]

Promise == INSTANCE LoopBreaks WITH loops <- RunningLoops

(* A Break ends the loop around it after the iteration it ran in and no    *)
(* other loop, through nested loops and function calls.                    *)
BreakKept == Promise!Spec

(* A Union outside every callable that a lost exec reached this tick       *)
(* passes no exec for the rest of it: the game loses both                  *)
(* (docs/src/game-knowledge.md, "No exec leaves a loop body").             *)
LostPassNothing ==
    [][\A u \in lost : Depth = 0 /\ Depth' = 0 /\ Holders[u] = <<>>
          => u \notin unions_passed'[1] \ unions_passed[1]]_vars

(* A chain always ends, also around a loop that never runs out of items:   *)
(* begin_invocation counts the iterations and the gates are counted.       *)
ChainEnds == phase = "chain" ~> phase # "chain"
=============================================================================

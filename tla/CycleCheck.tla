----------------------------- MODULE CycleCheck ------------------------------
(***************************************************************************)
(* The compiler's check that no loop of gates runs within one tick,        *)
(* crates/wirescript/src/analyze.rs: Tarjan's algorithm on the wires of a  *)
(* module, with its depth-first search kept in frames on the heap, then    *)
(* one verdict per strongly connected component.                           *)
(*                                                                         *)
(* The order in which a gate's wires are looked at is left open, so a      *)
(* frame holds the set of neighbours that are left.                        *)
(***************************************************************************)
EXTENDS Integers, Sequences, FiniteSets, SequencesExt

CONSTANT Nodes  \* the gates, numbered in the order they were made

ASSUME NodesAssumption == IsFiniteSet(Nodes) /\ Nodes \subseteq Nat

VARIABLES
    wires,     \* the module's wires
    barriers,  \* the gates that hold a signal for a tick
    idx,       \* per gate visited, when it was visited
    low,       \* per gate visited, its low-link
    stack,     \* gates whose component is not known yet
    frames,    \* the search: a gate and the neighbours it has left
    result,    \* the components found
    judged,    \* how many of them have their verdict
    errors     \* the components reported, each with the loop shown

vars == <<wires, barriers, idx, low, stack, frames, result, judged, errors>>

Adj(v) == {w \in Nodes : <<v, w>> \in wires}

Visited  == DOMAIN idx
OnStack  == ToSet(stack)
Searched == frames = <<>> /\ Visited = Nodes

TypeOK ==
    /\ wires \subseteq Nodes \X Nodes
    /\ barriers \subseteq Nodes
    /\ Visited \subseteq Nodes
    /\ idx \in [Visited -> 0 .. Cardinality(Nodes) - 1]
    /\ low \in [Visited -> 0 .. Cardinality(Nodes) - 1]
    /\ OnStack \subseteq Visited
    /\ \A i \in DOMAIN frames : frames[i].left \subseteq Adj(frames[i].node)
    /\ \A i \in DOMAIN result : result[i] \subseteq Visited
    /\ judged \in 0 .. Len(result)

Init ==
    /\ wires \in SUBSET (Nodes \X Nodes)
    /\ barriers \in SUBSET Nodes
    /\ idx = <<>>
    /\ low = <<>>
    /\ stack = <<>>
    /\ frames = <<>>
    /\ result = <<>>
    /\ judged = 0
    /\ errors = {}

-----------------------------------------------------------------------------
(* The search. *)

Set(f, v, x) == [u \in DOMAIN f \union {v} |-> IF u = v THEN x ELSE f[u]]

Smaller(a, b) == IF a < b THEN a ELSE b

Visit(v, below) ==
    /\ idx' = Set(idx, v, Cardinality(Visited))
    /\ low' = Set(low, v, Cardinality(Visited))
    /\ stack' = Append(stack, v)
    /\ frames' = Append(below, [node |-> v, left |-> Adj(v)])

(* The next root is the first gate not visited. *)
Root ==
    /\ frames = <<>>
    /\ \E v \in Nodes \ Visited :
        /\ \A u \in Nodes \ Visited : v <= u
        /\ Visit(v, frames)
    /\ UNCHANGED <<wires, barriers, result, judged, errors>>

(* Mutant: a wire back to a gate whose component is known counts too. *)
CountsAlways(w) == TRUE

(* A wire to a gate visited before counts while its component is open. *)
Counts(w) == w \in OnStack

LeftAfter(left, w) == left \ {w}

(* One wire of the gate on top. *)
Look ==
    /\ frames # <<>>
    /\ \E w \in Last(frames).left :
        LET v    == Last(frames).node
            rest == Append(Front(frames), [Last(frames) EXCEPT !.left = LeftAfter(@, w)])
        IN  \/ /\ w \notin Visited
               /\ Visit(w, rest)
            \/ /\ w \in Visited
               /\ frames' = rest
               /\ low' = IF Counts(w) THEN [low EXCEPT ![v] = Smaller(@, idx[w])] ELSE low
               /\ UNCHANGED <<idx, stack>>
    /\ UNCHANGED <<wires, barriers, result, judged, errors>>

(* The low-links once the gate `v` on top has handed its own up. *)
Folded(v) ==
    IF Len(frames) = 1 THEN low
    ELSE [low EXCEPT ![frames[Len(frames) - 1].node] = Smaller(@, low[v])]

(* Mutant: the first gate of a component stays on the stack. *)
BelowAnd(at) == SubSeq(stack, 1, at)

Below(at) == SubSeq(stack, 1, at - 1)

(* No wire is left: close the component if its first gate is this one. *)
Close ==
    /\ frames # <<>>
    /\ Last(frames).left = {}
    /\ LET v  == Last(frames).node
           at == CHOOSE i \in DOMAIN stack : stack[i] = v
       IN  /\ IF low[v] = idx[v]
              THEN /\ result' = Append(result, ToSet(SubSeq(stack, at, Len(stack))))
                   /\ stack' = Below(at)
              ELSE UNCHANGED <<result, stack>>
           /\ low' = Folded(v)
    /\ frames' = Front(frames)
    /\ UNCHANGED <<wires, barriers, idx, judged, errors>>

-----------------------------------------------------------------------------
(* The verdicts. *)

(* Mutant: a loop of one gate is taken for no loop. *)
LoopsNotAlone(scc) == Cardinality(scc) > 1

(* A component of one gate is a loop only with a wire to itself. *)
Loops(scc) == Cardinality(scc) > 1 \/ \E v \in scc : v \in Adj(v)

HasBarrier(scc) == scc \intersect barriers # {}

(* Mutant: the loop shown starts where the walk started. *)
LoopsOnWalks(walk, next) == walk

(* The walk came back to the gate `next`: the loop is the part from there. *)
LoopOn(walk, next) ==
    SubSeq(walk, CHOOSE i \in DOMAIN walk : walk[i] = next, Len(walk))

(* The loops find_cycle_path may show: it walks along the wires that stay in
   the component, from any of its gates, until it comes back to itself. *)
CyclePaths(scc) ==
    LET IsWalk(walk) ==
            /\ \A i, j \in DOMAIN walk : i # j => walk[i] # walk[j]
            /\ \A i \in 1 .. Len(walk) - 1 : walk[i + 1] \in Adj(walk[i])
        Walks == {walk \in UNION {[1 .. n -> scc] : n \in 1 .. Cardinality(scc)} : IsWalk(walk)}
    IN  {LoopOn(p[1], p[2]) : p \in {q \in Walks \X scc :
                                        /\ q[2] \in Adj(Last(q[1]))
                                        /\ q[2] \in ToSet(q[1])}}

(* analyze_module, one component. *)
Judge ==
    /\ Searched
    /\ judged < Len(result)
    /\ judged' = judged + 1
    /\ LET scc == result[judged + 1]
       IN  IF Loops(scc) /\ ~HasBarrier(scc)
           THEN \E path \in CyclePaths(scc) :
                    errors' = errors \union {[scc |-> scc, path |-> path]}
           ELSE UNCHANGED errors
    /\ UNCHANGED <<wires, barriers, idx, low, stack, frames, result>>

Done ==
    /\ Searched
    /\ judged = Len(result)

Next == Root \/ Look \/ Close \/ Judge \/ (Done /\ UNCHANGED vars)

Spec == Init /\ [][Next]_vars /\ WF_vars(Next)

-----------------------------------------------------------------------------
(* Properties. *)

(* The gates a signal gets to from `v` along `edges`: those in every set of
   gates that holds what a wire leads to, from `v` or from one of its own. *)
Reach(edges, v) ==
    {w \in Nodes : \A us \in SUBSET Nodes :
        (\A e \in edges : e[1] \in us \union {v} => e[2] \in us) => w \in us}

(* Every component found is one: all that its gates reach and that reach them
   back, and nothing else. *)
ComponentsRight ==
    \A i \in DOMAIN result : \A v \in result[i] :
        result[i] = {v} \union {w \in Nodes : w \in Reach(wires, v) /\ v \in Reach(wires, w)}

(* A gate whose component is not closed is an ancestor's companion: it still
   reaches a gate of the search. *)
OpenReachesSearch ==
    \A v \in OnStack : \E i \in DOMAIN frames :
        frames[i].node = v \/ frames[i].node \in Reach(wires, v)

(* What the search knows of the components is right. *)
SearchRight == TypeOK /\ ComponentsRight /\ OpenReachesSearch

(* "so the message shows the actual back-edge path": what is shown is a loop of
   wires, from its first gate around to it, with no barrier on it. *)
ErrorsShowLoops ==
    \A e \in errors :
        /\ \A i \in DOMAIN e.path :
              e.path[IF i = Len(e.path) THEN 1 ELSE i + 1] \in Adj(e.path[i])
        /\ ToSet(e.path) \intersect barriers = {}

(* The loops of which no gate's component has a barrier are all reported. *)
BarrierlessReported ==
    Done => \A v \in Nodes :
        (/\ v \in Reach(wires, v)
         /\ \A b \in barriers : ~(b \in Reach(wires, v) /\ v \in Reach(wires, b)))
        => \E e \in errors : v \in e.scc

(* What is reported are loops, and none without a barrier is missed. *)
LoopsReported == ErrorsShowLoops /\ BarrierlessReported

(* The search and what is reported of it: the components, whatever order the
   wires are looked at in, and their loops. *)
CyclesRight == SearchRight /\ LoopsReported

(* The wires between gates that hold no signal back. *)
Free == {w \in wires : {w[1], w[2]} \intersect barriers = {}}

(* "every cycle must cross a Buffer": in a program that passes, no signal comes
   back to its gate without crossing a barrier. *)
EveryCycleCrosses ==
    Done /\ errors = {} => \A v \in Nodes : v \notin Reach(Free, v)
=============================================================================

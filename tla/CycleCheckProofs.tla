-------------------------- MODULE CycleCheckProofs --------------------------
(***************************************************************************)
(* Proofs about CycleCheck, for every finite graph and every order in      *)
(* which the wires of a gate are looked at: what the search closes are the *)
(* components, what is shown is a loop, and none without a barrier is      *)
(* missed.                                                                 *)
(*                                                                         *)
(* Reach is no recursion but a least closed set, so that nothing here is   *)
(* an induction over the graph: what cannot be reached is shown by a set   *)
(* that no wire leads out of.  Those of the search are the components      *)
(* closed (Apart), and with them, once its low-link is its own number,     *)
(* what stands on the stack above a gate (Lows).                           *)
(***************************************************************************)
EXTENDS CycleCheck, FiniteSetTheorems, SequenceTheorems, TLAPS

(* There is a way of wires from `u` to `w`, or they are one gate. *)
Gets(u, w) == u = w \/ w \in Reach(wires, u)

(* The wire from `u` to `w` has been looked at. *)
Seen(u, w) ==
    /\ w \in Adj(u)
    /\ \A i \in DOMAIN frames : frames[i].node = u => w \notin frames[i].left

(* The search: how deep it is, and its gates. *)
Depths  == DOMAIN frames
Gate(i) == frames[i].node

Closed == Visited \ OnStack

Shapes ==
    /\ wires \subseteq Nodes \X Nodes
    /\ barriers \subseteq Nodes
    /\ Visited \subseteq Nodes
    /\ idx \in [Visited -> Nat]
    /\ low \in [Visited -> Nat]
    /\ stack \in Seq(Visited)
    /\ frames \in Seq([node : Visited, left : SUBSET Nodes])
    /\ result \in Seq(SUBSET Nodes)
    /\ judged \in 0 .. Len(result)

(* The times of the visits are those before now, one for each gate. *)
Times ==
    /\ \A v \in Visited : idx[v] < Cardinality(Visited) /\ low[v] < Cardinality(Visited)
    /\ \A v, w \in Visited : idx[v] = idx[w] => v = w

(* The stack and the search are in the order of the visits, and the gates of
   the search are on the stack. *)
Ordered ==
    /\ \A i, j \in DOMAIN stack : i < j => idx[stack[i]] < idx[stack[j]]
    /\ \A i, j \in Depths : i < j => idx[Gate(i)] < idx[Gate(j)]
    /\ \A i \in Depths :
          Gate(i) \in OnStack /\ frames[i].left \subseteq Adj(Gate(i))

(* What a wire looked at leads to has been visited. *)
Looked == \A u \in Visited : \A w \in Nodes : Seen(u, w) => w \in Visited

(* The gates of the components found are those that left the stack, and no
   wire leads out of them. *)
Apart ==
    /\ \A i \in DOMAIN result : result[i] \subseteq Closed
    /\ \A u \in Closed : \E i \in DOMAIN result : u \in result[i]
    /\ \A u \in Closed : Adj(u) \subseteq Closed

(* A gate of the search gets to every open gate visited after it. *)
Descends ==
    \A i \in Depths : \A x \in OnStack :
        idx[Gate(i)] <= idx[x] => Gets(Gate(i), x)

(* An open gate gets to one of the search that was visited before it. *)
Ascends ==
    \A x \in OnStack : \E i \in Depths :
        idx[Gate(i)] <= idx[x] /\ Gets(x, Gate(i))

(* `x` was visited from gate `i` of the search and from no later one. *)
Under(i, x) ==
    /\ idx[Gate(i)] <= idx[x]
    /\ \A j \in Depths : i < j => idx[x] < idx[Gate(j)]

(* A low-link is when some open gate was visited that its gate gets to, and no
   wire looked at leads from under its gate to an open one visited earlier. *)
Lows ==
    \A i \in Depths :
        /\ low[Gate(i)] <= idx[Gate(i)]
        /\ \E y \in OnStack : idx[y] = low[Gate(i)] /\ Gets(Gate(i), y)
        /\ \A x, w \in OnStack :
              Under(i, x) /\ Seen(x, w) => low[Gate(i)] <= idx[w]

(* The components judged that are loops without a barrier are reported. *)
Reported ==
    \A i \in 1 .. judged :
        Loops(result[i]) /\ ~HasBarrier(result[i]) => \E e \in errors : e.scc = result[i]

(* The search, the components and the reports, together inductive. *)
SearchInv == Shapes /\ Times /\ Ordered /\ Looked /\ Apart /\ Descends /\ Ascends /\ Lows
IInv == SearchInv /\ ComponentsRight /\ ErrorsShowLoops /\ Reported

-----------------------------------------------------------------------------
(* What a signal gets to. *)

(* A set that no wire leads out of holds what is reached from it. *)
LEMMA ReachWithin ==
    ASSUME NEW edges, NEW v \in Nodes, NEW us \in SUBSET Nodes,
           edges \subseteq Nodes \X Nodes,
           \A w \in Nodes : <<v, w>> \in edges => w \in us,
           \A u \in us, w \in Nodes : <<u, w>> \in edges => w \in us
    PROVE  Reach(edges, v) \subseteq us
<1>1. ASSUME NEW e \in edges, e[1] \in us \union {v}
      PROVE  e[2] \in us
  <2>1. e = <<e[1], e[2]>> /\ e[1] \in Nodes /\ e[2] \in Nodes
    BY <1>1
  <2> QED
    BY <1>1, <2>1
<1> QED
  BY <1>1 DEF Reach

(* A wire is a way, and a way goes on along every wire. *)
LEMMA ReachOn ==
    ASSUME NEW edges, NEW v \in Nodes, NEW w \in Nodes, NEW u,
           <<u, w>> \in edges, u = v \/ u \in Reach(edges, v)
    PROVE  w \in Reach(edges, v)
<1>1. ASSUME NEW us \in SUBSET Nodes,
             \A e \in edges : e[1] \in us \union {v} => e[2] \in us
      PROVE  w \in us
  <2>1. u \in us \union {v}
    BY <1>1 DEF Reach
  <2>2. <<u, w>>[1] = u /\ <<u, w>>[2] = w
    OBVIOUS
  <2> QED
    BY <1>1, <2>1, <2>2
<1> QED
  BY <1>1 DEF Reach

(* Two ways make one. *)
LEMMA ReachTrans ==
    ASSUME NEW edges, edges \subseteq Nodes \X Nodes,
           NEW u \in Nodes, NEW v \in Reach(edges, u), NEW w \in Reach(edges, v)
    PROVE  w \in Reach(edges, u)
<1>1. Reach(edges, u) \subseteq Nodes /\ v \in Nodes
  BY DEF Reach
<1>2. Reach(edges, v) \subseteq Reach(edges, u)
  <2>1. \A x \in Nodes : <<v, x>> \in edges => x \in Reach(edges, u)
    BY <1>1, ReachOn
  <2>2. \A y \in Reach(edges, u), x \in Nodes : <<y, x>> \in edges => x \in Reach(edges, u)
    BY ReachOn
  <2> QED
    BY <1>1, <2>1, <2>2, ReachWithin
<1> QED
  BY <1>2

(* The same of ways that may have no wire. *)
LEMMA GetsOn ==
    ASSUME Shapes, NEW u \in Nodes, NEW v \in Nodes, NEW w \in Adj(v), Gets(u, v)
    PROVE  w \in Reach(wires, u) /\ Gets(u, w)
BY ReachOn DEF Shapes, Gets, Adj

LEMMA GetsTrans ==
    ASSUME Shapes, NEW u \in Nodes, NEW v \in Nodes, NEW w \in Nodes,
           Gets(u, v), Gets(v, w)
    PROVE  Gets(u, w)
BY ReachTrans DEF Shapes, Gets

-----------------------------------------------------------------------------
(* The steps of the search. *)

(* What Shapes says of the search. *)
LEMMA Shaped ==
    ASSUME Shapes
    PROVE  /\ Len(frames) \in Nat /\ Depths = 1 .. Len(frames)
           /\ \A i \in Depths : Gate(i) \in Visited
           /\ OnStack \subseteq Visited /\ Visited \subseteq Nodes
           /\ \A u \in Visited : idx[u] \in Nat /\ low[u] \in Nat
<1> DEFINE Frame == [node : Visited, left : SUBSET Nodes]
<1>1. \A i \in DOMAIN frames : frames[i].node \in Visited
  <2>1. frames \in Seq(Frame) /\ \A f \in Frame : f.node \in Visited
    BY DEF Shapes
  <2> HIDE DEF Frame
  <2> QED
    BY <2>1
<1>2. \A i \in DOMAIN stack : stack[i] \in Visited
  BY DEF Shapes
<1>3. Len(frames) \in Nat /\ DOMAIN frames = 1 .. Len(frames)
  BY DEF Shapes
<1> QED
  BY <1>1, <1>2, <1>3 DEF Shapes, Depths, Gate, OnStack, ToSet

(* What Visit does to the numbers, the stack and the frames. *)
LEMMA Visits ==
    ASSUME Shapes, NEW v \in Nodes \ Visited,
           NEW below \in Seq([node : Visited, left : SUBSET Nodes]), Visit(v, below)
    PROVE  /\ Visited' = Visited \union {v}
           /\ Cardinality(Visited) \in Nat /\ Cardinality(Visited)' = Cardinality(Visited) + 1
           /\ \A u \in Visited : idx'[u] = idx[u] /\ low'[u] = low[u]
           /\ idx'[v] = Cardinality(Visited) /\ low'[v] = Cardinality(Visited)
           /\ idx' \in [Visited' -> Nat] /\ low' \in [Visited' -> Nat]
           /\ stack' \in Seq(Visited') /\ OnStack' = OnStack \union {v}
           /\ DOMAIN stack' = 1 .. Len(stack) + 1
           /\ \A i \in DOMAIN stack : stack'[i] = stack[i]
           /\ stack'[Len(stack) + 1] = v
           /\ frames' \in Seq([node : Visited', left : SUBSET Nodes])
           /\ DOMAIN frames' = 1 .. Len(below) + 1
           /\ \A i \in DOMAIN below : frames'[i] = below[i]
           /\ frames'[Len(below) + 1] = [node |-> v, left |-> Adj(v)]
<1>1. IsFiniteSet(Visited)
  BY NodesAssumption, FS_Subset DEF Shapes
<1>2. Visited' = Visited \union {v}
  BY DEF Visit, Set, Shapes, Visited
<1>3. Cardinality(Visited) \in Nat /\ Cardinality(Visited)' = Cardinality(Visited) + 1
  BY <1>1, <1>2, FS_CardinalityType, FS_AddElement
<1>4. /\ \A u \in Visited : idx'[u] = idx[u] /\ low'[u] = low[u]
      /\ idx'[v] = Cardinality(Visited) /\ low'[v] = Cardinality(Visited)
      /\ idx' \in [Visited' -> Nat] /\ low' \in [Visited' -> Nat]
  BY <1>2, <1>3 DEF Visit, Set, Shapes, Visited
<1>5. stack \in Seq(Visited') /\ v \in Visited'
  BY <1>2, SeqMonotonic DEF Shapes
<1>6. /\ stack' \in Seq(Visited')
      /\ DOMAIN stack' = 1 .. Len(stack) + 1
      /\ \A i \in DOMAIN stack : stack'[i] = stack[i]
      /\ stack'[Len(stack) + 1] = v
  BY <1>5 DEF Visit
<1>7. OnStack' = OnStack \union {v}
  BY <1>5, <1>6 DEF OnStack, ToSet
<1>8. below \in Seq([node : Visited', left : SUBSET Nodes])
  <2>1. [node : Visited, left : SUBSET Nodes] \subseteq [node : Visited', left : SUBSET Nodes]
    BY <1>2
  <2> QED
    BY <2>1, SeqMonotonic
<1>9. [node |-> v, left |-> Adj(v)] \in [node : Visited', left : SUBSET Nodes]
  BY <1>5 DEF Adj
<1>10. /\ frames' \in Seq([node : Visited', left : SUBSET Nodes])
       /\ DOMAIN frames' = 1 .. Len(below) + 1
       /\ \A i \in DOMAIN below : frames'[i] = below[i]
       /\ frames'[Len(below) + 1] = [node |-> v, left |-> Adj(v)]
  BY <1>8, <1>9 DEF Visit
<1> QED
  BY <1>2, <1>3, <1>4, <1>6, <1>7, <1>10

(* What the search sees of it. *)
Enters(v) ==
    LET now == Cardinality(Visited)
        n   == Len(frames)
    IN  /\ Visited' = Visited \union {v} /\ v \notin Visited
        /\ now \in Nat /\ Cardinality(Visited)' = now + 1
        /\ \A u \in Visited : /\ idx'[u] = idx[u] /\ low'[u] = low[u]
                             /\ idx[u] \in Nat /\ low[u] \in Nat
        /\ idx'[v] = now /\ low'[v] = now
        /\ OnStack' = OnStack \union {v} /\ OnStack \subseteq Visited
        /\ n \in Nat /\ Depths = 1 .. n /\ Depths' = 1 .. n + 1
        /\ \A i \in Depths : Gate(i)' = Gate(i) /\ Gate(i) \in Visited
        /\ \A i \in Depths' \ Depths : Gate(i)' = v
        /\ \A u, w : Adj(u)' = Adj(u) /\ (Gets(u, w)' <=> Gets(u, w))
        /\ \A u \in Visited : \A w \in Nodes : Seen(u, w)' => Seen(u, w) \/ w = v
        /\ \A w : ~ Seen(v, w)'
        /\ n = 0 \/ v \in Adj(Gate(n))

(* Visit is such a step, whether for a root or for a neighbour. *)
LEMMA VisitEnters ==
    ASSUME Shapes, NEW v \in Nodes \ Visited,
           NEW below \in Seq([node : Visited, left : SUBSET Nodes]),
           Len(below) = Len(frames),
           \A i \in DOMAIN frames : /\ below[i].node = frames[i].node
                                    /\ frames[i].left \subseteq below[i].left \union {v},
           frames # <<>> => v \in Adj(Last(frames).node),
           Visit(v, below), wires' = wires
    PROVE  Enters(v)
<1> DEFINE n == Len(frames)
<1>1. /\ Visited' = Visited \union {v}
      /\ Cardinality(Visited) \in Nat /\ Cardinality(Visited)' = Cardinality(Visited) + 1
      /\ \A u \in Visited : idx'[u] = idx[u] /\ low'[u] = low[u]
      /\ idx'[v] = Cardinality(Visited) /\ low'[v] = Cardinality(Visited)
      /\ OnStack' = OnStack \union {v}
      /\ DOMAIN frames' = 1 .. n + 1
      /\ \A i \in DOMAIN below : frames'[i] = below[i]
      /\ frames'[n + 1] = [node |-> v, left |-> Adj(v)]
  <2>1. /\ Visited' = Visited \union {v}
        /\ Cardinality(Visited) \in Nat /\ Cardinality(Visited)' = Cardinality(Visited) + 1
        /\ \A u \in Visited : idx'[u] = idx[u] /\ low'[u] = low[u]
        /\ idx'[v] = Cardinality(Visited) /\ low'[v] = Cardinality(Visited)
        /\ OnStack' = OnStack \union {v}
    BY Visits, Zenon
  <2>2. /\ DOMAIN frames' = 1 .. Len(below) + 1
        /\ \A i \in DOMAIN below : frames'[i] = below[i]
        /\ frames'[Len(below) + 1] = [node |-> v, left |-> Adj(v)]
    BY Visits, Zenon
  <2>3. Len(below) = n
    OBVIOUS
  <2> HIDE DEF n
  <2> QED
    BY <2>1, <2>2, <2>3, Zenon
<1>2. /\ idx \in [Visited -> Nat] /\ low \in [Visited -> Nat] /\ stack \in Seq(Visited)
      /\ frames \in Seq([node : Visited, left : SUBSET Nodes])
  BY DEF Shapes
<1>3. n \in Nat /\ Depths = 1 .. n /\ Depths' = 1 .. n + 1 /\ DOMAIN below = 1 .. n
  BY <1>1, <1>2 DEF Depths
<1>4. OnStack \subseteq Visited /\ \A i \in Depths : Gate(i) \in Visited
  BY Shaped
<1>6. \A i \in Depths : frames'[i] = below[i]
  BY <1>1, <1>3, Zenon
<1>7. \A i \in Depths : Gate(i)' = Gate(i)
  BY <1>6 DEF Depths, Gate
<1>8. \A i \in Depths' \ Depths : Gate(i)' = v
  BY <1>1, <1>3 DEF Gate
<1>9. \A u, w : Adj(u)' = Adj(u) /\ (Gets(u, w)' <=> Gets(u, w))
  BY DEF Adj, Gets
<1>10. ASSUME NEW u \in Visited, NEW w \in Nodes, Seen(u, w)', w # v
       PROVE  Seen(u, w)
  <2>1. w \in Adj(u) /\ \A i \in Depths' : Gate(i)' = u => w \notin frames'[i].left
    BY <1>9, <1>10 DEF Seen, Depths, Gate
  <2>2. ASSUME NEW i \in Depths, Gate(i) = u
        PROVE  w \notin frames[i].left
    <3>1. i \in Depths'
      BY <1>3
    <3>2. w \notin below[i].left
      BY <1>6, <1>7, <2>1, <2>2, <3>1
    <3> QED
      BY <1>10, <3>2 DEF Depths
  <2> QED
    BY <2>1, <2>2 DEF Seen, Depths, Gate
<1>11. \A w : ~ Seen(v, w)'
  <2>1. n + 1 \in Depths' /\ frames'[n + 1].node = v /\ frames'[n + 1].left = Adj(v)
    BY <1>1, <1>3
  <2> QED
    BY <1>9, <2>1 DEF Seen, Depths
<1>12. n = 0 \/ v \in Adj(Gate(n))
  BY <1>2 DEF Last, Gate
<1> HIDE DEF n
<1> QED
  BY <1>1, <1>2, <1>3, <1>4, <1>7, <1>8, <1>9, <1>10, <1>11, <1>12 DEF Enters, n

(* Entering a gate keeps the search right. *)
LEMMA EnterKeeps ==
    ASSUME SearchInv, NEW v \in Nodes, Enters(v)
    PROVE  Looked' /\ Descends' /\ Ascends' /\ Lows'
<1> DEFINE n == Len(frames)
           now == Cardinality(Visited)
<1>0. Shapes /\ Times /\ Ordered /\ Looked /\ Descends /\ Ascends /\ Lows
  BY DEF SearchInv
<1>1. /\ Visited' = Visited \union {v} /\ v \notin Visited
      /\ now \in Nat /\ Cardinality(Visited)' = now + 1
      /\ \A u \in Visited : /\ idx'[u] = idx[u] /\ low'[u] = low[u]
                           /\ idx[u] \in Nat /\ low[u] \in Nat
                           /\ idx[u] < now /\ low[u] < now
      /\ idx'[v] = now /\ low'[v] = now
  BY <1>0 DEF Enters, Times
<1>2. OnStack' = OnStack \union {v} /\ OnStack \subseteq Visited
  BY DEF Enters
<1>3. n \in Nat /\ Depths = 1 .. n /\ Depths' = 1 .. n + 1
  BY DEF Enters
<1>4. /\ \A i \in Depths : Gate(i)' = Gate(i) /\ Gate(i) \in Visited
      /\ \A i \in Depths' \ Depths : Gate(i)' = v
  BY DEF Enters
<1>5. \A u, w : Adj(u)' = Adj(u) /\ (Gets(u, w)' <=> Gets(u, w))
  BY DEF Enters
<1>6. /\ \A u \in Visited : \A w \in Nodes : Seen(u, w)' => Seen(u, w) \/ w = v
      /\ \A w : ~ Seen(v, w)'
  BY DEF Enters
<1>7. n = 0 \/ v \in Adj(Gate(n))
  BY DEF Enters
<1> HIDE DEF n, now
<1>8. Depths \subseteq Depths' /\ \E i : i \in Depths' \ Depths
  <2>1. n + 1 \in Depths' \ Depths
    BY <1>3
  <2> QED
    BY <1>3, <2>1
<1>9. Looked'
  BY <1>0, <1>1, <1>6 DEF Looked
<1>10. \A i \in Depths : Gets(Gate(i), v)
  <2> SUFFICES ASSUME NEW i \in Depths
               PROVE  Gets(Gate(i), v)
    OBVIOUS
  <2>1. n \in Depths /\ v \in Adj(Gate(n)) /\ i <= n
    BY <1>3, <1>7
  <2>2. i < n => idx[Gate(i)] < idx[Gate(n)]
    BY <1>0, <2>1 DEF Ordered
  <2>3. idx[Gate(i)] <= idx[Gate(n)]
    <3>1. idx[Gate(i)] \in Nat /\ idx[Gate(n)] \in Nat /\ i \in Int /\ n \in Int
      BY <1>1, <1>3, <1>4, <2>1
    <3> QED
      BY <2>1, <2>2, <3>1
  <2>4. Gate(n) \in OnStack
    BY <1>0, <2>1 DEF Ordered
  <2>5. Gets(Gate(i), Gate(n))
    BY <1>0, <2>3, <2>4 DEF Descends
  <2>6. Gate(i) \in Nodes /\ Gate(n) \in Nodes
    BY <1>0, <1>4, <2>1 DEF Shapes
  <2> QED
    BY <1>0, <2>1, <2>5, <2>6, GetsOn
<1>11. Descends'
  <2> SUFFICES ASSUME NEW i \in Depths', NEW x \in OnStack', idx'[Gate(i)'] <= idx'[x]
               PROVE  Gets(Gate(i)', x)
    BY <1>5 DEF Descends
  <2>1. CASE i \notin Depths
    <3>1. x = v
      BY <1>1, <1>2, <1>4, <2>1
    <3> QED
      BY <1>4, <2>1, <3>1 DEF Gets
  <2>2. CASE i \in Depths /\ x = v
    BY <1>4, <1>10, <2>2
  <2>3. CASE i \in Depths /\ x \in OnStack
    <3>1. idx[Gate(i)] <= idx[x]
      BY <1>1, <1>2, <1>4, <2>3
    <3> QED
      BY <1>0, <1>4, <2>3, <3>1 DEF Descends
  <2> QED
    BY <1>2, <2>1, <2>2, <2>3
<1>12. Ascends'
  <2> SUFFICES ASSUME NEW x \in OnStack'
               PROVE  \E i \in Depths' : idx'[Gate(i)'] <= idx'[x] /\ Gets(x, Gate(i)')
    BY <1>5 DEF Ascends
  <2>1. CASE x = v
    BY <1>1, <1>4, <1>8, <2>1 DEF Gets
  <2>2. CASE x \in OnStack
    <3>1. PICK i \in Depths : idx[Gate(i)] <= idx[x] /\ Gets(x, Gate(i))
      BY <1>0, <2>2 DEF Ascends
    <3> QED
      BY <1>1, <1>2, <1>4, <1>8, <2>2, <3>1
  <2> QED
    BY <1>2, <2>1, <2>2
<1>13. Lows'
  <2>1. ASSUME NEW i \in Depths
        PROVE  /\ low'[Gate(i)'] <= idx'[Gate(i)']
               /\ \E y \in OnStack' : idx'[y] = low'[Gate(i)'] /\ Gets(Gate(i)', y)
               /\ \A x, w \in OnStack' :
                     Under(i, x)' /\ Seen(x, w)' => low'[Gate(i)'] <= idx'[w]
    <3>1. /\ low[Gate(i)] <= idx[Gate(i)]
          /\ \E y \in OnStack : idx[y] = low[Gate(i)] /\ Gets(Gate(i), y)
          /\ \A x, w \in OnStack : Under(i, x) /\ Seen(x, w) => low[Gate(i)] <= idx[w]
      BY <1>0 DEF Lows
    <3>2. low'[Gate(i)'] = low[Gate(i)] /\ idx'[Gate(i)'] = idx[Gate(i)]
      BY <1>1, <1>4
    <3>3. ASSUME NEW x \in OnStack', NEW w \in OnStack', Under(i, x)', Seen(x, w)'
          PROVE  low[Gate(i)] <= idx'[w]
      <4>1. x \in OnStack /\ x \in Visited
        BY <1>2, <1>6, <3>3
      <4>2. CASE w = v
        BY <1>1, <1>4, <4>2
      <4>3. CASE w # v
        <5>1. w \in OnStack /\ w \in Nodes
          BY <1>0, <1>2, <3>3, <4>3 DEF Shapes
        <5>2. Seen(x, w)
          BY <1>6, <3>3, <4>1, <4>3, <5>1
        <5>3. /\ idx'[Gate(i)'] <= idx'[x]
              /\ \A j \in Depths' : i < j => idx'[x] < idx'[Gate(j)']
          BY <3>3 DEF Under
        <5>4. Under(i, x)
          BY <1>1, <1>2, <1>4, <1>8, <4>1, <5>3 DEF Under
        <5>5. low[Gate(i)] <= idx[w]
          BY <3>1, <4>1, <5>1, <5>2, <5>4
        <5> QED
          BY <1>1, <1>2, <5>1, <5>5
      <4> QED
        BY <4>2, <4>3
    <3>4. \E y \in OnStack' : idx'[y] = low[Gate(i)] /\ Gets(Gate(i), y)
      BY <1>1, <1>2, <3>1
    <3> QED
      BY <1>4, <3>1, <3>2, <3>3, <3>4
  <2>2. ASSUME NEW i \in Depths' \ Depths
        PROVE  /\ low'[Gate(i)'] <= idx'[Gate(i)']
               /\ \E y \in OnStack' : idx'[y] = low'[Gate(i)'] /\ Gets(Gate(i)', y)
               /\ \A x, w \in OnStack' :
                     Under(i, x)' /\ Seen(x, w)' => low'[Gate(i)'] <= idx'[w]
    <3>1. ASSUME NEW x \in OnStack', Under(i, x)'
          PROVE  x = v
      <4>1. idx'[Gate(i)'] <= idx'[x]
        BY <3>1 DEF Under
      <4> QED
        BY <1>1, <1>2, <1>4, <4>1
    <3> QED
      BY <1>1, <1>2, <1>4, <1>6, <3>1 DEF Gets
  <2> SUFFICES ASSUME NEW i \in Depths'
               PROVE  /\ low'[Gate(i)'] <= idx'[Gate(i)']
                      /\ \E y \in OnStack' : idx'[y] = low'[Gate(i)'] /\ Gets(Gate(i)', y)
                      /\ \A x, w \in OnStack' :
                            Under(i, x)' /\ Seen(x, w)' => low'[Gate(i)'] <= idx'[w]
    BY <1>5, Zenon DEF Lows
  <2> QED
    BY <2>1, <2>2, Zenon
<1> QED
  BY <1>9, <1>11, <1>12, <1>13

(* Visiting a gate not yet visited, from the one on top if any is open, keeps
   the search right. *)
LEMMA VisitKeeps ==
    ASSUME SearchInv, NEW v \in Nodes \ Visited,
           NEW below \in Seq([node : Visited, left : SUBSET Nodes]),
           Len(below) = Len(frames),
           \A i \in DOMAIN frames : /\ below[i].node = frames[i].node
                                    /\ below[i].left \subseteq frames[i].left
                                    /\ frames[i].left \subseteq below[i].left \union {v},
           frames # <<>> => v \in Adj(Last(frames).node),
           Visit(v, below), UNCHANGED <<wires, barriers, result, judged>>
    PROVE  SearchInv'
<1>0. Shapes /\ Times /\ Ordered /\ Apart
  BY DEF SearchInv
<1>1. Enters(v)
  BY <1>0, VisitEnters
<1>2. /\ idx' \in [Visited' -> Nat] /\ low' \in [Visited' -> Nat]
      /\ stack' \in Seq(Visited')
      /\ DOMAIN stack' = 1 .. Len(stack) + 1
      /\ \A i \in DOMAIN stack : stack'[i] = stack[i]
      /\ stack'[Len(stack) + 1] = v
      /\ frames' \in Seq([node : Visited', left : SUBSET Nodes])
  BY <1>0, Visits, Zenon
<1>3. /\ Visited' = Visited \union {v} /\ v \notin Visited
      /\ Cardinality(Visited) \in Nat /\ Cardinality(Visited)' = Cardinality(Visited) + 1
      /\ \A u \in Visited : /\ idx'[u] = idx[u] /\ low'[u] = low[u]
                           /\ idx[u] \in Nat /\ low[u] \in Nat
      /\ idx'[v] = Cardinality(Visited) /\ low'[v] = Cardinality(Visited)
      /\ OnStack' = OnStack \union {v} /\ OnStack \subseteq Visited
  BY <1>1 DEF Enters
<1>4. Shapes'
  BY <1>0, <1>2, <1>3 DEF Shapes
<1>5. Times'
  BY <1>0, <1>3 DEF Times
<1>6. Ordered'
  <2>1. ASSUME NEW i \in DOMAIN stack', NEW j \in DOMAIN stack', i < j
        PROVE  idx'[stack'[i]] < idx'[stack'[j]]
    <3>1. DOMAIN stack = 1 .. Len(stack) /\ Len(stack) \in Nat
          /\ \A k \in DOMAIN stack : stack[k] \in Visited
      BY <1>0 DEF Shapes
    <3>2. i \in DOMAIN stack /\ (j \in DOMAIN stack \/ j = Len(stack) + 1)
      BY <1>2, <2>1, <3>1
    <3>3. CASE j \in DOMAIN stack
      <4>1. idx[stack[i]] < idx[stack[j]]
        BY <1>0, <2>1, <3>2, <3>3 DEF Ordered
      <4>2. stack'[i] = stack[i] /\ stack'[j] = stack[j]
        BY <1>2, <3>2, <3>3, Zenon
      <4>3. stack[i] \in Visited /\ stack[j] \in Visited
        BY <3>1, <3>2, <3>3, Zenon
      <4> QED
        BY <1>3, <4>1, <4>2, <4>3
    <3>4. CASE j = Len(stack) + 1
      <4>1. stack'[i] \in Visited /\ stack'[j] = v
        BY <1>2, <3>1, <3>2, <3>4
      <4> QED
        BY <1>0, <1>3, <4>1 DEF Times
    <3> QED
      BY <3>2, <3>3, <3>4
  <2>2. /\ Len(frames) \in Nat /\ Depths = 1 .. Len(frames) /\ Depths' = 1 .. Len(frames) + 1
        /\ \A i \in Depths : Gate(i)' = Gate(i) /\ Gate(i) \in Visited
        /\ \A i \in Depths' \ Depths : Gate(i)' = v
        /\ \A u : Adj(u)' = Adj(u)
    BY <1>1 DEF Enters
  <2>3. ASSUME NEW i \in Depths', NEW j \in Depths', i < j
        PROVE  idx'[Gate(i)'] < idx'[Gate(j)']
    <3>1. i \in Depths
      BY <2>2, <2>3
    <3>2. CASE j \in Depths
      BY <1>0, <1>3, <2>2, <2>3, <3>1, <3>2 DEF Ordered
    <3>3. CASE j \notin Depths
      <4>1. Gate(i)' \in Visited /\ Gate(j)' = v
        BY <2>2, <3>1, <3>3
      <4> QED
        BY <1>0, <1>3, <4>1 DEF Times
    <3> QED
      BY <3>2, <3>3
  <2>4. \A i \in DOMAIN below : frames'[i] = below[i]
    BY <1>0, Visits, Zenon
  <2>5. frames'[Len(frames) + 1] = [node |-> v, left |-> Adj(v)]
    <3>1. frames'[Len(below) + 1] = [node |-> v, left |-> Adj(v)]
      BY <1>0, Visits, Zenon
    <3> QED
      BY <3>1, Zenon
  <2>6. DOMAIN below = 1 .. Len(frames)
    OBVIOUS
  <2>7. ASSUME NEW i \in Depths'
        PROVE  Gate(i)' \in OnStack' /\ frames'[i].left \subseteq Adj(Gate(i)')
    <3>1. CASE i \in Depths
      <4>1. frames'[i].left \subseteq frames[i].left
        BY <2>2, <2>4, <2>6, <3>1 DEF Depths
      <4>2. Gate(i) \in OnStack /\ frames[i].left \subseteq Adj(Gate(i))
        BY <1>0, <3>1 DEF Ordered
      <4> QED
        BY <1>3, <2>2, <3>1, <4>1, <4>2
    <3>2. CASE i \notin Depths
      <4>1. i = Len(frames) + 1
        BY <2>2, <3>2
      <4> QED
        BY <1>3, <2>2, <2>5, <3>2, <4>1
    <3> QED
      BY <3>1, <3>2
  <2>8. \A i \in Depths' : Gate(i)' \in OnStack' /\ frames'[i].left \subseteq Adj(Gate(i))'
    BY <2>2, <2>7, Zenon
  <2> QED
    BY <2>1, <2>3, <2>8, Zenon DEF Ordered
<1>7. Apart'
  <2>1. Closed' = Closed
    BY <1>3 DEF Closed
  <2>2. \A u : Adj(u)' = Adj(u)
    BY DEF Adj
  <2> QED
    BY <1>0, <2>1, <2>2 DEF Apart
<1> QED
  BY <1>1, <1>4, <1>5, <1>6, <1>7, EnterKeeps DEF SearchInv

(* Starting from the next gate not visited. *)
LEMMA RootKeeps ==
    ASSUME SearchInv, Root
    PROVE  SearchInv'
<1>1. PICK v \in Nodes \ Visited : Visit(v, frames)
  BY DEF Root
<1>2. frames \in Seq([node : Visited, left : SUBSET Nodes]) /\ frames = <<>>
  BY DEF SearchInv, Shapes, Root
<1>3. UNCHANGED <<wires, barriers, result, judged>>
  BY DEF Root
<1> QED
  BY <1>1, <1>2, <1>3, VisitKeeps

(* The frames with one neighbour of the last taken out. *)
LEMMA Taken ==
    ASSUME Shapes, frames # <<>>, NEW w,
           NEW rest, rest = Append(Front(frames), [Last(frames) EXCEPT !.left = LeftAfter(@, w)])
    PROVE  /\ rest \in Seq([node : Visited, left : SUBSET Nodes])
           /\ Len(rest) = Len(frames)
           /\ \A i \in DOMAIN frames :
                 /\ rest[i].node = frames[i].node
                 /\ rest[i].left = IF i = Len(frames) THEN frames[i].left \ {w} ELSE frames[i].left
<1> DEFINE Frame == [node : Visited, left : SUBSET Nodes]
           n == Len(frames)
           top == [Last(frames) EXCEPT !.left = LeftAfter(@, w)]
<1>1. frames \in Seq(Frame)
  BY DEF Shapes
<1>0. n \in Nat \ {0} /\ DOMAIN frames = 1 .. n
  BY <1>1, EmptySeq
<1>2. frames[n] \in Frame
  <2> HIDE DEF Frame
  <2> QED
    BY <1>0, <1>1, ElementOfSeq
<1>3. top \in Frame /\ top.node = frames[n].node /\ top.left = frames[n].left \ {w}
  BY <1>2 DEF Last, LeftAfter
<1> HIDE DEF Frame, top
<1>4. Front(frames) \in Seq(Frame) /\ Len(Front(frames)) = n - 1
      /\ \A i \in 1 .. n - 1 : Front(frames)[i] = frames[i]
  <2>1. 1 \in 1 .. n + 1 /\ n - 1 \in 0 .. n
    BY <1>0
  <2> HIDE DEF n
  <2>2. /\ SubSeq(frames, 1, n - 1) \in Seq(Frame)
        /\ Len(SubSeq(frames, 1, n - 1)) = IF 1 <= n - 1 THEN (n - 1) - 1 + 1 ELSE 0
        /\ \A i \in 1 .. (n - 1) - 1 + 1 : SubSeq(frames, 1, n - 1)[i] = frames[1 + i - 1]
    BY <1>0, <1>1, <2>1, SubSeqProperties DEF n
  <2> QED
    BY <1>0, <2>2 DEF Front, n
<1>5. rest = Append(Front(frames), top)
  BY DEF top
<1>6. /\ rest \in Seq(Frame) /\ Len(rest) = n
      /\ \A i \in 1 .. n - 1 : rest[i] = frames[i]
      /\ rest[n] = top
  BY <1>3, <1>4, <1>5
<1>7. \A i \in 1 .. n : i \in 1 .. n - 1 \/ i = n
  <2> HIDE DEF n
  <2> QED
    BY <1>0
<1>8. ASSUME NEW i \in DOMAIN frames
      PROVE  /\ rest[i].node = frames[i].node
             /\ rest[i].left = IF i = n THEN frames[i].left \ {w} ELSE frames[i].left
  <2>1. CASE i \in 1 .. n - 1
    <3>1. i # n
      BY <1>0, <2>1
    <3> QED
      BY <1>6, <2>1, <3>1
  <2>2. CASE i = n
    BY <1>3, <1>6, <2>2
  <2> QED
    BY <1>0, <1>7, <2>1, <2>2
<1> QED
  BY <1>6, <1>8 DEF Frame

(* Looking at a wire to a gate visited, for what the search sees of it. *)
Notes(w) ==
    LET n == Len(frames)
        v == Gate(n)
    IN  /\ n \in Depths /\ n \in Nat /\ Depths = 1 .. n /\ Depths' = Depths
        /\ w \in Adj(v) /\ w \in Visited
        /\ idx' = idx /\ Visited' = Visited /\ OnStack' = OnStack
        /\ \A i \in Depths : Gate(i)' = Gate(i)
        /\ \A u, x : Adj(u)' = Adj(u) /\ (Gets(u, x)' <=> Gets(u, x))
        /\ \A u, x : Seen(u, x)' => Seen(u, x) \/ (u = v /\ x = w)
        /\ \A u \in Visited : u # v => low'[u] = low[u]
        /\ low'[v] = IF w \in OnStack /\ idx[w] < low[v] THEN idx[w] ELSE low[v]

(* It keeps the search right: only pairs of gate `v` and `w` are new. *)
LEMMA NoteKeeps ==
    ASSUME SearchInv, NEW w, Notes(w)
    PROVE  Looked' /\ Descends' /\ Ascends' /\ Lows'
<1> DEFINE n == Len(frames)
           v == Gate(n)
<1>0. Shapes /\ Times /\ Ordered /\ Looked /\ Descends /\ Ascends /\ Lows
  BY DEF SearchInv
<1>1. /\ \A i \in Depths : Gate(i) \in Visited
      /\ OnStack \subseteq Visited /\ Visited \subseteq Nodes
      /\ \A u \in Visited : idx[u] \in Nat /\ low[u] \in Nat
  BY <1>0, Shaped
<1>2. n \in Depths /\ n \in Nat /\ Depths = 1 .. n /\ Depths' = Depths
  BY DEF Notes
<1>3. w \in Adj(v) /\ w \in Visited
  BY DEF Notes
<1>4. idx' = idx /\ Visited' = Visited /\ OnStack' = OnStack
  BY DEF Notes
<1>5. \A i \in Depths : Gate(i)' = Gate(i)
  BY DEF Notes
<1>6. \A u, x : Adj(u)' = Adj(u) /\ (Gets(u, x)' <=> Gets(u, x))
  BY DEF Notes
<1>7. \A u, x : Seen(u, x)' => Seen(u, x) \/ (u = v /\ x = w)
  BY DEF Notes
<1>8. /\ \A u \in Visited : u # v => low'[u] = low[u]
      /\ low'[v] = IF w \in OnStack /\ idx[w] < low[v] THEN idx[w] ELSE low[v]
  BY DEF Notes
<1>9. \A i, j \in Depths : i < j => idx[Gate(i)] < idx[Gate(j)]
  BY <1>0 DEF Ordered
<1>10. v \in OnStack /\ v \in Visited
  BY <1>0, <1>1, <1>2 DEF Ordered
<1> HIDE DEF v
<1>11. Looked'
  BY <1>0, <1>3, <1>4, <1>7 DEF Looked
<1>12. Descends'
  BY <1>0, <1>2, <1>4, <1>5, <1>6 DEF Descends
<1>13. Ascends'
  BY <1>0, <1>2, <1>4, <1>5, <1>6 DEF Ascends
<1>14. \A i \in Depths, x \in OnStack : Under(i, x)' <=> Under(i, x)
  BY <1>2, <1>4, <1>5 DEF Under
<1>15. Lows'
  <2> SUFFICES ASSUME NEW i \in Depths
               PROVE  /\ low'[Gate(i)] <= idx[Gate(i)]
                      /\ \E y \in OnStack : idx[y] = low'[Gate(i)] /\ Gets(Gate(i), y)
                      /\ \A x, u \in OnStack :
                            Under(i, x) /\ Seen(x, u)' => low'[Gate(i)] <= idx[u]
    BY <1>2, <1>4, <1>5, <1>6, <1>14 DEF Lows
  <2>1. /\ low[Gate(i)] <= idx[Gate(i)]
        /\ \E y \in OnStack : idx[y] = low[Gate(i)] /\ Gets(Gate(i), y)
        /\ \A x, u \in OnStack : Under(i, x) /\ Seen(x, u) => low[Gate(i)] <= idx[u]
    BY <1>0 DEF Lows
  <2>2. CASE i = n
    <3>1. Gate(i) = v
      BY <2>2 DEF v
    <3>2. low'[v] <= low[v] /\ (w \in OnStack => low'[v] <= idx[w]) /\ low'[v] \in Nat
      BY <1>1, <1>3, <1>8, <1>10
    <3>3. w \in OnStack => Gets(v, w)
      BY <1>0, <1>1, <1>3, <1>10, GetsOn DEF Gets
    <3>4. \E y \in OnStack : idx[y] = low'[v] /\ Gets(v, y)
      BY <1>8, <2>1, <3>1, <3>3
    <3>5. ASSUME NEW x \in OnStack, NEW u \in OnStack, Under(i, x), Seen(x, u)'
          PROVE  low'[v] <= idx[u]
      <4>1. idx[u] \in Nat /\ low[v] \in Nat
        BY <1>1, <1>10
      <4>2. CASE Seen(x, u)
        BY <2>1, <3>1, <3>2, <3>5, <4>1, <4>2
      <4>3. CASE x = v /\ u = w
        BY <3>2, <4>3
      <4> QED
        BY <1>7, <3>5, <4>2, <4>3
    <3> QED
      BY <1>1, <1>10, <2>1, <3>1, <3>2, <3>4, <3>5
  <2>3. CASE i # n
    <3>1. i < n /\ idx[Gate(i)] < idx[v] /\ Gate(i) # v
      BY <1>1, <1>2, <1>9, <2>3 DEF v
    <3>2. low'[Gate(i)] = low[Gate(i)]
      BY <1>1, <1>8, <3>1
    <3>3. ~ Under(i, v)
      BY <1>1, <1>2, <1>10, <3>1 DEF Under, v
    <3> QED
      BY <1>7, <2>1, <3>2, <3>3
  <2> QED
    BY <2>2, <2>3
<1> QED
  BY <1>11, <1>12, <1>13, <1>15

(* Looking at a wire, to whatever gate, keeps the search right. *)
LEMMA LookKeeps ==
    ASSUME SearchInv, Look
    PROVE  SearchInv'
<1> DEFINE n == Len(frames)
           v == Gate(n)
           rest(w) == Append(Front(frames), [Last(frames) EXCEPT !.left = LeftAfter(@, w)])
<1>0. Shapes /\ Times /\ Ordered /\ Apart
  BY DEF SearchInv
<1>1. PICK w \in Last(frames).left :
          \/ w \notin Visited /\ Visit(w, rest(w))
          \/ /\ w \in Visited
             /\ frames' = rest(w)
             /\ low' = IF Counts(w) THEN [low EXCEPT ![v] = Smaller(@, idx[w])] ELSE low
             /\ UNCHANGED <<idx, stack>>
  BY DEF Look, Last, Gate
<1>2. frames # <<>> /\ UNCHANGED <<wires, barriers, result, judged>>
  BY DEF Look
<1>3. n \in Depths /\ n \in Nat /\ Depths = 1 .. n /\ n # 0
  BY <1>0, <1>2, EmptySeq, Shaped DEF Shapes
<1>4. v \in OnStack /\ frames[n].left \subseteq Adj(v)
  BY <1>0, <1>3 DEF Ordered
<1>5. w \in frames[n].left /\ w \in Adj(v) /\ w \in Nodes
  BY <1>1, <1>4 DEF Last, Adj
<1>6. /\ rest(w) \in Seq([node : Visited, left : SUBSET Nodes])
      /\ Len(rest(w)) = n
      /\ \A i \in DOMAIN frames :
            /\ rest(w)[i].node = frames[i].node
            /\ rest(w)[i].left = IF i = n THEN frames[i].left \ {w} ELSE frames[i].left
  BY <1>0, <1>2, Taken
<1>7. CASE w \notin Visited /\ Visit(w, rest(w))
  <2>1. w \in Adj(Last(frames).node)
    BY <1>5 DEF Last, Gate
  <2> HIDE DEF rest
  <2>2. \A i \in DOMAIN frames : /\ rest(w)[i].node = frames[i].node
                                 /\ rest(w)[i].left \subseteq frames[i].left
                                 /\ frames[i].left \subseteq rest(w)[i].left \union {w}
    BY <1>6
  <2> QED
    BY <1>2, <1>5, <1>6, <1>7, <2>1, <2>2, VisitKeeps
<1>8. CASE /\ w \in Visited
           /\ frames' = rest(w)
           /\ low' = IF Counts(w) THEN [low EXCEPT ![v] = Smaller(@, idx[w])] ELSE low
           /\ UNCHANGED <<idx, stack>>
  <2> HIDE DEF rest
  <2>1. /\ frames' \in Seq([node : Visited, left : SUBSET Nodes])
        /\ Len(frames') = n
        /\ \A i \in DOMAIN frames :
              /\ frames'[i].node = frames[i].node
              /\ frames'[i].left = IF i = n THEN frames[i].left \ {w} ELSE frames[i].left
    BY <1>6, <1>8
  <2>2. Depths' = Depths
    BY <1>3, <2>1 DEF Depths
  <2>3. \A i \in Depths : Gate(i)' = Gate(i)
    BY <2>1 DEF Depths, Gate
  <2>4. /\ \A i \in Depths : Gate(i) \in Visited
        /\ OnStack \subseteq Visited /\ Visited \subseteq Nodes
        /\ \A u \in Visited : idx[u] \in Nat /\ low[u] \in Nat
    BY <1>0, Shaped
  <2>5. \A u, x : Adj(u)' = Adj(u) /\ (Gets(u, x)' <=> Gets(u, x))
    BY <1>2 DEF Adj, Gets
  <2>6. ASSUME NEW u, NEW x, Seen(u, x)', ~ (u = v /\ x = w)
        PROVE  Seen(u, x)
    <3>1. x \in Adj(u) /\ \A i \in Depths : Gate(i)' = u => x \notin frames'[i].left
      BY <2>2, <2>5, <2>6 DEF Seen, Depths, Gate
    <3>2. ASSUME NEW i \in Depths, Gate(i) = u
          PROVE  x \notin frames[i].left
      <4>1. x \notin frames'[i].left
        BY <2>3, <3>1, <3>2
      <4>2. frames'[i].left = IF i = n THEN frames[i].left \ {w} ELSE frames[i].left
        BY <2>1 DEF Depths
      <4>3. i = n => x # w
        BY <2>6, <3>2
      <4> QED
        BY <4>1, <4>2, <4>3
    <3> QED
      BY <3>1, <3>2 DEF Seen, Depths, Gate
  <2>7. idx' = idx /\ Visited' = Visited /\ OnStack' = OnStack
    BY <1>8 DEF Visited, OnStack
  <2>8. /\ low' \in [Visited -> Nat]
        /\ \A u \in Visited : u # v => low'[u] = low[u]
        /\ low'[v] = IF w \in OnStack /\ idx[w] < low[v] THEN idx[w] ELSE low[v]
    <3>1. low \in [Visited -> Nat] /\ v \in Visited /\ idx[w] \in Nat /\ low[v] \in Nat
      BY <1>0, <1>3, <1>8, <2>4 DEF Shapes
    <3> HIDE DEF v
    <3>2. CASE Counts(w)
      <4>1. low' = [low EXCEPT ![v] = Smaller(low[v], idx[w])]
        BY <1>8, <3>2
      <4>2. Smaller(low[v], idx[w]) = IF idx[w] < low[v] THEN idx[w] ELSE low[v]
        BY <3>1 DEF Smaller
      <4> QED
        BY <3>1, <3>2, <4>1, <4>2 DEF Counts
    <3>3. CASE ~ Counts(w)
      BY <1>8, <3>1, <3>3 DEF Counts
    <3> QED
      BY <3>2, <3>3
  <2>9. Notes(w)
    BY <1>3, <1>5, <1>8, <2>2, <2>3, <2>5, <2>6, <2>7, <2>8 DEF Notes
  <2>10. Looked' /\ Descends' /\ Ascends' /\ Lows'
    BY <2>9, NoteKeeps
  <2>11. Shapes'
    BY <1>0, <1>2, <1>8, <2>1, <2>7, <2>8 DEF Shapes
  <2>12. Times'
    <3>1. \A u \in Visited : low'[u] < Cardinality(Visited)
      BY <1>0, <1>8, <2>8 DEF Times
    <3> QED
      BY <1>0, <2>7, <3>1 DEF Times
  <2>13. Ordered'
    <3>1. \A i \in Depths : frames'[i].left \subseteq frames[i].left
      BY <2>1 DEF Depths
    <3>2. \A i \in Depths : frames'[i].left \subseteq Adj(Gate(i))'
      BY <1>0, <2>3, <2>5, <3>1 DEF Ordered
    <3> QED
      BY <1>0, <1>8, <2>2, <2>3, <2>7, <3>2 DEF Ordered
  <2>14. Apart'
    BY <1>0, <1>2, <2>5, <2>7 DEF Apart, Closed
  <2> QED
    BY <2>10, <2>11, <2>12, <2>13, <2>14 DEF SearchInv
<1> QED
  BY <1>1, <1>7, <1>8

(* The open gates visited from when gate `v` was. *)
Segment(v) == {x \in OnStack : idx[v] <= idx[x]}

(* It is what stands on the stack from `v` on. *)
LEMMA SegmentCut ==
    ASSUME Shapes, Times, Ordered, NEW v \in OnStack,
           NEW at, at = CHOOSE i \in DOMAIN stack : stack[i] = v
    PROVE  /\ ToSet(SubSeq(stack, at, Len(stack))) = Segment(v)
           /\ Below(at) \in Seq(Visited)
           /\ ToSet(Below(at)) = OnStack \ Segment(v)
           /\ \A i \in DOMAIN Below(at) : i \in DOMAIN stack /\ Below(at)[i] = stack[i]
<1> DEFINE m == Len(stack)
<1>1. stack \in Seq(Visited) /\ m \in Nat /\ DOMAIN stack = 1 .. m
  BY DEF Shapes
<1>2. at \in 1 .. m /\ stack[at] = v
  BY <1>1 DEF OnStack, ToSet
<1>3. \A i \in 1 .. m : stack[i] \in Visited /\ idx[stack[i]] \in Nat
  BY <1>1, Shaped
<1>4. \A i \in 1 .. m : idx[v] <= idx[stack[i]] <=> at <= i
  <2> SUFFICES ASSUME NEW i \in 1 .. m
               PROVE  idx[v] <= idx[stack[i]] <=> at <= i
    OBVIOUS
  <2>1. /\ at < i => idx[v] < idx[stack[i]]
        /\ i < at => idx[stack[i]] < idx[v]
    BY <1>1, <1>2 DEF Ordered
  <2>2. idx[v] \in Nat /\ idx[stack[i]] \in Nat /\ at \in Int /\ i \in Int
    BY <1>2, <1>3
  <2> QED
    BY <1>2, <2>1, <2>2
<1>5. OnStack = {stack[i] : i \in 1 .. m}
  BY <1>1 DEF OnStack, ToSet
<1> DEFINE above == SubSeq(stack, at, m)
           below == SubSeq(stack, 1, at - 1)
<1>6. /\ DOMAIN above = 1 .. m - at + 1
      /\ \A i \in 1 .. m - at + 1 : above[i] = stack[at + i - 1]
  <2>1. \A i \in at .. m : stack[i] \in Visited
    BY <1>2, <1>3
  <2>2. /\ above \in Seq(Visited)
        /\ Len(above) = IF at <= m THEN m - at + 1 ELSE 0
        /\ \A i \in 1 .. m - at + 1 : above[i] = stack[at + i - 1]
    BY <1>1, <1>2, <2>1, SubSeqProperties
  <2> QED
    BY <1>1, <1>2, <2>2
<1>7. /\ below \in Seq(Visited)
      /\ DOMAIN below = 1 .. at - 1
      /\ \A i \in 1 .. at - 1 : below[i] = stack[i]
  <2> DEFINE k == at - 1
  <2>1. k \in Nat /\ \A i \in 1 .. k : stack[i] \in Visited
    BY <1>1, <1>2, <1>3
  <2> HIDE DEF k
  <2>2. /\ SubSeq(stack, 1, k) \in Seq(Visited)
        /\ Len(SubSeq(stack, 1, k)) = IF 1 <= k THEN k - 1 + 1 ELSE 0
        /\ \A i \in 1 .. k - 1 + 1 : SubSeq(stack, 1, k)[i] = stack[1 + i - 1]
    BY <2>1, SubSeqProperties
  <2>3. Len(SubSeq(stack, 1, k)) = k /\ \A i \in 1 .. k : SubSeq(stack, 1, k)[i] = stack[i]
    BY <2>1, <2>2
  <2>4. DOMAIN SubSeq(stack, 1, k) = 1 .. k
    BY <2>2, <2>3
  <2> QED
    BY <2>2, <2>3, <2>4, Zenon DEF k
<1> HIDE DEF above, below, m
<1>8. ToSet(above) = Segment(v)
  <2>1. ASSUME NEW i \in 1 .. m - at + 1
        PROVE  above[i] \in Segment(v)
    <3>1. at + i - 1 \in 1 .. m /\ at <= at + i - 1
      BY <1>1, <1>2, <2>1
    <3> QED
      BY <1>4, <1>5, <1>6, <3>1 DEF Segment
  <2>2. ASSUME NEW i \in 1 .. m, at <= i
        PROVE  \E j \in 1 .. m - at + 1 : above[j] = stack[i]
    <3>1. i - at + 1 \in 1 .. m - at + 1 /\ at + (i - at + 1) - 1 = i
      BY <1>1, <1>2, <2>2
    <3> QED
      BY <1>6, <3>1
  <2>3. \A x \in Segment(v) : \E i \in 1 .. m : at <= i /\ x = stack[i]
    BY <1>4, <1>5 DEF Segment
  <2> QED
    BY <1>6, <2>1, <2>2, <2>3 DEF ToSet
<1>9. ToSet(below) = OnStack \ Segment(v)
  <2>1. \A i \in 1 .. at - 1 : i \in 1 .. m /\ ~ (at <= i)
    BY <1>1, <1>2
  <2>2. \A i \in 1 .. m : at <= i \/ i \in 1 .. at - 1
    BY <1>1, <1>2
  <2>3. \A i \in 1 .. m : stack[i] \in Segment(v) <=> at <= i
    BY <1>4, <1>5 DEF Segment
  <2> QED
    BY <1>5, <1>7, <2>1, <2>2, <2>3 DEF ToSet
<1>10. \A i \in 1 .. at - 1 : i \in 1 .. m
  BY <1>1, <1>2
<1> QED
  BY <1>1, <1>7, <1>8, <1>9, <1>10 DEF Below, above, below, m

(* The gate on top whose low-link is its own number and that has no wire left:
   no wire leads out of its segment but to the components closed, and the
   segment is a component. *)
LEMMA SegmentRight ==
    ASSUME SearchInv, NEW n, n = Len(frames), n \in Depths,
           frames[n].left = {}, low[Gate(n)] = idx[Gate(n)]
    PROVE  LET part == Segment(Gate(n))
           IN  /\ \A u \in part : Adj(u) \subseteq part \union Closed
               /\ \A u \in part :
                     part = {u} \union {w \in Nodes : w \in Reach(wires, u) /\ u \in Reach(wires, w)}
<1> DEFINE v == Gate(n)
           part == Segment(v)
<1>0. Shapes /\ Times /\ Ordered /\ Looked /\ Apart /\ Descends /\ Ascends /\ Lows
  BY DEF SearchInv
<1>1. /\ n \in Nat /\ Depths = 1 .. n /\ \A i \in Depths : Gate(i) \in Visited
      /\ OnStack \subseteq Visited /\ Visited \subseteq Nodes
      /\ \A u \in Visited : idx[u] \in Nat /\ low[u] \in Nat
  BY <1>0, Shaped
<1>2. /\ v \in OnStack
      /\ \A i \in Depths : i < n => idx[Gate(i)] < idx[v]
  BY <1>0 DEF Ordered
<1>3. \A i \in Depths : idx[v] <= idx[Gate(i)] => i = n
  BY <1>1, <1>2
<1>4. part \subseteq OnStack /\ part \subseteq Nodes
  BY <1>1 DEF Segment
<1>5. \A u \in part : \A w \in Adj(u) : Seen(u, w)
  <2> SUFFICES ASSUME NEW u \in part, NEW w \in Adj(u), NEW i \in Depths, Gate(i) = u
               PROVE  w \notin frames[i].left
    BY DEF Seen, Depths, Gate
  <2>1. i = n
    BY <1>3 DEF Segment
  <2> QED
    BY <2>1
<1>6. \A u \in part : Under(n, u)
  BY <1>1 DEF Under, Segment
<1>7. ASSUME NEW u \in part, NEW w \in Adj(u)
      PROVE  w \in part \union Closed
  <2>1. w \in Visited
    BY <1>0, <1>1, <1>4, <1>5 DEF Looked, Adj
  <2>2. ASSUME w \in OnStack
        PROVE  w \in part
    <3>1. low[v] <= idx[w]
      BY <1>0, <1>4, <1>5, <1>6, <2>2 DEF Lows
    <3> QED
      BY <2>2, <3>1 DEF Segment
  <2> QED
    BY <2>1, <2>2 DEF Closed
<1>8. \A u \in part : Reach(wires, u) \subseteq part \union Closed
  <2> DEFINE us == part \union Closed
  <2>1. us \in SUBSET Nodes /\ wires \subseteq Nodes \X Nodes
    BY <1>0, <1>1, <1>4 DEF Closed, Shapes
  <2>2. \A u \in us, w \in Nodes : <<u, w>> \in wires => w \in us
    BY <1>0, <1>7 DEF Apart, Adj
  <2> HIDE DEF us
  <2>3. \A u \in us \intersect Nodes : Reach(wires, u) \subseteq us
    BY <2>1, <2>2, ReachWithin
  <2> QED
    BY <1>4, <2>3 DEF us
<1>9. \A u \in Closed : Reach(wires, u) \subseteq Closed
  <2>1. Closed \in SUBSET Nodes /\ wires \subseteq Nodes \X Nodes
    BY <1>0, <1>1 DEF Closed, Shapes
  <2>2. \A u \in Closed, w \in Nodes : <<u, w>> \in wires => w \in Closed
    BY <1>0 DEF Apart, Adj
  <2> QED
    BY <2>1, <2>2, ReachWithin
<1>10. ASSUME NEW u \in part
       PROVE  Gets(u, v)
  <2>1. PICK i \in Depths : idx[Gate(i)] <= idx[u] /\ Gets(u, Gate(i))
    BY <1>0, <1>4 DEF Ascends
  <2>2. Gate(i) \in part
    <3>1. Gate(i) = u \/ Gate(i) \in part \union Closed
      BY <1>8, <2>1 DEF Gets
    <3>2. Gate(i) \in OnStack
      BY <1>0 DEF Ordered
    <3> QED
      BY <3>1, <3>2 DEF Closed
  <2>3. i = n
    BY <1>3, <2>2 DEF Segment
  <2> QED
    BY <2>1, <2>3
<1>11. \A w \in part : Gets(v, w)
  BY <1>0 DEF Descends, Segment
<1>12. \A u, w \in part : Gets(u, w)
  BY <1>0, <1>2, <1>1, <1>4, <1>10, <1>11, GetsTrans
<1>13. ASSUME NEW u \in part, NEW w \in Nodes, w \in Reach(wires, u), u \in Reach(wires, w)
       PROVE  w \in part
  <2>1. w \in part \/ w \in Closed
    BY <1>8, <1>13
  <2>2. w \in Closed => u \in Closed
    BY <1>9, <1>13
  <2> QED
    BY <1>4, <2>1, <2>2 DEF Closed
<1>14. ASSUME NEW u \in part
       PROVE  part = {u} \union {w \in Nodes : w \in Reach(wires, u) /\ u \in Reach(wires, w)}
  <2>1. \A w \in part : w = u \/ (w \in Reach(wires, u) /\ u \in Reach(wires, w))
    BY <1>12 DEF Gets
  <2> HIDE DEF part
  <2> QED
    BY <1>4, <1>13, <2>1
<1> QED
  BY <1>7, <1>14

(* The search after gate `v`, the one on top, is done: its segment left the
   stack, or its low-link went to the gate below. *)
Returns(v) ==
    LET n == Len(frames)
    IN  /\ n \in Depths /\ v = Gate(n) /\ Depths' = Depths \ {n}
        /\ idx' = idx /\ Visited' = Visited
        /\ OnStack' = IF low[v] = idx[v] THEN OnStack \ Segment(v) ELSE OnStack
        /\ \A i \in Depths' : Gate(i)' = Gate(i)
        /\ \A u, x : Gets(u, x)' <=> Gets(u, x)
        /\ \A u, x : Seen(u, x)' <=> Seen(u, x)
        /\ \A i \in Depths' :
              low'[Gate(i)] = IF i = n - 1 /\ low[v] < low[Gate(i)] THEN low[v] ELSE low[Gate(i)]

(* It keeps the search right. *)
LEMMA ReturnKeeps ==
    ASSUME SearchInv, NEW v, Returns(v)
    PROVE  Looked' /\ Descends' /\ Ascends' /\ Lows'
<1> DEFINE n == Len(frames)
           top == low[v] = idx[v]
<1>0. Shapes /\ Times /\ Ordered /\ Looked /\ Descends /\ Ascends /\ Lows
  BY DEF SearchInv
<1>1. /\ n \in Nat /\ Depths = 1 .. n
      /\ \A i \in Depths : Gate(i) \in Visited
      /\ OnStack \subseteq Visited /\ Visited \subseteq Nodes
      /\ \A u \in Visited : idx[u] \in Nat /\ low[u] \in Nat
  BY <1>0, Shaped
<1>2. n \in Depths /\ v = Gate(n) /\ Depths' = Depths \ {n}
  BY DEF Returns
<1>3. idx' = idx /\ Visited' = Visited
  BY DEF Returns
<1>4. /\ OnStack' = IF top THEN OnStack \ Segment(v) ELSE OnStack
      /\ OnStack' \subseteq OnStack
  BY DEF Returns
<1>5. \A i \in Depths' : Gate(i)' = Gate(i)
  BY DEF Returns
<1>6. /\ \A u, x : Gets(u, x)' <=> Gets(u, x)
      /\ \A u, x : Seen(u, x)' <=> Seen(u, x)
  BY DEF Returns
<1>7. \A i \in Depths' :
         low'[Gate(i)] = IF i = n - 1 /\ low[v] < low[Gate(i)] THEN low[v] ELSE low[Gate(i)]
  BY DEF Returns
<1>8. v \in OnStack /\ \A i, j \in Depths : i < j => idx[Gate(i)] < idx[Gate(j)]
  BY <1>0, <1>2 DEF Ordered
<1>9. \A i \in Depths' : i \in Depths /\ i < n /\ i <= n - 1 /\ idx[Gate(i)] < idx[v]
  BY <1>1, <1>2, <1>8
<1>10. \A x \in OnStack : idx[x] < idx[v] => x \in OnStack'
  BY <1>1, <1>4, <1>8 DEF Segment
<1>11. \A x \in OnStack' : top => idx[x] < idx[v]
  BY <1>1, <1>4, <1>8 DEF Segment
<1>12. /\ low[v] <= idx[v]
       /\ \E y \in OnStack : idx[y] = low[v] /\ Gets(v, y)
       /\ \A x, w \in OnStack : Under(n, x) /\ Seen(x, w) => low[v] <= idx[w]
  BY <1>0, <1>2 DEF Lows
<1> HIDE DEF n, top
<1>13. Looked'
  BY <1>0, <1>3, <1>6 DEF Looked
<1>14. Descends'
  BY <1>0, <1>3, <1>4, <1>5, <1>6, <1>9 DEF Descends
<1>15. ASSUME NEW x \in OnStack, idx[x] < idx[v]
       PROVE  \E i \in Depths' : idx[Gate(i)] <= idx[x] /\ Gets(x, Gate(i))
  <2>1. PICK i \in Depths : idx[Gate(i)] <= idx[x] /\ Gets(x, Gate(i))
    BY <1>0 DEF Ascends
  <2>2. i # n
    BY <1>1, <1>2, <1>15, <2>1
  <2> QED
    BY <1>2, <2>1, <2>2
<1>16. Ascends'
  <2> SUFFICES ASSUME NEW x \in OnStack'
               PROVE  \E i \in Depths' : idx[Gate(i)] <= idx[x] /\ Gets(x, Gate(i))
    BY <1>3, <1>5, <1>6 DEF Ascends
  <2>1. CASE idx[x] < idx[v]
    BY <1>4, <1>15, <2>1
  <2>2. CASE ~ (idx[x] < idx[v])
    <3>1. ~ top /\ idx[v] <= idx[x] /\ idx[x] \in Nat /\ idx[v] \in Nat
      BY <1>1, <1>4, <1>8, <1>11, <2>2
    <3>2. PICK y \in OnStack : idx[y] = low[v] /\ Gets(v, y)
      BY <1>12
    <3>3. idx[y] < idx[v]
      BY <1>1, <1>8, <1>12, <3>1, <3>2 DEF top
    <3>4. PICK i \in Depths' : idx[Gate(i)] <= idx[y] /\ Gets(y, Gate(i))
      BY <1>15, <3>3
    <3>5. PICK j \in Depths : idx[Gate(j)] <= idx[x] /\ Gets(x, Gate(j))
      BY <1>0, <1>4 DEF Ascends
    <3>6. CASE j = n
      <4>1. Gets(x, v)
        BY <1>2, <3>5, <3>6
      <4>2. x \in Nodes /\ y \in Nodes /\ v \in Nodes /\ Gate(i) \in Nodes
        BY <1>1, <1>4, <1>8, <1>9
      <4>3. Gets(x, Gate(i))
        BY <1>0, <3>2, <3>4, <4>1, <4>2, GetsTrans
      <4>4. idx[Gate(i)] <= idx[x]
        BY <1>1, <1>9, <3>1
      <4> QED
        BY <4>3, <4>4
    <3>7. CASE j # n
      BY <1>2, <3>5, <3>7
    <3> QED
      BY <3>6, <3>7
  <2> QED
    BY <2>1, <2>2
<1>17. Lows'
  <2> SUFFICES ASSUME NEW i \in Depths'
               PROVE  /\ low'[Gate(i)] <= idx[Gate(i)]
                      /\ \E y \in OnStack' : idx[y] = low'[Gate(i)] /\ Gets(Gate(i), y)
                      /\ \A x, w \in OnStack' :
                            Under(i, x)' /\ Seen(x, w) => low'[Gate(i)] <= idx[w]
    BY <1>3, <1>5, <1>6 DEF Lows
  <2>1. /\ low[Gate(i)] <= idx[Gate(i)]
        /\ \E y \in OnStack : idx[y] = low[Gate(i)] /\ Gets(Gate(i), y)
        /\ \A x, w \in OnStack : Under(i, x) /\ Seen(x, w) => low[Gate(i)] <= idx[w]
    BY <1>0, <1>9 DEF Lows
  <2>2. /\ i \in Depths /\ i < n /\ i <= n - 1 /\ idx[Gate(i)] < idx[v]
        /\ Gate(i) \in Visited /\ idx[Gate(i)] \in Nat /\ low[Gate(i)] \in Nat
        /\ v \in Visited /\ idx[v] \in Nat /\ low[v] \in Nat
    BY <1>1, <1>8, <1>9
  <2>3. low'[Gate(i)] <= low[Gate(i)] /\ low'[Gate(i)] \in Nat
    BY <1>7, <2>2
  <2>4. Gets(Gate(i), v)
    BY <1>0, <1>8, <2>2 DEF Descends
  <2>5. \E y \in OnStack : idx[y] = low'[Gate(i)] /\ Gets(Gate(i), y)
    <3>1. CASE low'[Gate(i)] = low[Gate(i)]
      BY <2>1, <3>1
    <3>2. CASE low'[Gate(i)] = low[v]
      <4>1. PICK y \in OnStack : idx[y] = low[v] /\ Gets(v, y)
        BY <1>12
      <4>2. Gate(i) \in Nodes /\ v \in Nodes /\ y \in Nodes
        BY <1>1, <2>2
      <4> QED
        BY <1>0, <2>4, <3>2, <4>1, <4>2, GetsTrans
    <3> QED
      BY <1>7, <3>1, <3>2
  <2>6. \E y \in OnStack' : idx[y] = low'[Gate(i)] /\ Gets(Gate(i), y)
    <3>1. low'[Gate(i)] < idx[v]
      BY <2>1, <2>2, <2>3
    <3> QED
      BY <1>10, <2>5, <3>1
  <2>7. ASSUME NEW x \in OnStack', NEW w \in OnStack', Under(i, x)', Seen(x, w)
        PROVE  low'[Gate(i)] <= idx[w]
    <3>1. /\ x \in OnStack /\ w \in OnStack /\ idx[x] \in Nat /\ idx[w] \in Nat
      BY <1>1, <1>4
    <3>2. idx[Gate(i)] <= idx[x] /\ \A j \in Depths' : i < j => idx[x] < idx[Gate(j)]
      BY <1>3, <1>5, <2>7 DEF Under
    <3>3. CASE idx[x] < idx[v]
      <4>1. Under(i, x)
        BY <1>2, <3>2, <3>3 DEF Under
      <4> QED
        BY <2>1, <2>2, <2>3, <2>7, <3>1, <4>1
    <3>4. CASE ~ (idx[x] < idx[v])
      <4>1. i = n - 1
        <5> SUFFICES ASSUME i # n - 1 PROVE FALSE
          OBVIOUS
        <5>1. n - 1 \in Depths' /\ i < n - 1
          BY <1>1, <1>2, <2>2
        <5>2. idx[x] < idx[Gate(n - 1)] /\ idx[Gate(n - 1)] < idx[v] /\ idx[Gate(n - 1)] \in Nat
          BY <1>1, <1>9, <3>2, <5>1
        <5> QED
          BY <2>2, <3>1, <3>4, <5>2
      <4>2. Under(n, x)
        BY <1>1, <1>2, <2>2, <3>1, <3>4 DEF Under
      <4>3. low[v] <= idx[w]
        BY <1>12, <2>7, <3>1, <4>2
      <4> QED
        BY <1>7, <2>2, <3>1, <4>1, <4>3
    <3> QED
      BY <3>3, <3>4
  <2> QED
    BY <2>1, <2>2, <2>3, <2>6, <2>7
<1> QED
  BY <1>13, <1>14, <1>16, <1>17

(* Closing a component, or none, keeps the search and the components right. *)
LEMMA CloseKeeps ==
    ASSUME SearchInv, ComponentsRight, Close
    PROVE  SearchInv' /\ ComponentsRight'
<1> DEFINE n == Len(frames)
           v == Gate(n)
           at == CHOOSE i \in DOMAIN stack : stack[i] = v
           part == Segment(v)
           top == low[v] = idx[v]
           Frame == [node : Visited, left : SUBSET Nodes]
<1>0. Shapes /\ Times /\ Ordered /\ Apart /\ Lows
  BY DEF SearchInv
<1>1. /\ frames # <<>> /\ Last(frames).left = {}
      /\ IF top
         THEN /\ result' = Append(result, ToSet(SubSeq(stack, at, Len(stack))))
              /\ stack' = Below(at)
         ELSE UNCHANGED <<result, stack>>
      /\ low' = Folded(v)
      /\ frames' = Front(frames)
      /\ UNCHANGED <<wires, barriers, idx, judged, errors>>
  BY DEF Close, Last, Gate
<1>2. n \in Depths /\ n \in Nat \ {0} /\ Depths = 1 .. n
  BY <1>0, <1>1, EmptySeq, Shaped DEF Shapes
<1>3. /\ \A i \in Depths : Gate(i) \in Visited
      /\ OnStack \subseteq Visited /\ Visited \subseteq Nodes
      /\ \A u \in Visited : idx[u] \in Nat /\ low[u] \in Nat
  BY <1>0, Shaped
<1>4. frames[n].left = {}
  BY <1>1 DEF Last
<1>5. v \in OnStack /\ \A i, j \in Depths : i < j => idx[Gate(i)] < idx[Gate(j)]
  BY <1>0, <1>2 DEF Ordered
<1>6. /\ ToSet(SubSeq(stack, at, Len(stack))) = part
      /\ Below(at) \in Seq(Visited)
      /\ ToSet(Below(at)) = OnStack \ part
      /\ \A i \in DOMAIN Below(at) : i \in DOMAIN stack /\ Below(at)[i] = stack[i]
  BY <1>0, <1>5, SegmentCut
<1> HIDE DEF v, at, part
<1>7. part \subseteq OnStack
  BY DEF part, Segment
<1>8. /\ frames' \in Seq(Frame) /\ Depths' = Depths \ {n}
      /\ \A i \in Depths' : frames'[i] = frames[i]
  <2> DEFINE k == n - 1
  <2>1. frames \in Seq(Frame) /\ k \in Nat /\ \A i \in 1 .. k : frames[i] \in Frame
    <3>1. frames \in Seq(Frame)
      BY <1>0 DEF Shapes
    <3> HIDE DEF Frame
    <3> QED
      BY <1>2, <3>1
  <2>2. frames' = SubSeq(frames, 1, k)
    BY <1>1 DEF Front
  <2> HIDE DEF k, Frame
  <2>3. /\ SubSeq(frames, 1, k) \in Seq(Frame)
        /\ Len(SubSeq(frames, 1, k)) = IF 1 <= k THEN k - 1 + 1 ELSE 0
        /\ \A i \in 1 .. k - 1 + 1 : SubSeq(frames, 1, k)[i] = frames[1 + i - 1]
    BY <2>1, SubSeqProperties
  <2>4. Len(SubSeq(frames, 1, k)) = k /\ \A i \in 1 .. k : SubSeq(frames, 1, k)[i] = frames[i]
    BY <2>1, <2>3
  <2>5. DOMAIN SubSeq(frames, 1, k) = 1 .. k
    BY <2>3, <2>4
  <2>6. 1 .. k = Depths \ {n}
    BY <1>2 DEF k
  <2> QED
    BY <2>2, <2>3, <2>4, <2>5, <2>6, Zenon DEF Depths
<1> HIDE DEF Frame
<1>9. \A i \in Depths' : Gate(i)' = Gate(i)
  BY <1>8 DEF Gate
<1>10. \A u, x : Adj(u)' = Adj(u) /\ (Gets(u, x)' <=> Gets(u, x))
  BY <1>1 DEF Adj, Gets
<1>11. \A u, x : Seen(u, x)' <=> Seen(u, x)
  <2> SUFFICES ASSUME NEW u, NEW x
               PROVE  Seen(u, x)' <=> Seen(u, x)
    OBVIOUS
  <2>1. Seen(u, x) <=> x \in Adj(u) /\ \A i \in Depths : Gate(i) = u => x \notin frames[i].left
    BY DEF Seen, Depths, Gate
  <2>2. Seen(u, x)' <=> x \in Adj(u) /\ \A i \in Depths' : Gate(i)' = u => x \notin frames'[i].left
    BY <1>10 DEF Seen, Depths, Gate
  <2>3. \A i \in Depths' : Gate(i)' = Gate(i) /\ frames'[i].left = frames[i].left
    BY <1>8, <1>9
  <2> QED
    BY <1>4, <1>8, <2>1, <2>2, <2>3
<1>12. /\ low' \in [Visited -> Nat]
       /\ \A u \in Visited : low'[u] \in {low[u], low[v]}
       /\ \A i \in Depths' :
             low'[Gate(i)] = IF i = n - 1 /\ low[v] < low[Gate(i)] THEN low[v] ELSE low[Gate(i)]
  <2>1. low \in [Visited -> Nat] /\ v \in Visited /\ low[v] \in Nat
    BY <1>0, <1>3, <1>5 DEF Shapes
  <2>2. low' = IF n = 1 THEN low
               ELSE [low EXCEPT ![Gate(n - 1)] = Smaller(low[Gate(n - 1)], low[v])]
    BY <1>1 DEF Folded, Gate
  <2>3. CASE n = 1
    <3>1. Depths' = {}
      BY <1>2, <1>8, <2>3
    <3> QED
      BY <2>1, <2>2, <2>3, <3>1
  <2>4. CASE n # 1
    <3>1. n - 1 \in Depths
      <4> HIDE DEF n
      <4> QED
        BY <1>2, <2>4
    <3>2. \A i \in Depths' : Gate(i) = Gate(n - 1) => i = n - 1
      <4> SUFFICES ASSUME NEW i \in Depths', Gate(i) = Gate(n - 1)
                   PROVE  i = n - 1
        OBVIOUS
      <4>1. i \in Depths /\ i \in Int /\ n - 1 \in Int /\ idx[Gate(i)] \in Nat
        BY <1>2, <1>3, <1>8
      <4>2. /\ i < n - 1 => idx[Gate(i)] < idx[Gate(n - 1)]
            /\ n - 1 < i => idx[Gate(n - 1)] < idx[Gate(i)]
        BY <1>5, <3>1, <4>1
      <4> QED
        BY <4>1, <4>2
    <3> DEFINE g == Gate(n - 1)
               x == Smaller(low[g], low[v])
    <3>3. g \in Visited /\ low[g] \in Nat
      BY <1>3, <3>1
    <3>4. x = (IF low[v] < low[g] THEN low[v] ELSE low[g]) /\ x \in Nat
      BY <2>1, <3>3 DEF Smaller
    <3>5. low' = [low EXCEPT ![g] = x]
      BY <2>2, <2>4
    <3>6. \A i \in Depths' : Gate(i) \in Visited
      BY <1>3, <1>8
    <3> HIDE DEF g, x
    <3>7. low' \in [Visited -> Nat] /\ \A u \in Visited : low'[u] = IF u = g THEN x ELSE low[u]
      BY <2>1, <3>3, <3>4, <3>5
    <3>8. \A i \in Depths' : Gate(i) = g <=> i = n - 1
      BY <3>2 DEF g
    <3> QED
      BY <3>4, <3>6, <3>7, <3>8
  <2> QED
    BY <2>3, <2>4
<1>13. /\ idx' = idx /\ Visited' = Visited
       /\ OnStack' = IF top THEN OnStack \ part ELSE OnStack
  BY <1>1, <1>6 DEF Visited, OnStack
<1>14. Returns(v)
  BY <1>2, <1>8, <1>9, <1>10, <1>11, <1>12, <1>13 DEF Returns, v, part
<1>15. Looked' /\ Descends' /\ Ascends' /\ Lows'
  BY <1>14, ReturnKeeps
<1>16. stack' \in Seq(Visited)
  BY <1>0, <1>1, <1>6 DEF Shapes
<1>17. /\ result' \in Seq(SUBSET Nodes) /\ judged \in 0 .. Len(result')
       /\ \A i \in DOMAIN result : i \in DOMAIN result' /\ result'[i] = result[i]
       /\ \A i \in DOMAIN result' : i \in DOMAIN result \/ (top /\ result'[i] = part)
       /\ top => \E i \in DOMAIN result' : result'[i] = part
  <2>0. result \in Seq(SUBSET Nodes) /\ judged \in 0 .. Len(result)
    BY <1>0 DEF Shapes
  <2>1. CASE top
    <3>1. result' = Append(result, part) /\ part \in SUBSET Nodes
      BY <1>1, <1>3, <1>6, <1>7, <2>1
    <3>2. /\ result' \in Seq(SUBSET Nodes) /\ Len(result') = Len(result) + 1
          /\ \A i \in 1 .. Len(result) : result'[i] = result[i]
          /\ result'[Len(result) + 1] = part
      BY <2>0, <3>1, AppendProperties
    <3>3. DOMAIN result = 1 .. Len(result) /\ DOMAIN result' = 1 .. Len(result) + 1
          /\ Len(result) \in Nat
      BY <2>0, <3>2
    <3> QED
      BY <2>0, <2>1, <3>2, <3>3
  <2>2. CASE ~ top
    BY <1>1, <2>0, <2>2
  <2> QED
    BY <2>1, <2>2
<1>18. Shapes'
  BY <1>0, <1>1, <1>8, <1>12, <1>13, <1>16, <1>17 DEF Shapes, Frame
<1>19. Times'
  <2>1. \A u \in Visited : low'[u] < Cardinality(Visited)
    BY <1>0, <1>3, <1>5, <1>12 DEF Times
  <2> QED
    BY <1>0, <1>13, <2>1 DEF Times
<1>20. Ordered'
  <2>1. \A i \in DOMAIN stack' : i \in DOMAIN stack /\ stack'[i] = stack[i]
    BY <1>1, <1>6
  <2>2. \A i, j \in DOMAIN stack' : i < j => idx[stack'[i]] < idx[stack'[j]]
    BY <1>0, <2>1 DEF Ordered
  <2>3. \A i, j \in Depths' : i < j => idx[Gate(i)'] < idx[Gate(j)']
    BY <1>5, <1>8, <1>9
  <2>4. ASSUME NEW i \in Depths'
        PROVE  Gate(i)' \in OnStack' /\ frames'[i].left \subseteq Adj(Gate(i))'
    <3>1. i \in Depths /\ i < n
      BY <1>2, <1>8
    <3>2. Gate(i) \notin part
      <4>1. idx[Gate(i)] < idx[v] /\ idx[Gate(i)] \in Nat /\ idx[v] \in Nat
        BY <1>2, <1>3, <1>5, <3>1 DEF v
      <4> QED
        BY <4>1 DEF part, Segment
    <3>3. Gate(i) \in OnStack /\ frames[i].left \subseteq Adj(Gate(i))
      BY <1>0, <3>1 DEF Ordered
    <3>4. Gate(i)' = Gate(i) /\ Adj(Gate(i))' = Adj(Gate(i)) /\ frames'[i] = frames[i]
      BY <1>8, <1>9, <1>10
    <3> QED
      BY <1>13, <3>2, <3>3, <3>4
  <2> QED
    BY <1>13, <2>2, <2>3, <2>4, Zenon DEF Ordered
<1>21. top => /\ \A u \in part : Adj(u) \subseteq part \union Closed
              /\ \A u \in part :
                    part = {u} \union {w \in Nodes : w \in Reach(wires, u) /\ u \in Reach(wires, w)}
  BY <1>2, <1>4, SegmentRight DEF v, part
<1>22. Closed' = IF top THEN Closed \union part ELSE Closed
  BY <1>3, <1>7, <1>13 DEF Closed
<1>23. Apart'
  <2>1. \A u \in Closed' : Adj(u) \subseteq Closed'
    BY <1>0, <1>21, <1>22 DEF Apart
  <2>2. \A i \in DOMAIN result' : result'[i] \subseteq Closed'
    BY <1>0, <1>17, <1>22 DEF Apart
  <2>3. \A u \in Closed' : \E i \in DOMAIN result' : u \in result'[i]
    BY <1>0, <1>17, <1>22 DEF Apart
  <2> QED
    BY <1>10, <2>1, <2>2, <2>3 DEF Apart
<1>24. ComponentsRight'
  <2> SUFFICES ASSUME NEW i \in DOMAIN result', NEW u \in result'[i]
               PROVE  result'[i] =
                        {u} \union {w \in Nodes : w \in Reach(wires, u) /\ u \in Reach(wires, w)}
    BY <1>1 DEF ComponentsRight
  <2>1. CASE i \in DOMAIN result
    BY <1>17, <2>1 DEF ComponentsRight
  <2>2. CASE top /\ result'[i] = part
    BY <1>21, <2>2
  <2> QED
    BY <1>17, <2>1, <2>2
<1> QED
  BY <1>15, <1>18, <1>19, <1>20, <1>23, <1>24 DEF SearchInv

-----------------------------------------------------------------------------
(* The verdicts. *)

(* A loop shown is one: it goes round along wires of its component. *)
LEMMA PathsAreLoops ==
    ASSUME NEW scc, NEW path \in CyclePaths(scc)
    PROVE  /\ \A i \in DOMAIN path : path[i] \in scc
           /\ \A i \in DOMAIN path : path[IF i = Len(path) THEN 1 ELSE i + 1] \in Adj(path[i])
<1>1. PICK walk, next :
         /\ \E n \in 1 .. Cardinality(scc) : walk \in [1 .. n -> scc]
         /\ \A i \in 1 .. Len(walk) - 1 : walk[i + 1] \in Adj(walk[i])
         /\ next \in Adj(Last(walk)) /\ next \in ToSet(walk)
         /\ path = LoopOn(walk, next)
  BY DEF CyclePaths
<1>2. PICK n \in 1 .. Cardinality(scc) : walk \in [1 .. n -> scc]
  BY <1>1
<1>3. n \in Nat /\ walk \in Seq(scc) /\ Len(walk) = n /\ DOMAIN walk = 1 .. n
  BY <1>2
<1> DEFINE at == CHOOSE i \in DOMAIN walk : walk[i] = next
<1>4. at \in 1 .. n /\ walk[at] = next
  BY <1>1, <1>3 DEF ToSet
<1>5. path = SubSeq(walk, at, n)
  BY <1>1, <1>3 DEF LoopOn
<1> HIDE DEF at
<1>6. /\ path \in Seq(scc) /\ Len(path) = n - at + 1 /\ DOMAIN path = 1 .. n - at + 1
      /\ \A i \in 1 .. n - at + 1 : path[i] = walk[at + i - 1]
  <2>1. \A i \in at .. n : walk[i] \in scc
    BY <1>2, <1>4
  <2>2. /\ path \in Seq(scc)
        /\ Len(path) = IF at <= n THEN n - at + 1 ELSE 0
        /\ \A i \in 1 .. n - at + 1 : path[i] = walk[at + i - 1]
    BY <1>3, <1>4, <1>5, <2>1, SubSeqProperties
  <2> QED
    BY <1>3, <1>4, <2>2
<1>7. ASSUME NEW i \in DOMAIN path
      PROVE  path[IF i = Len(path) THEN 1 ELSE i + 1] \in Adj(path[i])
  <2>1. CASE i = Len(path)
    <3>1. path[i] = walk[n] /\ path[1] = next
      BY <1>3, <1>4, <1>6, <2>1
    <3> QED
      BY <1>1, <1>3, <2>1, <3>1 DEF Last
  <2>2. CASE i # Len(path)
    <3> DEFINE k == at + i - 1
    <3>1. k \in 1 .. n - 1 /\ path[i] = walk[k] /\ path[i + 1] = walk[k + 1]
      BY <1>3, <1>4, <1>6, <2>2
    <3> HIDE DEF k
    <3>2. walk[k + 1] \in Adj(walk[k])
      BY <1>1, <1>3, <3>1
    <3> QED
      BY <2>2, <3>1, <3>2
  <2> QED
    BY <2>1, <2>2
<1> QED
  BY <1>6, <1>7

(* What the search leaves alone stays right. *)
LEMMA SearchRests ==
    ASSUME SearchInv, judged' \in 0 .. Len(result),
           UNCHANGED <<wires, barriers, idx, low, stack, frames, result>>
    PROVE  SearchInv'
<1>1. \A u : Adj(u)' = Adj(u)
  BY DEF Adj
<1>2. \A u, w : (Gets(u, w)' <=> Gets(u, w)) /\ (Seen(u, w)' <=> Seen(u, w))
  BY DEF Gets, Seen, Adj
<1>3. /\ Visited' = Visited /\ OnStack' = OnStack /\ Closed' = Closed /\ Depths' = Depths
      /\ \A i : Gate(i)' = Gate(i)
  BY DEF Visited, OnStack, Closed, Depths, Gate
<1>4. Shapes'
  BY <1>3 DEF SearchInv, Shapes
<1>5. Times'
  BY <1>3 DEF SearchInv, Times
<1>6. Ordered'
  BY <1>1, <1>3 DEF SearchInv, Ordered
<1>7. Looked' /\ Apart'
  BY <1>1, <1>2, <1>3 DEF SearchInv, Looked, Apart
<1>8. Descends' /\ Ascends'
  BY <1>2, <1>3 DEF SearchInv, Descends, Ascends
<1>9. \A i, x : Under(i, x)' <=> Under(i, x)
  BY <1>3 DEF Under
<1>10. Lows'
  BY <1>2, <1>3, <1>9 DEF SearchInv, Lows
<1> QED
  BY <1>4, <1>5, <1>6, <1>7, <1>8, <1>10 DEF SearchInv

(* A verdict keeps what is reported right. *)
LEMMA JudgeKeeps ==
    ASSUME IInv, Judge
    PROVE  IInv'
<1>1. Shapes /\ SearchInv /\ ComponentsRight /\ ErrorsShowLoops /\ Reported
  BY DEF IInv, SearchInv
<1>2. /\ judged < Len(result) /\ judged' = judged + 1
      /\ UNCHANGED <<wires, barriers, idx, low, stack, frames, result>>
  BY DEF Judge
<1> DEFINE scc == result[judged + 1]
<1>3. IF Loops(scc) /\ ~HasBarrier(scc)
      THEN \E path \in CyclePaths(scc) : errors' = errors \union {[scc |-> scc, path |-> path]}
      ELSE UNCHANGED errors
  BY DEF Judge
<1> HIDE DEF scc
<1>4. judged \in Nat /\ judged' \in 0 .. Len(result)
  BY <1>1, <1>2 DEF Shapes
<1>5. \A u : Adj(u)' = Adj(u)
  BY <1>2 DEF Adj
<1>6. SearchInv'
  BY <1>1, <1>2, <1>4, SearchRests
<1>7. ComponentsRight'
  BY <1>1, <1>2 DEF ComponentsRight
<1>8. errors \subseteq errors'
  BY <1>3
<1>9. ErrorsShowLoops'
  <2> SUFFICES ASSUME NEW e \in errors', e \notin errors
               PROVE  /\ \A i \in DOMAIN e.path :
                            e.path[IF i = Len(e.path) THEN 1 ELSE i + 1] \in Adj(e.path[i])
                      /\ ToSet(e.path) \intersect barriers = {}
    BY <1>1, <1>2, <1>5 DEF ErrorsShowLoops
  <2>1. ~HasBarrier(scc) /\ \E path \in CyclePaths(scc) : e = [scc |-> scc, path |-> path]
    BY <1>3
  <2>2. e.path \in CyclePaths(scc)
    BY <2>1
  <2> QED
    BY <2>1, <2>2, PathsAreLoops DEF HasBarrier, ToSet
<1>10. Reported'
  <2>1. \A c : (Loops(c)' <=> Loops(c)) /\ (HasBarrier(c)' <=> HasBarrier(c))
    BY <1>2, <1>5 DEF Loops, HasBarrier
  <2>2. ASSUME Loops(scc), ~HasBarrier(scc)
        PROVE  \E e \in errors' : e.scc = scc
    <3>1. PICK path : errors' = errors \union {[scc |-> scc, path |-> path]}
      BY <1>3, <2>2
    <3>2. [scc |-> scc, path |-> path] \in errors'
      BY <3>1
    <3> QED
      BY <3>2
  <2>3. \A i \in 1 .. judged' : i \in 1 .. judged \/ i = judged + 1
    BY <1>2, <1>4
  <2>4. ASSUME NEW i \in 1 .. judged', Loops(result[i]), ~HasBarrier(result[i])
        PROVE  \E e \in errors' : e.scc = result[i]
    <3>1. CASE i \in 1 .. judged
      BY <1>1, <1>8, <2>4, <3>1 DEF Reported
    <3>2. CASE i = judged + 1
      BY <2>2, <2>4, <3>2 DEF scc
    <3> QED
      BY <2>3, <3>1, <3>2
  <2> QED
    BY <1>2, <2>1, <2>4 DEF Reported
<1> QED
  BY <1>6, <1>7, <1>9, <1>10 DEF IInv

(* Nothing is visited in the beginning. *)
LEMMA InitRight ==
    ASSUME Init
    PROVE  IInv
<1>1. /\ Visited = {} /\ OnStack = {} /\ Depths = {}
      /\ DOMAIN stack = {} /\ DOMAIN frames = {} /\ DOMAIN result = {}
  BY DEF Init, Visited, OnStack, ToSet, Depths
<1>2. Shapes
  BY <1>1 DEF Init, Shapes, Visited
<1>3. Times /\ Ordered /\ Looked /\ Descends /\ Ascends /\ Lows
  BY <1>1 DEF Times, Ordered, Looked, Descends, Ascends, Lows
<1>4. Apart /\ ComponentsRight
  BY <1>1 DEF Apart, Closed, ComponentsRight
<1>5. ErrorsShowLoops /\ Reported
  BY DEF Init, ErrorsShowLoops, Reported
<1> QED
  BY <1>2, <1>3, <1>4, <1>5 DEF IInv, SearchInv

(* A step of the search judges nothing. *)
LEMMA StillReported ==
    ASSUME ErrorsShowLoops, Reported, Shapes,
           UNCHANGED <<wires, barriers, judged, errors>>,
           \A i \in 1 .. judged : result'[i] = result[i]
    PROVE  ErrorsShowLoops' /\ Reported'
<1>1. \A u : Adj(u)' = Adj(u)
  BY DEF Adj
<1>2. \A c : (Loops(c)' <=> Loops(c)) /\ (HasBarrier(c)' <=> HasBarrier(c))
  BY <1>1 DEF Loops, HasBarrier
<1>3. ErrorsShowLoops'
  BY <1>1 DEF ErrorsShowLoops
<1>4. Reported'
  BY <1>2 DEF Reported
<1> QED
  BY <1>3, <1>4

(* The invariant is inductive. *)
LEMMA StepKeeps ==
    ASSUME IInv, [Next]_vars
    PROVE  IInv'
<1>0. SearchInv /\ ComponentsRight /\ ErrorsShowLoops /\ Reported /\ Shapes
  BY DEF IInv, SearchInv
<1>1. ASSUME Root \/ Look
      PROVE  IInv'
  <2>1. UNCHANGED <<wires, barriers, result, judged, errors>>
    BY <1>1 DEF Root, Look
  <2>2. SearchInv'
    BY <1>0, <1>1, RootKeeps, LookKeeps
  <2>3. ComponentsRight'
    BY <1>0, <2>1 DEF ComponentsRight
  <2> QED
    BY <1>0, <2>1, <2>2, <2>3, StillReported DEF IInv
<1>2. CASE Close
  <2>1. SearchInv' /\ ComponentsRight'
    BY <1>0, <1>2, CloseKeeps
  <2>2. /\ UNCHANGED <<wires, barriers, judged, errors>>
        /\ result' = result \/ \E part : result' = Append(result, part)
    BY <1>2 DEF Close
  <2>3. result \in Seq(SUBSET Nodes) /\ judged \in 0 .. Len(result) /\ Len(result) \in Nat
    BY <1>0 DEF Shapes
  <2>4. \A i \in 1 .. judged : result'[i] = result[i]
    <3>1. CASE result' = result
      BY <3>1
    <3>2. ASSUME NEW part, result' = Append(result, part)
          PROVE  \A i \in 1 .. judged : result'[i] = result[i]
      <4> DEFINE parts == (SUBSET Nodes) \union {part}
      <4>0. (SUBSET Nodes) \subseteq parts
        OBVIOUS
      <4>1. part \in parts
        OBVIOUS
      <4> HIDE DEF parts
      <4>2. result \in Seq(parts)
        BY <2>3, <4>0, SeqMonotonic
      <4>3. \A i \in 1 .. Len(result) : result'[i] = result[i]
        BY <3>2, <4>1, <4>2, AppendProperties
      <4> QED
        BY <2>3, <4>3
    <3> QED
      BY <2>2, <3>1, <3>2
  <2> QED
    BY <1>0, <2>1, <2>2, <2>4, StillReported DEF IInv
<1>3. CASE Judge
  BY <1>3, JudgeKeeps
<1>4. CASE UNCHANGED vars
  <2>1. UNCHANGED <<wires, barriers, idx, low, stack, frames, result, judged, errors>>
    BY <1>4 DEF vars
  <2>2. SearchInv'
    BY <1>0, <2>1, SearchRests DEF Shapes
  <2>3. ComponentsRight'
    BY <1>0, <2>1 DEF ComponentsRight
  <2> QED
    BY <1>0, <2>1, <2>2, <2>3, StillReported DEF IInv
<1> QED
  BY <1>1, <1>2, <1>3, <1>4 DEF Next

-----------------------------------------------------------------------------
(* The theorems. *)

(* What is known of the components is right. *)
LEMMA SearchIsRight ==
    ASSUME IInv
    PROVE  SearchRight
<1>0. Shapes /\ Times /\ Ordered /\ Apart /\ Ascends
  BY DEF IInv, SearchInv
<1>1. /\ \A i \in Depths : Gate(i) \in Visited
      /\ OnStack \subseteq Visited /\ Visited \subseteq Nodes
      /\ \A u \in Visited : idx[u] \in Nat /\ low[u] \in Nat
  BY <1>0, Shaped
<1>2. Cardinality(Visited) \in Nat /\ Cardinality(Nodes) \in Nat
      /\ Cardinality(Visited) <= Cardinality(Nodes)
  BY <1>1, NodesAssumption, FS_Subset, FS_CardinalityType
<1>3. /\ idx \in [Visited -> 0 .. Cardinality(Nodes) - 1]
      /\ low \in [Visited -> 0 .. Cardinality(Nodes) - 1]
  <2>1. \A u \in Visited : /\ idx[u] \in 0 .. Cardinality(Nodes) - 1
                           /\ low[u] \in 0 .. Cardinality(Nodes) - 1
    BY <1>0, <1>1, <1>2 DEF Times
  <2> QED
    BY <1>0, <2>1 DEF Shapes
<1>4. \A i \in DOMAIN frames : frames[i].left \subseteq Adj(frames[i].node)
  BY <1>0 DEF Ordered, Depths, Gate
<1>5. \A i \in DOMAIN result : result[i] \subseteq Visited
  BY <1>0 DEF Apart, Closed
<1>6. TypeOK
  BY <1>0, <1>1, <1>3, <1>4, <1>5 DEF TypeOK, Shapes
<1>7. OpenReachesSearch
  BY <1>0 DEF Ascends, OpenReachesSearch, Depths, Gate, Gets
<1> QED
  BY <1>6, <1>7 DEF SearchRight, IInv

(* A gate that gets back to itself is in a component that loops. *)
LEMMA CyclesLoop ==
    ASSUME Shapes, NEW scc, NEW v \in scc, v \in Nodes,
           scc = {v} \union {w \in Nodes : w \in Reach(wires, v) /\ v \in Reach(wires, w)},
           v \in Reach(wires, v)
    PROVE  Loops(scc)
<1>1. CASE \E w \in scc : w # v
  <2>1. PICK w \in scc : w # v
    BY <1>1
  <2>2. IsFiniteSet({v}) /\ Cardinality({v}) = 1
    BY FS_Singleton
  <2>3. IsFiniteSet({v, w}) /\ Cardinality({v, w}) = 2
    <3>1. {v, w} = {v} \union {w} /\ w \notin {v}
      BY <2>1
    <3>2. IsFiniteSet({v} \union {w}) /\ Cardinality({v} \union {w}) = Cardinality({v}) + 1
      BY <2>2, <3>1, FS_AddElement, Zenon
    <3> QED
      BY <2>2, <3>1, <3>2
  <2>4. IsFiniteSet(scc)
    <3>1. scc \subseteq Nodes
      OBVIOUS
    <3> QED
      BY <3>1, NodesAssumption, FS_Subset
  <2>5. Cardinality({v, w}) <= Cardinality(scc) /\ Cardinality(scc) \in Nat
    BY <2>1, <2>4, FS_Subset, FS_CardinalityType
  <2> QED
    BY <2>3, <2>5 DEF Loops
<1>2. CASE scc = {v}
  <2> SUFFICES ASSUME v \notin Adj(v)
               PROVE  FALSE
    BY DEF Loops
  <2> DEFINE us == Reach(wires, v) \ {v}
  <2>1. us \in SUBSET Nodes
    BY DEF Reach
  <2>2. \A w \in Nodes : <<v, w>> \in wires => w \in us
    BY ReachOn DEF Adj
  <2>3. ASSUME NEW u \in us, NEW w \in Nodes, <<u, w>> \in wires
        PROVE  w \in us
    <3>1. w \in Reach(wires, v)
      BY <2>3, ReachOn
    <3>2. ASSUME w = v
          PROVE  FALSE
      <4>1. u \in Nodes /\ v \in Reach(wires, u)
        BY <2>1, <2>3, <3>2, ReachOn
      <4>2. u \in scc
        BY <4>1
      <4> QED
        BY <1>2, <4>2
    <3> QED
      BY <3>1, <3>2
  <2>4. Reach(wires, v) \subseteq us
    <3> HIDE DEF us
    <3> QED
      BY <2>1, <2>2, <2>3, ReachWithin DEF Shapes
  <2> QED
    BY <2>4
<1> QED
  BY <1>1, <1>2

(* What is reported is right once all components have their verdicts. *)
LEMMA ReportsAreRight ==
    ASSUME IInv
    PROVE  LoopsReported
<1>0. Shapes /\ Apart /\ Ascends /\ ComponentsRight /\ ErrorsShowLoops /\ Reported
  BY DEF IInv, SearchInv
<1>1. ASSUME Done, NEW v \in Nodes, v \in Reach(wires, v),
             \A b \in barriers : ~(b \in Reach(wires, v) /\ v \in Reach(wires, b))
      PROVE  \E e \in errors : v \in e.scc
  <2>1. frames = <<>> /\ Visited = Nodes /\ judged = Len(result)
    BY <1>1 DEF Done, Searched
  <2>2. OnStack = {}
    BY <1>0, <2>1 DEF Ascends, Depths
  <2>3. PICK i \in DOMAIN result : v \in result[i]
    BY <1>0, <2>1, <2>2 DEF Apart, Closed
  <2>4. result[i] = {v} \union {w \in Nodes : w \in Reach(wires, v) /\ v \in Reach(wires, w)}
    BY <1>0, <2>3 DEF ComponentsRight
  <2>5. Loops(result[i])
    BY <1>0, <1>1, <2>3, <2>4, CyclesLoop
  <2>6. ~HasBarrier(result[i])
    BY <1>1, <2>4 DEF HasBarrier
  <2>7. i \in 1 .. judged
    BY <1>0, <2>1, <2>3 DEF Shapes
  <2> QED
    BY <1>0, <2>3, <2>5, <2>6, <2>7 DEF Reported
<1> QED
  BY <1>0, <1>1 DEF LoopsReported, BarrierlessReported

(* For every finite graph of gates and every order in which wires are looked
   at: what strongconnect closes are the strongly connected components, and of
   these analyze_module reports, with a loop of wires that has no barrier, all
   that loop and hold no signal back. *)
THEOREM ChecksRight == Spec => []CyclesRight
<1>1. Init => IInv
  BY InitRight
<1>2. IInv /\ [Next]_vars => IInv'
  BY StepKeeps
<1>3. IInv => CyclesRight
  BY SearchIsRight, ReportsAreRight DEF CyclesRight
<1> QED
  BY <1>1, <1>2, <1>3, PTL DEF Spec

=============================================================================

-------------------------- MODULE PureGatesProofs --------------------------
(***************************************************************************)
(* Proofs about PureGates, for every graph of gates, every law and all     *)
(* values.  CacheInv is inductive: marking may stop at a stale gate only   *)
(* because what is behind one is stale and queued (StaleClosed), and that  *)
(* is what keeps the values of the clean ones right (CleanComputed).       *)
(*                                                                         *)
(* That the clean gates hold what the whole graph computes anew (Now) is   *)
(* no induction over the graph here: two functions that follow the laws on *)
(* a set closed under the sources agree, since a set of gates on which     *)
(* they differ has one that reads none of the others (AcyclicAssumption).  *)
(***************************************************************************)
EXTENDS PureGates, TLAPS

(* mark_readers stales clean gates only, and all the readers of the node and
   of each gate it stales are stale afterwards. *)
LEMMA Marking ==
    ASSUME NEW n
    PROVE  /\ NewlyStale(n) \subseteq Pure \ dirty
           /\ ReadBy({n}) \subseteq dirty \union NewlyStale(n)
           /\ \A h \in NewlyStale(n) : ReadBy({h}) \subseteq dirty \union NewlyStale(n)
<1> DEFINE Closed(T) == /\ ReadBy({n}) \ dirty \subseteq T
                        /\ \A h \in T : ReadBy({h}) \ dirty \subseteq T
<1>0. \A g : g \in NewlyStale(n) <=>
               g \in Pure \ dirty /\ \A T \in SUBSET (Pure \ dirty) : Closed(T) => g \in T
  BY Zenon DEF NewlyStale
<1>1. NewlyStale(n) \subseteq Pure \ dirty
  BY <1>0
<1>2. ReadBy({n}) \subseteq Pure
  BY DEF ReadBy
<1>3. \A h : ReadBy({h}) \subseteq Pure
  BY DEF ReadBy
<1>4. ASSUME NEW g \in ReadBy({n}), g \notin dirty
      PROVE  g \in NewlyStale(n)
  <2>1. g \in Pure \ dirty
    BY <1>2, <1>4
  <2>2. \A T \in SUBSET (Pure \ dirty) : Closed(T) => g \in T
    BY <1>4
  <2> QED
    BY <1>0, <2>1, <2>2
<1>5. ASSUME NEW h \in NewlyStale(n), NEW g \in ReadBy({h}), g \notin dirty
      PROVE  g \in NewlyStale(n)
  <2>1. g \in Pure \ dirty
    BY <1>3, <1>5
  <2>2. ASSUME NEW T \in SUBSET (Pure \ dirty), Closed(T)
        PROVE  g \in T
    <3>1. h \in T
      BY <1>0, <2>2
    <3> QED
      BY <1>5, <2>2, <3>1
  <2> QED
    BY <1>0, <2>1, <2>2
<1> QED
  BY <1>1, <1>4, <1>5

(* A step that marks a leaf, and changes no other, keeps the caches right. *)
LEMMA Marks ==
    ASSUME TypeOK, StaleClosed, CleanComputed,
           NEW n \in Leaves, NEW queue, NEW late,
           queue \subseteq queued_check,
           MarkReaders(n, queue, late),
           \A w \in Watched : Reads[w] \in dirty => w \in queue,
           \A w \in Watched \ queue : Reads[w] \notin written => last'[w] = Value(Reads[w]),
           \A l \in Leaves \ {n} : leaf'[l] = leaf[l],
           cached' = cached,
           written \subseteq written' \union {n}
    PROVE  /\ dirty' \subseteq Pure
           /\ stale \subseteq stale' /\ stale' \subseteq Pure
           /\ dirty \subseteq stale => dirty' \subseteq stale'
           /\ queued_check' \subseteq Watched
           /\ late_checks' \subseteq queued_check'
           /\ StaleClosed' /\ CleanComputed' /\ WatchedSeen'
<1> DEFINE N == NewlyStale(n)
<1> USE GraphAssumption DEF Nodes, Leaves
<1>1. /\ N \subseteq Pure \ dirty
      /\ ReadBy({n}) \subseteq dirty \union N
      /\ \A h \in N : ReadBy({h}) \subseteq dirty \union N
  BY Marking
<1> HIDE DEF N
<1>2. /\ dirty' = dirty \union N
      /\ stale' = stale \union N
      /\ queued_check' = queue \union {w \in Watched : Reads[w] \in N \union {n}}
      /\ late_checks' \subseteq queued_check'
  BY DEF MarkReaders, Reached, N
<1>3. /\ dirty \subseteq Pure /\ stale \subseteq Pure /\ queued_check \subseteq Watched
      /\ \A g \in dirty : ReadBy({g}) \subseteq dirty
  BY DEF TypeOK, StaleClosed
<1>4. /\ dirty' \subseteq Pure
      /\ stale \subseteq stale' /\ stale' \subseteq Pure
      /\ dirty \subseteq stale => dirty' \subseteq stale'
      /\ queued_check' \subseteq Watched
      /\ late_checks' \subseteq queued_check'
  BY <1>1, <1>2, <1>3
<1>5. StaleClosed'
  <2>1. \A g \in dirty' : ReadBy({g}) \subseteq dirty'
    BY <1>1, <1>2, <1>3
  <2>2. \A w \in Watched : Reads[w] \in dirty' => w \in queued_check'
    BY <1>2
  <2> QED
    BY <2>1, <2>2 DEF StaleClosed, ReadBy
<1>6. \A s \in Nodes \ {n} : Value(s)' = Value(s)
  BY DEF Value
<1>7. CleanComputed'
  <2> SUFFICES ASSUME NEW g \in Pure \ dirty', Source[g] \intersect written' = {}
               PROVE  cached'[g] = Computed(g)'
    BY DEF CleanComputed
  <2>1. n \notin Source[g]
    BY <1>1, <1>2 DEF ReadBy
  <2>2. Source[g] \intersect written = {}
    BY <2>1
  <2>3. Source[g] \subseteq Nodes
    OBVIOUS
  <2>4. [s \in Source[g] |-> Value(s)'] = [s \in Source[g] |-> Value(s)]
    BY <1>6, <2>1, <2>3
  <2>5. cached[g] = Computed(g)
    BY <1>2, <2>2 DEF CleanComputed
  <2> QED
    BY <2>4, <2>5 DEF Computed
<1>8. WatchedSeen'
  <2> SUFFICES ASSUME NEW w \in Watched \ queued_check', Reads[w] \notin written'
               PROVE  last'[w] = Value(Reads[w])'
    BY DEF WatchedSeen
  <2>1. w \notin queue /\ Reads[w] # n
    BY <1>2
  <2>2. Reads[w] \notin written
    BY <2>1
  <2>3. Reads[w] \in Nodes
    OBVIOUS
  <2> QED
    BY <1>6, <2>1, <2>2, <2>3
<1> QED
  BY <1>4, <1>5, <1>7, <1>8

-----------------------------------------------------------------------------
(* The caches are right at every step: a clean gate holds what it computes, a
   stale one has everything behind it stale and queued, and a watched input
   that is not queued has seen its value (mark_readers, refresh, settle). *)
LEMMA InitCache == Init => CacheInv
<1> SUFFICES ASSUME Init PROVE CacheInv
  OBVIOUS
<1> USE GraphAssumption DEF Init, Leaves
<1>1. TypeOK
  BY DEF TypeOK
<1>2. PhaseOK /\ StaleClosed /\ CleanComputed /\ WatchedSeen
  BY DEF PhaseOK, StaleClosed, CleanComputed, WatchedSeen, ReadBy
<1> QED
  BY <1>1, <1>2 DEF CacheInv

LEMMA RecomputeCache ==
    ASSUME CacheInv, NEW g \in Pure, Recompute(g)
    PROVE  CacheInv'
<1> USE GraphAssumption DEF CacheInv, Nodes, Leaves
<1>1. /\ g \in dirty /\ Source[g] \intersect dirty = {}
      /\ cached' = [cached EXCEPT ![g] = Computed(g)]
      /\ dirty' = dirty \ {g}
      /\ UNCHANGED <<leaf, stale, queued_check, late_checks, last, chain, phase>>
  BY DEF Recompute, ReadyToCompute
<1> USE DEF chain
<1>2. cached'[g] = Computed(g) /\ \A h \in Pure \ {g} : cached'[h] = cached[h]
  BY <1>1 DEF TypeOK
<1>3. TypeOK' /\ PhaseOK'
  <2>1. cached' = [h \in Pure |-> cached'[h]]
    BY <1>1 DEF TypeOK
  <2> QED
    BY <1>1, <2>1 DEF TypeOK, PhaseOK
<1>4. \A s \in Nodes \ {g} : Value(s)' = Value(s)
  BY <1>1, <1>2 DEF Value
<1>5. StaleClosed'
  <2>1. ASSUME NEW d \in dirty', NEW h \in ReadBy({d}) PROVE h \in dirty'
    <3>1. d \in dirty /\ h \in dirty
      BY <1>1, <2>1 DEF StaleClosed
    <3>2. h # g
      BY <1>1, <2>1, <3>1 DEF ReadBy
    <3> QED
      BY <1>1, <3>1, <3>2
  <2> QED
    BY <1>1, <2>1 DEF StaleClosed, ReadBy
<1>6. g \notin Source[g]
  BY <1>1
<1>7. CleanComputed'
  <2> SUFFICES ASSUME NEW h \in Pure \ dirty', Source[h] \intersect written' = {}
               PROVE  cached'[h] = Computed(h)'
    BY DEF CleanComputed
  <2>1. g \notin Source[h]
    BY <1>1, <1>6 DEF StaleClosed, ReadBy
  <2>2. [s \in Source[h] |-> Value(s)'] = [s \in Source[h] |-> Value(s)]
    BY <1>4, <2>1
  <2>3. Computed(h)' = Computed(h)
    BY <2>2 DEF Computed
  <2>4. CASE h = g
    BY <1>2, <2>3, <2>4
  <2>5. CASE h # g
    BY <1>1, <1>2, <2>3, <2>5 DEF CleanComputed
  <2> QED
    BY <2>4, <2>5
<1>8. WatchedSeen'
  <2> SUFFICES ASSUME phase # "load", NEW w \in Watched \ queued_check, Reads[w] \notin written
               PROVE  last[w] = Value(Reads[w])'
    BY <1>1 DEF WatchedSeen
  <2>1. Reads[w] # g
    BY <1>1 DEF StaleClosed
  <2>2. Reads[w] \in Nodes
    OBVIOUS
  <2> QED
    BY <1>4, <2>1, <2>2 DEF WatchedSeen
<1> QED
  BY <1>3, <1>5, <1>7, <1>8

(* A step that changes neither values nor what is stale keeps both. *)
LEMMA SameValues ==
    ASSUME CacheInv, UNCHANGED <<leaf, cached>>
    PROVE  /\ \A n : Value(n)' = Value(n)
           /\ \A g \in Pure : Computed(g)' = Computed(g)
<1>1. \A n : Value(n)' = Value(n)
  BY DEF Value
<1>2. ASSUME NEW g \in Pure PROVE Computed(g)' = Computed(g)
  <2>1. [s \in Source[g] |-> Value(s)'] = [s \in Source[g] |-> Value(s)]
    BY <1>1
  <2> QED
    BY <2>1 DEF Computed
<1> QED
  BY <1>1, <1>2

LEMMA LoadedCache ==
    ASSUME CacheInv, Loaded
    PROVE  CacheInv'
<1> USE GraphAssumption DEF CacheInv, Loaded, chain, Leaves
<1>1. /\ \A n : Value(n)' = Value(n)
      /\ \A g \in Pure : Computed(g)' = Computed(g)
  BY SameValues
<1>2. TypeOK'
  BY DEF TypeOK
<1>3. PhaseOK' /\ StaleClosed'
  BY DEF PhaseOK, StaleClosed, ReadBy
<1>4. CleanComputed'
  BY <1>1 DEF CleanComputed
<1>5. WatchedSeen'
  BY <1>1 DEF WatchedSeen
<1> QED
  BY <1>2, <1>3, <1>4, <1>5

LEMMA TickCache ==
    ASSUME CacheInv, Tick
    PROVE  CacheInv'
<1> USE GraphAssumption DEF CacheInv, Tick, cache, Leaves, Nodes
<1>1. /\ \A l \in Leaves \ {Clock} : leaf'[l] = leaf[l]
      /\ leaf' = [l \in Leaves |-> leaf'[l]]
      /\ leaf'[Clock] \in Stored[Clock]
  BY DEF TypeOK
<1>2. \A s \in Nodes \ {Clock} : Value(s)' = Value(s)
  BY <1>1 DEF Value
<1>3. TypeOK'
  BY <1>1 DEF TypeOK, PhaseOK
<1>4. PhaseOK' /\ StaleClosed'
  BY DEF PhaseOK, StaleClosed, ReadBy
<1>5. CleanComputed'
  <2> SUFFICES ASSUME NEW g \in Pure \ dirty, Source[g] \intersect written' = {}
               PROVE  cached[g] = Computed(g)'
    BY DEF CleanComputed
  <2>1. Clock \notin Source[g] /\ Source[g] \subseteq Nodes
    OBVIOUS
  <2>2. [s \in Source[g] |-> Value(s)'] = [s \in Source[g] |-> Value(s)]
    BY <1>2, <2>1
  <2> QED
    BY <2>2 DEF Computed, CleanComputed
<1>6. WatchedSeen'
  <2> SUFFICES ASSUME NEW w \in Watched \ queued_check, Reads[w] \notin written'
               PROVE  last[w] = Value(Reads[w])'
    BY DEF WatchedSeen
  <2>1. Reads[w] \in Nodes \ {Clock} /\ Reads[w] \notin written
    OBVIOUS
  <2> QED
    BY <1>2, <2>1 DEF WatchedSeen
<1> QED
  BY <1>3, <1>4, <1>5, <1>6

LEMMA SetOutCache ==
    ASSUME CacheInv, NEW o \in Outs, NEW v \in Stored[o], SetOut(o, v)
    PROVE  CacheInv'
<1> USE GraphAssumption DEF CacheInv, chain, Leaves
<1>1. /\ phase \in {"tick", "chain"}
      /\ leaf' = [leaf EXCEPT ![o] = v]
      /\ MarkReaders(o, queued_check, FALSE)
      /\ UNCHANGED <<cached, last, chain, phase>>
  BY DEF SetOut
<1>2. /\ leaf' = [l \in Leaves |-> leaf'[l]]
      /\ \A l \in Leaves : leaf'[l] \in Stored[l]
      /\ \A l \in Leaves \ {o} : leaf'[l] = leaf[l]
  BY <1>1 DEF TypeOK
<1>3. /\ dirty' \subseteq Pure
      /\ stale' \subseteq Pure
      /\ dirty \subseteq stale => dirty' \subseteq stale'
      /\ queued_check' \subseteq Watched
      /\ late_checks' \subseteq queued_check'
      /\ StaleClosed' /\ CleanComputed' /\ WatchedSeen'
  <2>1. \A w \in Watched : Reads[w] \in dirty => w \in queued_check
    BY <1>1 DEF StaleClosed
  <2>2. \A w \in Watched \ queued_check : Reads[w] \notin written => last'[w] = Value(Reads[w])
    BY <1>1 DEF WatchedSeen
  <2> QED
    BY <1>1, <1>2, <2>1, <2>2, Marks
<1>4. TypeOK'
  BY <1>1, <1>2, <1>3 DEF TypeOK
<1>5. PhaseOK'
  BY <1>1, <1>3 DEF PhaseOK
<1> QED
  BY <1>3, <1>4, <1>5

LEMMA InvalidateCache ==
    ASSUME CacheInv, Invalidate
    PROVE  CacheInv'
<1> USE GraphAssumption DEF CacheInv, Leaves
<1>1. /\ phase = "tick" /\ phase' = "stale"
      /\ MarkReaders(Clock, queued_check, FALSE)
      /\ written' = written \ {Clock}
      /\ UNCHANGED <<leaf, cached, last, written_in_plane, written_outside, late_vars>>
  BY DEF Invalidate
<1>2. /\ dirty' \subseteq Pure
      /\ stale' \subseteq Pure
      /\ dirty \subseteq stale => dirty' \subseteq stale'
      /\ queued_check' \subseteq Watched
      /\ late_checks' \subseteq queued_check'
      /\ StaleClosed' /\ CleanComputed' /\ WatchedSeen'
  <2>1. \A w \in Watched : Reads[w] \in dirty => w \in queued_check
    BY <1>1 DEF StaleClosed
  <2>2. \A w \in Watched \ queued_check : Reads[w] \notin written => last'[w] = Value(Reads[w])
    BY <1>1 DEF WatchedSeen
  <2> QED
    BY <1>1, <2>1, <2>2, Marks
<1>3. TypeOK'
  BY <1>1, <1>2 DEF TypeOK
<1>4. PhaseOK'
  BY <1>1, <1>2 DEF PhaseOK
<1> QED
  BY <1>2, <1>3, <1>4

LEMMA PublishCache ==
    ASSUME CacheInv, NEW x \in written, Publish(x)
    PROVE  CacheInv'
<1> USE GraphAssumption DEF CacheInv, Leaves
<1>1. /\ phase = "publish"
      /\ MarkReaders(x, queued_check, MarkingLate(x))
      /\ written' = written \ {x}
      /\ written_in_plane' = written_in_plane \ {x}
      /\ written_outside' = written_outside \ {x}
      /\ late_vars' = late_vars \union ({x} \intersect (written_in_plane \ written_outside))
      /\ UNCHANGED <<leaf, cached, last, phase>>
  BY DEF Publish
<1>2. x \in Vars
  BY <1>1 DEF TypeOK, PhaseOK
<1>3. /\ dirty' \subseteq Pure
      /\ stale' \subseteq Pure
      /\ dirty \subseteq stale => dirty' \subseteq stale'
      /\ queued_check' \subseteq Watched
      /\ late_checks' \subseteq queued_check'
      /\ StaleClosed' /\ CleanComputed' /\ WatchedSeen'
  <2>1. \A w \in Watched : Reads[w] \in dirty => w \in queued_check
    BY <1>1 DEF StaleClosed
  <2>2. \A w \in Watched \ queued_check : Reads[w] \notin written => last'[w] = Value(Reads[w])
    BY <1>1 DEF WatchedSeen
  <2> QED
    BY <1>1, <1>2, <2>1, <2>2, Marks
<1>4. TypeOK'
  BY <1>1, <1>2, <1>3 DEF TypeOK
<1>5. PhaseOK'
  BY <1>1, <1>3 DEF PhaseOK
<1> QED
  BY <1>3, <1>4, <1>5

LEMMA WriteVarCache ==
    ASSUME CacheInv, NEW x \in Vars, NEW v \in Stored[x], NEW inside \in BOOLEAN,
           WriteVar(x, v, inside)
    PROVE  CacheInv'
<1> USE GraphAssumption DEF CacheInv, WriteVar, cache, Leaves, Nodes
<1>1. /\ \A l \in Leaves \ {x} : leaf'[l] = leaf[l]
      /\ leaf' = [l \in Leaves |-> leaf'[l]]
      /\ leaf'[x] = v
  BY DEF TypeOK
<1>2. \A s \in Nodes \ {x} : Value(s)' = Value(s)
  BY <1>1 DEF Value
<1>3. TypeOK'
  <2>1. Clock \notin Vars /\ Clock \notin written
    BY DEF PhaseOK
  <2>2. /\ written' = written \union {x}
        /\ written_in_plane' \union written_outside'
             = (written_in_plane \union written_outside) \union {x}
    <3>1. CASE inside
      BY <3>1
    <3>2. CASE ~ inside
      BY <3>2
    <3> QED
      BY <3>1, <3>2
  <2>3. /\ written' \subseteq Vars \union {Clock}
        /\ written_in_plane' \union written_outside' = written' \ {Clock}
    BY <2>1, <2>2 DEF TypeOK
  <2>4. \A l \in Leaves : leaf'[l] \in Stored[l]
    BY <1>1 DEF TypeOK
  <2> HIDE DEF WriteVar
  <2>5. UNCHANGED <<cached, dirty, stale, queued_check, late_checks, last, late_vars, phase>>
    BY DEF WriteVar
  <2> QED
    BY <1>1, <2>3, <2>4, <2>5 DEF TypeOK
<1>4. PhaseOK' /\ StaleClosed'
  BY DEF PhaseOK, StaleClosed, ReadBy
<1>5. CleanComputed'
  <2> SUFFICES ASSUME NEW g \in Pure \ dirty, Source[g] \intersect written' = {}
               PROVE  cached[g] = Computed(g)'
    BY DEF CleanComputed
  <2>1. x \notin Source[g] /\ Source[g] \subseteq Nodes
    OBVIOUS
  <2>2. [s \in Source[g] |-> Value(s)'] = [s \in Source[g] |-> Value(s)]
    BY <1>2, <2>1
  <2> QED
    BY <2>2 DEF Computed, CleanComputed
<1>6. WatchedSeen'
  <2> SUFFICES ASSUME NEW w \in Watched \ queued_check, Reads[w] \notin written'
               PROVE  last[w] = Value(Reads[w])'
    BY DEF WatchedSeen
  <2>1. Reads[w] \in Nodes \ {x} /\ Reads[w] \notin written
    OBVIOUS
  <2> QED
    BY <1>2, <2>1 DEF WatchedSeen
<1> QED
  BY <1>3, <1>4, <1>5, <1>6

LEMMA CheckCache ==
    ASSUME CacheInv, NEW w \in queued_check, Check(w)
    PROVE  CacheInv'
<1> USE GraphAssumption DEF CacheInv, chain, Leaves
<1>1. /\ phase = "check" /\ Reads[w] \notin dirty
      /\ last' = [last EXCEPT ![w] = Value(Reads[w])]
      /\ UNCHANGED <<cached, chain, phase>>
  BY DEF Check
<1>2. /\ w \in Watched
      /\ last' = [u \in Watched |-> last'[u]]
      /\ last'[w] = Value(Reads[w])
      /\ \A u \in Watched \ {w} : last'[u] = last[u]
  BY <1>1 DEF TypeOK
<1>3. \A u \in Watched : Reads[u] \in dirty => u \in queued_check \ {w}
  BY <1>1 DEF StaleClosed
<1>4. \A u \in Watched \ (queued_check \ {w}) :
        Reads[u] \notin written => last'[u] = Value(Reads[u])
  BY <1>1, <1>2 DEF WatchedSeen
<1>5. CASE /\ queued_check' = queued_check \ {w}
           /\ late_checks' = late_checks \ {w}
           /\ UNCHANGED <<leaf, dirty, stale>>
  <2>1. /\ \A n : Value(n)' = Value(n)
        /\ \A g \in Pure : Computed(g)' = Computed(g)
    BY <1>1, <1>5, SameValues
  <2>2. TypeOK' /\ PhaseOK'
    BY <1>1, <1>2, <1>5 DEF TypeOK, PhaseOK
  <2>3. StaleClosed'
    BY <1>1, <1>3, <1>5 DEF StaleClosed, ReadBy
  <2>4. CleanComputed' /\ WatchedSeen'
    BY <1>1, <1>4, <1>5, <2>1 DEF CleanComputed, WatchedSeen
  <2> QED
    BY <2>2, <2>3, <2>4
<1>6. CASE \E o \in Pulses[w] :
             /\ leaf[o] # PulseValue(o)
             /\ leaf' = [leaf EXCEPT ![o] = PulseValue(o)]
             /\ MarkReaders(o, queued_check \ {w}, FALSE)
  <2> PICK o \in Pulses[w] : /\ leaf' = [leaf EXCEPT ![o] = PulseValue(o)]
                             /\ MarkReaders(o, queued_check \ {w}, FALSE)
    BY <1>6
  <2>1. o \in Outs /\ PulseValue(o) \in Stored[o]
    BY <1>2 DEF PulseValue
  <2>2. /\ leaf' = [l \in Leaves |-> leaf'[l]]
        /\ \A l \in Leaves : leaf'[l] \in Stored[l]
        /\ \A l \in Leaves \ {o} : leaf'[l] = leaf[l]
    BY <2>1 DEF TypeOK
  <2>3. /\ dirty' \subseteq Pure
        /\ stale' \subseteq Pure
        /\ dirty \subseteq stale => dirty' \subseteq stale'
        /\ queued_check' \subseteq Watched
        /\ late_checks' \subseteq queued_check'
        /\ StaleClosed' /\ CleanComputed' /\ WatchedSeen'
    <3> DEFINE queue == queued_check \ {w}
    <3>1. queue \subseteq queued_check /\ MarkReaders(o, queue, FALSE)
      OBVIOUS
    <3>2. /\ \A u \in Watched : Reads[u] \in dirty => u \in queue
          /\ \A u \in Watched \ queue : Reads[u] \notin written => last'[u] = Value(Reads[u])
      BY <1>3, <1>4
    <3> HIDE DEF queue
    <3> QED
      BY <1>1, <2>1, <2>2, <3>1, <3>2, Marks
  <2>4. TypeOK'
    BY <1>1, <1>2, <2>2, <2>3 DEF TypeOK
  <2>5. PhaseOK'
    BY <1>1, <2>3 DEF PhaseOK
  <2> QED
    BY <2>3, <2>4, <2>5
<1> QED
  BY <1>5, <1>6 DEF Check

(* The steps that only move on to the next phase. *)
LEMMA PhaseCache ==
    ASSUME CacheInv,
           RunUnit \/ FinishChain \/ Published \/ SettleStale \/ Settled \/ UNCHANGED vars
    PROVE  CacheInv'
<1> USE DEF CacheInv, cache, chain, vars
<1>1. /\ UNCHANGED <<leaf, cached, dirty, queued_check, late_checks, last,
                     written, written_in_plane, written_outside>>
      /\ phase = "load" <=> phase' = "load"
      /\ stale' \in {stale, {}} /\ late_vars' \in {late_vars, {}}
  BY DEF RunUnit, FinishChain, Published, SettleStale, Settled
<1>2. /\ \A n : Value(n)' = Value(n)
      /\ \A g \in Pure : Computed(g)' = Computed(g)
  BY <1>1, SameValues
<1>3. TypeOK'
  BY <1>1 DEF TypeOK, RunUnit, FinishChain, Published, SettleStale, Settled
<1>4. PhaseOK'
  BY DEF PhaseOK, RunUnit, FinishChain, Published, SettleStale, Settled
<1>5. StaleClosed' /\ CleanComputed' /\ WatchedSeen'
  BY <1>1, <1>2 DEF StaleClosed, CleanComputed, WatchedSeen, ReadBy
<1> QED
  BY <1>3, <1>4, <1>5

(* The caches are right at every step, for every graph and every law: no clean
   gate holds an outdated value and no watched input misses a change of its
   cone (mark_readers, refresh, settle, publish_writes, invalidate). *)
THEOREM Cached == Spec => []CacheInv
<1>1. Init => CacheInv
  BY InitCache
<1>2. CacheInv /\ [Next]_vars => CacheInv'
  <2> SUFFICES ASSUME CacheInv, [Next]_vars PROVE CacheInv'
    OBVIOUS
  <2>1. ASSUME NEW g \in Pure, Recompute(g) PROVE CacheInv'
    BY <2>1, RecomputeCache
  <2>2. ASSUME NEW w \in queued_check, Check(w) PROVE CacheInv'
    BY <2>2, CheckCache
  <2>3. ASSUME NEW o \in Outs, NEW v \in Stored[o], SetOut(o, v) PROVE CacheInv'
    BY <2>3, SetOutCache
  <2>4. ASSUME NEW x \in Vars, NEW inside \in BOOLEAN, NEW v \in Stored[x],
               WriteVar(x, v, inside)
        PROVE  CacheInv'
    BY <2>4, WriteVarCache
  <2>5. ASSUME NEW x \in written, Publish(x) PROVE CacheInv'
    BY <2>5, PublishCache
  <2> QED
    BY <2>1, <2>2, <2>3, <2>4, <2>5, LoadedCache, TickCache, InvalidateCache, PhaseCache
       DEF Next, SettleStep
<1> QED
  BY <1>1, <1>2, PTL DEF Spec

(* Between units and ticks every watched input has seen the value its node
   holds, and every gate that is not stale holds what it computes: settle has
   missed nothing. *)
Caught ==
    phase = "ready" =>
      /\ \A w \in Watched : last[w] = Value(Reads[w])
      /\ \A w \in Watched : Reads[w] \notin dirty
      /\ \A g \in Pure \ dirty : cached[g] = Computed(g)

THEOREM NoChangeMissed == Spec => []Caught
<1>1. CacheInv => Caught
  BY DEF CacheInv, Caught, PhaseOK, StaleClosed, CleanComputed, WatchedSeen
<1> QED
  BY <1>1, Cached, PTL

-----------------------------------------------------------------------------
(* What a fresh computation of the graph gives. *)

ClosedUnder(S) == S \subseteq Nodes /\ \A n \in S \intersect Pure : Source[n] \subseteq S

(* f follows the laws on S. *)
Follows(f, S) ==
    \A n \in S : f[n] = IF n \in Pure THEN Law(n, [s \in Source[n] |-> f[s]]) ELSE leaf[n]

(* Two ways to compute a node agree: refresh may take the stale gates in any
   order that has sources first. *)
LEMMA OneResult ==
    ASSUME NEW S, NEW T, NEW f, NEW g, ClosedUnder(S), ClosedUnder(T),
           Follows(f, S), Follows(g, T)
    PROVE  \A n \in S \intersect T : f[n] = g[n]
<1> DEFINE apart == {n \in S \intersect T \intersect Pure : f[n] # g[n]}
<1>1. \A n \in (S \intersect T) \ Pure : f[n] = g[n]
  BY DEF Follows
<1>2. apart = {}
  <2> SUFFICES ASSUME apart # {} PROVE FALSE
    OBVIOUS
  <2>1. PICK m \in apart : Source[m] \intersect apart = {}
    BY AcyclicAssumption
  <2>2. Source[m] \subseteq S \intersect T
    BY <2>1 DEF ClosedUnder
  <2>3. \A s \in Source[m] : f[s] = g[s]
    BY <1>1, <2>1, <2>2
  <2>4. [s \in Source[m] |-> f[s]] = [s \in Source[m] |-> g[s]]
    BY <2>3
  <2>5. f[m] = g[m]
    BY <2>1, <2>4 DEF Follows
  <2> QED
    BY <2>1, <2>5
<1> QED
  BY <1>1, <1>2

(* An acyclic graph can be computed whatever its size: Now is defined by its
   recursion. *)
LEMMA Computable == \E f : f = [n \in Nodes |->
    IF n \in Pure THEN Law(n, [s \in Source[n] |-> f[s]]) ELSE leaf[n]]
<1> USE GraphAssumption DEF Nodes
<1> DEFINE Solves(n, S, f) == ClosedUnder(S) /\ n \in S /\ Follows(f, S)
           covered == {n \in Nodes : \E S, f : Solves(n, S, f)}
           Solved(n, v) == \E S, f : Solves(n, S, f) /\ v = f[n]
           F == [n \in Nodes |-> CHOOSE v : Solved(n, v)]
<1>1. ASSUME NEW n \in Nodes, NEW S, NEW f, Solves(n, S, f)
      PROVE  F[n] = f[n]
  <2>1. Solved(n, f[n])
    BY <1>1
  <2>2. Solved(n, F[n])
    <3> HIDE DEF Solved
    <3> QED
      BY <2>1
  <2>3. PICK T, h : Solves(n, T, h) /\ F[n] = h[n]
    BY <2>2
  <2> QED
    BY <1>1, <2>3, OneResult
<1>2. ASSUME NEW n \in covered
      PROVE  /\ n \in Pure => Source[n] \subseteq covered
             /\ F[n] = IF n \in Pure THEN Law(n, [s \in Source[n] |-> F[s]]) ELSE leaf[n]
  <2>1. PICK S, f : Solves(n, S, f)
    BY <1>2
  <2>2. \A s \in S : s \in Nodes /\ Solves(s, S, f)
    BY <2>1 DEF ClosedUnder
  <2>3. S \subseteq covered
    BY <2>2
  <2>4. \A s \in S : F[s] = f[s]
    <3> HIDE DEF F, Solves
    <3> QED
      BY <1>1, <2>2
  <2>5. n \in Pure => Source[n] \subseteq S
    BY <2>1 DEF ClosedUnder
  <2> HIDE DEF F, Solves, covered
  <2>6. n \in Pure => [s \in Source[n] |-> F[s]] = [s \in Source[n] |-> f[s]]
    BY <2>4, <2>5
  <2>7. n \in S /\ Follows(f, S)
    BY <2>1 DEF Solves
  <2> QED
    BY <2>3, <2>4, <2>5, <2>6, <2>7 DEF Follows
<1>3. Leaves \subseteq covered
  <2> SUFFICES ASSUME NEW l \in Leaves PROVE l \in covered
    OBVIOUS
  <2>1. Solves(l, {l}, leaf)
    BY DEF ClosedUnder, Follows
  <2> QED
    BY <2>1
<1>4. Pure \subseteq covered
  <2> SUFFICES ASSUME Pure \ covered # {} PROVE FALSE
    OBVIOUS
  <2>1. PICK m \in Pure \ covered : Source[m] \intersect (Pure \ covered) = {}
    BY AcyclicAssumption
  <2>2. Source[m] \subseteq covered
    BY <1>3, <2>1
  <2> DEFINE S == covered \union {m}
             f == [n \in Nodes |-> IF n = m THEN Law(m, [s \in Source[m] |-> F[s]]) ELSE F[n]]
  <2>3. covered \subseteq Nodes /\ m \in Nodes /\ m \notin covered
    OBVIOUS
  <2>4. ClosedUnder(S)
    <3> HIDE DEF F, covered, Solves
    <3> QED
      BY <1>2, <2>2, <2>3 DEF ClosedUnder
  <2>5. \A n \in covered : f[n] = F[n]
    <3> HIDE DEF F, covered
    <3> QED
      BY <2>3
  <2>6. f[m] = Law(m, [s \in Source[m] |-> F[s]])
    <3> HIDE DEF F, covered
    <3> QED
      BY <2>3
  <2> HIDE DEF F, covered, Solves, f
  <2>7. [s \in Source[m] |-> F[s]] = [s \in Source[m] |-> f[s]]
    BY <2>2, <2>5
  <2>8. ASSUME NEW n \in covered
        PROVE  f[n] = IF n \in Pure THEN Law(n, [s \in Source[n] |-> f[s]]) ELSE leaf[n]
    <3>1. n \in Pure => [s \in Source[n] |-> F[s]] = [s \in Source[n] |-> f[s]]
      <4> SUFFICES ASSUME n \in Pure
                   PROVE  \A s \in Source[n] : F[s] = f[s]
        BY Zenon
      <4>1. Source[n] \subseteq covered
        BY <1>2
      <4> QED
        BY <4>1, <2>5
    <3> QED
      BY <1>2, <2>5, <3>1
  <2>9. Follows(f, S)
    BY <2>1, <2>6, <2>7, <2>8 DEF Follows
  <2>10. Solves(m, S, f)
    BY <2>4, <2>9 DEF Solves
  <2> QED
    BY <2>1, <2>10 DEF covered
<1>5. \A n \in Nodes : F[n] = IF n \in Pure THEN Law(n, [s \in Source[n] |-> F[s]]) ELSE leaf[n]
  <2> HIDE DEF F
  <2>1. Nodes \subseteq covered
    BY <1>3, <1>4
  <2> HIDE DEF covered
  <2> QED
    BY <1>2, <2>1
<1>6. F = [n \in Nodes |-> F[n]]
  OBVIOUS
<1> HIDE DEF F
<1>7. F = [n \in Nodes |-> IF n \in Pure THEN Law(n, [s \in Source[n] |-> F[s]]) ELSE leaf[n]]
  BY <1>5, <1>6
<1> QED
  BY <1>7

LEMMA NowFollows == Follows(Now, Nodes)
<1> DEFINE Fixed(f) == f = [n \in Nodes |->
             IF n \in Pure THEN Law(n, [s \in Source[n] |-> f[s]]) ELSE leaf[n]]
<1>1. \E f : Fixed(f)
  BY Computable
<1>2. Now = CHOOSE f : Fixed(f)
  BY DEF Now
<1>3. Fixed(Now)
  <2> HIDE DEF Fixed
  <2> QED
    BY <1>1, <1>2
<1> QED
  BY <1>3 DEF Follows

(* Once the writes are published, a gate that is not stale holds the value a
   computation from nothing would give. *)
LEMMA CleanIsNow ==
    ASSUME CacheInv, written = {}
    PROVE  \A n \in Nodes \ dirty : Value(n) = Now[n]
<1> USE GraphAssumption DEF CacheInv
<1> DEFINE S == Nodes \ dirty
           f == [n \in Nodes |-> Value(n)]
<1>1. ClosedUnder(S)
  BY DEF ClosedUnder, StaleClosed, ReadBy, Nodes
<1>2. \A n \in Nodes : f[n] = Value(n)
  OBVIOUS
<1>3. Follows(f, S)
  <2> SUFFICES ASSUME NEW n \in S
               PROVE  f[n] = IF n \in Pure THEN Law(n, [s \in Source[n] |-> f[s]]) ELSE leaf[n]
    BY DEF Follows
  <2>1. CASE n \in Pure
    <3>1. cached[n] = Law(n, [s \in Source[n] |-> Value(s)])
      BY <2>1 DEF CleanComputed, Computed
    <3>2. Source[n] \subseteq Nodes
      BY <2>1
    <3>3. [s \in Source[n] |-> Value(s)] = [s \in Source[n] |-> f[s]]
      BY <3>2
    <3> QED
      BY <1>2, <2>1, <3>1, <3>3 DEF Value
  <2>2. CASE n \notin Pure
    BY <1>2, <2>2 DEF Value
  <2> QED
    BY <2>1, <2>2
<1>4. ClosedUnder(Nodes)
  BY DEF ClosedUnder, Nodes
<1> HIDE DEF f
<1>5. \A n \in S \intersect Nodes : f[n] = Now[n]
  BY <1>1, <1>3, <1>4, NowFollows, OneResult
<1> QED
  BY <1>2, <1>5

(* NothingMissed says it of the graph computed afresh, not of the caches: for
   every acyclic graph, what a watched input saw last is what it would see. *)
LEMMA CaughtIsNow == CacheInv => NothingMissed
<1> SUFFICES ASSUME CacheInv, phase = "ready", NEW w \in Watched
             PROVE  last[w] = Now[Reads[w]]
  BY DEF NothingMissed
<1>1. written = {} /\ queued_check = {}
  BY DEF CacheInv, PhaseOK
<1>2. Reads[w] \in Nodes \ dirty
  BY <1>1, GraphAssumption DEF CacheInv, StaleClosed
<1>3. last[w] = Value(Reads[w])
  BY <1>1 DEF CacheInv, WatchedSeen
<1> QED
  BY <1>1, <1>2, <1>3, CleanIsNow

(* A settle shows a watched input only values computed from new inputs alone:
   settle checks an input when the gate it reads is no longer stale. *)
THEOREM NeverAGlitch == Spec => NoGlitch
<1>1. ASSUME CacheInv, [Next]_vars, NEW w \in Watched, phase = "check", last'[w] # last[w]
      PROVE  last'[w] = Now[Reads[w]]
  <2>1. PICK u \in queued_check : Check(u)
    BY <1>1 DEF Next, SettleStep, Recompute, SettleStale, Settled, Loaded, Tick, Invalidate,
                RunUnit, FinishChain, Published, SetOut, WriteVar, Publish, vars
  <2>2. /\ Reads[u] \notin dirty
        /\ last' = [last EXCEPT ![u] = Value(Reads[u])]
    BY <2>1 DEF Check
  <2>3. last = [x \in Watched |-> last[x]]
    BY <1>1 DEF CacheInv, TypeOK
  <2>4. u = w /\ last'[w] = Value(Reads[w])
    BY <1>1, <2>2, <2>3
  <2>5. Reads[w] \in Nodes \ dirty /\ written = {}
    BY <1>1, <2>2, <2>4, GraphAssumption DEF CacheInv, PhaseOK
  <2> QED
    BY <1>1, <2>4, <2>5, CleanIsNow
<1>2. CacheInv /\ [Next]_vars
        => [\A w \in Watched :
              phase = "check" /\ last'[w] # last[w] => last'[w] = Now[Reads[w]]]_vars
  BY <1>1
<1> QED
  BY <1>2, Cached, PTL DEF Spec, NoGlitch

-----------------------------------------------------------------------------
(* What acts late. *)

(* A gate's cone is within the cone of what reads it. *)
LEMMA ConeGrows ==
    ASSUME NEW h \in Pure, NEW k \in Pure, h \in Source[k]
    PROVE  Cone(h) \subseteq Cone(k)
<1> SUFFICES ASSUME NEW g \in Cone(h), NEW T \in SUBSET Pure,
                    {k} \intersect Pure \subseteq T,
                    \A i \in T : Source[i] \intersect Pure \subseteq T
             PROVE  g \in T
  BY Zenon DEF Cone
<1>1. h \in T
  OBVIOUS
<1>2. {h} \intersect Pure \subseteq T
  BY <1>1
<1> QED
  BY <1>2, Zenon DEF Cone

LEMMA ConeHasRoot == \A g \in Pure : g \in Cone(g)
  BY DEF Cone

(* mark_readers reaches only watched inputs behind the node it starts from. *)
LEMMA ReachedBehind ==
    ASSUME NEW x, NEW w \in Reached(x)
    PROVE  w \in Behind(x)
<1> DEFINE T == {h \in Pure \ dirty : \E g \in ReadBy({x}) : g \in Cone(h)}
<1>1. w \in Watched /\ Reads[w] \in NewlyStale(x) \union {x}
  BY DEF Reached
<1>2. ReadBy({x}) \ dirty \subseteq T
  BY ConeHasRoot DEF ReadBy
<1>3. ASSUME NEW h \in T, NEW k \in ReadBy({h}) \ dirty
      PROVE  k \in T
  <2>1. k \in Pure \ dirty /\ h \in Source[k]
    BY DEF ReadBy
  <2> QED
    BY <2>1, ConeGrows
<1>4. T \in SUBSET (Pure \ dirty)
  OBVIOUS
<1>5. NewlyStale(x) \subseteq T
  <2> HIDE DEF T
  <2> QED
    BY <1>2, <1>3, <1>4, Zenon DEF NewlyStale
<1> QED
  BY <1>1, <1>5 DEF Behind

(* An input acts late only when a var written inside callables alone reaches
   it: kept by publish_writes, and by run_unit, which starts with an empty
   queue. *)
LEMMA LateStep ==
    ASSUME CacheInv, LateOnlyInPlane, [Next]_vars
    PROVE  LateOnlyInPlane'
<1> USE DEF LateOnlyInPlane, Behind, ReadBy, Cone
<1>1. CASE late_checks' \subseteq late_checks /\ late_vars' = late_vars
  BY <1>1
<1>2. CASE RunUnit
  <2>1. late_checks' = {}
    BY <1>2 DEF RunUnit, cache, CacheInv, TypeOK, PhaseOK
  <2> QED
    BY <2>1
<1>3. ASSUME NEW x \in written, Publish(x)
      PROVE  LateOnlyInPlane'
  <2>1. /\ late_checks' = (IF MarkingLate(x) THEN Reached(x) ELSE {})
                             \union (late_checks \intersect queued_check)
        /\ late_vars' = late_vars \union ({x} \intersect (written_in_plane \ written_outside))
    BY <1>3 DEF Publish, MarkReaders
  <2>2. ASSUME NEW w \in late_checks'
        PROVE  \E y \in late_vars' : w \in Behind(y)
    <3> HIDE DEF Behind, ReadBy, Cone
    <3>1. CASE w \in late_checks
      BY <2>1, <3>1
    <3>2. CASE w \notin late_checks
      <4>1. MarkingLate(x) /\ w \in Reached(x)
        BY <2>1, <2>2, <3>2
      <4>2. x \in late_vars'
        BY <2>1, <4>1 DEF MarkingLate
      <4> QED
        BY <4>1, <4>2, ReachedBehind
    <3> QED
      BY <3>1, <3>2
  <2> QED
    BY <2>2
<1>4. ASSUME NEW o \in Outs, NEW v \in Stored[o], SetOut(o, v)
      PROVE  late_checks' \subseteq late_checks /\ late_vars' = late_vars
  BY <1>4 DEF SetOut, MarkReaders, chain
<1>5. ASSUME Invalidate
      PROVE  late_checks' \subseteq late_checks /\ late_vars' = late_vars
  BY <1>5 DEF Invalidate, MarkReaders
<1>6. ASSUME NEW w \in queued_check, Check(w)
      PROVE  late_checks' \subseteq late_checks /\ late_vars' = late_vars
  BY <1>6 DEF Check, MarkReaders, chain
<1>7. CASE UNCHANGED <<late_checks, late_vars>>
  BY <1>1, <1>7
<1>8. ASSUME NEW g \in Pure, Recompute(g) PROVE UNCHANGED <<late_checks, late_vars>>
  BY <1>8 DEF Recompute, chain
<1>9. ASSUME NEW x \in Vars, NEW inside \in BOOLEAN, NEW v \in Stored[x], WriteVar(x, v, inside)
      PROVE  UNCHANGED <<late_checks, late_vars>>
  BY <1>9 DEF WriteVar, cache
<1>10. ASSUME \/ SettleStale \/ Settled \/ Loaded \/ Tick \/ FinishChain \/ Published
              \/ UNCHANGED vars
       PROVE  UNCHANGED <<late_checks, late_vars>>
  BY <1>10 DEF SettleStale, Settled, Loaded, Tick, FinishChain, Published, vars, cache, chain
<1> HIDE DEF LateOnlyInPlane
<1> QED
  BY <1>1, <1>2, <1>3, <1>4, <1>5, <1>6, <1>7, <1>8, <1>9, <1>10 DEF Next, SettleStep

(* What settle promises of the watched inputs, for every acyclic graph: none
   misses a change of its cone, and none acts late that a plain write of the
   chain reaches (the comment on written_in_plane). *)
THEOREM WatchedAlwaysRight == Spec => []WatchedRight
<1>1. Init => LateOnlyInPlane
  BY DEF Init, LateOnlyInPlane
<1>2. CacheInv /\ LateOnlyInPlane /\ [Next]_vars => LateOnlyInPlane'
  BY LateStep
<1>3. Spec => []LateOnlyInPlane
  BY <1>1, <1>2, Cached, PTL DEF Spec
<1> QED
  BY <1>3, CaughtIsNow, Cached, PTL DEF WatchedRight
=============================================================================

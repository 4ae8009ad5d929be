-------------------------- MODULE SchedulerProofs --------------------------
(***************************************************************************)
(* Theorems about Scheduler, for every program and every bound: what each  *)
(* phase of a tick leaves behind (SchedulerInv), and that every step of it *)
(* is one of Reactions.                                                    *)
(***************************************************************************)
EXTENDS SchedulerReactions, FiniteSetTheorems, FunctionTheorems, SequenceTheorems, TLAPS

(* Adding activations keeps a queue a queue. *)
LEMMA AddType ==
    ASSUME NEW bag \in [Units -> Nat], NEW us
    PROVE  Add(bag, us) \in [Units -> Nat]
  BY DEF Add

(* Adding no activation changes nothing. *)
LEMMA AddNothing ==
    ASSUME NEW bag \in [Units -> Nat]
    PROVE  Add(bag, {}) = bag
  BY DEF Add

(* Adding activations leaves the units it does not name alone. *)
LEMMA AddOther ==
    ASSUME NEW bag \in [Units -> Nat], NEW us, NEW u \in Units, u \notin us
    PROVE  Add(bag, us)[u] = bag[u]
  BY DEF Add

(* A settle puts activations into the late queue only in the late pass, and
   into the pass only ahead of the cursor. *)
LEMMA SettleProperties ==
    ASSUME TypeOK, NEW check, NEW marked, Settle(check, marked)
    PROVE  /\ late' \in [Units -> Nat]
           /\ carried' \in [Units -> Nat]
           /\ pending' \in [Units -> Nat]
           /\ ~ in_late => late' = late
           /\ in_late => pending' = pending
           /\ \A u \in Units : Rank[u] <= cursor => pending'[u] = pending[u]
<1>1. PICK us, ds : /\ late'    = Add(late, ActivatedLate(us))
                    /\ carried' = Add(carried, ds \union ActivatedCarried(us))
                    /\ pending' = Add(pending, ActivatedPending(us))
  BY DEF Settle
<1>2. /\ late \in [Units -> Nat]
      /\ carried \in [Units -> Nat]
      /\ pending \in [Units -> Nat]
  BY DEF TypeOK
<1>3. /\ late' \in [Units -> Nat]
      /\ carried' \in [Units -> Nat]
      /\ pending' \in [Units -> Nat]
  BY <1>1, <1>2, AddType
<1>4. ~ in_late => late' = late
  BY <1>1, <1>2, AddNothing DEF ActivatedLate
<1>5. in_late => pending' = pending
  BY <1>1, <1>2, AddNothing DEF ActivatedPending
<1>6. ASSUME NEW u \in Units, Rank[u] <= cursor PROVE pending'[u] = pending[u]
  BY <1>1, <1>2, <1>6, AddOther DEF ActivatedPending, Behind
<1>7. QED
  BY <1>3, <1>4, <1>5, <1>6

(* The watched inputs a variable reaches are watched inputs. *)
LEMMA ReadersAreWatchers ==
    ASSUME NEW written \in SUBSET Vars
    PROVE  ReadersOf(written) \subseteq Watchers
  BY ProgramAssumption DEF ReadersOf

(* The initial state satisfies the invariant. *)
LEMMA InitInv == Init => SchedulerInv
<1> SUFFICES ASSUME Init PROVE SchedulerInv
  OBVIOUS
<1>1. TypeOK
  <2>1. fires \in [Buffers -> [1 .. Delay -> Nat]]
    BY DEF Init
  <2>2. NoWork \in [Units -> Nat]
    BY DEF NoWork
  <2>3. late_events \in Seq(Units) /\ outbox \in Seq(Senders)
    BY DEF Init
  <2>4. pc \in Phases /\ in_late \in BOOLEAN /\ cursor \in Nat \union {None}
    BY DEF Init, Phases
  <2>5. /\ steps \in 0 .. MaxSteps
        /\ depth \in 0 .. MaxDepth
        /\ forks \in Nat
    BY BoundAssumption DEF Init
  <2>6. /\ written_in_plane \subseteq Vars
        /\ written_outside \subseteq Vars
        /\ to_check \subseteq Watchers
        /\ container_fires \subseteq ContainerWatchers
    BY DEF Init
  <2>7. pending = NoWork /\ late = NoWork /\ carried = NoWork
    BY DEF Init
  <2>8. QED
    BY <2>1, <2>2, <2>3, <2>4, <2>5, <2>6, <2>7 DEF TypeOK
<1>2. PhaseInv
  BY DEF Init, PhaseInv, ChainClean
<1>3. PendingAhead
  BY DEF Init, PendingAhead, NoWork
<1>4. QED
  BY <1>1, <1>2, <1>3 DEF SchedulerInv

(* A gate without effect. *)
LEMMA PlainGateInv ==
    ASSUME SchedulerInv, PlainGate
    PROVE  SchedulerInv'
<1>1. TypeOK'
  BY BoundAssumption, ProgramAssumption DEF SchedulerInv, TypeOK, PlainGate, ExecGate, work, chain, sent, Phases, None
<1>2. PhaseInv'
  BY DEF SchedulerInv, PhaseInv, ChainClean, PlainGate, ExecGate, work, chain, sent, None
<1>3. PendingAhead'
  BY DEF SchedulerInv, PendingAhead, PlainGate, ExecGate, work, chain, sent
<1>4. QED
  BY <1>1, <1>2, <1>3 DEF SchedulerInv

(* A variable write. *)
LEMMA WriteVarInv ==
    ASSUME SchedulerInv, NEW v \in Vars, WriteVar(v)
    PROVE  SchedulerInv'
<1>1. TypeOK'
  BY BoundAssumption, ProgramAssumption DEF SchedulerInv, TypeOK, WriteVar, ExecGate, work, chain, sent, Phases, None
<1>2. PhaseInv'
  BY DEF SchedulerInv, PhaseInv, ChainClean, WriteVar, ExecGate, work, chain, sent, None
<1>3. PendingAhead'
  BY DEF SchedulerInv, PendingAhead, WriteVar, ExecGate, work, chain, sent
<1>4. QED
  BY <1>1, <1>2, <1>3 DEF SchedulerInv

(* A data output. *)
LEMMA SetOutInv ==
    ASSUME SchedulerInv, SetOut
    PROVE  SchedulerInv'
<1>1. TypeOK'
  BY BoundAssumption, ProgramAssumption DEF SchedulerInv, TypeOK, SetOut, ExecGate, work, chain, sent, Phases, None
<1>2. PhaseInv'
  BY DEF SchedulerInv, PhaseInv, ChainClean, SetOut, ExecGate, work, chain, sent, None
<1>3. PendingAhead'
  BY DEF SchedulerInv, PendingAhead, SetOut, ExecGate, work, chain, sent
<1>4. QED
  BY <1>1, <1>2, <1>3 DEF SchedulerInv

(* A custom event. *)
LEMMA SendEventInv ==
    ASSUME SchedulerInv, NEW s \in Senders, SendEvent(s)
    PROVE  SchedulerInv'
<1>1. TypeOK'
  BY BoundAssumption, ProgramAssumption DEF SchedulerInv, TypeOK, SendEvent, ExecGate, work, chain, sent, Phases, None
<1>2. PhaseInv'
  BY DEF SchedulerInv, PhaseInv, ChainClean, SendEvent, ExecGate, work, chain, sent, None
<1>3. PendingAhead'
  BY DEF SchedulerInv, PendingAhead, SendEvent, ExecGate, work, chain, sent
<1>4. QED
  BY <1>1, <1>2, <1>3 DEF SchedulerInv

(* A container write. *)
LEMMA WriteContainerInv ==
    ASSUME SchedulerInv, WriteContainer
    PROVE  SchedulerInv'
<1>1. TypeOK'
  BY BoundAssumption, ProgramAssumption DEF SchedulerInv, TypeOK, WriteContainer, ExecGate, work, chain, sent, Phases, None
<1>2. PhaseInv'
  BY DEF SchedulerInv, PhaseInv, ChainClean, WriteContainer, ExecGate, work, chain, sent, None
<1>3. PendingAhead'
  BY DEF SchedulerInv, PendingAhead, WriteContainer, ExecGate, work, chain, sent
<1>4. QED
  BY <1>1, <1>2, <1>3 DEF SchedulerInv

(* A buffered call. *)
LEMMA ArmBufferInv ==
    ASSUME SchedulerInv, NEW b \in Buffers, ArmBuffer(b)
    PROVE  SchedulerInv'
<1>1. TypeOK'
  <2>1. fires' \in [Buffers -> [1 .. Delay -> Nat]]
    <3>1. fires \in [Buffers -> [1 .. Delay -> Nat]]
      BY DEF SchedulerInv, TypeOK
    <3>2. fires' = [fires EXCEPT ![b][Delay] = @ + 1]
      BY DEF ArmBuffer
    <3>3. Delay \in 1 .. Delay
      BY BoundAssumption
    <3>4. QED
      BY <3>1, <3>2, <3>3
  <2>2. QED
    BY <2>1, BoundAssumption DEF SchedulerInv, TypeOK, ArmBuffer, ExecGate, work, chain
<1>2. PhaseInv'
  BY DEF SchedulerInv, PhaseInv, ChainClean, ArmBuffer, ExecGate, work, chain, sent, None
<1>3. PendingAhead'
  BY DEF SchedulerInv, PendingAhead, ArmBuffer, ExecGate, work, chain, sent
<1>4. QED
  BY <1>1, <1>2, <1>3 DEF SchedulerInv

(* A remote call. *)
LEMMA CallRemoteInv ==
    ASSUME SchedulerInv, CallRemote
    PROVE  SchedulerInv'
<1>1. TypeOK'
  BY BoundAssumption, ProgramAssumption DEF SchedulerInv, TypeOK, CallRemote, ExecGate, work, chain, sent, Phases, None
<1>2. PhaseInv'
  BY DEF SchedulerInv, PhaseInv, ChainClean, CallRemote, ExecGate, work, chain, sent, None
<1>3. PendingAhead'
  BY DEF SchedulerInv, PendingAhead, CallRemote, ExecGate, work, chain, sent
<1>4. QED
  BY <1>1, <1>2, <1>3 DEF SchedulerInv

(* Entering a callable. *)
LEMMA EnterBodyInv ==
    ASSUME SchedulerInv, EnterBody
    PROVE  SchedulerInv'
<1>1. TypeOK'
  BY BoundAssumption, ProgramAssumption DEF SchedulerInv, TypeOK, EnterBody, ExecGate, work, chain, sent, Phases, None
<1>2. PhaseInv'
  BY DEF SchedulerInv, PhaseInv, ChainClean, EnterBody, ExecGate, work, chain, sent, None
<1>3. PendingAhead'
  BY DEF SchedulerInv, PendingAhead, EnterBody, ExecGate, work, chain, sent
<1>4. QED
  BY <1>1, <1>2, <1>3 DEF SchedulerInv

(* Leaving a callable. *)
LEMMA LeaveBodyInv ==
    ASSUME SchedulerInv, LeaveBody
    PROVE  SchedulerInv'
<1>1. TypeOK'
  BY BoundAssumption, ProgramAssumption DEF SchedulerInv, TypeOK, LeaveBody, work, chain, sent, Phases, None
<1>2. PhaseInv'
  BY DEF SchedulerInv, PhaseInv, ChainClean, LeaveBody, work, chain, sent, None
<1>3. PendingAhead'
  BY DEF SchedulerInv, PendingAhead, LeaveBody, work, chain, sent
<1>4. QED
  BY <1>1, <1>2, <1>3 DEF SchedulerInv

(* A fork. *)
LEMMA RunForkInv ==
    ASSUME SchedulerInv, RunFork
    PROVE  SchedulerInv'
<1>1. TypeOK'
  BY BoundAssumption, ProgramAssumption DEF SchedulerInv, TypeOK, RunFork, work, chain, sent, Phases, None
<1>2. PhaseInv'
  BY DEF SchedulerInv, PhaseInv, ChainClean, RunFork, work, chain, sent, None
<1>3. PendingAhead'
  BY DEF SchedulerInv, PendingAhead, RunFork, work, chain, sent
<1>4. QED
  BY <1>1, <1>2, <1>3 DEF SchedulerInv

(* The runaway error. *)
LEMMA RunawayInv ==
    ASSUME SchedulerInv, Runaway
    PROVE  SchedulerInv'
<1>1. TypeOK'
  BY BoundAssumption, ProgramAssumption DEF SchedulerInv, TypeOK, Runaway, work, chain, sent, Phases, None
<1>2. PhaseInv'
  BY DEF SchedulerInv, PhaseInv, ChainClean, Runaway, work, chain, sent, None
<1>3. PendingAhead'
  BY DEF SchedulerInv, PendingAhead, Runaway, work, chain, sent
<1>4. QED
  BY <1>1, <1>2, <1>3 DEF SchedulerInv

(* The end of the late pass. *)
LEMMA CloseLatePassInv ==
    ASSUME SchedulerInv, CloseLatePass
    PROVE  SchedulerInv'
<1>1. TypeOK'
  BY BoundAssumption, ProgramAssumption DEF SchedulerInv, TypeOK, CloseLatePass, work, chain, sent, Phases, None
<1>2. PhaseInv'
  BY DEF SchedulerInv, PhaseInv, ChainClean, CloseLatePass, work, chain, sent, None
<1>3. PendingAhead'
  BY DEF SchedulerInv, PendingAhead, CloseLatePass, work, chain, sent
<1>4. QED
  BY <1>1, <1>2, <1>3 DEF SchedulerInv

(* The end of the pass. *)
LEMMA ClosePassInv ==
    ASSUME SchedulerInv, ClosePass
    PROVE  SchedulerInv'
<1>1. TypeOK'
  BY BoundAssumption, ProgramAssumption DEF SchedulerInv, TypeOK, ClosePass, work, chain, sent, Phases, None
<1>2. PhaseInv'
  BY DEF SchedulerInv, PhaseInv, ChainClean, ClosePass, work, chain, sent, None
<1>3. PendingAhead'
  BY DEF SchedulerInv, PendingAhead, ClosePass, NoWork, work, chain, sent
<1>4. QED
  BY <1>1, <1>2, <1>3 DEF SchedulerInv

(* A custom event's arrival. *)
LEMMA RunEventInv ==
    ASSUME SchedulerInv, RunEvent
    PROVE  SchedulerInv'
<1>1. TypeOK'
  <2>1. late_events' \in Seq(Units)
    <3>1. late_events \in Seq(Units) /\ late_events # <<>> /\ late_events' = Tail(late_events)
      BY DEF SchedulerInv, TypeOK, RunEvent
    <3>2. QED
      BY <3>1, HeadTailProperties
  <2>2. to_check' \subseteq Watchers
    BY ProgramAssumption DEF SchedulerInv, TypeOK, RunEvent
  <2>3. pc' \in Phases
    BY DEF RunEvent, Phases
  <2>4. UNCHANGED <<in_late, cursor, steps, depth, pending, late, carried, forks,
                    written_in_plane, written_outside, outbox, container_fires, fires>>
    BY DEF RunEvent, sent
  <2>5. QED
    BY <2>1, <2>2, <2>3, <2>4, Zenon DEF SchedulerInv, TypeOK
<1>2. PhaseInv'
  BY DEF SchedulerInv, PhaseInv, ChainClean, RunEvent, work, chain, sent, None
<1>3. PendingAhead'
  BY DEF SchedulerInv, PendingAhead, RunEvent, work, chain, sent
<1>4. QED
  BY <1>1, <1>2, <1>3 DEF SchedulerInv

(* A late unit. *)
LEMMA RunLateInv ==
    ASSUME SchedulerInv, NEW u \in Units, RunLate(u)
    PROVE  SchedulerInv'
<1>1. TypeOK'
  <2>1. late' \in [Units -> Nat]
    <3>1. late \in [Units -> Nat] /\ late[u] > 0 /\ late' = [late EXCEPT ![u] = @ - 1]
      BY DEF SchedulerInv, TypeOK, RunLate, IsFirst
    <3>2. late[u] - 1 \in Nat
      BY <3>1
    <3>3. QED
      BY <3>1, <3>2
  <2>2. to_check' \subseteq Watchers
    BY ProgramAssumption DEF SchedulerInv, TypeOK, RunLate
  <2>3. pc' \in Phases
    BY DEF RunLate, Phases
  <2>4. QED
    BY <2>1, <2>2, <2>3 DEF SchedulerInv, TypeOK, RunLate, sent
<1>2. PhaseInv'
  BY DEF SchedulerInv, PhaseInv, ChainClean, RunLate, work, chain, sent, None
<1>3. PendingAhead'
  BY DEF SchedulerInv, PendingAhead, RunLate, work, chain, sent
<1>4. QED
  BY <1>1, <1>2, <1>3 DEF SchedulerInv

(* The first half of step. *)
LEMMA BeginTickInv ==
    ASSUME SchedulerInv, BeginTick
    PROVE  SchedulerInv'
<1>1. TypeOK'
  <2>1. late' \in [Units -> Nat]
    BY DEF SchedulerInv, TypeOK, BeginTick
  <2>2. carried' \in [Units -> Nat]
    BY DEF BeginTick, NoWork
  <2>3. pc' \in Phases /\ steps' \in 0 .. MaxSteps
    BY BoundAssumption DEF BeginTick, Phases
  <2>4. QED
    BY <2>1, <2>2, <2>3 DEF SchedulerInv, TypeOK, BeginTick, chain, sent
<1>2. PhaseInv'
  BY DEF SchedulerInv, PhaseInv, ChainClean, BeginTick, work, chain, sent, None
<1>3. PendingAhead'
  BY DEF SchedulerInv, PendingAhead, BeginTick, work, chain, sent
<1>4. QED
  BY <1>1, <1>2, <1>3 DEF SchedulerInv

(* A delivery. *)
LEMMA DeliverEventInv ==
    ASSUME SchedulerInv, DeliverEvent
    PROVE  SchedulerInv'
<1>1. TypeOK'
  <2>1. PICK k \in 1 .. Len(outbox) :
          /\ late_events' = late_events \o Receivers[outbox[k]]
          /\ outbox' = SubSeq(outbox, 1, k - 1) \o SubSeq(outbox, k + 1, Len(outbox))
    BY DEF DeliverEvent
  <2>2. late_events \in Seq(Units) /\ outbox \in Seq(Senders)
    BY DEF SchedulerInv, TypeOK
  <2>3. Receivers[outbox[k]] \in Seq(Units)
    BY <2>2, ProgramAssumption
  <2>4. late_events' \in Seq(Units)
    BY <2>1, <2>2, <2>3
  <2>5. /\ SubSeq(outbox, 1, k - 1) \in Seq(Senders)
        /\ SubSeq(outbox, k + 1, Len(outbox)) \in Seq(Senders)
    BY <2>2
  <2>6. outbox' \in Seq(Senders)
    BY <2>1, <2>5
  <2>7. QED
    BY <2>4, <2>6 DEF SchedulerInv, TypeOK, DeliverEvent, chain
<1>2. PhaseInv'
  BY DEF SchedulerInv, PhaseInv, ChainClean, DeliverEvent, work, chain, sent, None
<1>3. PendingAhead'
  BY DEF SchedulerInv, PendingAhead, DeliverEvent, work, chain, sent
<1>4. QED
  BY <1>1, <1>2, <1>3 DEF SchedulerInv

(* A unit of the pass. *)
LEMMA RunPendingInv ==
    ASSUME SchedulerInv, NEW u \in Units, RunPending(u)
    PROVE  SchedulerInv'
<1>1. /\ pending \in [Units -> Nat]
      /\ pending[u] > 0
      /\ \A w \in Units : pending[w] > 0 => Rank[u] <= Rank[w]
      /\ pending' = [pending EXCEPT ![u] = @ - 1]
      /\ cursor' = Rank[u]
  BY DEF SchedulerInv, TypeOK, RunPending, IsFirst
<1>2. Rank[u] \in Nat
  BY ProgramAssumption
<1>3. pending' \in [Units -> Nat]
  <2>1. pending[u] - 1 \in Nat
    BY <1>1
  <2>2. QED
    BY <1>1, <2>1
<1>4. TypeOK'
  BY <1>1, <1>2, <1>3 DEF SchedulerInv, TypeOK, RunPending, chain, sent, Phases
<1>5. PhaseInv'
  BY <1>1, <1>2 DEF SchedulerInv, PhaseInv, ChainClean, RunPending, chain, None
<1>6. PendingAhead'
  <2>1. \A w \in Units : pending'[w] > 0 => pending[w] > 0
    BY <1>1
  <2>2. QED
    BY <1>1, <2>1 DEF PendingAhead
<1>7. QED
  BY <1>4, <1>5, <1>6 DEF SchedulerInv

(* Tick 0. *)
LEMMA StartInv ==
    ASSUME SchedulerInv, Start
    PROVE  SchedulerInv'
<1>1. pending' \in [Units -> Nat]
  <2>1. PICK seeded, ticked : pending' = Add(Add(Add(pending, seeded), LoadUnits), ticked)
    BY DEF Start
  <2>2. pending \in [Units -> Nat]
    BY DEF SchedulerInv, TypeOK
  <2>3. Add(pending, seeded) \in [Units -> Nat]
    BY <2>2, AddType
  <2>4. Add(Add(pending, seeded), LoadUnits) \in [Units -> Nat]
    BY <2>3, AddType
  <2>5. QED
    BY <2>1, <2>4, AddType
<1>2. TypeOK'
  BY <1>1 DEF SchedulerInv, TypeOK, Start, chain, sent, Phases
<1>3. PhaseInv'
  BY DEF SchedulerInv, PhaseInv, ChainClean, Start, chain
<1>4. PendingAhead'
  BY ProgramAssumption DEF SchedulerInv, PhaseInv, PendingAhead, Start, None
<1>5. QED
  BY <1>2, <1>3, <1>4 DEF SchedulerInv

(* The second half of step. *)
LEMMA OpenLatePassInv ==
    ASSUME SchedulerInv, OpenLatePass
    PROVE  SchedulerInv'
<1>1. /\ late \in [Units -> Nat]
      /\ pending \in [Units -> Nat]
      /\ fires \in [Buffers -> [1 .. Delay -> Nat]]
      /\ 1 \in 1 .. Delay
  BY BoundAssumption DEF SchedulerInv, TypeOK
<1>2. late' \in [Units -> Nat]
  <2>1. PICK raised, expired :
          late' = [u \in Units |->
                     Add(Add(Add(late, raised), container_fires), expired)[u]
                       + (IF u \in Buffers THEN fires[u][1] ELSE 0)]
    BY DEF OpenLatePass
  <2>2. Add(Add(Add(late, raised), container_fires), expired) \in [Units -> Nat]
    BY <1>1, AddType
  <2>3. \A u \in Units : (IF u \in Buffers THEN fires[u][1] ELSE 0) \in Nat
    BY <1>1
  <2>4. QED
    BY <2>1, <2>2, <2>3
<1>3. pending' \in [Units -> Nat]
  <2>1. PICK ticked, moved : pending' = Add(Add(pending, ticked), moved)
    BY DEF OpenLatePass
  <2>2. Add(pending, ticked) \in [Units -> Nat]
    BY <1>1, AddType
  <2>3. QED
    BY <2>1, <2>2, AddType
<1>4. fires' \in [Buffers -> [1 .. Delay -> Nat]]
  <2>1. fires' = [b \in Buffers |->
                    [k \in 1 .. Delay |-> IF k < Delay THEN fires[b][k + 1] ELSE 0]]
    BY DEF OpenLatePass
  <2>2. ASSUME NEW b \in Buffers, NEW k \in 1 .. Delay
        PROVE  (IF k < Delay THEN fires[b][k + 1] ELSE 0) \in Nat
    BY <1>1, BoundAssumption
  <2>3. QED
    BY <2>1, <2>2
<1>5. TypeOK'
  BY <1>2, <1>3, <1>4 DEF SchedulerInv, TypeOK, OpenLatePass, chain, Phases
<1>6. PhaseInv'
  BY DEF SchedulerInv, PhaseInv, ChainClean, OpenLatePass, chain
<1>7. PendingAhead'
  BY ProgramAssumption DEF SchedulerInv, PhaseInv, PendingAhead, OpenLatePass, None
<1>8. QED
  BY <1>5, <1>6, <1>7 DEF SchedulerInv

(* The end of a chain. *)
LEMMA FinishChainInv ==
    ASSUME SchedulerInv, FinishChain
    PROVE  SchedulerInv'
<1>1. PICK check, marked : Settle(check, marked)
  BY DEF FinishChain
<1>2. /\ late' \in [Units -> Nat]
      /\ carried' \in [Units -> Nat]
      /\ pending' \in [Units -> Nat]
      /\ ~ in_late => late' = late
      /\ in_late => pending' = pending
      /\ \A u \in Units : Rank[u] <= cursor => pending'[u] = pending[u]
  BY <1>1, SettleProperties DEF SchedulerInv
<1>3. TypeOK'
  BY <1>2 DEF SchedulerInv, TypeOK, FinishChain, sent, Phases
<1>4. PhaseInv'
  BY <1>2 DEF SchedulerInv, PhaseInv, ChainClean, FinishChain, None
<1>5. PendingAhead'
  <2>1. ASSUME NEW u \in Units, pending'[u] > 0 PROVE Rank[u] >= cursor'
    <3>1. cursor' = cursor
      BY DEF FinishChain
    <3>2. Rank[u] \in Nat /\ cursor \in Nat \union {-1}
      BY ProgramAssumption DEF SchedulerInv, TypeOK, None
    <3>3. CASE Rank[u] <= cursor
      BY <1>2, <2>1, <3>1, <3>3 DEF SchedulerInv, PendingAhead
    <3>4. CASE ~ Rank[u] <= cursor
      BY <3>1, <3>2, <3>4
    <3>5. QED
      BY <3>3, <3>4
  <2>2. QED
    BY <2>1 DEF PendingAhead
<1>6. QED
  BY <1>3, <1>4, <1>5 DEF SchedulerInv

(* Every step of the scheduler keeps the invariant. *)
LEMMA NextInv == SchedulerInv /\ [Next]_vars => SchedulerInv'
<1> SUFFICES ASSUME SchedulerInv, [Next]_vars PROVE SchedulerInv'
  OBVIOUS
<1>1. CASE Start
  BY <1>1, StartInv
<1>2. CASE BeginTick
  BY <1>2, BeginTickInv
<1>3. CASE TickStep
  <2>1. CASE DeliverEvent
    BY <2>1, DeliverEventInv
  <2>2. CASE OpenLatePass
    BY <2>2, OpenLatePassInv
  <2>3. CASE \E u \in Units : RunLate(u)
    BY <2>3, RunLateInv
  <2>4. CASE RunEvent
    BY <2>4, RunEventInv
  <2>5. CASE CloseLatePass
    BY <2>5, CloseLatePassInv
  <2>6. CASE \E u \in Units : RunPending(u)
    BY <2>6, RunPendingInv
  <2>7. CASE ClosePass
    BY <2>7, ClosePassInv
  <2>8. CASE ChainStep
    BY <2>8, PlainGateInv, WriteVarInv, SetOutInv, SendEventInv, WriteContainerInv,
       ArmBufferInv, CallRemoteInv, EnterBodyInv, LeaveBodyInv, RunForkInv,
       FinishChainInv, RunawayInv DEF ChainStep
  <2>9. QED
    BY <1>3, <2>1, <2>2, <2>3, <2>4, <2>5, <2>6, <2>7, <2>8 DEF TickStep
<1>4. CASE Stopped \/ UNCHANGED vars
  BY <1>4 DEF Stopped, vars, work, chain, sent, SchedulerInv, TypeOK, PhaseInv,
     PendingAhead, ChainClean
<1>5. QED
  BY <1>1, <1>2, <1>3, <1>4 DEF Next

-----------------------------------------------------------------------------
(* The invariant holds in every reachable state of every program. *)
THEOREM Invariance == Spec => []SchedulerInv
<1>1. Init => SchedulerInv
  BY InitInv
<1>2. SchedulerInv /\ [Next]_vars => SchedulerInv'
  BY NextInv
<1>3. QED
  BY <1>1, <1>2, PTL DEF Spec

(* Every variable has its type. *)
THEOREM TypeCorrect == Spec => []TypeOK
<1>1. SchedulerInv => TypeOK
  BY DEF SchedulerInv
<1>2. QED
  BY <1>1, Invariance, PTL

(* A finished tick leaves no activation behind: whatever its handlers set off
   ran in it or waits in carried, the outbox, a detector or a buffer. *)
THEOREM TickFinished == Spec => []TickDone
<1>1. SchedulerInv => TickDone
  BY DEF SchedulerInv, PhaseInv, TickDone
<1>2. QED
  BY <1>1, Invariance, PTL

(* No handler of the pass runs before late work that waits. *)
THEOREM LateFirst == Spec => []LateBeforePass
<1>1. SchedulerInv => LateBeforePass
  BY DEF SchedulerInv, PhaseInv, LateBeforePass
<1>2. QED
  BY <1>1, Invariance, PTL

(* The pass never goes back down the ranks. *)
THEOREM RankOrder == Spec => []PendingAhead
<1>1. SchedulerInv => PendingAhead
  BY DEF SchedulerInv
<1>2. QED
  BY <1>1, Invariance, PTL

(* A settle of the pass starts a change handler the mark defers next tick. *)
LEMMA SettleDefers ==
    ASSUME TypeOK, NEW check, NEW marked, Settle(check, marked), ~ in_late,
           NEW u \in Units, u \in marked, u \notin EdgeDetectors
    PROVE  pending'[u] = pending[u]
<1>1. PICK changed :
        pending' = Add(pending, ActivatedPending(
                          changed \ ((changed \intersect marked) \ EdgeDetectors)))
  BY DEF Settle
<1>2. u \notin ActivatedPending(changed \ ((changed \intersect marked) \ EdgeDetectors))
  BY DEF ActivatedPending
<1>3. QED
  BY <1>1, <1>2, AddOther DEF TypeOK

(* While the pass runs a unit, only a chain's settle adds to the pass. *)
LEMMA PassGrows ==
    ASSUME SchedulerInv, [Next]_vars, cursor # None, ~ FinishChain, NEW u \in Units
    PROVE  pending'[u] <= pending[u]
<1>1. pending \in [Units -> Nat]
  BY DEF SchedulerInv, TypeOK
<1>2. pc \in {"pass", "chain", "error"} /\ ~ in_late
  BY DEF SchedulerInv, TypeOK, PhaseInv, Phases
<1>3. CASE UNCHANGED pending
  BY <1>1, <1>3
<1>4. CASE \E w \in Units : RunPending(w)
  BY <1>1, <1>4 DEF RunPending
<1>5. ~ Start /\ ~ OpenLatePass
  BY <1>2 DEF Start, OpenLatePass
<1>6. ASSUME ~ \E w \in Units : RunPending(w) PROVE UNCHANGED pending
  <2>1. ChainStep => UNCHANGED pending
    BY DEF ChainStep, PlainGate, WriteVar, SetOut, SendEvent, WriteContainer, ArmBuffer,
       CallRemote, EnterBody, LeaveBody, RunFork, Runaway, ExecGate, work
  <2>2. TickStep => UNCHANGED pending
    BY <1>5, <1>6, <2>1 DEF TickStep, DeliverEvent, RunLate, RunEvent, CloseLatePass,
       ClosePass, work
  <2>3. QED
    BY <1>5, <2>2 DEF Next, BeginTick, Stopped, vars, work
<1>7. QED
  BY <1>3, <1>4, <1>6

(* A handler at or behind the cursor gets no further turn in the pass. *)
THEOREM OneTurn == Spec => NoSecondTurn
<1>1. SchedulerInv /\ [Next]_vars =>
        [\A u \in Units :
           cursor # None /\ Rank[u] <= cursor => pending'[u] <= pending[u]]_vars
  <2> SUFFICES ASSUME SchedulerInv, [Next]_vars, NEW u \in Units, cursor # None,
                      Rank[u] <= cursor
               PROVE  pending'[u] <= pending[u]
    OBVIOUS
  <2>1. CASE FinishChain
    <3>1. PICK check, marked : Settle(check, marked)
      BY <2>1 DEF FinishChain
    <3>2. pending'[u] = pending[u] /\ pending \in [Units -> Nat]
      BY <3>1, SettleProperties DEF SchedulerInv, TypeOK
    <3>3. QED
      BY <3>2
  <2>2. CASE ~ FinishChain
    BY <2>2, PassGrows
  <2>3. QED
    BY <2>1, <2>2
<1>2. QED
  BY <1>1, Invariance, PTL DEF Spec, NoSecondTurn

(* A change that only writes inside a callable made waits for the next tick. *)
THEOREM InPlaneWaits == Spec => ChangeReactionsWait
<1>1. SchedulerInv /\ [Next]_vars =>
        [\A u \in Watchers \ EdgeDetectors : NotInThisPass(u)]_vars
  <2> SUFFICES ASSUME SchedulerInv, [Next]_vars, NEW u \in Watchers \ EdgeDetectors,
                      cursor # None, OnlyInPlane(u)
               PROVE  pending'[u] <= pending[u]
    BY DEF NotInThisPass
  <2>1. u \in Units
    BY ProgramAssumption
  <2>2. CASE FinishChain
    <3>1. u \in MarkedLate /\ u \notin PlainlyReached
      BY ProgramAssumption DEF OnlyInPlane, MarkedLate, PlainlyReached, ReadersOf
    <3>2. PICK check, shared : Settle(check, (MarkedLate \ PlainlyReached) \union shared)
      BY <2>2 DEF FinishChain
    <3>3. ~ in_late
      BY DEF SchedulerInv, PhaseInv
    <3>4. pending'[u] = pending[u] /\ pending \in [Units -> Nat]
      BY <2>1, <3>1, <3>2, <3>3, SettleDefers DEF SchedulerInv, TypeOK
    <3>5. QED
      BY <2>1, <3>4
  <2>3. CASE ~ FinishChain
    BY <2>1, <2>3, PassGrows
  <2>4. QED
    BY <2>2, <2>3
<1>2. QED
  BY <1>1, Invariance, PTL DEF Spec, ChangeReactionsWait
-----------------------------------------------------------------------------
(* The scheduler implements Reactions.  First, counting the places of a unit in
   a sequence of receivers, and in the receivers of what was sent. *)

LEMMA SameSize ==
    ASSUME NEW S, NEW T, IsFiniteSet(S), NEW f \in [S -> T],
           \A a, b \in S : f[a] = f[b] => a = b,
           \A t \in T : \E a \in S : f[a] = t
    PROVE  IsFiniteSet(T) /\ Cardinality(T) = Cardinality(S)
<1>1. f \in Bijection(S, T)
  BY Fun_IsBij
<1>2. ExistsBijection(S, T)
  BY <1>1 DEF ExistsBijection
<1> QED
  BY <1>2, FS_Bijection

LEMMA PlacesFinite ==
    ASSUME NEW u, NEW seq \in Seq(Units)
    PROVE  IsFiniteSet(Places(u, seq)) /\ Count(u, seq) \in Nat
<1>1. IsFiniteSet(1 .. Len(seq))
  BY FS_Interval
<1>2. IsFiniteSet(Places(u, seq))
  BY <1>1, FS_Subset DEF Places
<1> QED
  BY <1>2, FS_CardinalityType DEF Count

LEMMA CountNone ==
    ASSUME NEW u PROVE Count(u, <<>>) = 0
<1>1. Places(u, <<>>) = {}
  BY DEF Places
<1> QED
  BY <1>1, FS_EmptySet DEF Count

LEMMA CountAppended ==
    ASSUME NEW u, NEW s \in Seq(Units), NEW t \in Seq(Units)
    PROVE  Count(u, s \o t) = Count(u, s) + Count(u, t)
<1> DEFINE Moved == {k \in Len(s) + 1 .. Len(s) + Len(t) : t[k - Len(s)] = u}
<1>1. /\ s \o t \in Seq(Units)
      /\ Len(s \o t) = Len(s) + Len(t)
      /\ \A k \in 1 .. Len(s) + Len(t) :
            (s \o t)[k] = IF k <= Len(s) THEN s[k] ELSE t[k - Len(s)]
  BY ConcatProperties
<1>2. Len(s) \in Nat /\ Len(t) \in Nat
  OBVIOUS
<1>3. Places(u, s \o t) = Places(u, s) \union Moved
  BY <1>1, <1>2 DEF Places
<1>4. Places(u, s) \intersect Moved = {}
  BY <1>2 DEF Places
<1>5. IsFiniteSet(Moved) /\ Cardinality(Moved) = Cardinality(Places(u, t))
  <2> DEFINE f == [k \in Places(u, t) |-> k + Len(s)]
  <2>1. f \in [Places(u, t) -> Moved]
    BY <1>2 DEF Places
  <2>2. \A a, b \in Places(u, t) : f[a] = f[b] => a = b
    BY <1>2 DEF Places
  <2>3. \A k \in Moved : \E a \in Places(u, t) : f[a] = k
    <3> TAKE k \in Moved
    <3>1. k - Len(s) \in Places(u, t)
      BY <1>2 DEF Places
    <3>2. f[k - Len(s)] = k
      BY <1>2, <3>1
    <3> QED
      BY <3>1, <3>2
  <2>4. IsFiniteSet(Places(u, t))
    BY PlacesFinite
  <2> HIDE DEF f, Moved
  <2> QED
    BY <2>1, <2>2, <2>3, <2>4, SameSize
<1>6. IsFiniteSet(Places(u, s))
  BY PlacesFinite
<1>7. Cardinality(Places(u, s \o t)) =
        Cardinality(Places(u, s)) + Cardinality(Moved) - Cardinality({})
  <2>1. Cardinality(Places(u, s) \union Moved) =
          Cardinality(Places(u, s)) + Cardinality(Moved) - Cardinality(Places(u, s) \intersect Moved)
    <3> HIDE DEF Moved
    <3> QED
      BY <1>5, <1>6, FS_Union, Zenon
  <2> HIDE DEF Moved
  <2> QED
    BY <1>3, <1>4, <2>1, Zenon
<1>8. Count(u, s) \in Nat /\ Count(u, t) \in Nat
  BY PlacesFinite
<1> HIDE DEF Moved
<1> QED
  BY <1>5, <1>7, <1>8, FS_EmptySet DEF Count

LEMMA CountTaken ==
    ASSUME NEW u, NEW seq \in Seq(Units), seq # <<>>
    PROVE  Count(u, seq) = (IF u = seq[1] THEN 1 ELSE 0) + Count(u, Tail(seq))
<1>1. /\ seq[1] \in Units /\ Tail(seq) \in Seq(Units)
      /\ Len(seq) > 0
  BY HeadTailProperties
<1>2. seq = <<seq[1]>> \o Tail(seq)
  BY <1>1, HeadTailProperties, ConcatProperties, SeqEqual
<1>3. <<seq[1]>> \in Seq(Units) /\ Len(<<seq[1]>>) = 1 /\ <<seq[1]>>[1] = seq[1]
  BY <1>1
<1>4. Count(u, seq) = Count(u, <<seq[1]>>) + Count(u, Tail(seq))
  BY <1>1, <1>2, <1>3, CountAppended
<1>5. Places(u, <<seq[1]>>) = IF u = seq[1] THEN {1} ELSE {}
  BY <1>3 DEF Places
<1>6. Count(u, <<seq[1]>>) = IF u = seq[1] THEN 1 ELSE 0
  BY <1>5, FS_EmptySet, FS_Singleton DEF Count
<1> QED
  BY <1>4, <1>6

(* The places of `u` among the receivers of `sends`. *)
SendsOf(u, sends) ==
    UNION {{k} \X Places(u, Receivers[sends[k]]) : k \in 1 .. Len(sends)}

LEMMA SendsFinite ==
    ASSUME NEW u, NEW sends \in Seq(Senders)
    PROVE  IsFiniteSet(SendsOf(u, sends)) /\ Cardinality(SendsOf(u, sends)) \in Nat
<1> DEFINE Of(k) == {k} \X Places(u, Receivers[sends[k]])
           All   == {Of(k) : k \in 1 .. Len(sends)}
           f     == [k \in 1 .. Len(sends) |-> Of(k)]
<1>1. IsFiniteSet(1 .. Len(sends))
  BY FS_Interval
<1>2. \A T \in All : IsFiniteSet(T)
  <2> SUFFICES ASSUME NEW k \in 1 .. Len(sends) PROVE IsFiniteSet(Of(k))
    OBVIOUS
  <2>1. Receivers[sends[k]] \in Seq(Units)
    BY ProgramAssumption
  <2>2. IsFiniteSet(Places(u, Receivers[sends[k]])) /\ IsFiniteSet({k})
    BY <2>1, PlacesFinite, FS_Singleton
  <2> QED
    BY <2>2, FS_Product
<1>3. f \in [1 .. Len(sends) -> All] /\ \A T \in All : \E k \in 1 .. Len(sends) : f[k] = T
  OBVIOUS
<1>4. SendsOf(u, sends) = UNION All
  BY DEF SendsOf
<1> HIDE DEF f, All
<1>5. f \in Surjection(1 .. Len(sends), All)
  BY <1>3 DEF Surjection
<1>6. IsFiniteSet(All)
  BY <1>1, <1>5, FS_Surjection
<1>7. IsFiniteSet(SendsOf(u, sends))
  BY <1>2, <1>4, <1>6, FS_UNION
<1> QED
  BY <1>7, FS_CardinalityType

(* Where the event at place `j` was before the one at `k` was delivered. *)
Past(k, j) == IF j < k THEN j ELSE j + 1

Without(seq, k) == SubSeq(seq, 1, k - 1) \o SubSeq(seq, k + 1, Len(seq))

LEMMA OneRemoved ==
    ASSUME NEW S, NEW seq \in Seq(S), NEW k \in 1 .. Len(seq)
    PROVE  /\ Without(seq, k) \in Seq(S)
           /\ Len(Without(seq, k)) = Len(seq) - 1
           /\ \A j \in 1 .. Len(seq) - 1 : Without(seq, k)[j] = seq[Past(k, j)]
<1> DEFINE before == SubSeq(seq, 1, k - 1)
           after  == SubSeq(seq, k + 1, Len(seq))
<1>1. Len(seq) \in Nat /\ k \in Nat /\ k >= 1 /\ k <= Len(seq)
  OBVIOUS
<1>2. /\ before \in Seq(S) /\ Len(before) = k - 1
      /\ \A j \in 1 .. k - 1 : before[j] = seq[j]
  BY <1>1, SubSeqProperties
<1>3. /\ after \in Seq(S) /\ Len(after) = Len(seq) - k
      /\ \A j \in 1 .. Len(seq) - k : after[j] = seq[k + j]
  <2>1. k + 1 \in Int /\ Len(seq) \in Int /\ \A j \in k + 1 .. Len(seq) : seq[j] \in S
    BY <1>1
  <2>2. /\ after \in Seq(S)
        /\ Len(after) = IF k + 1 <= Len(seq) THEN Len(seq) - (k + 1) + 1 ELSE 0
        /\ \A j \in 1 .. Len(seq) - (k + 1) + 1 : after[j] = seq[k + 1 + j - 1]
    BY <2>1, SubSeqProperties
  <2> QED
    BY <1>1, <2>2
<1>5. Without(seq, k) = before \o after
  BY DEF Without
<1>6. ASSUME NEW b \in Seq(S), NEW a \in Seq(S), b = before, a = after
      PROVE  /\ b \o a \in Seq(S)
             /\ Len(b \o a) = Len(seq) - 1
             /\ \A j \in 1 .. Len(seq) - 1 : (b \o a)[j] = seq[Past(k, j)]
  <2> HIDE DEF before, after
  <2>1. Len(b) = k - 1 /\ Len(a) = Len(seq) - k
    BY <1>2, <1>3, <1>6
  <2>2. \A j \in 1 .. k - 1 : b[j] = seq[j]
    BY <1>2, <1>6
  <2>3. \A j \in 1 .. Len(seq) - k : a[j] = seq[k + j]
    BY <1>3, <1>6
  <2>4. /\ b \o a \in Seq(S)
        /\ Len(b \o a) = Len(seq) - 1
        /\ \A j \in 1 .. Len(seq) - 1 : (b \o a)[j] = IF j <= k - 1 THEN b[j] ELSE a[j - (k - 1)]
    <3>1. /\ b \o a \in Seq(S)
          /\ Len(b \o a) = Len(b) + Len(a)
          /\ \A j \in 1 .. Len(b) + Len(a) :
                (b \o a)[j] = IF j <= Len(b) THEN b[j] ELSE a[j - Len(b)]
      BY <1>6, ConcatProperties
    <3>2. Len(b) + Len(a) = Len(seq) - 1
      BY <1>1, <2>1
    <3> QED
      BY <2>1, <3>1, <3>2
  <2>5. ASSUME NEW j \in 1 .. Len(seq) - 1 PROVE (b \o a)[j] = seq[Past(k, j)]
    <3>1. CASE j < k
      BY <1>1, <2>1, <2>2, <2>4, <3>1 DEF Past
    <3>2. CASE ~ j < k
      <4>1. (b \o a)[j] = a[j - (k - 1)]
        BY <1>1, <2>4, <3>2
      <4>2. j - (k - 1) \in 1 .. Len(seq) - k
        BY <1>1, <3>2
      <4>3. a[j - (k - 1)] = seq[k + (j - (k - 1))]
        BY <2>3, <4>2
      <4>4. k + (j - (k - 1)) = j + 1
        BY <1>1
      <4> QED
        BY <3>2, <4>1, <4>3, <4>4 DEF Past
    <3> QED
      BY <3>1, <3>2
  <2> QED
    BY <2>4, <2>5
<1>7. before \in Seq(S) /\ after \in Seq(S)
  BY <1>2, <1>3
<1> HIDE DEF before, after
<1> QED
  BY <1>5, <1>6, <1>7

(* What a delivered event adds to late_events leaves the outbox. *)
LEMMA SendsDelivered ==
    ASSUME NEW u, NEW sends \in Seq(Senders), NEW k \in 1 .. Len(sends),
           NEW left \in Seq(Senders), Len(left) = Len(sends) - 1,
           \A j \in 1 .. Len(left) : left[j] = sends[Past(k, j)]
    PROVE  Cardinality(SendsOf(u, sends)) =
             Cardinality(SendsOf(u, left)) + Count(u, Receivers[sends[k]])
<1> DEFINE At    == {k} \X Places(u, Receivers[sends[k]])
           Rest  == SendsOf(u, sends) \ At
           f     == [p \in SendsOf(u, left) |-> <<Past(k, p[1]), p[2]>>]
           g     == [j \in Places(u, Receivers[sends[k]]) |-> <<k, j>>]
<1>1. Len(sends) \in Nat /\ k \in Nat /\ k >= 1 /\ k <= Len(sends)
  OBVIOUS
<1>2. \A j \in 1 .. Len(sends) : Receivers[sends[j]] \in Seq(Units)
  BY ProgramAssumption
<1>3. \A p : p \in SendsOf(u, sends) <=>
               \E j \in 1 .. Len(sends) : \E i \in Places(u, Receivers[sends[j]]) : p = <<j, i>>
  BY DEF SendsOf
<1>4. \A p : p \in SendsOf(u, left) <=>
               \E j \in 1 .. Len(left) : \E i \in Places(u, Receivers[left[j]]) : p = <<j, i>>
  BY DEF SendsOf
<1>5. \A p : p \in Rest <=>
               \E j \in 1 .. Len(sends) : \E i \in Places(u, Receivers[sends[j]]) :
                 j # k /\ p = <<j, i>>
  <2>1. \A p : p \in At <=> \E i \in Places(u, Receivers[sends[k]]) : p = <<k, i>>
    OBVIOUS
  <2> QED
    BY <1>3, <2>1
<1>6. \A j \in 1 .. Len(left) : Past(k, j) \in 1 .. Len(sends) /\ Past(k, j) # k
  BY <1>1 DEF Past
<1>7. \A j \in 1 .. Len(sends) : j # k => \E i \in 1 .. Len(left) : Past(k, i) = j
  <2> SUFFICES ASSUME NEW j \in 1 .. Len(sends), j # k
               PROVE  \E i \in 1 .. Len(left) : Past(k, i) = j
    OBVIOUS
  <2>1. CASE j < k
    BY <1>1, <2>1 DEF Past
  <2>2. CASE j > k
    <3>1. j - 1 \in 1 .. Len(left) /\ Past(k, j - 1) = j
      BY <1>1, <2>2 DEF Past
    <3> QED
      BY <3>1
  <2> QED
    BY <1>1, <2>1, <2>2
<1>8. f \in [SendsOf(u, left) -> Rest]
  <2> SUFFICES ASSUME NEW p \in SendsOf(u, left) PROVE <<Past(k, p[1]), p[2]>> \in Rest
    OBVIOUS
  <2>1. PICK j, i : /\ j \in 1 .. Len(left) /\ i \in Places(u, Receivers[left[j]])
                    /\ p = <<j, i>>
    BY <1>4
  <2> QED
    BY <1>1, <1>5, <1>6, <2>1
<1>9. \A p, q \in SendsOf(u, left) : f[p] = f[q] => p = q
  <2> SUFFICES ASSUME NEW p \in SendsOf(u, left), NEW q \in SendsOf(u, left),
                      <<Past(k, p[1]), p[2]>> = <<Past(k, q[1]), q[2]>>
               PROVE  p = q
    OBVIOUS
  <2>1. PICK j, i : /\ j \in 1 .. Len(left) /\ i \in Places(u, Receivers[left[j]])
                    /\ p = <<j, i>>
    BY <1>4
  <2>2. PICK l, m : /\ l \in 1 .. Len(left) /\ m \in Places(u, Receivers[left[l]])
                    /\ q = <<l, m>>
    BY <1>4
  <2>3. Past(k, j) = Past(k, l) /\ i = m
    BY <2>1, <2>2
  <2>4. j = l
    BY <1>1, <2>1, <2>2, <2>3 DEF Past
  <2> QED
    BY <2>1, <2>2, <2>3, <2>4
<1>10. \A r \in Rest : \E p \in SendsOf(u, left) : f[p] = r
  <2> TAKE r \in Rest
  <2>1. PICK j, i : /\ j \in 1 .. Len(sends) /\ i \in Places(u, Receivers[sends[j]])
                    /\ j # k /\ r = <<j, i>>
    BY <1>5
  <2>2. PICK l \in 1 .. Len(left) : Past(k, l) = j
    BY <1>7, <2>1
  <2>3. <<l, i>> \in SendsOf(u, left)
    BY <1>1, <1>4, <2>1, <2>2
  <2>4. f[<<l, i>>] = r
    BY <2>1, <2>2, <2>3
  <2> QED
    BY <2>3, <2>4
<1>11. IsFiniteSet(Rest) /\ Cardinality(Rest) = Cardinality(SendsOf(u, left))
  <2> HIDE DEF f, Rest
  <2> QED
    BY <1>1, <1>8, <1>9, <1>10, SendsFinite, SameSize
<1>12. IsFiniteSet(At) /\ Cardinality(At) = Count(u, Receivers[sends[k]])
  <2>1. g \in [Places(u, Receivers[sends[k]]) -> At]
    OBVIOUS
  <2>2. \A a, b \in Places(u, Receivers[sends[k]]) : g[a] = g[b] => a = b
    OBVIOUS
  <2>3. \A p \in At : \E a \in Places(u, Receivers[sends[k]]) : g[a] = p
    OBVIOUS
  <2>4. IsFiniteSet(Places(u, Receivers[sends[k]]))
    BY <1>2, PlacesFinite
  <2> HIDE DEF g, At
  <2> QED
    BY <2>1, <2>2, <2>3, <2>4, SameSize DEF Count
<1>13. SendsOf(u, sends) = Rest \union At /\ Rest \intersect At = {}
  BY <1>3
<1>14. Cardinality(SendsOf(u, left)) \in Nat /\ Count(u, Receivers[sends[k]]) \in Nat
  BY <1>1, <1>2, SendsFinite, PlacesFinite
<1> HIDE DEF Rest, At
<1>15. Cardinality(SendsOf(u, sends)) = Cardinality(Rest) + Cardinality(At) - Cardinality({})
  BY <1>11, <1>12, <1>13, FS_Union
<1> QED
  BY <1>1, <1>11, <1>12, <1>14, <1>15, FS_EmptySet

LEMMA SendsGrow ==
    ASSUME NEW u, NEW sends \in Seq(Senders), NEW s \in Senders
    PROVE  Cardinality(SendsOf(u, Append(sends, s))) >= Cardinality(SendsOf(u, sends))
<1>1. /\ Append(sends, s) \in Seq(Senders) /\ Len(Append(sends, s)) = Len(sends) + 1
      /\ \A k \in 1 .. Len(sends) : Append(sends, s)[k] = sends[k]
  OBVIOUS
<1>2. SendsOf(u, sends) \subseteq SendsOf(u, Append(sends, s))
  BY <1>1 DEF SendsOf
<1>3. /\ IsFiniteSet(SendsOf(u, Append(sends, s)))
      /\ Cardinality(SendsOf(u, Append(sends, s))) \in Nat
      /\ Cardinality(SendsOf(u, sends)) \in Nat
  BY <1>1, SendsFinite
<1> QED
  BY <1>2, <1>3, FS_Subset

(* The runs counted. *)
Counted(u) ==
    /\ pending[u] \in Nat /\ late[u] \in Nat /\ carried[u] \in Nat
    /\ Count(u, late_events) \in Nat
    /\ Sent(u) = Cardinality(SendsOf(u, outbox)) /\ Sent(u) \in Nat
    /\ u \in Buffers => fires[u][1] \in Nat
    /\ Landing(u) \in Nat
    /\ due[u] \in Nat /\ owed[u] \in Nat

LEMMA Counts == TypeOK => \A u \in Units : Counted(u)
<1> SUFFICES ASSUME TypeOK, NEW u \in Units PROVE Counted(u)
  OBVIOUS
<1>1. Sent(u) = Cardinality(SendsOf(u, outbox)) /\ Sent(u) \in Nat
  <2>1. Sends(u) = SendsOf(u, outbox)
    BY DEF Sends, SendsOf
  <2>2. outbox \in Seq(Senders)
    BY DEF TypeOK
  <2> QED
    BY <2>1, <2>2, SendsFinite DEF Sent
<1>2. Count(u, late_events) \in Nat
  BY PlacesFinite DEF TypeOK
<1>3. u \in Buffers => fires[u][1] \in Nat
  BY BoundAssumption DEF TypeOK
<1>4. Landing(u) \in Nat
  BY <1>1, <1>3 DEF Landing
<1> QED
  BY <1>1, <1>2, <1>3, <1>4 DEF TypeOK, due, owed, Counted

LEMMA CountsThen == TypeOK' => \A u \in Units : Counted(u)'
<1>1. (TypeOK => \A u \in Units : Counted(u))'
  BY Counts, PTL
<1> QED
  BY <1>1

LEMMA PromisedFirst == Init => Promise!Init
<1> SUFFICES ASSUME Init PROVE Promise!Init
  OBVIOUS
<1>1. \A u \in Units : Count(u, late_events) = 0
  BY CountNone DEF Init
<1>2. \A u \in Units : Sent(u) = 0
  <2> SUFFICES ASSUME NEW u \in Units PROVE Sent(u) = 0
    OBVIOUS
  <2>1. Sends(u) = {}
    BY DEF Init, Sends
  <2> QED
    BY <2>1, FS_EmptySet DEF Sent
<1>3. \A u \in Units : Landing(u) = 0
  <2> SUFFICES ASSUME NEW u \in Units PROVE Landing(u) = 0
    OBVIOUS
  <2>1. u \in Buffers => fires[u][1] = 0
    BY BoundAssumption DEF Init
  <2>2. container_fires = {}
    BY DEF Init
  <2> QED
    BY <1>2, <2>1, <2>2 DEF Landing
<1>4. due = [u \in Units |-> 0] /\ owed = [u \in Units |-> 0]
  BY <1>1, <1>3 DEF Init, due, owed, NoWork
<1> QED
  BY <1>4 DEF Promise!Init, Promise!Nothing

(* A step that takes nothing from the queues only asks for runs. *)
LEMMA OnlyAsks ==
    ASSUME TypeOK, TypeOK',
           pc = "deliver" <=> pc' = "deliver",
           \A u \in Units : pending'[u] >= pending[u] /\ late'[u] >= late[u]
                              /\ carried'[u] >= carried[u],
           UNCHANGED late_events,
           \A u \in Units : Landing(u)' >= Landing(u)
    PROVE  Promise!Ask
<1> SUFFICES ASSUME NEW u \in Units PROVE due'[u] >= due[u] /\ owed'[u] >= owed[u]
  BY DEF Promise!Ask
<1>1. /\ pending[u] \in Nat /\ late[u] \in Nat /\ carried[u] \in Nat
      /\ Count(u, late_events) \in Nat /\ Landing(u) \in Nat
  BY Counts DEF Counted
<1>2. /\ pending'[u] \in Nat /\ late'[u] \in Nat /\ carried'[u] \in Nat
      /\ Landing(u)' \in Nat
  BY CountsThen DEF Counted
<1> QED
  BY <1>1, <1>2 DEF due, owed

LEMMA ChainAsks ==
    ASSUME SchedulerInv, SchedulerInv', ChainStep
    PROVE  Promise!Ask
<1>0. TypeOK /\ TypeOK' /\ \A u \in Units : Counted(u) /\ Counted(u)'
  BY Counts, CountsThen DEF SchedulerInv
<1>1. /\ pc = "chain" /\ pc' \in {"chain", "late", "pass", "error"}
      /\ UNCHANGED late_events
  BY DEF ChainStep, PlainGate, WriteVar, SetOut, SendEvent, WriteContainer, ArmBuffer,
     CallRemote, EnterBody, LeaveBody, RunFork, FinishChain, Runaway, ExecGate, work
<1>2. \A u \in Units : pending'[u] >= pending[u] /\ late'[u] >= late[u]
                         /\ carried'[u] >= carried[u]
  <2>1. CASE FinishChain
    <3>1. PICK check, marked : Settle(check, marked)
      BY <2>1 DEF FinishChain
    <3>2. \A bag \in [Units -> Nat] : \A us : \A u \in Units : Add(bag, us)[u] >= bag[u]
      BY DEF Add
    <3>3. PICK a, b, c : late' = Add(late, a) /\ carried' = Add(carried, b)
                           /\ pending' = Add(pending, c)
      BY <3>1 DEF Settle
    <3> QED
      BY <1>0, <3>2, <3>3 DEF TypeOK
  <2>2. CASE ~ FinishChain
    <3>1. UNCHANGED <<pending, late, carried>>
      BY <2>2 DEF ChainStep, PlainGate, WriteVar, SetOut, SendEvent, WriteContainer,
         ArmBuffer, CallRemote, EnterBody, LeaveBody, RunFork, Runaway, ExecGate, work
    <3> QED
      BY <1>0, <3>1 DEF Counted
  <2> QED
    BY <2>1, <2>2
<1>3. ASSUME NEW u \in Units PROVE Landing(u)' >= Landing(u)
  <2>1. /\ Sent(u) = Cardinality(SendsOf(u, outbox)) /\ Sent(u) \in Nat
        /\ Sent(u)' = Cardinality(SendsOf(u, outbox')) /\ Sent(u)' \in Nat
        /\ u \in Buffers => fires[u][1] \in Nat
        /\ u \in Buffers => fires'[u][1] \in Nat
    BY <1>0 DEF Counted
  <2>2. CASE \E s \in Senders : SendEvent(s)
    <3>1. PICK s \in Senders : SendEvent(s)
      BY <2>2
    <3>2. outbox' = outbox \/ outbox' = Append(outbox, s)
      BY <3>1 DEF SendEvent
    <3>3. Sent(u)' >= Sent(u)
      <4>1. outbox \in Seq(Senders)
        BY <1>0 DEF TypeOK
      <4>2. Cardinality(SendsOf(u, Append(outbox, s))) >= Cardinality(SendsOf(u, outbox))
        BY <4>1, SendsGrow
      <4>3. CASE outbox' = outbox
        BY <2>1, <4>3
      <4>4. CASE outbox' = Append(outbox, s)
        BY <2>1, <4>2, <4>4
      <4> QED
        BY <3>2, <4>3, <4>4
    <3>4. UNCHANGED <<container_fires, fires>>
      BY <3>1 DEF SendEvent
    <3> QED
      BY <2>1, <3>3, <3>4 DEF Landing
  <2>3. CASE WriteContainer
    <3>1. container_fires \subseteq container_fires' /\ UNCHANGED <<outbox, fires>>
      BY <2>3 DEF WriteContainer
    <3> QED
      BY <2>1, <3>1 DEF Landing
  <2>4. CASE \E b \in Buffers : ArmBuffer(b)
    <3>1. PICK b \in Buffers : ArmBuffer(b)
      BY <2>4
    <3>2. UNCHANGED <<outbox, container_fires>>
      BY <3>1 DEF ArmBuffer
    <3>3. u \in Buffers => fires'[u][1] >= fires[u][1]
      <4>1. fires' = [fires EXCEPT ![b][Delay] = @ + 1]
        BY <3>1 DEF ArmBuffer
      <4>2. fires \in [Buffers -> [1 .. Delay -> Nat]] /\ 1 \in 1 .. Delay
        <5>1. Delay \in Nat \ {0}
          BY BoundAssumption
        <5>2. fires \in [Buffers -> [1 .. Delay -> Nat]]
          BY <1>0 DEF TypeOK
        <5> QED
          BY <5>1, <5>2
      <4>3. CASE u \in Buffers /\ u = b
        <5>1. fires'[u] = [fires[u] EXCEPT ![Delay] = @ + 1]
          BY <4>1, <4>2, <4>3
        <5>2. fires[u] \in [1 .. Delay -> Nat]
          BY <4>2, <4>3
        <5> QED
          BY <4>2, <5>1, <5>2
      <4>4. CASE u \in Buffers /\ u # b
        BY <2>1, <4>1, <4>2, <4>4
      <4> QED
        BY <4>3, <4>4
    <3> QED
      BY <2>1, <3>2, <3>3 DEF Landing
  <2>5. CASE UNCHANGED sent
    BY <2>1, <2>5 DEF sent, Landing
  <2> QED
    BY <2>2, <2>3, <2>4, <2>5 DEF ChainStep, PlainGate, WriteVar, SetOut, CallRemote,
       EnterBody, LeaveBody, RunFork, FinishChain, Runaway
<1> QED
  BY <1>0, <1>1, <1>2, <1>3, OnlyAsks

(* One run less of `w`, and nothing else that counts. *)
LEMMA OneRuns ==
    ASSUME TypeOK, TypeOK', NEW w \in Units, pc # "deliver", pc' # "deliver",
           due[w] > 0,
           \A u \in Units : due'[u] = IF u = w THEN due[u] - 1 ELSE due[u],
           UNCHANGED <<carried, sent>>
    PROVE  Promise!Run(w)
<1>1. due' = [due EXCEPT ![w] = @ - 1]
  BY DEF due
<1>2. UNCHANGED owed
  BY DEF owed, sent, Landing, Sent, Sends
<1> QED
  BY <1>1, <1>2 DEF Promise!Run

LEMMA StartPromised ==
    ASSUME SchedulerInv, SchedulerInv', Start PROVE Promise!Ask
<1>0. TypeOK /\ TypeOK' /\ \A u \in Units : Counted(u) /\ Counted(u)'
  BY Counts, CountsThen DEF SchedulerInv
<1>1. \A bag \in [Units -> Nat] : \A us :
        Add(bag, us) \in [Units -> Nat] /\ \A u \in Units : Add(bag, us)[u] >= bag[u]
  BY DEF Add
<1>2. PICK seeded, ticked : pending' = Add(Add(Add(pending, seeded), LoadUnits), ticked)
  BY DEF Start
<1>3. \A u \in Units : pending'[u] >= pending[u]
  <2> SUFFICES ASSUME NEW u \in Units PROVE pending'[u] >= pending[u]
    OBVIOUS
  <2> DEFINE first == Add(pending, seeded)
             second == Add(first, LoadUnits)
             third == Add(second, ticked)
  <2>1. first \in [Units -> Nat] /\ first[u] >= pending[u]
    BY <1>0, <1>1 DEF TypeOK
  <2> HIDE DEF first
  <2>2. second \in [Units -> Nat] /\ second[u] >= first[u]
    BY <1>1, <2>1
  <2> HIDE DEF second
  <2>3. third \in [Units -> Nat] /\ third[u] >= second[u]
    BY <1>1, <2>2
  <2> HIDE DEF third
  <2>4. pending' = third
    BY <1>2 DEF first, second, third
  <2>5. pending[u] \in Nat /\ first[u] \in Nat /\ second[u] \in Nat /\ third[u] \in Nat
    BY <1>0, <2>1, <2>2, <2>3 DEF Counted
  <2> QED
    BY <2>1, <2>2, <2>3, <2>4, <2>5
<1>4. pc # "deliver" /\ pc' # "deliver" /\ UNCHANGED <<late, carried, late_events, sent>>
  BY DEF Start
<1>5. \A u \in Units : Landing(u)' = Landing(u) /\ Landing(u) \in Nat
  BY <1>0, <1>4 DEF sent, Landing, Sent, Sends, Counted
<1> QED
  BY <1>0, <1>3, <1>4, <1>5, OnlyAsks DEF Counted

LEMMA BeginTickPromised ==
    ASSUME SchedulerInv, SchedulerInv', BeginTick PROVE Promise!NextTick
<1>0. TypeOK /\ TypeOK' /\ \A u \in Units : Counted(u) /\ Counted(u)'
  BY Counts, CountsThen DEF SchedulerInv
<1>1. pc = "idle" /\ pc' = "deliver" /\ UNCHANGED <<pending, late_events, sent>>
  BY DEF BeginTick
<1>2. pending = NoWork /\ late = NoWork /\ late_events = <<>>
  BY <1>1 DEF SchedulerInv, PhaseInv
<1>3. \A u \in Units : Count(u, late_events) = 0 /\ Count(u, late_events') = 0
  BY <1>1, <1>2, CountNone
<1>4. \A u \in Units : Landing(u)' = Landing(u)
  BY <1>1 DEF sent, Landing, Sent, Sends
<1>5. due = [u \in Units |-> 0]
  BY <1>1, <1>2, <1>3 DEF due, NoWork
<1>6. \A u \in Units : late'[u] = carried[u] /\ carried'[u] = 0 /\ pending'[u] = 0
  BY <1>0, <1>1, <1>2 DEF BeginTick, NoWork, Counted
<1>7. due' = owed
  <2> SUFFICES ASSUME NEW u \in Units PROVE due'[u] = owed[u]
    BY DEF due, owed
  <2> QED
    BY <1>0, <1>1, <1>3, <1>4, <1>6 DEF due, owed, Counted
<1>8. owed' = [u \in Units |-> 0]
  <2> SUFFICES ASSUME NEW u \in Units PROVE owed'[u] = 0
    BY DEF owed
  <2> QED
    BY <1>1, <1>6 DEF owed
<1> QED
  BY <1>5, <1>7, <1>8 DEF Promise!NextTick, Promise!Nothing

LEMMA DeliverEventPromised ==
    ASSUME SchedulerInv, SchedulerInv', DeliverEvent PROVE UNCHANGED <<due, owed>>
<1>0. TypeOK /\ TypeOK' /\ \A u \in Units : Counted(u) /\ Counted(u)'
  BY Counts, CountsThen DEF SchedulerInv
<1>1. /\ pc = "deliver" /\ pc' = "deliver"
      /\ UNCHANGED <<pending, late, carried, container_fires, fires>>
  BY DEF DeliverEvent
<1>2. PICK k \in 1 .. Len(outbox) :
        /\ late_events' = late_events \o Receivers[outbox[k]]
        /\ outbox' = SubSeq(outbox, 1, k - 1) \o SubSeq(outbox, k + 1, Len(outbox))
  BY DEF DeliverEvent
<1>3. outbox \in Seq(Senders) /\ outbox' \in Seq(Senders) /\ late_events \in Seq(Units)
  BY <1>0 DEF TypeOK
<1>4. Receivers[outbox[k]] \in Seq(Units)
  BY <1>3, ProgramAssumption
<1>5. /\ Len(outbox') = Len(outbox) - 1
      /\ \A j \in 1 .. Len(outbox') : outbox'[j] = outbox[Past(k, j)]
  <2>1. outbox' = Without(outbox, k)
    BY <1>2 DEF Without
  <2> QED
    BY <1>3, <2>1, OneRemoved
<1>6. ASSUME NEW u \in Units
      PROVE  due'[u] = due[u]
  <2>1. Cardinality(SendsOf(u, outbox)) =
          Cardinality(SendsOf(u, outbox')) + Count(u, Receivers[outbox[k]])
    BY <1>3, <1>5, SendsDelivered
  <2>2. Count(u, late_events') = Count(u, late_events) + Count(u, Receivers[outbox[k]])
    BY <1>2, <1>3, <1>4, CountAppended
  <2>3. /\ Sent(u) = Cardinality(SendsOf(u, outbox)) /\ Sent(u) \in Nat
        /\ Sent(u)' = Cardinality(SendsOf(u, outbox')) /\ Sent(u)' \in Nat
        /\ Count(u, late_events) \in Nat
        /\ u \in Buffers => fires[u][1] \in Nat
    BY <1>0 DEF Counted
  <2>4. Count(u, Receivers[outbox[k]]) \in Nat
    BY <1>4, PlacesFinite
  <2>5. Sent(u) = Sent(u)' + Count(u, Receivers[outbox[k]])
    BY <2>1, <2>3
  <2> DEFINE others == (IF u \in container_fires THEN 1 ELSE 0)
                         + (IF u \in Buffers THEN fires[u][1] ELSE 0)
  <2>6. others \in Nat
    BY <2>3
  <2>7. Landing(u) = Sent(u) + others /\ Landing(u)' = Sent(u)' + others
    BY <1>1, <2>3 DEF Landing
  <2>8. due[u] = pending[u] + late[u] + Count(u, late_events) + Landing(u)
    BY <1>1 DEF due
  <2>9. due'[u] = pending[u] + late[u] + Count(u, late_events') + Landing(u)'
    BY <1>1 DEF due
  <2>10. pending[u] \in Nat /\ late[u] \in Nat
    BY <1>0 DEF Counted
  <2> HIDE DEF others
  <2> QED
    BY <2>2, <2>3, <2>4, <2>5, <2>6, <2>7, <2>8, <2>9, <2>10
<1>7. UNCHANGED due
  BY <1>6 DEF due
<1>8. UNCHANGED owed
  BY <1>1 DEF owed
<1> QED
  BY <1>7, <1>8

LEMMA OpenLatePassPromised ==
    ASSUME SchedulerInv, SchedulerInv', OpenLatePass PROVE Promise!Ask
<1>0. TypeOK /\ TypeOK' /\ \A u \in Units : Counted(u) /\ Counted(u)'
  BY Counts, CountsThen DEF SchedulerInv
<1>1. /\ pc = "deliver" /\ pc' = "late" /\ outbox = <<>>
      /\ UNCHANGED <<late_events, carried>>
  BY DEF OpenLatePass
<1> DEFINE landed(u) == IF u \in Buffers THEN fires[u][1] ELSE 0
<1>2. PICK raised, expired, ticked, moved :
        /\ late' = [u \in Units |->
                      Add(Add(Add(late, raised), container_fires), expired)[u] + landed(u)]
        /\ pending' = Add(Add(pending, ticked), moved)
  BY DEF OpenLatePass
<1> SUFFICES ASSUME NEW u \in Units PROVE due'[u] >= due[u] /\ owed'[u] >= owed[u]
  BY DEF Promise!Ask
<1>3. /\ pending[u] \in Nat /\ late[u] \in Nat /\ carried[u] \in Nat
      /\ pending'[u] \in Nat /\ late'[u] \in Nat
      /\ Count(u, late_events) \in Nat
      /\ u \in Buffers => fires[u][1] \in Nat
      /\ Landing(u)' \in Nat
  BY <1>0 DEF Counted
<1>4. Sent(u) = 0
  <2>1. Sends(u) = {}
    BY <1>1 DEF Sends
  <2> QED
    BY <2>1, FS_EmptySet DEF Sent
<1>5. late'[u] >= late[u] + (IF u \in container_fires THEN 1 ELSE 0) + landed(u)
  BY <1>2, <1>3 DEF Add
<1>6. pending'[u] >= pending[u]
  BY <1>2, <1>3 DEF Add
<1>7. Landing(u) = (IF u \in container_fires THEN 1 ELSE 0) + landed(u)
  BY <1>3, <1>4 DEF Landing
<1>8. due[u] = pending[u] + late[u] + Count(u, late_events) + Landing(u)
  BY <1>1 DEF due
<1>9. due'[u] = pending'[u] + late'[u] + Count(u, late_events)
  BY <1>0, <1>1, <1>3 DEF due
<1>10. owed[u] = carried[u] /\ owed'[u] = carried[u] + Landing(u)'
  BY <1>1, <1>3 DEF owed
<1>11. landed(u) \in Nat
  BY <1>3
<1> HIDE DEF landed
<1> QED
  BY <1>3, <1>5, <1>6, <1>7, <1>8, <1>9, <1>10, <1>11

LEMMA RunLatePromised ==
    ASSUME SchedulerInv, SchedulerInv', NEW w \in Units, RunLate(w) PROVE Promise!Run(w)
<1>0. TypeOK /\ TypeOK' /\ \A u \in Units : Counted(u) /\ Counted(u)'
  BY Counts, CountsThen DEF SchedulerInv
<1>1. /\ pc = "late" /\ pc' = "chain" /\ late[w] > 0
      /\ late' = [late EXCEPT ![w] = @ - 1]
      /\ UNCHANGED <<pending, late_events, carried, sent>>
  BY DEF RunLate, IsFirst
<1>2. \A u \in Units : late'[u] = IF u = w THEN late[u] - 1 ELSE late[u]
  BY <1>0, <1>1 DEF TypeOK
<1>3. due[w] > 0
  BY <1>0, <1>1 DEF due, Counted
<1>4. \A u \in Units : due'[u] = IF u = w THEN due[u] - 1 ELSE due[u]
  BY <1>0, <1>1, <1>2 DEF due, Counted
<1> QED
  BY <1>0, <1>1, <1>3, <1>4, OneRuns

LEMMA RunPendingPromised ==
    ASSUME SchedulerInv, SchedulerInv', NEW w \in Units, RunPending(w) PROVE Promise!Run(w)
<1>0. TypeOK /\ TypeOK' /\ \A u \in Units : Counted(u) /\ Counted(u)'
  BY Counts, CountsThen DEF SchedulerInv
<1>1. /\ pc = "pass" /\ pc' = "chain" /\ pending[w] > 0
      /\ pending' = [pending EXCEPT ![w] = @ - 1]
      /\ UNCHANGED <<late, late_events, carried, sent>>
  BY DEF RunPending, IsFirst
<1>2. \A u \in Units : pending'[u] = IF u = w THEN pending[u] - 1 ELSE pending[u]
  BY <1>0, <1>1 DEF TypeOK
<1>3. due[w] > 0
  BY <1>0, <1>1 DEF due, Counted
<1>4. \A u \in Units : due'[u] = IF u = w THEN due[u] - 1 ELSE due[u]
  BY <1>0, <1>1, <1>2 DEF due, Counted
<1> QED
  BY <1>0, <1>1, <1>3, <1>4, OneRuns

LEMMA RunEventPromised ==
    ASSUME SchedulerInv, SchedulerInv', RunEvent
    PROVE  \E w \in Units : Promise!Run(w)
<1>0. TypeOK /\ TypeOK' /\ \A u \in Units : Counted(u) /\ Counted(u)'
  BY Counts, CountsThen DEF SchedulerInv
<1>1. /\ pc = "late" /\ pc' = "chain" /\ late_events # <<>>
      /\ late_events' = Tail(late_events)
      /\ UNCHANGED <<pending, late, carried, sent>>
  BY DEF RunEvent
<1>2. late_events \in Seq(Units)
  BY <1>0 DEF TypeOK
<1> DEFINE w == late_events[1]
<1>3. w \in Units
  BY <1>1, <1>2, HeadTailProperties
<1>4. \A u \in Units : Count(u, late_events) =
                         (IF u = w THEN 1 ELSE 0) + Count(u, late_events')
  BY <1>1, <1>2, CountTaken
<1> HIDE DEF w
<1>5. \A u \in Units : Count(u, late_events') \in Nat
  BY <1>0 DEF Counted
<1>6. due[w] > 0
  BY <1>0, <1>1, <1>3, <1>4, <1>5 DEF due, Counted
<1>7. ASSUME NEW u \in Units PROVE due'[u] = IF u = w THEN due[u] - 1 ELSE due[u]
  <2>1. due[u] = pending[u] + late[u] + Count(u, late_events)
    BY <1>0, <1>1 DEF due, Counted
  <2>2. due'[u] = pending[u] + late[u] + Count(u, late_events')
    BY <1>0, <1>1 DEF due, Counted
  <2>3. pending[u] \in Nat /\ late[u] \in Nat
    BY <1>0 DEF Counted
  <2> QED
    BY <1>4, <1>5, <2>1, <2>2, <2>3
<1> QED
  BY <1>0, <1>1, <1>3, <1>6, <1>7, OneRuns

LEMMA ClosingPromised ==
    ASSUME CloseLatePass \/ ClosePass \/ Stopped \/ UNCHANGED vars
    PROVE  UNCHANGED <<due, owed>>
<1>1. /\ pc = "deliver" <=> pc' = "deliver"
      /\ UNCHANGED <<pending, late, late_events, carried, sent>>
  BY DEF CloseLatePass, ClosePass, Stopped, vars, work
<1>2. \A u \in Units : Landing(u)' = Landing(u)
  BY <1>1 DEF sent, Landing, Sent, Sends
<1> QED
  BY <1>1, <1>2 DEF due, owed

(* No activation is lost, doubled, early or more than a tick late: every step
   of the simulator's tick asks for runs, runs what is due, or begins the tick
   that owes what the last one left (carried, outbox, container_fires and the
   buffers, each drained at its own place of step). *)
THEOREM PromiseKept == Spec => KeepsPromise
<1>1. Init => Promise!Init
  BY PromisedFirst
<1>2. SchedulerInv /\ SchedulerInv' /\ [Next]_vars => [Promise!Next]_<<due, owed>>
  <2> SUFFICES ASSUME SchedulerInv, SchedulerInv', [Next]_vars
               PROVE  Promise!Next \/ UNCHANGED <<due, owed>>
    OBVIOUS
  <2>1. CASE Start
    BY <2>1, StartPromised DEF Promise!Next
  <2>2. CASE BeginTick
    BY <2>2, BeginTickPromised DEF Promise!Next
  <2>3. CASE TickStep
    <3>1. CASE DeliverEvent
      BY <3>1, DeliverEventPromised
    <3>2. CASE OpenLatePass
      BY <3>2, OpenLatePassPromised DEF Promise!Next
    <3>3. CASE \E u \in Units : RunLate(u)
      BY <3>3, RunLatePromised DEF Promise!Next
    <3>4. CASE RunEvent
      BY <3>4, RunEventPromised DEF Promise!Next
    <3>5. CASE \E u \in Units : RunPending(u)
      BY <3>5, RunPendingPromised DEF Promise!Next
    <3>6. CASE ChainStep
      BY <3>6, ChainAsks DEF Promise!Next
    <3>7. CASE CloseLatePass \/ ClosePass
      BY <3>7, ClosingPromised
    <3> QED
      BY <2>3, <3>1, <3>2, <3>3, <3>4, <3>5, <3>6, <3>7 DEF TickStep
  <2>4. CASE Stopped \/ UNCHANGED vars
    BY <2>4, ClosingPromised
  <2> QED
    BY <2>1, <2>2, <2>3, <2>4 DEF Next
<1> QED
  BY <1>1, <1>2, Invariance, PTL DEF Spec, KeepsPromise, Promise!Spec, Promise!vars
=============================================================================

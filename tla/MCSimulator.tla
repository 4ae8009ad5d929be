----------------------------- MODULE MCSimulator -----------------------------
(***************************************************************************)
(* Three kinds of gates of the simulator for TLC, in one run: calls and    *)
(* loops, buffers and queues, prefab spawners.  `part` says which of them  *)
(* a behaviour is about, the others rest; of the buffers it is one kind,   *)
(* as those of one kind do not look at those of another.                   *)
(***************************************************************************)
EXTENDS Callables, Delays, Spawner

CONSTANT Parts  \* the parts to check

VARIABLE part

allVars == <<part, vars, buffers, copyVars>>

BufferKinds == {"value", "exec", "queue"}

MCInit ==
    /\ part \in Parts
    /\ Init
    /\ part = "value" \/ last = [b \in ValueBuffers |-> CHOOSE v \in Values : TRUE]
    /\ DelaysInit
    /\ SpawnerInit

CallsOnly   == part = "calls" /\ UNCHANGED <<part, buffers, copyVars>>
BuffersOnly == part \in BufferKinds /\ UNCHANGED <<part, vars, copyVars>>
CopiesOnly  == part = "copies" /\ UNCHANGED <<part, vars, buffers>>

BufferStep ==
    \/ AdvanceBuffers
    \/ part = "value" /\ \E b \in ValueBuffers, v \in Values : Input(b, v)
    \/ part = "exec" /\ \E b \in ExecBuffers : Call(b)
    \/ part = "queue" /\ \E q \in Queues, wait \in Waits : Enqueue(q, wait)

MCNext ==
    \/ CallsOnly /\ Next
    \/ BuffersOnly /\ BufferStep
    \/ CopiesOnly /\ SpawnerNext

MCSpec == MCInit /\ [][MCNext]_allVars /\ WF_allVars(CallsOnly /\ ChainStep)

(* Calls: one function, two loops, and Unions outside them and in the body
   of the loop "outer", in which "inner" sits when it runs.  Two Unions
   outside, in a row; the one in the body leads nowhere. *)
MCHolders == [hub |-> <<>>, sink |-> <<>>, pin |-> <<"outer">>]
MCFeeds == [hub |-> {"sink"}, sink |-> {}, pin |-> {}]

(* Buffers: a value buffer that drops sooner than it rises and one that
   counts time, exec buffers that count ticks and time, and a queue. *)
MCWait == [value |-> 3, smooth |-> 4, ticks |-> 2, time |-> 3]
MCZeroWait == [value |-> 1, smooth |-> 0 - 1]
=============================================================================

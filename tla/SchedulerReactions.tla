------------------------ MODULE SchedulerReactions ------------------------
(***************************************************************************)
(* The scheduler keeps the promise of Reactions: its queues are the runs   *)
(* due in the tick and those owed to the next one.                         *)
(***************************************************************************)
EXTENDS Scheduler, FiniteSets

Places(u, seq) == {k \in 1 .. Len(seq) : seq[k] = u}
Count(u, seq)  == Cardinality(Places(u, seq))

(* The runs of `u` the outbox will start when it is delivered. *)
Sends(u) == UNION {{k} \X Places(u, Receivers[outbox[k]]) : k \in 1 .. Len(outbox)}
Sent(u)  == Cardinality(Sends(u))

(* What lands on `u` when the next late pass opens. *)
Landing(u) ==
    Sent(u) + (IF u \in container_fires THEN 1 ELSE 0)
            + (IF u \in Buffers THEN fires[u][1] ELSE 0)

due == [u \in Units |->
          pending[u] + late[u] + Count(u, late_events)
            + (IF pc = "deliver" THEN Landing(u) ELSE 0)]

owed == [u \in Units |->
           carried[u] + (IF pc = "deliver" THEN 0 ELSE Landing(u))]

Promise == INSTANCE Reactions

(* No activation is lost, doubled, early or more than a tick late. *)
KeepsPromise == Promise!Spec
=============================================================================

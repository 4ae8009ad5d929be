----------------------------- MODULE GatesProofs -----------------------------
(***************************************************************************)
(* Proofs about the gates of the simulator that do something later: those  *)
(* of Delays, for any gates, waits and times, and the spawners of Spawner, *)
(* for any number of spawners and copies.                                  *)
(*                                                                         *)
(* Delays.  BufferInv says of each value buffer what DelaysTypeOK and      *)
(* Tracks say: that a value waits only behind one in flight is what makes  *)
(* the newest one the input.  ExecInv: the calls of an exec buffer wait    *)
(* the same time, oldest first, so those that land are a prefix.           *)
(* FlightInv bounds the countdown and what is behind it by the time the    *)
(* input has stayed.  QueueInv: a record waits in line, each but the first *)
(* with its whole wait left.                                               *)
(*                                                                         *)
(* Spawner.  That a copy is held exactly once rests on two more facts:     *)
(* only copies that were made are queued or run, and a spawner is always   *)
(* older than what it holds, so a spawner that makes room for a copy never *)
(* destroys itself.  The second half is about time: a Load Event that has  *)
(* not run is queued in this very tick, ahead of the pass, only copies     *)
(* that are there have a time to live, and a spawner at its limit has an   *)
(* oldest copy to drop.                                                    *)
(***************************************************************************)
EXTENDS Delays, Spawner, FiniteSetTheorems, SequenceTheorems, WellFoundedInduction, TLAPS

(* Each buffer is in one of three states. *)
Idle(b) == in_flight[b] = Nothing /\ queued[b] = Nothing /\ out[b] = last[b]
OneFlying(b) ==
    /\ queued[b] = Nothing
    /\ \E togo : in_flight[b] = <<[value |-> last[b], left |-> togo]>>
OneBehind(b) ==
    /\ queued[b] = <<last[b]>>
    /\ \E v, togo : in_flight[b] = <<[value |-> v, left |-> togo]>>

BufferInv ==
    /\ last \in [ValueBuffers -> Values]
    /\ DOMAIN in_flight = ValueBuffers /\ DOMAIN queued = ValueBuffers
    /\ \A b \in ValueBuffers : Idle(b) \/ OneFlying(b) \/ OneBehind(b)

LEMMA BufferInit == DelaysInit => BufferInv
  BY DEF DelaysInit, BufferInv, Idle

(* settle passes a changed input to the buffer. *)
LEMMA BufferInput ==
    ASSUME BufferInv, NEW b \in ValueBuffers, NEW v \in Values, Input(b, v)
    PROVE  BufferInv'
<1>1. last' \in [ValueBuffers -> Values]
  BY DEF BufferInv, Input
<1>2. DOMAIN in_flight' = ValueBuffers /\ DOMAIN queued' = ValueBuffers
  BY DEF BufferInv, Input
<1>3. ASSUME NEW c \in ValueBuffers, c # b
      PROVE  (Idle(c) \/ OneFlying(c) \/ OneBehind(c))'
  <2>1. /\ last'[c] = last[c] /\ out'[c] = out[c]
        /\ in_flight'[c] = in_flight[c] /\ queued'[c] = queued[c]
    BY <1>3 DEF BufferInv, Input
  <2> QED
    BY <1>3, <2>1 DEF BufferInv, Idle, OneFlying, OneBehind
<1>4. (Idle(b) \/ OneFlying(b) \/ OneBehind(b))'
  <2>0. last'[b] = v
    BY DEF BufferInv, Input
  <2>1. CASE Idle(b)
    <3>1. in_flight'[b] = <<Flight(b, v)>> /\ queued'[b] = Nothing
      BY <2>1 DEF BufferInv, Input, Idle
    <3>2. OneFlying(b)'
      BY <2>0, <3>1 DEF OneFlying, Flight
    <3> QED
      BY <3>2
  <2>2. CASE OneFlying(b) \/ OneBehind(b)
    <3>1. PICK w, togo : in_flight[b] = <<[value |-> w, left |-> togo]>>
      BY <2>2 DEF OneFlying, OneBehind
    <3>2. in_flight[b] # Nothing
      BY <3>1 DEF Nothing
    <3>3. in_flight'[b] = in_flight[b] /\ queued'[b] = <<v>>
      BY <3>2 DEF BufferInv, Input, Kept
    <3>4. OneBehind(b)'
      BY <2>0, <3>1, <3>3 DEF OneBehind
    <3> QED
      BY <3>4
  <2> QED
    BY <2>1, <2>2 DEF BufferInv
<1> QED
  BY <1>1, <1>2, <1>3, <1>4 DEF BufferInv

(* A tick counts the buffers down and lands what is due. *)
LEMMA BufferTick ==
    ASSUME BufferInv, AdvanceBuffers
    PROVE  BufferInv'
<1>1. PICK time \in Times :
        /\ out' = [b \in ValueBuffers |-> IF Lands(b, time) THEN Flown(b, time).value ELSE out[b]]
        /\ in_flight' = [b \in ValueBuffers |-> NextFlight(b, time)]
        /\ queued' = [b \in ValueBuffers |-> IF Lands(b, time) THEN Nothing ELSE queued[b]]
        /\ last' = last
  BY DEF AdvanceBuffers
<1>2. ASSUME NEW b \in ValueBuffers
      PROVE  (Idle(b) \/ OneFlying(b) \/ OneBehind(b))'
  <2>0. /\ out'[b] = IF Lands(b, time) THEN Flown(b, time).value ELSE out[b]
        /\ in_flight'[b] = NextFlight(b, time)
        /\ queued'[b] = IF Lands(b, time) THEN Nothing ELSE queued[b]
        /\ last'[b] = last[b]
    BY <1>1, <1>2
  <2>1. CASE Idle(b)
    <3>1. ~Lands(b, time) /\ NextFlight(b, time) = Nothing
      BY <2>1 DEF Idle, Lands, NextFlight
    <3> QED
      BY <2>0, <2>1, <3>1 DEF Idle
  <2>2. ASSUME NEW w, NEW togo, in_flight[b] = <<[value |-> w, left |-> togo]>>
        PROVE  /\ in_flight[b] # Nothing
               /\ Flown(b, time) = [value |-> w, left |-> togo - Passing(b, time)]
    BY <2>2 DEF Nothing, Flown, Down
  <2>3. CASE OneFlying(b)
    <3>1. PICK togo : in_flight[b] = <<[value |-> last[b], left |-> togo]>>
      BY <2>3 DEF OneFlying
    <3>2. /\ in_flight[b] # Nothing
          /\ Flown(b, time) = [value |-> last[b], left |-> togo - Passing(b, time)]
      BY <2>2, <3>1
    <3>3. CASE Lands(b, time)
      <4>1. Idle(b)'
        BY <2>0, <2>3, <3>2, <3>3 DEF Idle, OneFlying, NextFlight
      <4> QED
        BY <4>1
    <3>4. CASE ~Lands(b, time)
      <4>1. in_flight'[b] = <<Flown(b, time)>> /\ queued'[b] = Nothing
        BY <2>0, <2>3, <3>2, <3>4 DEF OneFlying, NextFlight
      <4>2. OneFlying(b)'
        BY <2>0, <3>2, <4>1 DEF OneFlying
      <4> QED
        BY <4>2
    <3> QED
      BY <3>3, <3>4
  <2>4. CASE OneBehind(b)
    <3>1. PICK w, togo : in_flight[b] = <<[value |-> w, left |-> togo]>>
      BY <2>4 DEF OneBehind
    <3>2. /\ in_flight[b] # Nothing
          /\ Flown(b, time) = [value |-> w, left |-> togo - Passing(b, time)]
      BY <2>2, <3>1
    <3>3. queued[b] # Nothing /\ Head(queued[b]) = last[b]
      BY <2>4 DEF OneBehind, Nothing
    <3>4. CASE Lands(b, time)
      <4>1. in_flight'[b] = <<Flight(b, last[b])>> /\ queued'[b] = Nothing
        BY <2>0, <3>2, <3>3, <3>4 DEF NextFlight
      <4>2. OneFlying(b)'
        BY <2>0, <4>1 DEF OneFlying, Flight
      <4> QED
        BY <4>2
    <3>5. CASE ~Lands(b, time)
      <4>1. in_flight'[b] = <<Flown(b, time)>> /\ queued'[b] = queued[b]
        BY <2>0, <3>2, <3>5 DEF NextFlight
      <4>2. OneBehind(b)'
        BY <2>0, <2>4, <3>2, <4>1 DEF OneBehind
      <4> QED
        BY <4>2
    <3> QED
      BY <3>4, <3>5
  <2> QED
    BY <2>1, <2>3, <2>4 DEF BufferInv
<1>3. /\ last' \in [ValueBuffers -> Values]
      /\ DOMAIN in_flight' = ValueBuffers /\ DOMAIN queued' = ValueBuffers
  BY <1>1 DEF BufferInv
<1> QED
  BY <1>2, <1>3 DEF BufferInv

LEMMA BufferNext ==
    ASSUME BufferInv, [DelaysNext]_buffers
    PROVE  BufferInv'
<1>1. ASSUME NEW b \in ExecBuffers, Call(b)
      PROVE  BufferInv'
  BY <1>1 DEF Call, value, BufferInv, Idle, OneFlying, OneBehind
<1>2. ASSUME NEW q \in Queues, NEW wait \in Waits, Enqueue(q, wait)
      PROVE  BufferInv'
  BY <1>2 DEF Enqueue, value, BufferInv, Idle, OneFlying, OneBehind
<1>3. CASE UNCHANGED buffers
  BY <1>3 DEF buffers, value, BufferInv, Idle, OneFlying, OneBehind
<1> QED
  BY <1>1, <1>2, <1>3, BufferInput, BufferTick DEF DelaysNext

(* Whatever changes while a value is on its way, the newest of what a      *)
(* value buffer holds is its input (buffer_input and advance_buffers).     *)
THEOREM InputNeverForgotten == DelaysSpec => []Tracks
<1>1. BufferInv => Tracks
  <2> SUFFICES ASSUME BufferInv, NEW b \in ValueBuffers
               PROVE  last[b] = IF queued[b] # Nothing THEN Head(queued[b])
                                ELSE IF in_flight[b] # Nothing THEN Head(in_flight[b]).value
                                ELSE out[b]
    BY DEF Tracks
  <2>1. CASE Idle(b)
    BY <2>1 DEF Idle
  <2>2. CASE OneFlying(b)
    BY <2>2 DEF OneFlying, Nothing
  <2>3. CASE OneBehind(b)
    BY <2>3 DEF OneBehind, Nothing
  <2> QED
    BY <2>1, <2>2, <2>3 DEF BufferInv
<1>2. BufferInv /\ [DelaysNext]_buffers => BufferInv'
  BY BufferNext
<1> QED
  BY BufferInit, <1>1, <1>2, PTL DEF DelaysSpec

-----------------------------------------------------------------------------
(* Exec buffers: calls land on time. *)

(* Sets of naturals have least elements. *)
LEMMA LeastNatural ==
    ASSUME NEW S, S \subseteq Nat, S # {}
    PROVE  \E m \in S : \A n \in S : m <= n
<1>1. PICK m \in S : \A n \in S : ~ (<<n, m>> \in OpToRel(<, Nat))
  BY NatLessThanWellFounded, WFMin
<1>2. \A n \in S : ~ (n < m)
  BY <1>1 DEF OpToRel
<1> QED
  BY <1>2

(* The calls that land are a prefix, as long as there are calls that land, and
   the first that stays is not due. *)
LEMMA LandingPrefix ==
    ASSUME NEW len \in Nat, NEW calls, DOMAIN calls = 1 .. len
    PROVE  \E k \in 0 .. len :
             /\ Landing(calls) = 1 .. k
             /\ Cardinality(Landing(calls)) = k
             /\ k < len => ~Due(calls[k + 1])
<1> DEFINE D == Landing(calls)
           rest == {n \in 1 .. len + 1 : n \notin D}
<1>1. D = {n \in 1 .. len : \A i \in 1 .. n : Due(calls[i])}
  BY DEF Landing
<1>2. PICK m \in rest : \A n \in rest : m <= n
  <2>1. len + 1 \in rest /\ rest \subseteq Nat
    BY <1>1
  <2> HIDE DEF rest
  <2> QED
    BY <2>1, LeastNatural
<1>3. m - 1 \in 0 .. len
  OBVIOUS
<1>4. \A n \in 1 .. (m - 1) : n \in D
  BY <1>2
<1>5. \A n \in D : n \in 1 .. (m - 1)
  <2> SUFFICES ASSUME NEW n \in D, n >= m PROVE FALSE
    BY <1>1
  <2>1. n \in 1 .. len /\ \A i \in 1 .. n : Due(calls[i])
    BY <1>1
  <2>2. \A i \in 1 .. m : Due(calls[i])
    BY <2>1
  <2>3. m \in D
    BY <1>1, <2>1, <2>2
  <2> QED
    BY <2>3
<1>6. D = 1 .. (m - 1)
  BY <1>4, <1>5
<1>7. Cardinality(D) = m - 1
  BY <1>6, FS_Interval
<1>8. m - 1 < len => ~Due(calls[m])
  <2> SUFFICES ASSUME m - 1 < len, Due(calls[m]) PROVE FALSE
    OBVIOUS
  <2>1. \A i \in 1 .. (m - 1) : Due(calls[i])
    <3> SUFFICES ASSUME NEW i \in 1 .. (m - 1) PROVE Due(calls[i])
      OBVIOUS
    <3> i \in D
      BY <1>4
    <3> QED
      BY <1>1
  <2>2. \A i \in 1 .. m : Due(calls[i])
    BY <2>1
  <2>3. m \in D
    BY <1>1, <2>2
  <2> QED
    BY <2>3
<1> QED
  BY <1>3, <1>6, <1>7, <1>8

CallRecord == [left : Int, asked : Int, age : Nat]

(* A call of a buffer that waits for `wait` (the field's): what is left and
   its age sum up to the wait, and it leaves when nothing is left. *)
OnItsWay(c, wait) ==
    /\ c.asked = wait
    /\ c.left = wait - c.age
    /\ c.age = 0 \/ c.age < wait

CallInv(b) ==
    /\ fires[b] \in Seq(CallRecord)
    /\ \A n \in DOMAIN fires[b] : OnItsWay(fires[b][n], AtLeast(b, Wait[b]))
    /\ \A m, n \in DOMAIN fires[b] : m < n => fires[b][m].age >= fires[b][n].age

LandedOnTime(b) ==
    /\ \A c \in landed[b] : 0 <= c.late /\ c.late <= c.tick
    /\ b \notin Seconds => \A c \in landed[b] : c.late = 0

ExecInv ==
    /\ DOMAIN fires = ExecBuffers /\ DOMAIN landed = ExecBuffers
    /\ \A b \in ExecBuffers \ Wired : CallInv(b) /\ LandedOnTime(b)

LEMMA WaitIsNatural ==
    \A b \in ExecBuffers : /\ AtLeast(b, Wait[b]) \in Nat
                           /\ b \notin Seconds => AtLeast(b, Wait[b]) >= 1
  BY DelayAssumption DEF AtLeast, Longer

LEMMA ExecInit == DelaysInit => ExecInv
  BY DEF DelaysInit, ExecInv, CallInv, LandedOnTime

(* The buffer arm of exec_gate. *)
LEMMA ExecCall ==
    ASSUME ExecInv, NEW b \in ExecBuffers, Call(b)
    PROVE  ExecInv'
<1>1. PICK wait \in IF b \in Wired THEN Waits ELSE {Wait[b]} :
        fires' = [fires EXCEPT ![b] =
             Append(@, [left |-> AtLeast(b, Wait[b]), asked |-> AtLeast(b, wait), age |-> 0])]
  BY DEF Call
<1>2. landed' = landed
  BY DEF Call
<1>3. ASSUME NEW c \in ExecBuffers \ Wired
      PROVE  (CallInv(c) /\ LandedOnTime(c))'
  <2>1. LandedOnTime(c)'
    BY <1>2 DEF ExecInv, LandedOnTime
  <2>2. CASE c # b
    BY <1>1, <2>1, <2>2 DEF ExecInv, CallInv
  <2>3. CASE c = b
    <3> DEFINE W == AtLeast(b, Wait[b])
               new == [left |-> W, asked |-> W, age |-> 0]
    <3>1. fires'[b] = Append(fires[b], new)
      BY <1>1, <2>3 DEF ExecInv
    <3>2. W \in Nat /\ new \in CallRecord /\ OnItsWay(new, W)
      BY WaitIsNatural DEF CallRecord, OnItsWay
    <3>3. CallInv(b)
      BY <2>3 DEF ExecInv
    <3> HIDE DEF W, new
    <3>4. /\ fires'[b] \in Seq(CallRecord)
          /\ DOMAIN fires'[b] = 1 .. Len(fires[b]) + 1
          /\ Len(fires[b]) \in Nat /\ DOMAIN fires[b] = 1 .. Len(fires[b])
          /\ \A n \in 1 .. Len(fires[b]) : fires'[b][n] = fires[b][n]
          /\ fires'[b][Len(fires[b]) + 1] = new
      BY <3>1, <3>2, <3>3, AppendProperties DEF CallInv
    <3>5. \A n \in DOMAIN fires'[b] : OnItsWay(fires'[b][n], W)
      BY <3>2, <3>3, <3>4 DEF CallInv, W
    <3>6. \A n \in DOMAIN fires[b] : fires[b][n].age \in Nat
      <4> SUFFICES ASSUME NEW n \in 1 .. Len(fires[b]) PROVE fires[b][n].age \in Nat
        BY <3>4
      <4>1. fires[b][n] \in CallRecord
        BY <3>3, ElementOfSeq DEF CallInv
      <4> QED
        BY <4>1 DEF CallRecord
    <3>7. new.age = 0
      BY DEF new
    <3>8. ASSUME NEW m \in DOMAIN fires'[b], NEW n \in DOMAIN fires'[b], m < n
          PROVE  fires'[b][m].age >= fires'[b][n].age
      <4>1. m \in DOMAIN fires[b] /\ fires'[b][m] = fires[b][m]
        BY <3>4, <3>8
      <4>2. CASE n \in DOMAIN fires[b]
        BY <3>3, <3>4, <3>8, <4>1, <4>2 DEF CallInv
      <4>3. CASE n = Len(fires[b]) + 1
        BY <3>4, <3>6, <3>7, <4>1, <4>3
      <4> QED
        BY <3>4, <4>2, <4>3
    <3> QED
      BY <2>1, <2>3, <3>4, <3>5, <3>8 DEF CallInv, W
  <2> QED
    BY <2>2, <2>3
<1>4. DOMAIN fires' = ExecBuffers /\ DOMAIN landed' = ExecBuffers
  BY <1>1, <1>2 DEF ExecInv
<1> QED
  BY <1>3, <1>4 DEF ExecInv

(* A tick: every call in front that is due lands, and as all of them wait for
   the same time, none that is due is behind one that is not. *)
LEMMA ExecTick ==
    ASSUME ExecInv, AdvanceBuffers
    PROVE  ExecInv'
<1> DEFINE all(time) == [b \in ExecBuffers |-> Called(b, time)]
<1>1. PICK time \in Times :
        /\ fires' = [b \in ExecBuffers |->
              After(all(time)[b], Cardinality(Landing(all(time)[b])))]
        /\ landed' = [b \in ExecBuffers |->
              {[late |-> all(time)[b][n].age - all(time)[b][n].asked,
                tick |-> Passing(b, time)] : n \in Landing(all(time)[b])}]
  BY Zenon DEF AdvanceBuffers
<1>2. ASSUME NEW b \in ExecBuffers \ Wired
      PROVE  (CallInv(b) /\ LandedOnTime(b))'
  <2> DEFINE W == AtLeast(b, Wait[b])
             p == Passing(b, time)
             calls == Called(b, time)
             len == Len(fires[b])
  <2>0. all(time)[b] = calls
    OBVIOUS
  <2>1. CallInv(b)
    BY DEF ExecInv
  <2>2. W \in Nat /\ (b \notin Seconds => W >= 1)
    BY WaitIsNatural
  <2>3. p \in Nat /\ p >= 1 /\ (b \notin Seconds => p = 1)
    BY DelayAssumption DEF Passing
  <2> HIDE DEF W, p
  <2>4. len \in Nat /\ DOMAIN calls = 1 .. len /\ DOMAIN fires[b] = 1 .. len
    BY <2>1, LenProperties DEF CallInv, Called
  <2>5. ASSUME NEW n \in 1 .. len
        PROVE  /\ fires[b][n] \in CallRecord /\ OnItsWay(fires[b][n], W)
               /\ calls[n] \in CallRecord /\ calls[n].asked = W
               /\ calls[n].left = fires[b][n].left - p
               /\ calls[n].age = fires[b][n].age + p
    <3>1. fires[b][n] \in CallRecord /\ OnItsWay(fires[b][n], W)
      BY <2>1, <2>4, ElementOfSeq DEF CallInv, W
    <3>2. calls[n] = [Down(fires[b][n], p) EXCEPT !.age = @ + p]
      BY <2>4 DEF Called, p
    <3>3. calls[n] = [left |-> fires[b][n].left - p, asked |-> W, age |-> fires[b][n].age + p]
      BY <3>1, <3>2 DEF Down, CallRecord, OnItsWay
    <3> QED
      BY <2>2, <2>3, <3>1, <3>3 DEF CallRecord
  <2> HIDE DEF calls, all
  <2>6. PICK k \in 0 .. len :
          /\ Landing(calls) = 1 .. k
          /\ Cardinality(Landing(calls)) = k
          /\ k < len => ~Due(calls[k + 1])
    BY <2>4, LandingPrefix
  <2>7. ASSUME NEW n \in 1 .. len
        PROVE  /\ calls[n] \in CallRecord
               /\ calls[n].asked = W /\ calls[n].left = W - calls[n].age
               /\ calls[n].age \in Nat
               /\ Due(calls[n]) => 0 <= calls[n].age - W /\ calls[n].age - W <= p
               /\ Due(calls[n]) /\ b \notin Seconds => calls[n].age = W
               /\ ~Due(calls[n]) => calls[n].age < W
    <3> DEFINE age == fires[b][n].age
    <3>1. age \in Nat /\ fires[b][n].left = W - age /\ (age = 0 \/ age < W)
      BY <2>5 DEF OnItsWay, CallRecord
    <3>2. calls[n].age = age + p /\ calls[n].left = W - age - p
      BY <2>5, <3>1
    <3> HIDE DEF age
    <3>3. /\ calls[n].age \in Nat /\ calls[n].left = W - calls[n].age
          /\ calls[n].left \in Int
      BY <2>2, <2>3, <3>1, <3>2
    <3>4. Due(calls[n]) <=> W - calls[n].age <= 0
      BY <3>3 DEF Due
    <3> QED
      BY <2>2, <2>3, <2>5, <3>1, <3>2, <3>3, <3>4
  <2>8. \A m, n \in 1 .. len : m < n => calls[m].age >= calls[n].age
    <3> SUFFICES ASSUME NEW m \in 1 .. len, NEW n \in 1 .. len, m < n
                 PROVE  calls[m].age >= calls[n].age
      OBVIOUS
    <3>1. fires[b][m].age >= fires[b][n].age
      BY <2>1, <2>4 DEF CallInv
    <3>2. /\ calls[m].age = fires[b][m].age + p /\ calls[n].age = fires[b][n].age + p
          /\ fires[b][m].age \in Nat /\ fires[b][n].age \in Nat
      BY <2>5 DEF CallRecord
    <3> QED
      BY <2>3, <3>1, <3>2
  <2>9. landed'[b] = {[late |-> calls[n].age - calls[n].asked, tick |-> p] : n \in 1 .. k}
    BY <1>1, <2>0, <2>6 DEF p
  <2>10. \A n \in 1 .. k : n \in 1 .. len /\ Due(calls[n])
    BY <2>4, <2>6 DEF Landing
  <2>11. LandedOnTime(b)'
    <3> SUFFICES ASSUME NEW c \in landed'[b]
                 PROVE  /\ 0 <= c.late /\ c.late <= c.tick
                        /\ b \notin Seconds => c.late = 0
      BY DEF LandedOnTime
    <3>1. PICK n \in 1 .. k : c = [late |-> calls[n].age - calls[n].asked, tick |-> p]
      BY <2>9
    <3>2. c.late = calls[n].age - W /\ c.tick = p
      BY <2>7, <2>10, <3>1
    <3>3. calls[n].age \in Nat
      BY <2>7, <2>10
    <3> QED
      BY <2>2, <2>3, <2>7, <2>10, <3>2, <3>3
  <2>12. fires'[b] = SubSeq(calls, k + 1, Len(calls))
    BY <1>1, <2>0, <2>6 DEF After
  <2>13. Len(calls) = len
    BY <2>4
  <2>14. /\ fires'[b] \in Seq(CallRecord)
         /\ DOMAIN fires'[b] = 1 .. (len - k)
         /\ \A i \in 1 .. (len - k) : fires'[b][i] = calls[k + i]
    <3>1. \A i \in (k + 1) .. len : calls[i] \in CallRecord
      BY <2>4, <2>6, <2>7
    <3>2. /\ fires'[b] \in Seq(CallRecord)
          /\ Len(fires'[b]) = IF k + 1 <= len THEN len - (k + 1) + 1 ELSE 0
          /\ \A i \in 1 .. len - (k + 1) + 1 : fires'[b][i] = calls[(k + 1) + i - 1]
      BY <2>4, <2>6, <2>12, <2>13, <3>1, SubSeqProperties
    <3>3. Len(fires'[b]) = len - k
      BY <2>4, <2>6, <3>2
    <3>4. \A i \in 1 .. (len - k) : i \in 1 .. len - (k + 1) + 1 /\ (k + 1) + i - 1 = k + i
      BY <2>4, <2>6
    <3> QED
      BY <3>2, <3>3, <3>4, LenProperties
  <2>15. ASSUME NEW n \in DOMAIN fires'[b]
         PROVE  OnItsWay(fires'[b][n], W)
    <3>1. k + n \in 1 .. len /\ k + 1 \in 1 .. len /\ k + 1 <= k + n
      BY <2>4, <2>6, <2>14
    <3>2. ~Due(calls[k + 1])
      BY <2>6, <3>1
    <3>3. calls[k + 1].age < W /\ calls[k + n].age <= calls[k + 1].age
      BY <2>7, <2>8, <3>1, <3>2
    <3>4. calls[k + n].age \in Nat /\ calls[k + 1].age \in Nat
      BY <2>7, <3>1
    <3>5. calls[k + n].age < W
      BY <2>2, <3>3, <3>4
    <3> QED
      BY <2>7, <2>14, <3>1, <3>5 DEF OnItsWay
  <2>16. ASSUME NEW m \in DOMAIN fires'[b], NEW n \in DOMAIN fires'[b], m < n
         PROVE  fires'[b][m].age >= fires'[b][n].age
    <3>1. k + m \in 1 .. len /\ k + n \in 1 .. len /\ k + m < k + n
      BY <2>4, <2>6, <2>14, <2>16
    <3> QED
      BY <2>8, <2>14, <3>1
  <2> QED
    BY <2>11, <2>14, <2>15, <2>16 DEF CallInv, W
<1>3. DOMAIN fires' = ExecBuffers /\ DOMAIN landed' = ExecBuffers
  BY <1>1
<1> QED
  BY <1>2, <1>3 DEF ExecInv

LEMMA ExecNext ==
    ASSUME ExecInv, [DelaysNext]_buffers
    PROVE  ExecInv'
<1>1. CASE UNCHANGED <<fires, landed>>
  BY <1>1 DEF ExecInv, CallInv, LandedOnTime
<1>2. ASSUME NEW b \in ValueBuffers, NEW v \in Values, Input(b, v)
      PROVE  UNCHANGED <<fires, landed>>
  BY <1>2 DEF Input
<1>3. ASSUME NEW q \in Queues, NEW wait \in Waits, Enqueue(q, wait)
      PROVE  UNCHANGED <<fires, landed>>
  BY <1>3 DEF Enqueue
<1> QED
  BY <1>1, <1>2, <1>3, ExecCall, ExecTick DEF DelaysNext, buffers

(* Without a wire into a duration port, a call lands in the first tick in
   which its wait is over (countdown, due and the exec part of advance_buffers):
   with a wire it does not, as the run delays_wired shows. *)
THEOREM CallsLandOnTime == Wired = {} => (DelaysSpec => []CallsOnTime)
<1> SUFFICES ASSUME Wired = {} PROVE DelaysSpec => []CallsOnTime
  OBVIOUS
<1>1. ExecInv => CallsOnTime
  <2> SUFFICES ASSUME ExecInv, NEW b \in ExecBuffers
               PROVE  /\ \A n \in DOMAIN fires[b] :
                           fires[b][n].age = 0 \/ fires[b][n].age < fires[b][n].asked
                      /\ LandedOnTime(b)
    BY DEF CallsOnTime, LandedOnTime
  <2> QED
    BY DEF ExecInv, CallInv, OnItsWay
<1>2. ExecInv /\ [DelaysNext]_buffers => ExecInv'
  BY ExecNext
<1> QED
  BY ExecInit, <1>1, <1>2, PTL DEF DelaysSpec

-----------------------------------------------------------------------------
(* Value buffers: an input that stays is shown in time. *)

Longest(b) == Longer(1, Longer(Wait[b], ZeroWait[b]))

(* What flies lands within its longest wait, and what is behind it within
   another: `still` and the ticks that are left never exceed that. *)
Flying(b, v, togo) ==
    /\ v \in Values /\ togo \in Nat
    /\ in_flight[b] = <<[value |-> v, left |-> togo]>>
    /\ b \notin Seconds => togo > 0
    /\ Longer(1, togo) <= Longest(b)
    /\ Longer(1, togo) + still[b]
          <= IF queued[b] = Nothing THEN 2 * Longest(b) ELSE Longest(b)

FlightInv ==
    /\ out \in [ValueBuffers -> Values] /\ DOMAIN still = ValueBuffers
    /\ \A b \in ValueBuffers :
         /\ still[b] \in 0 .. Patience(b)
         /\ in_flight[b] # Nothing => \E v, togo : Flying(b, v, togo)

LEMMA CountdownBounds ==
    ASSUME NEW b \in ValueBuffers, NEW v
    PROVE  /\ Countdown(b, v) \in Nat /\ Longest(b) \in Nat /\ Longest(b) >= 1
           /\ b \notin Seconds => Countdown(b, v) > 0
           /\ Longer(1, Countdown(b, v)) <= Longest(b)
           /\ Patience(b) = 2 * Longest(b)
<1>1. Wait[b] \in Nat /\ ZeroWait[b] \in Nat \union {-1}
  BY DelayAssumption
<1>2. PICK wait \in Nat : Countdown(b, v) = AtLeast(b, wait) /\ wait \in {Wait[b], ZeroWait[b]}
  BY <1>1 DEF Countdown
<1>3. /\ Longest(b) \in Nat /\ Longest(b) >= 1 /\ wait <= Longest(b)
      /\ Patience(b) = 2 * Longest(b)
  BY <1>1, <1>2 DEF Longest, Longer, Patience
<1>4. Countdown(b, v) = IF b \in Seconds THEN wait ELSE Longer(1, wait)
  BY <1>2, Zenon DEF AtLeast
<1> HIDE DEF Longest, Countdown
<1> QED
  BY <1>2, <1>3, <1>4 DEF Longer

LEMMA FlightInit == DelaysInit => FlightInv
<1> SUFFICES ASSUME DelaysInit PROVE FlightInv
  OBVIOUS
<1>1. \A b \in ValueBuffers : 0 \in 0 .. Patience(b)
  BY CountdownBounds
<1> QED
  BY <1>1 DEF DelaysInit, FlightInv

LEMMA FlightInput ==
    ASSUME BufferInv, FlightInv, NEW b \in ValueBuffers, NEW v \in Values, Input(b, v)
    PROVE  FlightInv'
<1>1. /\ still' = [still EXCEPT ![b] = 0]
      /\ IF in_flight[b] # Nothing
         THEN queued' = [queued EXCEPT ![b] = <<v>>] /\ UNCHANGED in_flight
         ELSE in_flight' = [in_flight EXCEPT ![b] = <<Flight(b, v)>>] /\ UNCHANGED queued
      /\ out' = out
  BY DEF Input, Kept
<1>2. ASSUME NEW c \in ValueBuffers, c # b
      PROVE  /\ still'[c] = still[c] /\ in_flight'[c] = in_flight[c]
             /\ queued'[c] = queued[c]
  BY <1>1, <1>2 DEF BufferInv, FlightInv
<1>3. ASSUME NEW c \in ValueBuffers, c # b
      PROVE  /\ still'[c] \in 0 .. Patience(c)
             /\ in_flight'[c] # Nothing => \E w, togo : Flying(c, w, togo)'
  BY <1>2, <1>3 DEF FlightInv, Flying
<1>4. still'[b] = 0 /\ 0 \in 0 .. Patience(b)
  BY <1>1, CountdownBounds DEF FlightInv
<1>5. \E w, togo : Flying(b, w, togo)'
  <2>1. CASE in_flight[b] = Nothing
    <3>1. in_flight'[b] = <<[value |-> v, left |-> Countdown(b, v)]>>
      BY <1>1, <2>1 DEF BufferInv, Flight
    <3>2. queued'[b] = Nothing
      BY <1>1, <2>1 DEF BufferInv, Idle, OneFlying, OneBehind, Nothing
    <3>3. Flying(b, v, Countdown(b, v))'
      BY <1>4, <3>1, <3>2, CountdownBounds DEF Flying, Longer
    <3> QED
      BY <3>3
  <2>2. CASE in_flight[b] # Nothing
    <3>1. PICK w, togo : Flying(b, w, togo)
      BY <2>2 DEF FlightInv
    <3>2. in_flight'[b] = in_flight[b] /\ queued'[b] # Nothing
      <4>1. queued' = [queued EXCEPT ![b] = <<v>>] /\ UNCHANGED in_flight
        BY <1>1, <2>2, Zenon
      <4>2. b \in DOMAIN queued
        BY DEF BufferInv
      <4>3. <<v>> # Nothing
        BY DEF Nothing
      <4> QED
        BY <4>1, <4>2, <4>3, Zenon
    <3>3. Flying(b, w, togo)'
      BY <1>4, <3>1, <3>2, CountdownBounds DEF Flying, Longer
    <3> QED
      BY <3>3
  <2> QED
    BY <2>1, <2>2
<1>6. out' \in [ValueBuffers -> Values] /\ DOMAIN still' = ValueBuffers
  BY <1>1 DEF FlightInv
<1> QED
  BY <1>3, <1>4, <1>5, <1>6 DEF FlightInv

LEMMA FlightTick ==
    ASSUME BufferInv, FlightInv, AdvanceBuffers
    PROVE  FlightInv'
<1>1. PICK time \in Times :
        /\ out' = [b \in ValueBuffers |-> IF Lands(b, time) THEN Flown(b, time).value ELSE out[b]]
        /\ in_flight' = [b \in ValueBuffers |-> NextFlight(b, time)]
        /\ queued' = [b \in ValueBuffers |-> IF Lands(b, time) THEN Nothing ELSE queued[b]]
        /\ still' = [b \in ValueBuffers |->
                       IF still[b] < Patience(b) THEN still[b] + 1 ELSE still[b]]
  BY DEF AdvanceBuffers
<1>2. ASSUME NEW b \in ValueBuffers
      PROVE  /\ out'[b] \in Values
             /\ still'[b] \in 0 .. Patience(b)
             /\ in_flight'[b] # Nothing => \E v, togo : Flying(b, v, togo)'
  <2> DEFINE L == Longest(b)
             p == Passing(b, time)
  <2>0. /\ L \in Nat /\ L >= 1 /\ Patience(b) = 2 * L
        /\ p \in Nat /\ p >= 1
    BY CountdownBounds, DelayAssumption DEF Passing
  <2>1. /\ still[b] \in 0 .. Patience(b)
        /\ still'[b] = IF still[b] < Patience(b) THEN still[b] + 1 ELSE still[b]
        /\ in_flight'[b] = NextFlight(b, time)
        /\ queued'[b] = IF Lands(b, time) THEN Nothing ELSE queued[b]
        /\ out'[b] = IF Lands(b, time) THEN Flown(b, time).value ELSE out[b]
    BY <1>1 DEF FlightInv
  <2>2. /\ still[b] \in Nat /\ still'[b] \in 0 .. Patience(b) /\ still'[b] <= still[b] + 1
    BY <2>0, <2>1
  <2>3. CASE in_flight[b] = Nothing
    BY <2>1, <2>2, <2>3 DEF Lands, NextFlight, FlightInv
  <2>4. CASE in_flight[b] # Nothing
    <3>1. PICK v, togo : Flying(b, v, togo)
      BY <2>4 DEF FlightInv
    <3>2. /\ v \in Values /\ togo \in Nat
          /\ Flown(b, time) = [value |-> v, left |-> togo - p]
          /\ Longer(1, togo) <= L
          /\ Longer(1, togo) + still[b] <= IF queued[b] = Nothing THEN 2 * L ELSE L
      BY <3>1 DEF Flying, Flown, Down
    <3>3. Lands(b, time) <=> togo - p <= 0
      BY <2>4, <3>2 DEF Lands, Due
    <3> HIDE DEF L, p
    <3>4. out'[b] \in Values
      BY <2>1, <3>2 DEF FlightInv
    <3>5. CASE ~Lands(b, time)
      <4>1. in_flight'[b] = <<[value |-> v, left |-> togo - p]>> /\ queued'[b] = queued[b]
        BY <2>1, <2>4, <3>2, <3>5 DEF NextFlight
      <4>2. /\ togo - p \in Nat /\ togo - p > 0
            /\ Longer(1, togo - p) + 1 <= Longer(1, togo)
        BY <2>0, <3>2, <3>3, <3>5 DEF Longer
      <4>3. Longer(1, togo - p) \in Nat /\ Longer(1, togo) \in Nat
        BY <3>2, <4>2 DEF Longer
      <4>4. /\ Longer(1, togo - p) <= L
            /\ Longer(1, togo - p) + still'[b] <= IF queued[b] = Nothing THEN 2 * L ELSE L
        BY <2>0, <2>2, <3>2, <4>2, <4>3
      <4>5. Flying(b, v, togo - p)'
        BY <3>2, <4>1, <4>2, <4>4 DEF Flying, L
      <4> QED
        BY <2>2, <3>4, <4>5
    <3>6. CASE Lands(b, time) /\ queued[b] = Nothing
      BY <2>1, <2>2, <2>4, <3>4, <3>6 DEF NextFlight
    <3>7. CASE Lands(b, time) /\ queued[b] # Nothing
      <4>1. PICK w \in Values : queued[b] = <<w>>
        BY <3>7 DEF BufferInv, Idle, OneFlying, OneBehind
      <4>2. in_flight'[b] = <<[value |-> w, left |-> Countdown(b, w)]>> /\ queued'[b] = Nothing
        BY <2>1, <2>4, <3>7, <4>1 DEF NextFlight, Flight
      <4>3. still'[b] <= L
        BY <2>0, <2>2, <3>2, <3>7 DEF Longer
      <4>4. /\ Countdown(b, w) \in Nat /\ Longer(1, Countdown(b, w)) <= L
            /\ b \notin Seconds => Countdown(b, w) > 0
        BY CountdownBounds DEF L
      <4>5. Longer(1, Countdown(b, w)) + still'[b] <= 2 * L
        BY <2>0, <2>2, <4>3, <4>4 DEF Longer
      <4>6. Flying(b, w, Countdown(b, w))'
        BY <4>1, <4>2, <4>4, <4>5 DEF Flying, L
      <4> QED
        BY <2>2, <3>4, <4>6
    <3> QED
      BY <3>5, <3>6, <3>7
  <2> QED
    BY <2>3, <2>4
<1>3. out' \in [ValueBuffers -> Values] /\ DOMAIN still' = ValueBuffers
  BY <1>1, <1>2
<1> QED
  BY <1>2, <1>3 DEF FlightInv

LEMMA FlightNext ==
    ASSUME BufferInv, FlightInv, [DelaysNext]_buffers
    PROVE  FlightInv'
<1>1. CASE UNCHANGED value
  BY <1>1 DEF value, FlightInv, Flying
<1>2. ASSUME NEW b \in ExecBuffers, Call(b) PROVE UNCHANGED value
  BY <1>2 DEF Call
<1>3. ASSUME NEW q \in Queues, NEW wait \in Waits, Enqueue(q, wait) PROVE UNCHANGED value
  BY <1>3 DEF Enqueue
<1> QED
  BY <1>1, <1>2, <1>3, FlightInput, FlightTick DEF DelaysNext, buffers

(* Nothing flies any more when an input has stayed for two longest waits. *)
LEMMA FlightFollows ==
    ASSUME BufferInv, FlightInv
    PROVE  Follows
<1> SUFFICES ASSUME NEW b \in ValueBuffers, still[b] = Patience(b)
             PROVE  out[b] = last[b]
  BY DEF Follows
<1>1. in_flight[b] = Nothing
  <2> SUFFICES ASSUME in_flight[b] # Nothing PROVE FALSE
    OBVIOUS
  <2>1. PICK v, togo : Flying(b, v, togo)
    BY DEF FlightInv
  <2>2. Longest(b) \in Nat /\ Patience(b) = 2 * Longest(b)
    BY CountdownBounds
  <2>3. /\ Longer(1, togo) \in Nat /\ Longer(1, togo) >= 1
        /\ Longer(1, togo) + still[b]
             <= IF queued[b] = Nothing THEN 2 * Longest(b) ELSE Longest(b)
    BY <2>1 DEF Flying, Longer
  <2> QED
    BY <2>2, <2>3
<1> QED
  BY <1>1 DEF BufferInv, Idle, OneFlying, OneBehind, Nothing

-----------------------------------------------------------------------------
(* Queues: a record leaves in time. *)

LEMMA GreatestOfSome ==
    ASSUME NEW size \in Nat, size >= 1, NEW f, \A i \in 1 .. size : f[i] \in Nat
    PROVE  \E m \in 1 .. size : \A i \in 1 .. size : f[i] <= f[m]
<1> DEFINE greatest(m, k) == \A i \in 1 .. k : f[i] <= f[m]
           none == {k \in 1 .. size : \A m \in 1 .. k : ~greatest(m, k)}
<1>1. none = {}
  <2> SUFFICES ASSUME none # {} PROVE FALSE
    OBVIOUS
  <2>1. PICK k \in none : \A j \in none : k <= j
    <3> none \subseteq Nat
      OBVIOUS
    <3> HIDE DEF none
    <3> QED
      BY LeastNatural
  <2>2. k \in 1 .. size /\ \A m \in 1 .. k : ~greatest(m, k)
    OBVIOUS
  <2>3. 1 \notin none
    <3>1. greatest(1, 1)
      OBVIOUS
    <3> QED
      BY <3>1
  <2>4. k - 1 \in 1 .. size /\ k - 1 \notin none
    <3>1. k # 1
      BY <2>3
    <3> HIDE DEF none
    <3> QED
      BY <2>1, <2>2, <3>1
  <2>5. PICK m \in 1 .. (k - 1) : greatest(m, k - 1)
    BY <2>4
  <2> HIDE DEF none
  <2>6. m \in 1 .. k /\ m \in 1 .. size /\ k \in 1 .. k
    BY <2>2, <2>5
  <2>7. \A i \in 1 .. k : i \in 1 .. size /\ (i = k \/ i \in 1 .. (k - 1))
    BY <2>2
  <2>8. greatest(m, k) \/ greatest(k, k)
    BY <2>2, <2>5, <2>6, <2>7
  <2> HIDE DEF greatest
  <2> QED
    BY <2>2, <2>6, <2>8
<1>2. size \in 1 .. size
  OBVIOUS
<1>3. PICK m \in 1 .. size : greatest(m, size)
  BY <1>1, <1>2
<1> QED
  BY <1>3

LEMMA GreatestOfFinite ==
    ASSUME NEW T, T \subseteq Nat, T # {}, IsFiniteSet(T)
    PROVE  \E m \in T : \A n \in T : n <= m
<1> DEFINE size == Cardinality(T)
<1>1. size \in Nat /\ ExistsBijection(1 .. size, T)
  BY FS_CardinalityType
<1> HIDE DEF size
<1>2. PICK f \in [1 .. size -> T] : \A t \in T : \E i \in 1 .. size : f[i] = t
  BY <1>1 DEF ExistsBijection, Bijection, Surjection
<1>3. size >= 1
  <2>1. PICK t \in T : TRUE
    OBVIOUS
  <2>2. PICK i \in 1 .. size : f[i] = t
    BY <1>2
  <2> QED
    BY <1>1, <2>2
<1>4. \A i \in 1 .. size : f[i] \in Nat
  BY <1>2
<1>5. PICK m \in 1 .. size : \A i \in 1 .. size : f[i] <= f[m]
  BY <1>1, <1>3, <1>4, GreatestOfSome
<1> QED
  BY <1>2, <1>5

LongestWait == CHOOSE longest \in Waits : \A wait \in Waits : wait <= longest

Stay == Longer(1, LongestWait)

LEMMA LongestWaitIsLongest ==
    ASSUME Waits # {}
    PROVE  /\ LongestWait \in Waits /\ LongestWait \in Nat
           /\ \A wait \in Waits : wait <= LongestWait
           /\ Stay \in Nat /\ Stay >= 1
<1>1. \E longest \in Waits : \A wait \in Waits : wait <= longest
  BY DelayAssumption, GreatestOfFinite
<1>2. LongestWait \in Waits /\ \A wait \in Waits : wait <= LongestWait
  BY <1>1 DEF LongestWait
<1> HIDE DEF LongestWait
<1> QED
  BY <1>2, DelayAssumption DEF Stay, Longer

QueueRecord == [left : Int, age : Nat, ahead : Nat]

(* The record at `place` was behind `ahead` others, of which those that are no
   longer there have left one a tick. *)
InLine(r, place) ==
    /\ r.age + r.left <= Stay
    /\ place <= r.ahead + 1
    /\ r.age < Stay + r.ahead + 1 - place

QueueInv ==
    /\ DOMAIN records = Queues
    /\ \A q \in Queues :
         /\ records[q] \in Seq(QueueRecord) /\ Len(records[q]) <= MaxRecords
         /\ records[q] # <<>> => Waits # {}
         /\ \A n \in 1 .. Len(records[q]) : InLine(records[q][n], n)
         /\ \A m, n \in 1 .. Len(records[q]) : m < n => records[q][m].age >= records[q][n].age

LEMMA QueueInit == DelaysInit => QueueInv
<1> SUFFICES ASSUME DelaysInit, NEW q \in Queues PROVE records[q] = <<>>
  BY DelayAssumption DEF DelaysInit, QueueInv
<1> QED
  BY DEF DelaysInit

(* The queue arm of exec_gate. *)
LEMMA QueueEnqueue ==
    ASSUME QueueInv, NEW q \in Queues, NEW wait \in Waits, Enqueue(q, wait)
    PROVE  QueueInv'
<1> DEFINE queue == records[q]
           new == [left |-> AtLeast(q, wait), age |-> 0, ahead |-> Len(queue)]
<1>1. /\ Len(queue) < MaxRecords
      /\ records' = [records EXCEPT ![q] = Append(queue, new)]
  BY DEF Enqueue, QueueInv
<1>2. /\ queue \in Seq(QueueRecord) /\ Len(queue) \in Nat
      /\ \A n \in 1 .. Len(queue) : queue[n] \in QueueRecord /\ InLine(queue[n], n)
      /\ \A m, n \in 1 .. Len(queue) : m < n => queue[m].age >= queue[n].age
  BY ElementOfSeq, LenProperties DEF QueueInv
<1>3. /\ new \in QueueRecord /\ new.age = 0 /\ new.ahead = Len(queue)
      /\ new.left \in Nat /\ new.left <= Stay /\ Stay \in Nat /\ Stay >= 1
  <2>1. /\ wait \in Nat /\ LongestWait \in Nat /\ wait <= LongestWait
        /\ Stay \in Nat /\ Stay >= 1
    BY LongestWaitIsLongest, DelayAssumption
  <2>2. AtLeast(q, wait) \in Nat /\ AtLeast(q, wait) <= Stay
    BY <2>1 DEF AtLeast, Stay, Longer
  <2> QED
    BY <1>2, <2>1, <2>2 DEF QueueRecord
<1>4. InLine(new, Len(queue) + 1)
  BY <1>2, <1>3 DEF InLine
<1> HIDE DEF new
<1>5. records'[q] = Append(queue, new) /\ \A p \in Queues \ {q} : records'[p] = records[p]
  BY <1>1 DEF QueueInv
<1>6. /\ records'[q] \in Seq(QueueRecord) /\ Len(records'[q]) = Len(queue) + 1
      /\ \A n \in 1 .. Len(queue) : records'[q][n] = queue[n]
      /\ records'[q][Len(queue) + 1] = new
  BY <1>2, <1>3, <1>5, AppendProperties
<1>7. \A n \in 1 .. Len(records'[q]) : InLine(records'[q][n], n)
  BY <1>2, <1>4, <1>6
<1>8. ASSUME NEW m \in 1 .. Len(records'[q]), NEW n \in 1 .. Len(records'[q]), m < n
      PROVE  records'[q][m].age >= records'[q][n].age
  <2> HIDE DEF queue
  <2>1. m \in 1 .. Len(queue)
    BY <1>2, <1>6, <1>8
  <2>2. CASE n \in 1 .. Len(queue)
    BY <1>2, <1>6, <1>8, <2>1, <2>2
  <2>3. CASE n = Len(queue) + 1
    <3>1. records'[q][m].age \in Nat
      BY <1>2, <1>6, <2>1 DEF QueueRecord
    <3>2. records'[q][n].age = 0
      BY <1>3, <1>6, <2>3
    <3> QED
      BY <3>1, <3>2
  <2> QED
    BY <1>2, <1>6, <2>2, <2>3
<1>9. Len(records'[q]) <= MaxRecords /\ Waits # {} /\ DOMAIN records' = Queues
  BY <1>1, <1>2, <1>6, DelayAssumption DEF QueueInv
<1>10. ASSUME NEW p \in Queues
       PROVE  /\ records'[p] \in Seq(QueueRecord) /\ Len(records'[p]) <= MaxRecords
              /\ records'[p] # <<>> => Waits # {}
              /\ \A n \in 1 .. Len(records'[p]) : InLine(records'[p][n], n)
              /\ \A m, n \in 1 .. Len(records'[p]) :
                   m < n => records'[p][m].age >= records'[p][n].age
  <2>1. CASE p = q
    BY <1>6, <1>7, <1>8, <1>9, <2>1
  <2>2. CASE p # q
    BY <1>5, <2>2 DEF QueueInv
  <2> QED
    BY <2>1, <2>2
<1> QED
  BY <1>9, <1>10 DEF QueueInv

(* A tick: the oldest record leaves when it is due.  One that stays is no
   older than the oldest, and that is not due. *)
LEMMA QueueTick ==
    ASSUME QueueInv, AdvanceBuffers
    PROVE  QueueInv'
<1>1. PICK time \in Times : records' = [q \in Queues |-> Released(Waiting(q, time))]
  BY Zenon DEF AdvanceBuffers
<1>2. ASSUME NEW q \in Queues
      PROVE  /\ records'[q] \in Seq(QueueRecord) /\ Len(records'[q]) <= MaxRecords
             /\ records'[q] # <<>> => Waits # {}
             /\ \A n \in 1 .. Len(records'[q]) : InLine(records'[q][n], n)
             /\ \A m, n \in 1 .. Len(records'[q]) :
                  m < n => records'[q][m].age >= records'[q][n].age
  <2> DEFINE queue == records[q]
             len == Len(queue)
             down == Waiting(q, time)
             p == Passing(q, time)
  <2>1. /\ queue \in Seq(QueueRecord) /\ len \in Nat /\ len <= MaxRecords
        /\ DOMAIN queue = 1 .. len
        /\ \A n \in 1 .. len : queue[n] \in QueueRecord /\ InLine(queue[n], n)
        /\ \A m, n \in 1 .. len : m < n => queue[m].age >= queue[n].age
        /\ len # 0 => Waits # {}
    BY ElementOfSeq, LenProperties DEF QueueInv
  <2>2. p \in Nat /\ p >= 1
    BY DelayAssumption DEF Passing
  <2>3. ASSUME NEW n \in 1 .. len
        PROVE  /\ down[n] \in QueueRecord
               /\ down[n].left = queue[n].left - p /\ down[n].age = queue[n].age + 1
               /\ down[n].ahead = queue[n].ahead
    <3>1. down[n] = [Down(queue[n], p) EXCEPT !.age = @ + 1]
      BY <2>1 DEF Waiting
    <3>2. queue[n] \in QueueRecord
      BY <2>1
    <3> HIDE DEF p, queue, down
    <3>3. down[n] = [left |-> queue[n].left - p, age |-> queue[n].age + 1, ahead |-> queue[n].ahead]
      BY <3>1, <3>2 DEF Down, QueueRecord
    <3> QED
      BY <2>2, <3>2, <3>3 DEF QueueRecord
  <2>4. DOMAIN down = 1 .. len
    BY <2>1 DEF Waiting
  <2>5. records'[q] = Released(down)
    BY <1>1
  <2> HIDE DEF down, queue, p, len
  <2>6. down \in Seq(QueueRecord) /\ Len(down) = len
    <3>1. down = [n \in 1 .. len |-> down[n]]
      BY <2>4 DEF down, Waiting
    <3>2. down \in [1 .. len -> QueueRecord]
      BY <2>3, <3>1
    <3> QED
      BY <2>1, <3>2
  <2>7. \A m, n \in 1 .. len : m < n => down[m].age >= down[n].age
    <3> SUFFICES ASSUME NEW m \in 1 .. len, NEW n \in 1 .. len, m < n
                 PROVE  down[m].age >= down[n].age
      OBVIOUS
    <3>1. queue[m].age >= queue[n].age
      BY <2>1
    <3>2. queue[m].age \in Nat /\ queue[n].age \in Nat
      BY <2>1 DEF QueueRecord
    <3> QED
      BY <2>3, <3>1, <3>2
  <2>8. ASSUME NEW n \in 1 .. len
        PROVE  /\ down[n].age + down[n].left <= Stay
               /\ n <= down[n].ahead + 1
               /\ down[n].age < Stay + down[n].ahead + 1 - (n - 1)
               /\ down[n].age \in Nat /\ down[n].left \in Int /\ down[n].ahead \in Nat
               /\ Stay \in Nat
    <3> DEFINE age == queue[n].age
               togo == queue[n].left
               ahead == queue[n].ahead
    <3>1. queue[n] \in QueueRecord /\ InLine(queue[n], n)
      BY <2>1
    <3>2. /\ age \in Nat /\ togo \in Int /\ ahead \in Nat
          /\ age + togo <= Stay /\ n <= ahead + 1 /\ age < Stay + ahead + 1 - n
      BY <3>1 DEF InLine, QueueRecord
    <3>3. down[n].age = age + 1 /\ down[n].left = togo - p /\ down[n].ahead = ahead
      BY <2>3
    <3>4. Stay \in Nat /\ n \in Nat
      BY <2>1, LongestWaitIsLongest
    <3> HIDE DEF age, togo, ahead
    <3> QED
      BY <2>2, <3>2, <3>3, <3>4
  <2>9. CASE down # <<>> /\ Due(Head(down))
    <3>1. records'[q] = Tail(down)
      BY <2>5, <2>9 DEF Released
    <3>2. /\ records'[q] \in Seq(QueueRecord) /\ Len(records'[q]) = len - 1
          /\ \A i \in 1 .. (len - 1) : records'[q][i] = down[i + 1]
      BY <2>6, <2>9, <3>1, HeadTailProperties
    <3>3. len >= 1
      BY <2>1, <2>6, <2>9, EmptySeq
    <3>4. ASSUME NEW n \in 1 .. (len - 1)
          PROVE  InLine(records'[q][n], n)
      <4>1. n + 1 \in 1 .. len /\ records'[q][n] = down[n + 1]
        BY <2>1, <3>2, <3>3
      <4> QED
        BY <2>8, <4>1 DEF InLine
    <3>5. ASSUME NEW m \in 1 .. (len - 1), NEW n \in 1 .. (len - 1), m < n
          PROVE  records'[q][m].age >= records'[q][n].age
      <4>1. m + 1 \in 1 .. len /\ n + 1 \in 1 .. len /\ m + 1 < n + 1
        BY <2>1, <3>3, <3>5
      <4>2. records'[q][m] = down[m + 1] /\ records'[q][n] = down[n + 1]
        BY <3>2
      <4> QED
        BY <2>7, <4>1, <4>2
    <3> QED
      <4>1. /\ len # 0 /\ len - 1 <= MaxRecords /\ Waits # {}
        BY <2>1, <3>3, DelayAssumption
      <4> QED
        BY <3>2, <3>4, <3>5, <4>1
  <2>10. CASE down = <<>>
    BY <2>1, <2>5, <2>6, <2>10 DEF Released
  <2>11. CASE down # <<>> /\ ~Due(Head(down))
    <3>1. records'[q] = down
      BY <2>5, <2>11 DEF Released
    <3>2. len >= 1 /\ Head(down) = down[1]
      BY <2>1, <2>6, <2>11, EmptySeq
    <3>3. down[1].age < Stay
      BY <2>1, <2>8, <2>11, <3>2 DEF Due
    <3>4. ASSUME NEW n \in 1 .. len
          PROVE  InLine(down[n], n)
      <4>1. down[n].age <= down[1].age
        BY <2>1, <2>7, <2>8, <3>2
      <4>2. down[n].age < Stay
        BY <2>1, <2>8, <3>2, <3>3, <4>1
      <4>3. /\ down[n].age + down[n].left <= Stay
            /\ n <= down[n].ahead + 1 /\ n \in Nat
            /\ down[n].age \in Nat /\ down[n].ahead \in Nat /\ Stay \in Nat
        BY <2>1, <2>8
      <4>4. down[n].age < Stay + down[n].ahead + 1 - n
        BY <4>2, <4>3
      <4> QED
        BY <4>3, <4>4 DEF InLine
    <3> QED
      BY <2>1, <2>6, <2>7, <3>1, <3>4
  <2> QED
    BY <2>9, <2>10, <2>11
<1>3. DOMAIN records' = Queues
  BY <1>1
<1> QED
  BY <1>2, <1>3 DEF QueueInv

LEMMA QueueNext ==
    ASSUME QueueInv, [DelaysNext]_buffers
    PROVE  QueueInv'
<1>1. CASE UNCHANGED records
  BY <1>1 DEF QueueInv
<1>2. ASSUME NEW b \in ValueBuffers, NEW v \in Values, Input(b, v) PROVE UNCHANGED records
  BY <1>2 DEF Input
<1>3. ASSUME NEW b \in ExecBuffers, Call(b) PROVE UNCHANGED records
  BY <1>3 DEF Call
<1> QED
  BY <1>1, <1>2, <1>3, QueueEnqueue, QueueTick DEF DelaysNext, buffers

LEMMA QueueInTime == QueueInv => RecordsInTime
<1> SUFFICES ASSUME QueueInv, NEW q \in Queues, NEW n \in DOMAIN records[q]
             PROVE  /\ LongestWait \in Waits
                    /\ \A wait \in Waits : wait <= LongestWait
                    /\ records[q][n].age < Longer(1, LongestWait) + records[q][n].ahead
  BY Zenon DEF RecordsInTime
<1>1. /\ records[q] \in Seq(QueueRecord) /\ n \in 1 .. Len(records[q])
      /\ records[q][n] \in QueueRecord /\ InLine(records[q][n], n)
      /\ Waits # {} /\ Len(records[q]) \in Nat
  BY ElementOfSeq, LenProperties DEF QueueInv
<1>2. records[q][n].age < Stay + records[q][n].ahead
  <2> DEFINE r == records[q][n]
  <2>1. r.age \in Nat /\ r.ahead \in Nat /\ r.age < Stay + r.ahead + 1 - n
    BY <1>1, Zenon DEF InLine, QueueRecord
  <2>2. Stay \in Nat /\ n \in Nat /\ n >= 1
    BY <1>1, LongestWaitIsLongest
  <2> HIDE DEF r, Stay
  <2> QED
    BY <2>1, <2>2 DEF r
<1> QED
  BY <1>1, <1>2, LongestWaitIsLongest, Zenon DEF Stay

-----------------------------------------------------------------------------
(* All of it together. *)

CallsHeld ==
    /\ DOMAIN fires = ExecBuffers
    /\ \A b \in ExecBuffers : fires[b] \in Seq(CallRecord) /\ Len(fires[b]) <= MaxCalls

LEMMA HeldNext ==
    ASSUME CallsHeld, [DelaysNext]_buffers
    PROVE  CallsHeld'
<1>1. CASE UNCHANGED fires
  BY <1>1 DEF CallsHeld
<1>2. ASSUME NEW b \in ExecBuffers, Call(b)
      PROVE  CallsHeld'
  <2>1. PICK wait \in IF b \in Wired THEN Waits ELSE {Wait[b]} :
          fires' = [fires EXCEPT ![b] =
             Append(@, [left |-> AtLeast(b, Wait[b]), asked |-> AtLeast(b, wait), age |-> 0])]
    BY <1>2 DEF Call
  <2> DEFINE new == [left |-> AtLeast(b, Wait[b]), asked |-> AtLeast(b, wait), age |-> 0]
  <2>2. new \in CallRecord
    BY DelayAssumption DEF CallRecord, AtLeast, Longer
  <2>3. Len(fires[b]) < MaxCalls /\ fires[b] \in Seq(CallRecord)
    BY <1>2 DEF Call, CallsHeld
  <2> HIDE DEF new
  <2>4. fires'[b] = Append(fires[b], new) /\ \A c \in ExecBuffers \ {b} : fires'[c] = fires[c]
    BY <2>1 DEF CallsHeld, new
  <2>5. fires'[b] \in Seq(CallRecord) /\ Len(fires'[b]) <= MaxCalls
    BY <2>2, <2>3, <2>4, AppendProperties, LenProperties, DelayAssumption
  <2>6. DOMAIN fires' = ExecBuffers
    BY <2>1 DEF CallsHeld
  <2> QED
    BY <2>4, <2>5, <2>6 DEF CallsHeld
<1>3. ASSUME AdvanceBuffers
      PROVE  CallsHeld'
  <2> DEFINE all(time) == [b \in ExecBuffers |-> Called(b, time)]
  <2>1. PICK time \in Times :
          fires' = [b \in ExecBuffers |->
              After(all(time)[b], Cardinality(Landing(all(time)[b])))]
    BY <1>3, Zenon DEF AdvanceBuffers
  <2>2. ASSUME NEW b \in ExecBuffers
        PROVE  fires'[b] \in Seq(CallRecord) /\ Len(fires'[b]) <= MaxCalls
    <3> DEFINE len == Len(fires[b])
               calls == Called(b, time)
               p == Passing(b, time)
    <3>1. /\ len \in Nat /\ DOMAIN fires[b] = 1 .. len /\ len <= MaxCalls
          /\ \A n \in 1 .. len : fires[b][n] \in CallRecord
      BY ElementOfSeq, LenProperties DEF CallsHeld
    <3>2. p \in Nat
      BY DelayAssumption DEF Passing
    <3>3. DOMAIN calls = 1 .. len
      BY <3>1 DEF Called
    <3>4. ASSUME NEW n \in 1 .. len PROVE calls[n] \in CallRecord
      <4>1. calls[n] = [Down(fires[b][n], p) EXCEPT !.age = @ + p]
        BY <3>1 DEF Called
      <4>2. fires[b][n] \in CallRecord
        BY <3>1
      <4> HIDE DEF p, calls
      <4>3. calls[n] = [left  |-> fires[b][n].left - p, asked |-> fires[b][n].asked,
                        age   |-> fires[b][n].age + p]
        BY <4>1, <4>2 DEF Down, CallRecord
      <4> QED
        BY <3>2, <4>2, <4>3 DEF CallRecord
    <3> HIDE DEF len, p
    <3>5. PICK k \in 0 .. len : Cardinality(Landing(calls)) = k
      BY <3>1, <3>3, LandingPrefix
    <3>6. Len(calls) = len
      BY <3>1, <3>3
    <3>7. fires'[b] = SubSeq(calls, k + 1, len)
      BY <2>1, <3>5, <3>6 DEF After
    <3> HIDE DEF calls
    <3>8. \A i \in (k + 1) .. len : calls[i] \in CallRecord
      BY <3>1, <3>4, <3>5
    <3>9. /\ fires'[b] \in Seq(CallRecord)
          /\ Len(fires'[b]) = IF k + 1 <= len THEN len - (k + 1) + 1 ELSE 0
      BY <3>1, <3>5, <3>7, <3>8, SubSeqProperties
    <3> QED
      BY <3>1, <3>5, <3>9, DelayAssumption
  <2> QED
    BY <2>1, <2>2 DEF CallsHeld
<1>4. ASSUME NEW b \in ValueBuffers, NEW v \in Values, Input(b, v) PROVE UNCHANGED fires
  BY <1>4 DEF Input
<1>5. ASSUME NEW q \in Queues, NEW wait \in Waits, Enqueue(q, wait) PROVE UNCHANGED fires
  BY <1>5 DEF Enqueue
<1> QED
  BY <1>1, <1>2, <1>3, <1>4, <1>5 DEF DelaysNext, buffers

DelaysInv == BufferInv /\ FlightInv /\ CallsHeld /\ QueueInv

LEMMA InvTyped == DelaysInv => DelaysTypeOK
<1> SUFFICES ASSUME DelaysInv PROVE DelaysTypeOK
  OBVIOUS
<1>1. ASSUME NEW b \in ValueBuffers
      PROVE  /\ in_flight[b] # Nothing =>
                   /\ in_flight[b] \in [1 .. 1 -> [value : Values, left : Nat]]
                   /\ b \notin Seconds => Head(in_flight[b]).left > 0
             /\ queued[b] # Nothing => queued[b] \in [1 .. 1 -> Values] /\ in_flight[b] # Nothing
             /\ still[b] \in 0 .. Patience(b)
  <2>1. ASSUME in_flight[b] # Nothing
        PROVE  /\ in_flight[b] \in [1 .. 1 -> [value : Values, left : Nat]]
               /\ b \notin Seconds => Head(in_flight[b]).left > 0
    <3>1. PICK v, togo : Flying(b, v, togo)
      BY <2>1 DEF DelaysInv, FlightInv
    <3>2. [value |-> v, left |-> togo] \in [value : Values, left : Nat]
      BY <3>1 DEF Flying
    <3> QED
      BY <3>1, <3>2 DEF Flying
  <2>2. ASSUME queued[b] # Nothing
        PROVE  queued[b] \in [1 .. 1 -> Values] /\ in_flight[b] # Nothing
    <3>1. OneBehind(b)
      BY <2>2 DEF DelaysInv, BufferInv, Idle, OneFlying
    <3>2. last[b] \in Values
      BY DEF DelaysInv, BufferInv
    <3> QED
      BY <3>1, <3>2 DEF OneBehind, Nothing
  <2> QED
    BY <2>1, <2>2 DEF DelaysInv, FlightInv
<1> QED
  BY <1>1 DEF DelaysInv, BufferInv, FlightInv, CallsHeld, QueueInv, DelaysTypeOK

(* Nothing is late: an input that stays is shown within two of the longest
   waits, and a record leaves its queue a tick after each ahead of it at the
   latest (buffer_input, countdown and advance_buffers). *)
THEOREM NothingLate == DelaysSpec => []InTime
<1>1. DelaysInit => DelaysInv
  <2>1. DelaysInit => CallsHeld
    BY DelayAssumption DEF DelaysInit, CallsHeld
  <2> QED
    BY <2>1, BufferInit, FlightInit, QueueInit DEF DelaysInv
<1>2. DelaysInv /\ [DelaysNext]_buffers => DelaysInv'
  BY BufferNext, FlightNext, HeldNext, QueueNext DEF DelaysInv
<1>3. DelaysInv => InTime
  BY InvTyped, FlightFollows, QueueInTime DEF DelaysInv, InTime
<1> QED
  BY <1>1, <1>2, <1>3, PTL DEF DelaysSpec

-----------------------------------------------------------------------------
(* The spawners. *)

Made == 0 .. made

Shape ==
    /\ made \in Copies
    /\ dead \subseteq 1 .. made
    /\ held \in [Spawners -> SUBSET Made]
    /\ at \in Made
    /\ late \union pending \union carried \union late_events \subseteq Made \X Kinds

(* A spawner is older than the copies it holds. *)
Older == \A g \in Spawners : \A c \in held[g] : g[1] < c

IInv == Shape /\ HeldOnce /\ Older

LEMMA InitHolds == SpawnerInit => IInv
<1> SUFFICES ASSUME SpawnerInit PROVE IInv
  OBVIOUS
<1>1. Shape
  BY SpawnerAssumption DEF SpawnerInit, Shape, Made, Copies, Spawners, Kinds
<1>2. HeldOnce /\ Older
  BY DEF SpawnerInit, HeldOnce, Older, Alive, Spawners, Copies
<1> QED
  BY <1>1, <1>2 DEF IInv

(* What goes with `cs` contains it and what its own spawners hold. *)
LEMMA FallsClosed ==
    ASSUME NEW cs \in SUBSET Copies
    PROVE  /\ cs \subseteq Falls(cs)
           /\ Falls(cs) \subseteq Copies
           /\ \A c \in Falls(cs), s \in Slots :
                 held[<<c, s>>] \intersect Copies \subseteq Falls(cs)
<1>1. ASSUME NEW c \in Falls(cs), NEW s \in Slots, NEW d \in held[<<c, s>>], d \in Copies
      PROVE  d \in Falls(cs)
  <2>1. SUFFICES ASSUME NEW t \in SUBSET Copies, cs \subseteq t,
                        \A e \in t : Inside(e) \subseteq t
                 PROVE  d \in t
    BY <1>1 DEF Falls
  <2>2. c \in t
    BY <2>1 DEF Falls
  <2>3. d \in Inside(c)
    BY <1>1 DEF Inside
  <2> QED
    BY <2>1, <2>2, <2>3
<1> QED
  BY <1>1 DEF Falls

(* It is contained in any set of copies closed in the same way. *)
LEMMA FallsLeast ==
    ASSUME NEW cs \in SUBSET Copies, NEW t \in SUBSET Copies, cs \subseteq t,
           \A c \in t : Inside(c) \subseteq t
    PROVE  Falls(cs) \subseteq t
BY DEF Falls

(* Nothing as old as `c` goes with copies that are all younger. *)
LEMMA FallsYounger ==
    ASSUME IInv, NEW c \in Copies, NEW cs \in SUBSET Copies, \A d \in cs : c < d
    PROVE  c \notin Falls(cs)
<1> DEFINE t == {d \in Copies : c < d}
<1>1. ASSUME NEW d \in t PROVE Inside(d) \subseteq t
  <2> SUFFICES ASSUME NEW s \in Slots, NEW e \in held[<<d, s>>] PROVE e \in t
    BY DEF Inside
  <2>1. <<d, s>> \in Spawners
    BY DEF Spawners
  <2>2. e \in Copies /\ d < e
    BY <2>1, SpawnerAssumption DEF IInv, Shape, Older, Made, Copies
  <2> QED
    BY <2>2, SpawnerAssumption DEF Copies
<1>2. Falls(cs) \subseteq t
  BY <1>1, FallsLeast
<1> QED
  BY <1>2 DEF Copies

(* The save itself never falls. *)
LEMMA SaveStays ==
    ASSUME IInv, NEW cs \in SUBSET (1 .. made)
    PROVE  Falls(cs) \subseteq 1 .. made
<1>1. cs \in SUBSET Copies /\ 1 .. made \in SUBSET Copies
  BY SpawnerAssumption DEF IInv, Shape, Copies
<1>2. ASSUME NEW c \in 1 .. made PROVE Inside(c) \subseteq 1 .. made
  <2> SUFFICES ASSUME NEW s \in Slots, NEW e \in held[<<c, s>>] PROVE e \in 1 .. made
    BY DEF Inside
  <2>1. <<c, s>> \in Spawners
    BY <1>1, <1>2 DEF Spawners
  <2>2. e \in Made /\ c < e
    BY <2>1 DEF IInv, Shape, Older
  <2> QED
    BY <2>2 DEF Made, IInv, Shape, Copies
<1> QED
  BY <1>1, <1>2, FallsLeast

(* HeldOnce and Older of any copies `alive` and spawners holding `hs`. *)
Once(alive, hs) ==
    /\ \A c \in alive \ {0} : \E g \in Spawners : g[1] \in alive /\ c \in hs[g]
    /\ \A g, h \in Spawners : g # h => hs[g] \intersect hs[h] = {}
    /\ \A g \in Spawners : hs[g] \subseteq alive
    /\ \A g \in Spawners : \A c \in hs[g] : g[1] < c

LEMMA OnceNow == (HeldOnce /\ Older) = Once(Alive, held)
  BY DEF HeldOnce, Older, Once

(* Destroying copies and what goes with them keeps the rest held once. *)
LEMMA DestroyKeeps ==
    ASSUME IInv, NEW cs \in SUBSET (1 .. made)
    PROVE  /\ Falls(cs) \subseteq 1 .. made
           /\ HeldWithout(cs) \in [Spawners -> SUBSET Made]
           /\ Once(Alive \ Falls(cs), HeldWithout(cs))
<1> DEFINE fallen == Falls(cs)
           hs == HeldWithout(cs)
           alive == Alive \ fallen
<1>0. cs \in SUBSET Copies /\ fallen \subseteq 1 .. made
  BY SaveStays, SpawnerAssumption DEF IInv, Shape, Copies
<1>1. \A g \in Spawners : hs[g] = IF g[1] \in fallen THEN {} ELSE held[g] \ fallen
  BY DEF HeldWithout
<1>2. hs \in [Spawners -> SUBSET Made]
  BY DEF HeldWithout, IInv, Shape
<1>3. ASSUME NEW c \in alive \ {0}
      PROVE  \E g \in Spawners : g[1] \in alive /\ c \in hs[g]
  <2>1. PICK g \in Spawners : g[1] \in Alive /\ c \in held[g]
    BY <1>3 DEF IInv, HeldOnce
  <2>2. PICK o \in Copies, s \in Slots : g = <<o, s>>
    BY DEF Spawners
  <2>3. c \in Copies
    BY <1>3, SpawnerAssumption DEF Alive, IInv, Shape, Copies
  <2>4. o \notin fallen
    BY <1>0, <1>3, <2>1, <2>2, <2>3, FallsClosed
  <2> QED
    BY <1>1, <1>3, <2>1, <2>2, <2>4
<1>4. \A g, h \in Spawners : g # h => hs[g] \intersect hs[h] = {}
  BY <1>1 DEF IInv, HeldOnce
<1>5. ASSUME NEW g \in Spawners PROVE hs[g] \subseteq alive
  <2>1. held[g] \subseteq Alive
    BY DEF IInv, HeldOnce
  <2>2. hs[g] \subseteq held[g] \ fallen
    BY <1>1
  <2> QED
    BY <2>1, <2>2
<1>6. \A g \in Spawners : \A c \in hs[g] : g[1] < c
  BY <1>1 DEF IInv, Older
<1>7. Once(alive, hs)
  BY <1>3, <1>4, <1>5, <1>6 DEF Once
<1> QED
  BY <1>0, <1>2, <1>7

(* A step that destroys copies and makes none. *)
LEMMA DestroyStep ==
    ASSUME IInv, NEW cs \in SUBSET (1 .. made), made' = made, at' = at,
           dead' = dead \union Falls(cs), held' = HeldWithout(cs),
           (late \union pending \union carried \union late_events)'
               \subseteq Made \X Kinds
    PROVE  IInv'
<1>1. Alive' = Alive \ Falls(cs)
  BY DEF Alive
<1>2. Shape'
  BY DestroyKeeps DEF IInv, Shape, Made
<1>3. (HeldOnce /\ Older)'
  BY <1>1, DestroyKeeps, OnceNow DEF HeldOnce, Older, Once
<1> QED
  BY <1>2, <1>3 DEF IInv

(* A step that neither makes nor destroys a copy. *)
LEMMA QuietStep ==
    ASSUME IInv, UNCHANGED <<made, dead, held>>, at' \in Made,
           (late \union pending \union carried \union late_events)'
               \subseteq Made \X Kinds
    PROVE  IInv'
<1>1. Alive' = Alive
  BY DEF Alive
<1> QED
  BY <1>1 DEF IInv, Shape, HeldOnce, Older, Made

(* A spawner that is alive takes one more copy. *)
LEMMA SpawnStep ==
    ASSUME IInv, NEW s \in Slots, NEW limit \in Limits, NEW life \in Lifetimes,
           Spawn(s, limit, life)
    PROVE  IInv'
<1> DEFINE gone == Oldest(held[<<at, s>>], limit)
           hs == HeldWithout(gone)
           me == <<at, s>>
           copy == made + 1
<1>1. /\ at \in Made \ dead /\ at' = at
      /\ made \in Nat /\ copy \in Copies /\ made' = copy
      /\ dead' = dead \union Falls(gone)
      /\ held' = [hs EXCEPT ![me] = @ \union {copy}]
      /\ late_events' = late_events
      /\ late' \subseteq late \union {<<copy, "load">>}
      /\ pending' \subseteq pending \union {<<copy, "load">>}
      /\ carried' \subseteq carried \union {<<copy, "load">>}
  BY SpawnerAssumption DEF Spawn, ExecGate, NewCopy, Activate, IInv, Shape, Copies, Made
<1>2. me \in Spawners /\ at \in Copies
  BY <1>1, SpawnerAssumption DEF Spawners, IInv, Shape, Made, Copies
<1>3. gone \in SUBSET (1 .. made) /\ \A d \in gone : at < d
  <2>1. gone \subseteq held[me]
    BY DEF Oldest
  <2>2. \A d \in held[me] : d \in Made /\ at < d
    BY <1>2 DEF IInv, Shape, Older
  <2> QED
    BY <1>1, <2>1, <2>2 DEF Made
<1>4. gone \in SUBSET Copies
  BY <1>3, SpawnerAssumption DEF IInv, Shape, Copies
<1>5. at \notin Falls(gone)
  BY <1>2, <1>3, <1>4, FallsYounger
<1>6. /\ Falls(gone) \subseteq 1 .. made
      /\ hs \in [Spawners -> SUBSET Made]
      /\ Once(Alive \ Falls(gone), hs)
  BY <1>3, DestroyKeeps
<1>7. Made' = Made \union {copy} /\ copy \notin Made
  BY <1>1 DEF Made
<1>8. Alive' = (Alive \ Falls(gone)) \union {copy}
  BY <1>1, <1>6, <1>7 DEF Alive, IInv, Shape, Made
<1>9. at \in Alive \ Falls(gone)
  BY <1>1, <1>5 DEF Alive, Made
<1>10. Shape'
  <2>1. dead' \subseteq 1 .. made'
    <3>1. dead \union Falls(gone) \subseteq 1 .. made
      BY <1>6 DEF IInv, Shape
    <3> QED
      BY <1>1, <3>1
  <2>2. held' \in [Spawners -> SUBSET Made']
    BY <1>1, <1>6, <1>7
  <2>3. at' \in Made'
    BY <1>1, <1>7
  <2>4. (late \union pending \union carried \union late_events)' \subseteq Made' \X Kinds
    BY <1>1, <1>7 DEF IInv, Shape, Kinds
  <2> QED
    BY <1>1, <2>1, <2>2, <2>3, <2>4 DEF Shape, Copies
<1>11. /\ held'[me] = hs[me] \union {copy}
       /\ \A g \in Spawners : g # me => held'[g] = hs[g]
  BY <1>1, <1>2, <1>6
<1>12. copy \notin Alive /\ \A g \in Spawners : copy \notin hs[g]
  BY <1>6, <1>7 DEF Alive, Made
<1>13. Once(Alive', held')
  <2>1. ASSUME NEW c \in Alive' \ {0}
        PROVE  \E g \in Spawners : g[1] \in Alive' /\ c \in held'[g]
    <3>1. CASE c = copy
      BY <1>2, <1>8, <1>9, <1>11, <3>1
    <3>2. CASE c # copy
      <4>1. PICK g \in Spawners : g[1] \in Alive \ Falls(gone) /\ c \in hs[g]
        BY <1>6, <1>8, <2>1, <3>2 DEF Once
      <4>2. c \in held'[g]
        BY <1>11, <4>1
      <4> QED
        BY <1>8, <4>1, <4>2
    <3> QED
      BY <3>1, <3>2
  <2>2. \A g, h \in Spawners : g # h => held'[g] \intersect held'[h] = {}
    BY <1>6, <1>11, <1>12 DEF Once
  <2>3. \A g \in Spawners : held'[g] \subseteq Alive'
    BY <1>6, <1>8, <1>11 DEF Once
  <2>4. ASSUME NEW g \in Spawners, NEW c \in held'[g] PROVE g[1] < c
    <3>1. at < copy
      BY <1>1 DEF Made
    <3> QED
      BY <1>6, <1>11, <2>4, <3>1 DEF Once
  <2> QED
    BY <2>1, <2>2, <2>3, <2>4 DEF Once
<1> QED
  BY <1>10, <1>13 DEF IInv, Once, HeldOnce, Older

(* Every step keeps the invariant. *)
LEMMA NextHolds == IInv /\ [SpawnerNext]_copyVars => IInv'
<1> SUFFICES ASSUME IInv, [SpawnerNext]_copyVars PROVE IInv'
  OBVIOUS
<1>1. ASSUME NEW dt \in Deltas, NEW w \in SUBSET Alive, BeginSpawnerTick(dt, w)
      PROVE  IInv'
  <2>1. Ended(dt) \subseteq 1 .. made
    BY DEF Ended, Alive, IInv, Shape, Copies
  <2>2. /\ made' = made /\ at' = at
        /\ dead' = dead \union Falls(Ended(dt)) /\ held' = HeldWithout(Ended(dt))
    BY <1>1 DEF BeginSpawnerTick
  <2>3. w \subseteq Made /\ Alive \subseteq Made
    BY DEF Alive, Made
  <2>4. (late \union pending \union carried \union late_events)' \subseteq Made \X Kinds
    BY <1>1, <2>3 DEF BeginSpawnerTick, Receivers, IInv, Shape, Kinds
  <2> QED
    BY <2>1, <2>2, <2>4, DestroyStep
<1>2. ASSUME NEW u \in Units, RunLate(u) \/ RunEvent(u) \/ RunPending(u)
      PROVE  IInv'
  <2>1. u \in late \union pending \union late_events
    BY <1>2 DEF RunLate, RunEvent, RunPending, IsFirst
  <2>2. u[1] \in Made
    BY <2>1 DEF IInv, Shape
  <2>3. at' \in Made
    BY <1>2, <2>2 DEF RunLate, RunEvent, RunPending, RunUnit, IInv, Shape
  <2> QED
    BY <1>2, <2>3, QuietStep DEF RunLate, RunEvent, RunPending, IInv, Shape
<1>3. ASSUME CloseLatePass \/ ClosePass \/ SendEvent \/ WriteVar \/ Overflow
      PROVE  IInv'
  BY <1>3, QuietStep
  DEF CloseLatePass, ClosePass, SendEvent, WriteVar, Overflow, ExecGate, queues, IInv, Shape
<1>4. ASSUME NEW r \in BOOLEAN, FinishChain(r)
      PROVE  IInv'
  BY <1>4, QuietStep DEF FinishChain, Activate, IInv, Shape, Kinds
<1>5. ASSUME NEW s \in Slots, NEW n \in Limits, NEW t \in Lifetimes, Spawn(s, n, t)
      PROVE  IInv'
  BY <1>5, SpawnStep
<1>6. ASSUME NEW s \in Slots, DestroyAll(s)
      PROVE  IInv'
  <2> DEFINE cs == held[<<at, s>>]
  <2>1. <<at, s>> \in Spawners
    BY SpawnerAssumption DEF Spawners, IInv, Shape, Made, Copies
  <2>2. cs \subseteq 1 .. made
    BY <2>1, SpawnerAssumption DEF IInv, Shape, Older, Made, Copies
  <2>3. /\ UNCHANGED <<made, at, queues>>
        /\ dead' = dead \union Falls(cs) /\ held' = HeldWithout(cs)
    BY <1>6 DEF DestroyAll, Destroy
  <2>4. (late \union pending \union carried \union late_events)' \subseteq Made \X Kinds
    BY <2>3 DEF queues, IInv, Shape
  <2> HIDE DEF cs
  <2> QED
    BY <2>2, <2>3, <2>4, DestroyStep
<1>7. ASSUME NEW c \in Copies, DestroyPrefab(c)
      PROVE  IInv'
  <2> DEFINE cs == {d \in {c} : \E o \in Alive : d \in Inside(o)}
  <2>1. cs \subseteq 1 .. made
    BY <1>7 DEF DestroyPrefab
  <2>2. /\ UNCHANGED <<made, at, queues>>
        /\ dead' = dead \union Falls(cs) /\ held' = HeldWithout(cs)
    BY <1>7 DEF DestroyPrefab, Destroy
  <2>3. (late \union pending \union carried \union late_events)' \subseteq Made \X Kinds
    BY <2>2 DEF queues, IInv, Shape
  <2> HIDE DEF cs
  <2> QED
    BY <2>1, <2>2, <2>3, DestroyStep
<1>8. ASSUME UNCHANGED copyVars
      PROVE  IInv'
  BY <1>8, QuietStep DEF copyVars, queues, IInv, Shape
<1> QED
  BY <1>1, <1>2, <1>3, <1>4, <1>5, <1>6, <1>7, <1>8 DEF SpawnerNext, Tick, Chain

THEOREM Invariant == SpawnerSpec => []IInv
  BY InitHolds, NextHolds, PTL DEF SpawnerSpec

(* Every copy that is not destroyed is held by one live spawner, and spawners
   hold live copies only: however copies nest, spawn, expire and destroy one
   another, none is lost to the spawner that made it. *)
THEOREM SpawnerHeldOnce == SpawnerSpec => []HeldOnce
<1>1. IInv => HeldOnce
  BY DEF IInv
<1> QED
  BY <1>1, Invariant, PTL

LEMMA InertNext == IInv /\ [SpawnerNext]_copyVars => [InertStep]_copyVars
<1> SUFFICES ASSUME IInv, SpawnerNext PROVE InertStep
  BY DEF copyVars
<1>1. ASSUME NEW u \in Units, RunLate(u) \/ RunEvent(u) \/ RunPending(u)
      PROVE  InertStep
  <2>1. u \in late \union pending \union late_events
    BY <1>1 DEF RunLate, RunEvent, RunPending, IsFirst
  <2>2. u[1] \in Made
    BY <2>1 DEF IInv, Shape
  <2>3. pc # "chain" /\ RunUnit(u)
    BY <1>1 DEF RunLate, RunEvent, RunPending
  <2> QED
    BY <2>2, <2>3 DEF RunUnit, InertStep, Alive, Made
<1>2. ASSUME NEW dt \in Deltas, NEW w \in SUBSET Alive, BeginSpawnerTick(dt, w)
      PROVE  InertStep
  BY <1>2 DEF BeginSpawnerTick, InertStep
<1>3. ASSUME CloseLatePass \/ ClosePass \/ Overflow \/ \E r \in BOOLEAN : FinishChain(r)
      PROVE  InertStep
  BY <1>3 DEF CloseLatePass, ClosePass, Overflow, FinishChain, queues, InertStep
<1>4. ASSUME ExecGate, UNCHANGED <<pc, loaded>>
      PROVE  InertStep
  BY <1>4 DEF ExecGate, InertStep
<1> QED
  BY <1>1, <1>2, <1>3, <1>4
  DEF SpawnerNext, Tick, Chain, Spawn, DestroyAll, DestroyPrefab, SendEvent, WriteVar

(* A destroyed copy does nothing more: its queued units start no chain, its
   Load Event does not run, and a chain that destroys its own copy neither
   spawns, destroys nor sends after that. *)
THEOREM SpawnerDeadStayInert == SpawnerSpec => DeadStayInert
  BY InertNext, Invariant, PTL DEF SpawnerSpec, DeadStayInert

-----------------------------------------------------------------------------
(* The control of a tick, and the Load Events that wait. *)

(* The late queue is empty outside the late pass, this tick's queue between
   ticks. *)
CursorMade == cursor \in (Made \X Kinds) \union {None}

RunInv ==
    /\ pc \in Phases
    /\ in_late \in BOOLEAN
    /\ CursorMade
    /\ gates_run \in 0 .. MaxGatesRun
    /\ outbox \in BOOLEAN
    /\ wrote \in BOOLEAN
    /\ loaded \subseteq Copies
    /\ pc = "late" => in_late
    /\ pc \in {"idle", "pass"} => ~in_late
    /\ ~in_late => late = {}
    /\ pc = "idle" => pending = {}

(* A copy whose Load Event has not run is queued for it in this very tick. *)
LoadInv == \A c \in Alive \ loaded : <<c, "load">> \in late \union pending

LEMMA RunInit == SpawnerInit => RunInv /\ LoadInv
<1> SUFFICES ASSUME SpawnerInit PROVE RunInv /\ LoadInv
  OBVIOUS
<1>1. 0 \in 0 .. MaxGatesRun /\ Alive = {0}
  BY SpawnerAssumption DEF SpawnerInit, Alive
<1>2. CursorMade
  BY DEF SpawnerInit, CursorMade
<1>3. RunInv
  BY <1>1, <1>2 DEF SpawnerInit, RunInv, Phases
<1>4. LoadInv
  BY <1>1 DEF SpawnerInit, LoadInv
<1> QED
  BY <1>3, <1>4

(* A copy spawned now is ahead of the pass, wherever that stands. *)
LEMMA NewCopyAhead ==
    ASSUME IInv, RunInv, NewCopy
    PROVE  /\ late' = late \union {u \in {<<made + 1, "load">>} : in_late}
           /\ pending' = pending \union {u \in {<<made + 1, "load">>} : ~in_late}
<1>1. ~Reached(<<made + 1, "load">>)
  <2>1. made \in Nat
    BY SpawnerAssumption DEF IInv, Shape, Copies
  <2>2. cursor[1] \in Int /\ cursor[1] <= made /\ cursor # <<made + 1, "load">>
    BY <2>1 DEF RunInv, CursorMade, Made, None
  <2> QED
    BY <2>1, <2>2 DEF Reached, Before
<1> QED
  BY <1>1 DEF NewCopy, Activate

LEMMA RunNext ==
    ASSUME IInv, RunInv, LoadInv, [SpawnerNext]_copyVars
    PROVE  RunInv' /\ LoadInv'
<1>0. made \in Nat /\ made \in Copies /\ Alive \subseteq Made /\ Made \subseteq Copies
  BY SpawnerAssumption DEF IInv, Shape, Copies, Alive, Made
<1>1. ASSUME NEW dt \in Deltas, NEW w \in SUBSET Alive, BeginSpawnerTick(dt, w)
      PROVE  RunInv' /\ LoadInv'
  <2>1. Alive' \subseteq Alive /\ made' = made
    BY <1>1 DEF BeginSpawnerTick, Alive
  <2>2. RunInv'
    <3>1. CursorMade' /\ 0 \in 0 .. MaxGatesRun
      BY <1>1, SpawnerAssumption DEF BeginSpawnerTick, RunInv, CursorMade, Made
    <3>2. /\ pc' = "late" /\ in_late' = TRUE /\ gates_run' = 0 /\ outbox' = FALSE
          /\ UNCHANGED <<wrote, loaded>>
      BY <1>1 DEF BeginSpawnerTick
    <3> QED
      BY <3>1, <3>2 DEF RunInv, Phases
  <2>3. LoadInv'
    BY <1>1, <2>1 DEF BeginSpawnerTick, LoadInv
  <2> QED
    BY <2>2, <2>3
<1>2. ASSUME NEW u \in Units, RunLate(u) \/ RunEvent(u) \/ RunPending(u)
      PROVE  RunInv' /\ LoadInv'
  <2>1. /\ u \in late \union pending \union late_events /\ u \in Made \X Kinds
        /\ RunUnit(u) /\ UNCHANGED <<made, dead, gates_run, in_late, outbox>>
    BY <1>2 DEF RunLate, RunEvent, RunPending, IsFirst, IInv, Shape
  <2>2. u[1] \in Copies
    BY <1>0, <2>1
  <2>3. RunInv'
    <3>1. /\ pc' \in {pc, "chain"} /\ wrote' = FALSE /\ loaded' \subseteq Copies
      BY <2>1, <2>2 DEF RunUnit, RunInv
    <3>2. /\ cursor' \in {cursor, u} /\ late' \subseteq late /\ pending' \subseteq pending
          /\ pc \in {"late", "pass"}
      BY <1>2 DEF RunLate, RunEvent, RunPending
    <3>3. UNCHANGED <<made, gates_run, in_late, outbox>>
      BY <2>1
    <3>4. CursorMade'
      BY <2>1, <3>2, <3>3 DEF RunInv, CursorMade, Made
    <3>5. pc' = "idle" => FALSE
      BY <3>1, <3>2
    <3>6. /\ pc' \in Phases /\ (pc' = "late" => in_late')
          /\ (pc' \in {"idle", "pass"} => ~in_late')
      BY <3>1, <3>2, <3>3 DEF RunInv, Phases
    <3> QED
      BY <3>1, <3>2, <3>3, <3>4, <3>5, <3>6 DEF RunInv
  <2>4. LoadInv'
    <3> SUFFICES ASSUME NEW c \in Alive' \ loaded'
                 PROVE  <<c, "load">> \in late' \union pending'
      BY DEF LoadInv
    <3>1. c \in Alive \ loaded /\ c \notin dead /\ u # <<c, "load">>
      BY <2>1 DEF Alive, RunUnit
    <3>2. <<c, "load">> \in late \union pending
      BY <3>1 DEF LoadInv
    <3> QED
      BY <1>2, <3>1, <3>2 DEF RunLate, RunEvent, RunPending
  <2> QED
    BY <2>3, <2>4
<1>3. ASSUME CloseLatePass \/ ClosePass
      PROVE  RunInv' /\ LoadInv'
  <2>1. Alive' = Alive /\ UNCHANGED <<made, loaded, queues>>
    BY <1>3 DEF CloseLatePass, ClosePass, Alive
  <2>2. RunInv'
    <3>1. CursorMade'
      BY <1>3 DEF CloseLatePass, ClosePass, RunInv, CursorMade, Made
    <3>2. CASE CloseLatePass
      BY <2>1, <3>1, <3>2 DEF CloseLatePass, RunInv, Phases, queues
    <3>3. CASE ClosePass
      BY <2>1, <3>1, <3>3 DEF ClosePass, RunInv, Phases, queues
    <3> QED
      BY <1>3, <3>2, <3>3
  <2>3. LoadInv'
    BY <2>1 DEF LoadInv, queues
  <2> QED
    BY <2>2, <2>3
<1>4. ASSUME NEW s \in Slots, NEW n \in Limits, NEW t \in Lifetimes, Spawn(s, n, t)
      PROVE  RunInv' /\ LoadInv'
  <2>1. /\ made' = made + 1 /\ Alive' \subseteq Alive \union {made + 1}
        /\ UNCHANGED <<pc, in_late, cursor, outbox, wrote, loaded>>
        /\ pc = "chain" /\ gates_run' \in 0 .. MaxGatesRun
    <3>1. /\ made' = made + 1 /\ dead \subseteq dead'
          /\ UNCHANGED <<pc, in_late, cursor, outbox, wrote, loaded>>
          /\ pc = "chain" /\ gates_run < MaxGatesRun /\ gates_run' = gates_run + 1
      BY <1>4 DEF Spawn, ExecGate, NewCopy
    <3> QED
      BY <1>0, <3>1, SpawnerAssumption DEF Alive, RunInv
  <2>2. /\ late' = late \union {u \in {<<made + 1, "load">>} : in_late}
        /\ pending' = pending \union {u \in {<<made + 1, "load">>} : ~in_late}
    BY <1>4, NewCopyAhead DEF Spawn
  <2>3. RunInv'
    <3>1. CursorMade'
      BY <1>0, <2>1 DEF RunInv, CursorMade, Made
    <3> QED
      BY <2>1, <2>2, <3>1 DEF RunInv
  <2>4. LoadInv'
    BY <2>1, <2>2 DEF LoadInv, RunInv
  <2> QED
    BY <2>3, <2>4
<1>5. ASSUME (\E s \in Slots : DestroyAll(s)) \/ (\E c \in Copies : DestroyPrefab(c))
             \/ SendEvent \/ WriteVar
      PROVE  RunInv' /\ LoadInv'
  <2>1. /\ made' = made /\ dead \subseteq dead' /\ pc = "chain" /\ gates_run < MaxGatesRun
        /\ gates_run' = gates_run + 1
        /\ UNCHANGED <<pc, in_late, cursor, loaded, late, pending>>
        /\ outbox' \in {outbox, TRUE} /\ wrote' \in {wrote, TRUE}
    BY <1>5 DEF DestroyAll, DestroyPrefab, SendEvent, WriteVar, Destroy, ExecGate, queues
  <2>2. Alive' \subseteq Alive
    BY <2>1 DEF Alive
  <2>3. RunInv'
    <3>1. CursorMade' /\ gates_run' \in 0 .. MaxGatesRun
      BY <2>1, SpawnerAssumption DEF RunInv, CursorMade, Made
    <3> QED
      BY <2>1, <3>1 DEF RunInv
  <2>4. LoadInv'
    BY <2>1, <2>2 DEF LoadInv
  <2> QED
    BY <2>3, <2>4
<1>6. ASSUME NEW r \in BOOLEAN, FinishChain(r)
      PROVE  RunInv' /\ LoadInv'
  <2>1. /\ UNCHANGED <<made, dead, in_late, cursor, gates_run, outbox, wrote, loaded>>
        /\ late \subseteq late' /\ pending \subseteq pending'
        /\ ~in_late => late' = late
        /\ pc' = IF in_late THEN "late" ELSE "pass"
    BY <1>6 DEF FinishChain, Activate
  <2>2. RunInv'
    <3>1. CursorMade' /\ (pc' \in Phases)
      BY <2>1 DEF RunInv, CursorMade, Made, Phases
    <3> QED
      BY <2>1, <3>1 DEF RunInv
  <2>3. LoadInv'
    BY <2>1 DEF LoadInv, Alive
  <2> QED
    BY <2>2, <2>3
<1>7. ASSUME Overflow \/ UNCHANGED copyVars
      PROVE  RunInv' /\ LoadInv'
  <2>1. /\ UNCHANGED <<made, dead, in_late, cursor, gates_run, outbox, wrote, loaded, late, pending>>
        /\ pc' \in {pc, "error"}
    BY <1>7 DEF Overflow, copyVars, queues
  <2>2. CursorMade' /\ Alive' = Alive
    BY <2>1 DEF RunInv, CursorMade, Made, Alive
  <2>3. RunInv'
    BY <2>1, <2>2 DEF RunInv, Phases
  <2> QED
    BY <2>1, <2>2, <2>3 DEF LoadInv
<1> QED
  BY <1>1, <1>2, <1>3, <1>4, <1>5, <1>6, <1>7 DEF SpawnerNext, Tick, Chain

-----------------------------------------------------------------------------
(* Lifetimes. *)

(* Only copies that are there have a time to live, and it is not over. *)
LifeInv ==
    /\ left \in [Copies -> Nat \union {Never}]
    /\ \A c \in Copies : left[c] # Never => left[c] > 0 /\ c \in Alive \ {0}

LEMMA LifeInit == SpawnerInit => LifeInv
  BY DEF SpawnerInit, LifeInv

(* Destroying copies takes their time with them. *)
LEMMA LifeDestroy ==
    ASSUME LifeInv, NEW cs \in SUBSET Copies, made' = made,
           dead' = dead \union Falls(cs), left' = LeftWithout(cs)
    PROVE  LifeInv'
<1>1. Alive' = Alive \ Falls(cs)
  BY DEF Alive
<1>2. \A c \in Copies : left'[c] = IF c \in Falls(cs) THEN Never ELSE left[c]
  BY DEF LeftWithout
<1>3. left' \in [Copies -> Nat \union {Never}]
  BY DEF LeftWithout, LifeInv
<1> QED
  BY <1>1, <1>2, <1>3 DEF LifeInv

LEMMA LifeNext ==
    ASSUME IInv, LifeInv, [SpawnerNext]_copyVars
    PROVE  LifeInv'
<1>0. made \in Nat /\ Made \subseteq Copies /\ Alive \subseteq Made /\ 0 \in Alive
  BY SpawnerAssumption DEF IInv, Shape, Copies, Alive, Made
<1>1. ASSUME NEW dt \in Deltas, NEW w \in SUBSET Alive, BeginSpawnerTick(dt, w)
      PROVE  LifeInv'
  <2> DEFINE fallen == Falls(Ended(dt))
  <2>1. /\ Alive' = Alive \ fallen
        /\ left' = Aged(dt, LeftWithout(Ended(dt)))
    BY <1>1 DEF BeginSpawnerTick, Alive
  <2>2. Ended(dt) \subseteq fallen
    BY <1>0, FallsClosed DEF Ended
  <2>3. dt \in Nat /\ dt > 0 /\ Never \notin Nat
    BY SpawnerAssumption DEF Never
  <2> HIDE DEF fallen
  <2>4. \A c \in Copies :
           left'[c] = IF c \in fallen \/ left[c] = Never THEN Never ELSE left[c] - dt
    BY <2>1 DEF Aged, LeftWithout, fallen
  <2>5. ASSUME NEW c \in Copies, left'[c] # Never
        PROVE  left'[c] \in Nat /\ left'[c] > 0 /\ c \in Alive' \ {0}
    <3>1. c \notin fallen /\ left[c] # Never /\ left'[c] = left[c] - dt
      BY <2>4, <2>5
    <3>2. left[c] \in Nat /\ c \in Alive \ {0}
      BY <3>1 DEF LifeInv
    <3>3. ~(left[c] <= dt)
      BY <2>2, <3>1, <3>2 DEF Ended
    <3> QED
      BY <2>1, <2>3, <3>1, <3>2, <3>3
  <2>6. left' = [c \in Copies |-> left'[c]]
    BY <2>1 DEF Aged
  <2>7. left' \in [Copies -> Nat \union {Never}]
    BY <2>5, <2>6
  <2> QED
    BY <2>5, <2>7 DEF LifeInv
<1>2. ASSUME NEW s \in Slots, NEW n \in Limits, NEW t \in Lifetimes, Spawn(s, n, t)
      PROVE  LifeInv'
  <2> DEFINE gone == Oldest(held[<<at, s>>], n)
             copy == made + 1
  <2>1. /\ made' = copy /\ copy \in Copies
        /\ dead' = dead \union Falls(gone)
        /\ left' = [LeftWithout(gone) EXCEPT ![copy] = IF t > 0 THEN t ELSE Never]
    BY <1>0, <1>2, SpawnerAssumption DEF Spawn, NewCopy, Copies
  <2>2. gone \subseteq 1 .. made
    <3>1. <<at, s>> \in Spawners
      BY <1>0 DEF Spawners, IInv, Shape
    <3> QED
      BY <1>0, <3>1 DEF Oldest, IInv, Shape, Older, Made
  <2>3. Falls(gone) \subseteq 1 .. made
    BY <2>2, SaveStays
  <2> HIDE DEF gone, copy
  <2>4. Alive' = (Alive \ Falls(gone)) \union {copy} /\ copy # 0
    BY <1>0, <2>1, <2>3 DEF Alive, copy, IInv, Shape
  <2>5. /\ left'[copy] = IF t > 0 THEN t ELSE Never
        /\ \A c \in Copies \ {copy} : left'[c] = IF c \in Falls(gone) THEN Never ELSE left[c]
        /\ left' = [c \in Copies |-> left'[c]]
    BY <2>1 DEF LeftWithout
  <2>6. t \in Nat
    BY SpawnerAssumption
  <2>7. left' \in [Copies -> Nat \union {Never}]
    BY <2>5, <2>6 DEF LifeInv
  <2> QED
    BY <2>4, <2>5, <2>6, <2>7 DEF LifeInv
<1>3. ASSUME NEW s \in Slots, DestroyAll(s)
      PROVE  LifeInv'
  <2>1. <<at, s>> \in Spawners
    BY <1>0 DEF Spawners, IInv, Shape
  <2>2. held[<<at, s>>] \subseteq Copies
    BY <1>0, <2>1 DEF IInv, Shape
  <2> QED
    BY <1>3, <2>2, LifeDestroy DEF DestroyAll, Destroy
<1>4. ASSUME NEW c \in Copies, DestroyPrefab(c)
      PROVE  LifeInv'
  BY <1>4, LifeDestroy DEF DestroyPrefab, Destroy
<1>5. CASE UNCHANGED <<made, dead, left>>
  BY <1>5 DEF LifeInv, Alive
<1>6. ASSUME \/ \E u \in Units : RunLate(u) \/ RunEvent(u) \/ RunPending(u)
             \/ CloseLatePass \/ ClosePass \/ SendEvent \/ WriteVar \/ Overflow
             \/ \E r \in BOOLEAN : FinishChain(r)
             \/ UNCHANGED copyVars
      PROVE  UNCHANGED <<made, dead, left>>
  BY <1>6 DEF RunLate, RunEvent, RunPending, CloseLatePass, ClosePass, SendEvent, WriteVar,
              Overflow, FinishChain, copyVars
<1> QED
  BY <1>1, <1>2, <1>3, <1>4, <1>5, <1>6 DEF SpawnerNext, Tick, Chain

-----------------------------------------------------------------------------
(* Limits. *)

LEMMA LeastCopy ==
    ASSUME NEW S, S \subseteq Nat, S # {}
    PROVE  \E m \in S : \A n \in S : m <= n
<1>1. PICK m \in S : \A n \in S : ~ (<<n, m>> \in OpToRel(<, Nat))
  BY NatLessThanWellFounded, WFMin
<1>2. \A n \in S : ~ (n < m)
  BY <1>1 DEF OpToRel
<1> QED
  BY <1>2

(* What a spawner holds can be counted. *)
LEMMA HeldFinite ==
    ASSUME IInv, NEW g \in Spawners
    PROVE  /\ held[g] \subseteq Nat
           /\ IsFiniteSet(held[g])
           /\ Cardinality(held[g]) \in Nat
<1>1. made \in Nat /\ held[g] \in SUBSET (0 .. made)
  BY SpawnerAssumption DEF IInv, Shape, Copies, Made
<1>2. IsFiniteSet(0 .. made)
  <2>1. 0 \in Int /\ made \in Int
    BY <1>1
  <2> QED
    BY ONLY <2>1, FS_Interval
<1>3. IsFiniteSet(held[g])
  BY <1>1, <1>2, FS_Subset
<1> QED
  BY <1>1, <1>3, FS_CardinalityType

(* A spawner at its limit destroys one of its copies before it takes another. *)
LEMMA RoomMade ==
    ASSUME IInv, NEW g \in Spawners, NEW n \in Nat, n > 0,
           NEW hs, hs \subseteq held[g] \ Falls(Oldest(held[g], n)), NEW copy
    PROVE  \/ Cardinality(hs \union {copy}) <= n
           \/ Cardinality(hs \union {copy}) <= Cardinality(held[g])
<1> DEFINE gone == Oldest(held[g], n)
<1>1. /\ IsFiniteSet(held[g]) /\ held[g] \subseteq Nat /\ Cardinality(held[g]) \in Nat
  BY HeldFinite
<1>2. /\ hs \in SUBSET held[g] /\ IsFiniteSet(hs) /\ Cardinality(hs) \in Nat
      /\ Cardinality(hs) <= Cardinality(held[g])
      /\ Cardinality(hs) = Cardinality(held[g]) => hs = held[g]
  BY <1>1, FS_Subset, FS_CardinalityType
<1>3. Cardinality(hs \union {copy}) \in {Cardinality(hs), Cardinality(hs) + 1}
  BY <1>2, FS_AddElement
<1>4. CASE Cardinality(held[g]) < n
  BY <1>1, <1>2, <1>3, <1>4
<1>5. CASE Cardinality(held[g]) >= n
  <2>1. held[g] # {}
    BY <1>5, FS_EmptySet
  <2>2. PICK c \in held[g] : \A d \in held[g] : c <= d
    BY <1>1, <2>1, LeastCopy
  <2>3. c \in gone
    BY <1>5, <2>2 DEF Oldest
  <2>4. gone \in SUBSET Copies
    BY SpawnerAssumption DEF Oldest, IInv, Shape, Copies, Made
  <2>5. c \notin hs
    BY <2>3, <2>4, FallsClosed
  <2> QED
    BY <1>1, <1>2, <1>3, <2>2, <2>5
<1> QED
  BY <1>1, <1>4, <1>5

LEMMA LimitInit == SpawnerInit => LimitKept
<1> SUFFICES ASSUME SpawnerInit, NEW g \in Spawners
             PROVE  \E n \in Limits : Cardinality(held[g]) <= n
  BY DEF LimitKept
<1>1. held[g] = {}
  BY DEF SpawnerInit
<1>2. PICK n \in Limits : n \in Nat
  BY SpawnerAssumption
<1>3. Cardinality(held[g]) = 0
  BY ONLY <1>1, FS_EmptySet
<1> QED
  BY <1>2, <1>3

(* A step after which no spawner holds more than before. *)
LEMMA LimitShrinks ==
    ASSUME IInv, LimitKept, \A g \in Spawners : held'[g] \subseteq held[g]
    PROVE  LimitKept'
<1> SUFFICES ASSUME 0 \notin Limits, NEW g \in Spawners
             PROVE  \E n \in Limits : Cardinality(held'[g]) <= n
  BY DEF LimitKept
<1>1. PICK n \in Limits : Cardinality(held[g]) <= n
  BY DEF LimitKept
<1>2. /\ Cardinality(held'[g]) <= Cardinality(held[g])
      /\ Cardinality(held'[g]) \in Nat /\ Cardinality(held[g]) \in Nat /\ n \in Nat
  BY HeldFinite, FS_Subset, FS_CardinalityType, SpawnerAssumption
<1> QED
  BY <1>1, <1>2

LEMMA LimitNext ==
    ASSUME IInv, LimitKept, [SpawnerNext]_copyVars
    PROVE  LimitKept'
<1>1. ASSUME NEW s \in Slots, NEW n \in Limits, NEW t \in Lifetimes, Spawn(s, n, t)
      PROVE  LimitKept'
  <2> DEFINE me == <<at, s>>
             gone == Oldest(held[me], n)
             hs == HeldWithout(gone)
  <2>1. me \in Spawners
    BY SpawnerAssumption DEF IInv, Shape, Spawners, Copies, Made
  <2>2. held' = [hs EXCEPT ![me] = @ \union {made + 1}]
    BY <1>1 DEF Spawn
  <2>3. \A g \in Spawners : hs[g] \subseteq held[g] \ Falls(gone)
    BY DEF HeldWithout
  <2>4. hs = [g \in Spawners |-> hs[g]]
    BY DEF HeldWithout
  <2> HIDE DEF hs, me
  <2>5. held'[me] = hs[me] \union {made + 1}
    BY <2>1, <2>2, <2>4
  <2>6. \A g \in Spawners : g # me => held'[g] \subseteq held[g]
    BY <2>2, <2>3, <2>4
  <2> SUFFICES ASSUME 0 \notin Limits, NEW g \in Spawners
               PROVE  \E m \in Limits : Cardinality(held'[g]) <= m
    BY DEF LimitKept
  <2>7. PICK m \in Limits : Cardinality(held[g]) <= m
    BY DEF LimitKept
  <2>8. m \in Nat /\ n \in Nat /\ n > 0 /\ Cardinality(held[g]) \in Nat
    BY HeldFinite, SpawnerAssumption
  <2>9. IsFiniteSet(held'[g]) /\ Cardinality(held'[g]) \in Nat
    <3>1. held[g] \subseteq Nat /\ IsFiniteSet(held[g])
      BY HeldFinite
    <3>2. held'[g] \subseteq held[g] \union {made + 1}
      BY <2>3, <2>5, <2>6
    <3>3. IsFiniteSet(held[g] \union {made + 1})
      BY <3>1, FS_AddElement
    <3> QED
      BY <3>2, <3>3, FS_Subset, FS_CardinalityType
  <2>10. CASE g = me
    <3>1. \/ Cardinality(hs[me] \union {made + 1}) <= n
          \/ Cardinality(hs[me] \union {made + 1}) <= Cardinality(held[me])
      BY <2>1, <2>3, <2>8, RoomMade
    <3> QED
      BY <2>5, <2>7, <2>8, <2>9, <2>10, <3>1
  <2>11. CASE g # me
    <3>1. Cardinality(held'[g]) <= Cardinality(held[g])
      BY <2>6, <2>11, HeldFinite, FS_Subset
    <3> QED
      BY <2>7, <2>8, <2>9, <3>1
  <2> QED
    BY <2>10, <2>11
<1>2. ASSUME NEW cs, held' = HeldWithout(cs)
      PROVE  LimitKept'
  <2>1. \A g \in Spawners : held'[g] \subseteq held[g]
    BY <1>2 DEF HeldWithout
  <2> QED
    BY <2>1, LimitShrinks
<1>3. CASE UNCHANGED held
  BY <1>3, LimitShrinks
<1>4. ASSUME NEW dt \in Deltas, NEW w \in SUBSET Alive, BeginSpawnerTick(dt, w)
      PROVE  LimitKept'
  BY <1>2, <1>4 DEF BeginSpawnerTick
<1>5. ASSUME NEW s \in Slots, DestroyAll(s)
      PROVE  LimitKept'
  BY <1>2, <1>5 DEF DestroyAll, Destroy
<1>6. ASSUME NEW c \in Copies, DestroyPrefab(c)
      PROVE  LimitKept'
  BY <1>2, <1>6 DEF DestroyPrefab, Destroy
<1>7. ASSUME \/ \E u \in Units : RunLate(u) \/ RunEvent(u) \/ RunPending(u)
             \/ CloseLatePass \/ ClosePass \/ SendEvent \/ WriteVar \/ Overflow
             \/ \E r \in BOOLEAN : FinishChain(r)
             \/ UNCHANGED copyVars
      PROVE  LimitKept'
  <2>1. UNCHANGED held
    BY <1>7 DEF RunLate, RunEvent, RunPending, CloseLatePass, ClosePass, SendEvent, WriteVar,
                Overflow, FinishChain, copyVars
  <2> QED
    BY <1>3, <2>1
<1> QED
  BY <1>1, <1>4, <1>5, <1>6, <1>7 DEF SpawnerNext, Tick, Chain

-----------------------------------------------------------------------------
(* All of it together. *)

TimeInv == IInv /\ RunInv /\ LoadInv /\ LifeInv /\ LimitKept

LEMMA TimeHolds == SpawnerSpec => []TimeInv
<1>1. SpawnerInit => TimeInv
  BY InitHolds, RunInit, LifeInit, LimitInit DEF TimeInv
<1>2. TimeInv /\ [SpawnerNext]_copyVars => TimeInv'
  BY NextHolds, RunNext, LifeNext, LimitNext DEF TimeInv
<1> QED
  BY <1>1, <1>2, PTL DEF SpawnerSpec

LEMMA TimeIsKept == TimeInv => CopiesInTime
<1> SUFFICES ASSUME TimeInv PROVE CopiesInTime
  OBVIOUS
<1>1. made \in Copies /\ Made \subseteq Copies /\ Alive \subseteq Made
  BY SpawnerAssumption DEF TimeInv, IInv, Shape, Copies, Made, Alive
<1>2. SpawnerTypeOK
  <2>1. held \in [Spawners -> SUBSET (1 .. made)]
    <3>1. ASSUME NEW g \in Spawners, NEW c \in held[g] PROVE c \in 1 .. made
      <4>1. g[1] \in Nat /\ c \in Made /\ g[1] < c
        BY <3>1, SpawnerAssumption DEF TimeInv, IInv, Shape, Older, Spawners, Copies
      <4> QED
        BY <1>1, <4>1, SpawnerAssumption DEF Made, Copies
    <3> QED
      BY <3>1 DEF TimeInv, IInv, Shape
  <2>2. cursor \in Units \union {None}
    BY <1>1 DEF TimeInv, RunInv, CursorMade, Units
  <2>3. /\ late \subseteq Units /\ pending \subseteq Units /\ carried \subseteq Units
        /\ late_events \subseteq Units
    BY <1>1 DEF TimeInv, IInv, Shape, Units
  <2>4. at \in Copies /\ dead \subseteq 1 .. made
    BY <1>1 DEF TimeInv, IInv, Shape
  <2> QED
    BY <1>1, <2>1, <2>2, <2>3, <2>4 DEF TimeInv, RunInv, LifeInv, SpawnerTypeOK
<1>3. NoneOverdue
  BY <1>1 DEF TimeInv, LifeInv, NoneOverdue
<1>4. LoadedInItsTick
  BY DEF TimeInv, RunInv, LoadInv, LoadedInItsTick
<1> QED
  BY <1>2, <1>3, <1>4 DEF CopiesInTime, TimeInv

(* Lifetimes, limits and loads are kept to the tick: no unit runs while a copy
   is there whose lifetime is over, no spawner holds more copies than the
   largest limit it was given, and when a tick is over the Load Event of every
   copy that is left has run. *)
THEOREM SpawnerCopiesInTime == SpawnerSpec => []CopiesInTime
  BY TimeHolds, TimeIsKept, PTL
=============================================================================

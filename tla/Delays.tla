------------------------------ MODULE Delays -------------------------------
(***************************************************************************)
(* The gates of the simulator that hold something for a while:             *)
(* crates/wirescript-sim/src/machine.rs, advance_buffers, buffer_input,    *)
(* countdown, and the buffer and queue arms of exec_gate.                  *)
(*                                                                         *)
(* A value buffer has one value in flight and keeps the newest input that  *)
(* came meanwhile; an exec buffer holds calls; a queue holds records.  All *)
(* count down once at the start of a tick and take new input during it.  A *)
(* wait is counted in ticks, or in the time the ticks take.                *)
(***************************************************************************)
EXTENDS Integers, SequencesExt

CONSTANTS
    ValueBuffers, ExecBuffers, Queues,
    Seconds,      \* the gates among them that count time
    Values,       \* values of a wire
    Truthy,       \* those that count as on
    Wait,         \* per buffer, the wait its field stores
    ZeroWait,     \* per value buffer, the wait after the input drops, or -1
    Wired,        \* exec buffers with a wire into the duration port
    Waits,        \* waits a wire or a queue's input may ask for
    Times,        \* what a tick may take
    MaxRecords,   \* MAX_QUEUE_RECORDS
    MaxCalls      \* bound: calls an exec buffer holds

ASSUME DelayAssumption ==
    /\ Truthy \subseteq Values
    /\ Wait \in [ValueBuffers \union ExecBuffers -> Nat]
    /\ ZeroWait \in [ValueBuffers -> Nat \union {-1}]
    /\ Waits \subseteq Nat /\ IsFiniteSet(Waits)  \* a number of fixed width
    /\ Times \subseteq Nat \ {0}
    /\ MaxRecords \in Nat
    /\ MaxCalls \in Nat

VARIABLES
    last,      \* per value buffer, the input it saw last
    out,       \* per value buffer, its output
    in_flight, \* per value buffer, the value on its way and its countdown
    queued,    \* per value buffer, the input that came meanwhile
    fires,     \* per exec buffer, the calls on their way, oldest first
    records,   \* per queue, its records, oldest first
    landed,    \* history: per exec buffer, the calls that landed this tick
    still      \* history: per value buffer, ticks since its input changed

value   == <<last, out, in_flight, queued, still>>
buffers == <<value, fires, records, landed>>

Nothing == <<>>

(* add_gates and settle_new: a compiled save stores the same value for a
   buffer's input and its output. *)
DelaysInit ==
    /\ last \in [ValueBuffers -> Values]
    /\ out = last
    /\ in_flight = [b \in ValueBuffers |-> Nothing]
    /\ queued = [b \in ValueBuffers |-> Nothing]
    /\ fires = [b \in ExecBuffers |-> <<>>]
    /\ records = [q \in Queues |-> <<>>]
    /\ landed = [b \in ExecBuffers |-> {}]
    /\ still = [b \in ValueBuffers |-> 0]

-----------------------------------------------------------------------------
Longer(m, n) == IF m >= n THEN m ELSE n

(* A wait in ticks is at least one. *)
AtLeast(g, wait) == IF g \in Seconds THEN wait ELSE Longer(1, wait)

(* countdown, for a value going to v. *)
Countdown(b, v) ==
    AtLeast(b, IF v \notin Truthy /\ ZeroWait[b] >= 0 THEN ZeroWait[b] ELSE Wait[b])

Flight(b, v) == [value |-> v, left |-> Countdown(b, v)]

(* settle saw a value buffer's input change: buffer_input. *)
(* Mutant: the first input that came meanwhile stays. *)
KeptFirst(b, v) == IF queued[b] = Nothing THEN <<v>> ELSE queued[b]
Kept(b, v) == <<v>>

Input(b, v) ==
    /\ v # last[b]
    /\ last' = [last EXCEPT ![b] = v]
    /\ still' = [still EXCEPT ![b] = 0]
    /\ IF in_flight[b] # Nothing
       THEN queued' = [queued EXCEPT ![b] = Kept(b, v)] /\ UNCHANGED in_flight
       ELSE in_flight' = [in_flight EXCEPT ![b] = <<Flight(b, v)>>] /\ UNCHANGED queued
    /\ UNCHANGED <<out, fires, records, landed>>

(* An exec call enters a buffer.  It waits what the field says, whatever the
   wire into the duration port carries; `asked` is what the program asks. *)
Call(b) ==
    /\ Len(fires[b]) < MaxCalls
    /\ \E wait \in IF b \in Wired THEN Waits ELSE {Wait[b]} :
         fires' = [fires EXCEPT ![b] =
             Append(@, [left |-> AtLeast(b, Wait[b]), asked |-> AtLeast(b, wait), age |-> 0])]
    /\ UNCHANGED <<value, records, landed>>

(* An exec call enters a queue, which drops the record when it is full. *)
Enqueue(q, wait) ==
    /\ Len(records[q]) < MaxRecords
    /\ records' = [records EXCEPT ![q] =
             Append(@, [left |-> AtLeast(q, wait), age |-> 0, ahead |-> Len(@)])]
    /\ UNCHANGED <<value, fires, landed>>

-----------------------------------------------------------------------------
(* tick_down and due. *)
Passing(g, time) == IF g \in Seconds THEN time ELSE 1
Down(c, ticks) == [c EXCEPT !.left = @ - ticks]
Due(c) == c.left <= 0

After(s, n) == SubSeq(s, n + 1, Len(s))

(* An exec buffer, counted down: the calls in front that are due land. *)
(* Mutant: one a tick. *)
LandingOne(calls) == {n \in DOMAIN calls : n = 1 /\ Due(calls[n])}
Landing(calls) == {n \in DOMAIN calls : \A i \in 1 .. n : Due(calls[i])}

Called(b, time) ==
    [n \in DOMAIN fires[b] |->
        [Down(fires[b][n], Passing(b, time)) EXCEPT !.age = @ + Passing(b, time)]]

(* A queue, counted down: the oldest record leaves when it is due. *)
(* Mutant: the countdown of a record starts when it is the oldest. *)
WaitingInTurn(q, time) ==
    [n \in DOMAIN records[q] |->
        [Down(records[q][n], IF n = 1 THEN Passing(q, time) ELSE 0) EXCEPT !.age = @ + 1]]
Waiting(q, time) ==
    [n \in DOMAIN records[q] |-> [Down(records[q][n], Passing(q, time)) EXCEPT !.age = @ + 1]]

Released(held) == IF held # <<>> /\ Due(Head(held)) THEN Tail(held) ELSE held

(* A value buffer, counted down: does its value land? *)
Flown(b, time) == Down(Head(in_flight[b]), Passing(b, time))
Lands(b, time) == in_flight[b] # Nothing /\ Due(Flown(b, time))

(* What waited behind a value that lands takes off. *)
(* Mutant: it is forgotten. *)
NextFlightNone(b, time) ==
    IF in_flight[b] = Nothing \/ Lands(b, time) THEN Nothing ELSE <<Flown(b, time)>>
NextFlight(b, time) ==
    IF in_flight[b] = Nothing THEN Nothing
    ELSE IF ~Lands(b, time) THEN <<Flown(b, time)>>
    ELSE IF queued[b] = Nothing THEN Nothing
    ELSE <<Flight(b, Head(queued[b]))>>

(* The longest a value buffer takes to show an input that stays. *)
Patience(b) == 2 * Longer(1, Longer(Wait[b], ZeroWait[b]))

(* advance_buffers. *)
AdvanceBuffers ==
    \E time \in Times :
      /\ out' = [b \in ValueBuffers |-> IF Lands(b, time) THEN Flown(b, time).value ELSE out[b]]
      /\ in_flight' = [b \in ValueBuffers |-> NextFlight(b, time)]
      /\ queued' = [b \in ValueBuffers |-> IF Lands(b, time) THEN Nothing ELSE queued[b]]
      /\ still' = [b \in ValueBuffers |-> IF still[b] < Patience(b) THEN still[b] + 1 ELSE still[b]]
      /\ LET calls == [b \in ExecBuffers |-> Called(b, time)]
         IN  /\ fires' = [b \in ExecBuffers |-> After(calls[b], Cardinality(Landing(calls[b])))]
             /\ landed' = [b \in ExecBuffers |->
                    {[late |-> calls[b][n].age - calls[b][n].asked, tick |-> Passing(b, time)] :
                        n \in Landing(calls[b])}]
      /\ records' = [q \in Queues |-> Released(Waiting(q, time))]
      /\ UNCHANGED last

DelaysNext ==
    \/ \E b \in ValueBuffers, v \in Values : Input(b, v)
    \/ \E b \in ExecBuffers : Call(b)
    \/ \E q \in Queues, wait \in Waits : Enqueue(q, wait)
    \/ AdvanceBuffers

DelaysSpec == DelaysInit /\ [][DelaysNext]_buffers

-----------------------------------------------------------------------------
(* The variables hold values of their kinds; a value waits only behind one *)
(* in flight, and what is due has left but for the records of a queue.     *)
DelaysTypeOK ==
    /\ last \in [ValueBuffers -> Values] /\ out \in [ValueBuffers -> Values]
    /\ \A b \in ValueBuffers :
         /\ in_flight[b] # Nothing =>
              /\ in_flight[b] \in [1 .. 1 -> [value : Values, left : Nat]]
              /\ b \notin Seconds => Head(in_flight[b]).left > 0
         /\ queued[b] # Nothing => queued[b] \in [1 .. 1 -> Values] /\ in_flight[b] # Nothing
         /\ still[b] \in 0 .. Patience(b)
    /\ \A b \in ExecBuffers : Len(fires[b]) <= MaxCalls
    /\ \A q \in Queues : Len(records[q]) <= MaxRecords

(* The newest of what a value buffer holds is its input: whatever changed  *)
(* while a value was on its way, the last change is never forgotten.       *)
Tracks ==
    \A b \in ValueBuffers :
      last[b] = IF queued[b] # Nothing THEN Head(queued[b])
                ELSE IF in_flight[b] # Nothing THEN Head(in_flight[b]).value
                ELSE out[b]

(* An input that has not changed for two of the longest waits is the       *)
(* output, whatever was on its way when it came.                           *)
Follows == \A b \in ValueBuffers : still[b] = Patience(b) => out[b] = last[b]

(* A call lands in the first tick in which the wait the program asks for   *)
(* is over, with every other call that is due: none lands early, and none  *)
(* is held up behind another ("buffer(d) emit": docs/src/statements.md).   *)
CallsOnTime ==
    \A b \in ExecBuffers :
      /\ \A n \in DOMAIN fires[b] : fires[b][n].age = 0 \/ fires[b][n].age < fires[b][n].asked
      /\ \A c \in landed[b] : 0 <= c.late /\ c.late <= c.tick
      /\ b \notin Seconds => \A c \in landed[b] : c.late = 0

(* A record stays at most the longest wait and a tick for each record that *)
(* was ahead of it, although one that is due may wait behind one that is   *)
(* not: all of them count down together.                                   *)
RecordsInTime ==
    \A q \in Queues : \A n \in DOMAIN records[q] :
      \E longest \in Waits :
        /\ \A wait \in Waits : wait <= longest
        /\ records[q][n].age < Longer(1, longest) + records[q][n].ahead

(* What is shown, and what leaves a queue, is never late. *)
InTime == DelaysTypeOK /\ Follows /\ RecordsInTime
=============================================================================

----------------------------- MODULE Reactions -----------------------------
(***************************************************************************)
(* What the tick promises of the handlers it is asked to run: one asked    *)
(* for in this tick runs in it, one asked for the next tick runs in that   *)
(* tick, each exactly as often as it was asked for, and a tick ends only   *)
(* when none is due.  docs/src/game-knowledge.md: a reaction runs after    *)
(* the handler and before the next tick's handlers, a custom event arrives *)
(* on the tick after it is sent.                                           *)
(***************************************************************************)
EXTENDS Naturals

CONSTANT Units

VARIABLES
    due,    \* runs of each unit owed before the tick ends
    owed    \* runs of each unit owed in the next tick

vars == <<due, owed>>

Nothing == [u \in Units |-> 0]

Init == due = Nothing /\ owed = Nothing

(* A handler, the world or a clock asks for runs. *)
Ask ==
    \A u \in Units : due'[u] >= due[u] /\ owed'[u] >= owed[u]

(* A unit runs once. *)
Run(u) ==
    /\ due[u] > 0
    /\ due' = [due EXCEPT ![u] = @ - 1]
    /\ UNCHANGED owed

(* A tick ends with nothing due and the next one starts with all it owes. *)
NextTick ==
    /\ due = Nothing
    /\ due' = owed
    /\ owed' = Nothing

Next == Ask \/ (\E u \in Units : Run(u)) \/ NextTick

Spec == Init /\ [][Next]_vars
=============================================================================

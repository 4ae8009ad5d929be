---------------------------- MODULE LoopBreaks -----------------------------
(***************************************************************************)
(* What a Break promises: the iteration it ran in is the last of the loop  *)
(* around it, and of no other loop, whatever loops start and end between.  *)
(* Abstract specification of Callables.                                    *)
(***************************************************************************)
EXTENDS Naturals, Sequences

VARIABLE loops  \* the running loops, outermost first

Init == loops = <<>>

Inner == loops[Len(loops)]

Around == SubSeq(loops, 1, Len(loops) - 1)

In(inside) == loops # <<>> /\ Inner.inside = inside

(* A loop starts outside every loop or inside an iteration of another. *)
Begin ==
    /\ loops = <<>> \/ In(TRUE)
    /\ loops' = Append(loops, [inside |-> FALSE, last |-> FALSE])

Iterate == In(FALSE) /\ ~Inner.last /\ loops' = Append(Around, [inside |-> TRUE, last |-> FALSE])

Break == In(TRUE) /\ loops' = Append(Around, [inside |-> TRUE, last |-> TRUE])

EndIteration == In(TRUE) /\ loops' = Append(Around, [inside |-> FALSE, last |-> Inner.last])

(* Between iterations a loop may also run out of items. *)
RunOut == In(FALSE) /\ loops' = Append(Around, [inside |-> FALSE, last |-> TRUE])

End == In(FALSE) /\ Inner.last /\ loops' = Around

(* A run that fails stops every loop. *)
Fail == loops' = <<>>

Next == Begin \/ Iterate \/ Break \/ EndIteration \/ RunOut \/ End \/ Fail

Spec == Init /\ [][Next]_loops
=============================================================================

---------------------------- MODULE MCScheduler ----------------------------
(***************************************************************************)
(* Instances of Scheduler for TLC.  `wx` is a change detector of x at the  *)
(* front of the save, `load` a Load Event behind it, `ey` an edge detector *)
(* of y, `on` an event handler and `cw` a container detector at the back.  *)
(***************************************************************************)
EXTENDS SchedulerReactions

MCUnits == {"load", "wx", "ey", "on"}
MCRank == [load |-> 0, wx |-> 1, ey |-> 2, on |-> 3]
MCReaders == [x |-> {"wx"}, y |-> {"wx", "ey"}]
MCReceivers == [ping |-> <<"on">>, pong |-> <<"wx", "on">>]
=============================================================================

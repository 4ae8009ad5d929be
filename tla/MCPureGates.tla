---------------------------- MODULE MCPureGates ----------------------------
(***************************************************************************)
(* An instance of PureGates for TLC: `join` reads the var x by two ways,   *)
(* `loop` reads the pulse of a detector that watches `loop`, `time` is a   *)
(* time source.                                                            *)
(***************************************************************************)
EXTENDS PureGates

MCSource == [neg  |-> {"x"},
             join |-> {"x", "neg", "y"},
             loop |-> {"neg", "o"},
             time |-> {"clock"}]
MCReads  == [wj |-> "join", wd |-> "loop", wt |-> "time", wx |-> "x"]
MCPulses == [wj |-> {}, wd |-> {"o"}, wt |-> {}, wx |-> {}]
MCStored == [n \in {"x", "y", "o", "clock"} |-> {{<<n, 0>>}, {<<n, 1>>}}]
MCHigh   == [o |-> {<<"o", 1>>}]
MCSaved  == [n \in {"neg", "join", "loop", "time", "wj", "wd", "wt", "wx"} |-> {}]

(* A gate's value names every leaf value it was computed from. *)
MCLaw(g, inputs) == UNION {inputs[s] : s \in DOMAIN inputs}
=============================================================================

---------------------------- MODULE MCLspServer ----------------------------
(***************************************************************************)
(* Two instances of LspServer for TLC, in one run: `part` says which of    *)
(* them a behaviour is about.  Three files of which two import the third,  *)
(* with a client that takes every message at once; and two files, where    *)
(* every publish may suspend its handler.                                  *)
(***************************************************************************)
EXTENDS LspServer

CONSTANT Parts

VARIABLE part

allVars == <<part, vars>>

MCImports == [main |-> {"lib"}, other |-> {"lib"}, lib |-> {}]

MCInit == Init /\ part \in Parts

(* No publish waits. *)
Quick == ~ (Publish /\ running' = 0)

(* Fewer messages, none about `other`. *)
Slow ==
    /\ sent' < MaxMessages
    /\ Len(handlers') < MaxHandlers
    /\ buffer'["other"] = None /\ disk'["other"] = 1

MCNext ==
    /\ Next
    /\ UNCHANGED part
    /\ \/ part = "quick" /\ Quick
       \/ part = "slow" /\ Slow

(* The handlers run on: the server's executor polls what is ready. *)
MCSpec == MCInit /\ [][MCNext]_allVars /\ WF_vars(OnTask \/ Suspended)

(* The property checked in one part. *)
NewestAnalysedSlow == part = "slow" => NewestAnalysed
=============================================================================

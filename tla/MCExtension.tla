----------------------------- MODULE MCExtension -----------------------------
(***************************************************************************)
(* Two parts of the VS Code extension for TLC, in one run: `part` says     *)
(* which of them a behaviour is about, the other rests.                    *)
(***************************************************************************)
EXTENDS ServerRestart

CONSTANTS Compiles, MaxRestarts

VARIABLES part, stage, reports, compiling, status, hides, restarts

Command == INSTANCE CompileCommand

commandVars == <<stage, reports, compiling, status, hides, restarts>>
allVars     == <<part, vars, commandVars>>

MCInit ==
    /\ part \in {"server", "command"}
    /\ Init
    /\ part = "command" => mode = "native"
    /\ Command!Init

ServerOnly  == part = "server" /\ UNCHANGED <<part, commandVars>>
CommandOnly == part = "command" /\ UNCHANGED <<part, vars>>

MCNext ==
    \/ ServerOnly /\ Next
    \/ CommandOnly /\ Command!Next

MCFairness ==
    /\ WF_allVars(ServerOnly /\ Restarts)
    /\ WF_allVars(ServerOnly /\ Exits)
    /\ WF_allVars(ServerOnly /\ FileChanged)
    /\ WF_allVars(ServerOnly /\ DebounceEnds)
    /\ \A c \in Compiles : /\ WF_allVars(CommandOnly /\ Command!Send(c))
                           /\ WF_allVars(CommandOnly /\ Command!Answer(c))
    /\ WF_allVars(CommandOnly /\ Command!HideTimer)

MCSpec == MCInit /\ [][MCNext]_allVars /\ MCFairness

ASSUME CommandAssumption == IsFiniteSet(Compiles) /\ MaxRestarts \in Nat

(* Of the command: see there. *)
IndicatorRight == Command!IndicatorRight

(* The extension comes to rest: in the end the server that runs is the newest
   build, and the indicator of the command is gone. *)
ExtensionSettles == (part = "server" => RunsNewest) /\ Command!IndicatorClears
=============================================================================

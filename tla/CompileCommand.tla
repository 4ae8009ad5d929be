--------------------------- MODULE CompileCommand --------------------------
(***************************************************************************)
(* The indicator of the Compile and Copy command in the status bar of the  *)
(* VS Code extension, editors/vscode/src/extension.ts, and the progress    *)
(* notifications of the server that turn it.                               *)
(*                                                                         *)
(* The command gives way while the document is saved and while the server  *)
(* compiles; a second compile and a restart of the server come in between. *)
(* The build errors it shows and the clipboard are left out.  External:    *)
(* the server answers every request or the client rejects it, as it does   *)
(* with those in flight when the server restarts; progress notifications   *)
(* arrive in any order, even after the answer.                             *)
(***************************************************************************)
EXTENDS Integers, FiniteSets

CONSTANTS
    Compiles,   \* runs of the command
    MaxRestarts \* bound: restarts of the server

VARIABLES
    stage,      \* per run of the command: new, saving, sent or done
    reports,    \* runs whose progress the server may still report
    compiling,  \* a compile is in flight, as far as the extension knows
    status,     \* the status bar item: hidden, spinner or failed
    hides,      \* running timers that hide a failure
    restarts    \* restarts of the server (bound)

vars == <<stage, reports, compiling, status, hides, restarts>>

TypeOK ==
    /\ stage \in [Compiles -> {"new", "saving", "sent", "done"}]
    /\ reports \subseteq Compiles
    /\ compiling \in BOOLEAN
    /\ status \in {"hidden", "spinner", "failed"}
    /\ hides \in 0 .. Cardinality(Compiles)
    /\ restarts \in 0 .. MaxRestarts

Init ==
    /\ stage = [c \in Compiles |-> "new"]
    /\ reports = {}
    /\ compiling = FALSE
    /\ status = "hidden"
    /\ hides = 0
    /\ restarts = 0

(* The user runs the command; the document is being saved. *)
Invoke(c) ==
    /\ stage[c] = "new"
    /\ stage' = [stage EXCEPT ![c] = "saving"]
    /\ UNCHANGED <<reports, compiling, status, hides, restarts>>

(* The document is saved: the indicator is shown and the request goes out. *)
Send(c) ==
    /\ stage[c] = "saving"
    /\ stage' = [stage EXCEPT ![c] = "sent"]
    /\ reports' = reports \union {c}
    /\ compiling' = TRUE
    /\ status' = "spinner"
    /\ UNCHANGED <<hides, restarts>>

(* Mutant: a progress report shows the spinner whenever it comes. *)
ReportsAlways == TRUE

(* Reports count only while a compile is in flight. *)
ReportsCount == compiling

(* The server reports a step of a compile, perhaps its last. *)
Progress(c) ==
    /\ c \in reports
    /\ reports' \in {reports, reports \ {c}}
    /\ status' = IF ReportsCount THEN "spinner" ELSE status
    /\ UNCHANGED <<stage, compiling, hides, restarts>>

(* Mutant: a failure stays in the status bar. *)
ShowFailureForever ==
    /\ status' = "failed"
    /\ UNCHANGED hides

(* A failure is shown for five seconds. *)
ShowFailure ==
    /\ status' = "failed"
    /\ hides' = hides + 1

(* The request was rejected, or its answer is a list of build errors. *)
Failed(c) ==
    /\ stage[c] = "sent"
    /\ stage' = [stage EXCEPT ![c] = "done"]
    /\ compiling' = FALSE
    /\ ShowFailure
    /\ UNCHANGED <<reports, restarts>>

(* The answer is the save: the indicator goes before the clipboard. *)
Built(c) ==
    /\ stage[c] = "sent"
    /\ stage' = [stage EXCEPT ![c] = "done"]
    /\ compiling' = FALSE
    /\ status' = "hidden"
    /\ UNCHANGED <<reports, hides, restarts>>

HideTimer ==
    /\ hides > 0
    /\ hides' = hides - 1
    /\ status' = "hidden"
    /\ UNCHANGED <<stage, reports, compiling, restarts>>

(* A server that is gone reports nothing. *)
RestartServer ==
    /\ restarts < MaxRestarts
    /\ restarts' = restarts + 1
    /\ reports' = {}
    /\ UNCHANGED <<stage, compiling, status, hides>>

Answer(c) == Failed(c) \/ Built(c)

Next ==
    \/ \E c \in Compiles : Invoke(c) \/ Send(c) \/ Progress(c) \/ Answer(c)
    \/ HideTimer
    \/ RestartServer

(* Saves end, requests are answered, timers run out. *)
Fairness ==
    /\ \A c \in Compiles : WF_vars(Send(c)) /\ WF_vars(Answer(c))
    /\ WF_vars(HideTimer)

Spec == Init /\ [][Next]_vars /\ Fairness

-----------------------------------------------------------------------------
(* Properties. *)

(* "they ... used to strand the spinner when a non-done was delivered last":
   the spinner turns only while a compile is in flight. *)
SpinnerHasCompile == status = "spinner" => \E c \in Compiles : stage[c] = "sent"

(* The indicator turns for a reason, and no more failures are being hidden than
   there were compiles. *)
IndicatorRight == TypeOK /\ SpinnerHasCompile

(* Whatever overlaps, the indicator is gone in the end. *)
IndicatorClears == status # "hidden" ~> status = "hidden"
=============================================================================

----------------------------- MODULE LspServer -----------------------------
(***************************************************************************)
(* The document handlers of the language server, crates/lsp/src/main.rs:   *)
(* did_open, did_change, did_save, did_close and did_change_watched_files, *)
(* with the analyses they run and the diagnostics they publish.            *)
(*                                                                         *)
(* All handlers run on one task: one runs until it awaits, and only there  *)
(* may another go on.  They await the debounce of did_change, the compile  *)
(* of did_save, and each publish, whose message is on its way to the       *)
(* client before the handler is suspended.                                 *)
(*                                                                         *)
(* A text is a number, larger for a newer one; a text of BadTexts has      *)
(* problems.  Markers record whose analysis reported them and the texts it *)
(* read.                                                                   *)
(***************************************************************************)
EXTENDS Naturals, Sequences, FiniteSets, SequencesExt

CONSTANTS
    Files,
    Imports,      \* the files each file imports, directly or transitively
    BadTexts,     \* texts with problems
    MaxText,      \* bound: texts written in a run
    MaxMessages,  \* bound: messages the client sends
    MaxHandlers,  \* bound: handlers alive at once (concurrency_level)
    Kinds         \* the messages the client sends

ASSUME ServerAssumption ==
    /\ IsFiniteSet(Files)
    /\ "none" \notin Files
    /\ Imports \in [Files -> SUBSET Files]
    /\ \A f \in Files : f \notin Imports[f]
    /\ BadTexts \subseteq Nat
    /\ MaxText \in Nat \ {0}
    /\ MaxMessages \in Nat
    /\ MaxHandlers \in Nat
    /\ Kinds \subseteq {"open", "change", "save", "close", "disk"}

VARIABLES
    docs,          \* per file, the text last analysed as open, or None
    changes,       \* per file, did_change's count and newest text, or None
    foreign_diags, \* per file, the imported files it published markers to
    handlers,      \* the handlers alive, oldest first
    running,       \* the handler on the task, 0 when all are suspended
    shown,         \* per file, the markers the client shows
    buffer,        \* per file, the client's open buffer, or None
    disk,          \* per file, the text on disk
    newest,        \* the newest text written
    sent,          \* messages sent
    steady,        \* history: nothing went on while a publish waited
    calm           \* history: and nothing began while a save compiled

server == <<docs, changes, foreign_diags, handlers, running, shown>>
inputs == <<buffer, disk, newest, sent>>
client == <<inputs, steady, calm>>
vars   == <<server, client>>

None    == 0
NoText  == [f \in Files |-> 0]
Cleared == [by |-> "none", text |-> 0, saw |-> NoText]
NoMarkers == [f \in Files |-> Cleared]

(* A handler: the stages it has left, the file and text it is analysing, the
   files still to re-analyse and the publishes still to send. *)
Stages == {"analyze", "claim", "others", "source", "lower", "release"}

Handler(uri, text, generation, todo) ==
    [uri |-> uri, of |-> uri, text |-> text, generation |-> generation,
     at |-> "run", todo |-> todo, others |-> {}, own |-> Cleared,
     foreign |-> NoMarkers, lowered |-> NoMarkers, out |-> <<>>]

Init ==
    /\ docs = [f \in Files |-> None]
    /\ changes = [f \in Files |-> [count |-> 0, text |-> None]]
    /\ foreign_diags = [f \in Files |-> {}]
    /\ handlers = <<>>
    /\ running = 0
    /\ shown = [f \in Files |-> Cleared]
    /\ buffer = [f \in Files |-> None]
    /\ disk = [f \in Files |-> 1]
    /\ newest = 1
    /\ sent = 0
    /\ steady = TRUE
    /\ calm = TRUE

-----------------------------------------------------------------------------
(* What goes on now goes on between the steps of the handlers that are
   suspended at a publish. *)
Steady(others) == steady' = (steady /\ \A i \in others : handlers[i].at # "run")

(* What begins now begins between the steps of another handler, unless the
   others only wait for their debounce. *)
Begins ==
    /\ Steady(DOMAIN handlers)
    /\ calm' = (calm /\ \A i \in DOMAIN handlers : handlers[i].at = "wait")

(* Messages.  The handler of a message starts at once, in message order. *)

Receives(kind) ==
    /\ running = 0
    /\ kind \in Kinds
    /\ sent < MaxMessages
    /\ Len(handlers) < MaxHandlers
    /\ sent' = sent + 1
    /\ Begins

(* The client's user writes a text. *)
Writes == newest < MaxText /\ newest' = newest + 1

Starts(h) == handlers' = Append(handlers, h) /\ running' = Len(handlers) + 1

Forget(f) == changes' = [changes EXCEPT ![f] = [count |-> 0, text |-> None]]

(* What is left of each handler after its first step. *)
AfterOpen == <<"analyze", "claim", "others">>
(* Mutant: did_change does not re-analyse the importers. *)
AfterChangeAlone == <<"analyze", "claim">>
AfterChange == <<"analyze", "claim", "others">>
AfterSave == <<"others", "source", "analyze", "lower", "claim">>
(* Mutant: did_close keeps the document's claims on imported files. *)
AfterCloseClaiming == <<"others">>
AfterClose == <<"release", "others">>

(* did_open. *)
Open(f) ==
    /\ Receives("open")
    /\ buffer[f] = None
    /\ \/ Writes
       \/ UNCHANGED newest
    /\ buffer' = [buffer EXCEPT ![f] = IF newest' > newest THEN newest' ELSE disk[f]]
    /\ Forget(f)
    /\ Starts(Handler(f, buffer'[f], 0, AfterOpen))
    /\ UNCHANGED <<docs, foreign_diags, shown, disk>>

(* The count a did_change takes. *)
(* Mutant: taken before the increment. *)
GenerationEarly(f) == changes[f].count
Generation(f) == changes[f].count + 1

(* did_change, up to its wait. *)
Change(f) ==
    /\ Receives("change")
    /\ buffer[f] # None
    /\ Writes
    /\ buffer' = [buffer EXCEPT ![f] = newest']
    /\ changes' = [changes EXCEPT ![f] = [count |-> @.count + 1, text |-> newest']]
    /\ handlers' = Append(handlers,
         [Handler(f, newest', Generation(f), AfterChange) EXCEPT !.at = "wait"])
    /\ UNCHANGED <<docs, foreign_diags, running, shown, disk>>

(* did_save. *)
Save(f) ==
    /\ Receives("save")
    /\ buffer[f] # None
    /\ disk' = [disk EXCEPT ![f] = buffer[f]]
    /\ Starts(Handler(f, None, 0, AfterSave))
    /\ UNCHANGED <<docs, changes, foreign_diags, shown, buffer, newest>>

(* Mutant: did_close does not remove the document. *)
CloseKeepingDoc(f) ==
    /\ Receives("close")
    /\ buffer[f] # None
    /\ buffer' = [buffer EXCEPT ![f] = None]
    /\ Forget(f)
    /\ Starts([Handler(f, None, 0, AfterClose)
                 EXCEPT !.out = <<[file |-> f, markers |-> Cleared]>>])
    /\ UNCHANGED <<docs, foreign_diags, shown, disk, newest>>

(* did_close, up to its first publish. *)
Close(f) ==
    /\ Receives("close")
    /\ buffer[f] # None
    /\ buffer' = [buffer EXCEPT ![f] = None]
    /\ docs' = [docs EXCEPT ![f] = None]
    /\ Forget(f)
    /\ Starts([Handler(f, None, 0, AfterClose)
                 EXCEPT !.out = <<[file |-> f, markers |-> Cleared]>>])
    /\ UNCHANGED <<foreign_diags, shown, disk, newest>>

(* A file changes on disk: did_change_watched_files. *)
DiskChange(f) ==
    /\ Receives("disk")
    /\ buffer[f] = None
    /\ Writes
    /\ disk' = [disk EXCEPT ![f] = newest']
    /\ Starts(Handler(f, None, 0, <<"others">>))
    /\ UNCHANGED <<docs, changes, foreign_diags, shown, buffer>>

-----------------------------------------------------------------------------
(* Handlers.  `H` is the one on the task. *)

H == handlers[running]

Update(h) == handlers' = [handlers EXCEPT ![running] = h]

(* The next stage, once everything is published and no file of a loop over
   the other documents is left. *)
AtStage(stage) ==
    /\ running # 0
    /\ H.out = <<>>
    /\ H.todo # <<>>
    /\ Head(H.todo) = stage
    /\ stage \in {"analyze", "claim", "lower"} \/ H.others = {}

(* newest_text, else the text last analysed. *)
NewestText(f) == IF changes[f].count > 0 THEN changes[f].text ELSE docs[f]

(* Mutant: the text last analysed, whatever changed since. *)
LoadedAnalysed(f) == IF docs[f] # None THEN docs[f] ELSE disk[f]
(* OpenDocLoader: an import read from an open document, else from disk. *)
Loaded(f) == IF docs[f] # None THEN NewestText(f) ELSE disk[f]

(* split_by_file: the markers of the imports that are not open. *)
ForeignMarkers(of, saw, open) ==
    [f \in Files |-> IF f \in Imports[of] /\ open[f] = None /\ saw[f] \in BadTexts
                     THEN [by |-> of, text |-> saw[f], saw |-> NoText]
                     ELSE Cleared]

Marked(markers) == {f \in Files : markers[f] # Cleared}

(* analyze: the document is recorded as open with this text. *)
Analyze ==
    /\ AtStage("analyze")
    /\ docs' = [docs EXCEPT ![H.of] = H.text]
    /\ LET saw == [f \in Files |-> IF f \in Imports[H.of] THEN Loaded(f) ELSE 0]
       IN  Update([H EXCEPT
             !.todo = Tail(@),
             !.own = [by |-> H.of, text |-> H.text, saw |-> saw],
             !.foreign = ForeignMarkers(H.of, saw, docs')])
    /\ UNCHANGED <<changes, foreign_diags, running, shown, client>>

Orders(S) == {s \in [1 .. Cardinality(S) -> S] : Range(s) = S}

Messages(order, markers) ==
    [k \in DOMAIN order |-> [file |-> order[k], markers |-> markers[order[k]]]]

(* publish_split, up to its first publish: the file claims the imports it has
   markers for; those it no longer has, and no other file claims, are to be
   cleared; its own markers come last. *)
Claim ==
    /\ AtStage("claim")
    /\ foreign_diags' = [foreign_diags EXCEPT ![H.of] = Marked(H.foreign)]
    /\ LET stale == {f \in foreign_diags[H.of] :
                       \A d \in Files : f \notin foreign_diags'[d]}
       IN  \E first \in Orders(Marked(H.foreign)), last \in Orders(stale) :
             Update([H EXCEPT !.todo = Tail(@),
                              !.out = Messages(first, H.foreign)
                                        \o Messages(last, NoMarkers)
                                        \o <<[file |-> H.of, markers |-> H.own]>>])
    /\ UNCHANGED <<docs, changes, running, shown, client>>

(* publish_diagnostics: the message replaces what the file shows; then the
   handler may be suspended. *)
Publish ==
    /\ running # 0
    /\ H.out # <<>>
    /\ shown' = [shown EXCEPT ![Head(H.out).file] = Head(H.out).markers]
    /\ Update([H EXCEPT !.out = Tail(@)])
    /\ running' = running \/ running' = 0
    /\ UNCHANGED <<docs, changes, foreign_diags, client>>

(* reanalyze_other_docs: the open documents that import the file, with their
   newest texts, as they are now. *)
Others ==
    /\ AtStage("others")
    /\ Update([H EXCEPT
         !.todo = Tail(@),
         !.others = {[file |-> d, text |-> NewestText(d)] :
                       d \in {d \in Files : docs[d] # None /\ H.uri \in Imports[d]}}])
    /\ UNCHANGED <<docs, changes, foreign_diags, running, shown, client>>

NextOther ==
    /\ running # 0
    /\ H.out = <<>>
    /\ H.todo # <<>> => Head(H.todo) \notin {"analyze", "claim"}
    /\ \E o \in H.others :
         Update([H EXCEPT !.others = @ \ {o}, !.of = o.file, !.text = o.text,
                          !.todo = <<"analyze", "claim">> \o @])
    /\ UNCHANGED <<docs, changes, foreign_diags, running, shown, client>>

Leave ==
    /\ handlers' = RemoveAt(handlers, running)
    /\ running' = 0

(* did_save: the text last analysed, unless the document is closed. *)
Source ==
    /\ AtStage("source")
    /\ IF docs[H.uri] = None
       THEN Leave
       ELSE /\ Update([H EXCEPT !.todo = Tail(@), !.of = H.uri, !.text = docs[H.uri]])
            /\ UNCHANGED running
    /\ UNCHANGED <<docs, changes, foreign_diags, shown, client>>

(* lowering_diagnostics: the compile runs on another thread. *)
Lower ==
    /\ AtStage("lower")
    /\ Update([H EXCEPT !.at = "compile"])
    /\ running' = 0
    /\ UNCHANGED <<docs, changes, foreign_diags, shown, client>>

(* Mutant: the claims are dropped and nothing is cleared. *)
ReleaseSilently ==
    /\ AtStage("release")
    /\ foreign_diags' = [foreign_diags EXCEPT ![H.uri] = {}]
    /\ Update([H EXCEPT !.todo = Tail(@)])
    /\ UNCHANGED <<docs, changes, running, shown, client>>

(* release_foreign_diags, up to its first publish. *)
Release ==
    /\ AtStage("release")
    /\ foreign_diags' = [foreign_diags EXCEPT ![H.uri] = {}]
    /\ LET stale == {f \in foreign_diags[H.uri] :
                       \A d \in Files : f \notin foreign_diags'[d]}
       IN  \E order \in Orders(stale) :
             Update([H EXCEPT !.todo = Tail(@), !.out = Messages(order, NoMarkers)])
    /\ UNCHANGED <<docs, changes, running, shown, client>>

(* A handler returns. *)
Return ==
    /\ running # 0
    /\ H.todo = <<>> /\ H.out = <<>> /\ H.others = {}
    /\ Leave
    /\ UNCHANGED <<docs, changes, foreign_diags, shown, client>>

(* A handler suspended at a publish goes on. *)
Resume(i) ==
    /\ running = 0
    /\ handlers[i].at = "run"
    /\ running' = i
    /\ UNCHANGED <<docs, changes, foreign_diags, handlers, shown, client>>

(* did_change's wait ends; equal waits end in the order they began.  The
   handler goes on only if its count is still the newest, else it returns. *)
StillNewest(i) == changes[handlers[i].uri].count = handlers[i].generation

Wake(i) ==
    /\ running = 0
    /\ handlers[i].at = "wait"
    /\ \A j \in 1 .. i - 1 : handlers[j].at # "wait"
    /\ IF StillNewest(i)
       THEN /\ handlers' = [handlers EXCEPT ![i].at = "run"]
            /\ running' = i
       ELSE /\ handlers' = RemoveAt(handlers, i)
            /\ UNCHANGED running
    /\ Begins
    /\ UNCHANGED <<docs, changes, foreign_diags, shown, inputs>>

(* The compile, on its own thread: it reads every import from disk. *)
Compile(i) ==
    /\ handlers[i].at = "compile"
    /\ handlers' = [handlers EXCEPT
         ![i].at = "compiled", ![i].lowered = ForeignMarkers(handlers[i].of, disk, NoText)]
    /\ UNCHANGED <<docs, changes, foreign_diags, running, shown, client>>

(* did_save goes on: what the compile found in imports that are not open joins
   the markers of the analysis. *)
Compiled(i) ==
    /\ running = 0
    /\ handlers[i].at = "compiled"
    /\ running' = i
    /\ LET h == handlers[i]
           found == [f \in Files |-> IF h.foreign[f] = Cleared /\ docs[f] = None
                                     THEN h.lowered[f] ELSE h.foreign[f]]
       IN  handlers' = [handlers EXCEPT
             ![i] = [h EXCEPT !.at = "run", !.todo = Tail(@), !.foreign = found,
                              !.lowered = NoMarkers]]
    /\ Steady(DOMAIN handlers \ {i})
    /\ UNCHANGED <<docs, changes, foreign_diags, shown, inputs, calm>>

-----------------------------------------------------------------------------
Message ==
    \E f \in Files : Open(f) \/ Change(f) \/ Save(f) \/ Close(f) \/ DiskChange(f)

OnTask ==
    \/ Analyze \/ Claim \/ Publish \/ Others \/ NextOther
    \/ Source \/ Lower \/ Release \/ Return

Suspended == \E i \in 1 .. Len(handlers) : Resume(i) \/ Wake(i) \/ Compile(i) \/ Compiled(i)

(* The client has no more to say. *)
Quiet == handlers = <<>>

Next == Message \/ OnTask \/ Suspended \/ (Quiet /\ UNCHANGED vars)

Spec == Init /\ [][Next]_vars /\ WF_vars(OnTask \/ Suspended)

-----------------------------------------------------------------------------
(* Safety. *)

Texts == 0 .. MaxText
Markers == [by : Files \union {"none"}, text : Texts, saw : [Files -> Texts]]
Publishes == [file : Files, markers : Markers]

Pending == [uri : Files, of : Files, text : Texts, generation : Nat,
            at : {"run", "wait", "compile", "compiled"}, todo : Seq(Stages),
            others : SUBSET [file : Files, text : Texts], own : Markers,
            foreign : [Files -> Markers], lowered : [Files -> Markers],
            out : Seq(Publishes)]

TypeOK ==
    /\ docs \in [Files -> Texts]
    /\ changes \in [Files -> [count : Nat, text : Texts]]
    /\ foreign_diags \in [Files -> SUBSET Files]
    /\ handlers \in Seq(Pending)
    /\ running \in 0 .. Len(handlers)
    /\ shown \in [Files -> Markers]
    /\ buffer \in [Files -> Texts]
    /\ disk \in [Files -> Texts \ {None}]
    /\ newest \in Texts
    /\ sent \in 0 .. MaxMessages
    /\ {steady, calm} \subseteq BOOLEAN

(* The text of a file now: the open buffer, else the disk. *)
Current(f) == IF buffer[f] # None THEN buffer[f] ELSE disk[f]

Reports(d, f) == buffer[d] # None /\ f \in Imports[d]

(* An open file shows its own markers, of its newest text and the newest texts
   of what it imports. *)
OpenShown(f) ==
    /\ shown[f].by = f
    /\ shown[f].text = buffer[f]
    /\ \A i \in Imports[f] : shown[f].saw[i] = Current(i)

(* A file that is not open shows markers only of its text on disk, and exactly
   when that text has problems and an open file imports it. *)
ClosedShown(f) ==
    IF disk[f] \in BadTexts /\ \E d \in Files : Reports(d, f)
    THEN shown[f].by # f /\ shown[f].text = disk[f]
    ELSE shown[f] = Cleared

(* The own markers an open file shows are of its newest text and the newest
   texts of what it imports, whatever was opened, changed, closed or written in
   whatever order (did_change, reanalyze_other_docs). *)
OwnFresh ==
    Quiet /\ calm => \A f \in Files : buffer[f] # None /\ shown[f].by = f => OpenShown(f)

(* A file nobody has open shows exactly the problems of its text on disk, and
   only while an open file imports it: none is missing and none is left behind
   (publish_split, release_foreign_diags, did_close). *)
ClosedRight == Quiet /\ calm => \A f \in Files : buffer[f] = None => ClosedShown(f)

(* A closed file's own markers are gone once its handlers are done (the
   comment in did_close). *)
ClosedClear ==
    Quiet => \A f \in Files : buffer[f] = None => shown[f].by # f

(* A marker in a file nobody has open is claimed by a document that reports
   it, which is what retracts it later (the comment on foreign_diags). *)
ForeignClaimed ==
    steady /\ running = 0 /\ (\A i \in DOMAIN handlers : handlers[i].at # "run") =>
      \A f \in Files :
        shown[f].by \notin {f, "none"} => \E d \in Files : f \in foreign_diags[d]

(* The markers of files nobody has open, and the claims that will retract them. *)
MarkersRight == TypeOK /\ ClosedRight /\ ForeignClaimed

(* An analysis reads the newest text of every import, even one whose change
   still waits (the comment on Backend.changes). *)
AnalyzesNewest ==
    steady /\ Analyze =>
      \A i \in Imports[H.of] : handlers'[running].own.saw[i] = Current(i)

ReadsNewest == [][AnalyzesNewest]_vars

-----------------------------------------------------------------------------
(* Liveness. *)

(* The server catches up: in the end every open document has been analysed
   with the text its client holds, and no closed one counts as open. *)
Agrees == \A f \in Files : docs[f] = buffer[f]

CatchesUp == <>[](steady => Agrees)

(* The newest change of a document is analysed, unless a newer one or a close
   comes first: no burst ends with its last text dropped (did_change). *)
NewestAnalysed ==
    \A f \in Files : \A t \in 1 .. MaxText :
      changes[f].text = t ~> docs[f] = t \/ changes[f].text # t
=============================================================================

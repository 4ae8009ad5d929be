-------------------------- MODULE LspServerProofs --------------------------
(***************************************************************************)
(* What the editor is shown, proved for any files, imports, texts and      *)
(* number of messages: an analysis reads the newest texts, and once the    *)
(* handlers are done every marker shown is of the newest text and is       *)
(* claimed by a document that will retract it.                             *)
(*                                                                         *)
(* While nothing goes on at a suspended publish (`steady`), one handler at *)
(* a time has begun and not waits, and the server's documents agree with   *)
(* the client's but for the one that handler opens.  While nothing begins  *)
(* during a compile either (`calm`), whatever is shown and not right is    *)
(* still to be published: by that handler, or by one that waits.           *)
(***************************************************************************)
EXTENDS LspServer, FiniteSetTheorems, SequenceTheorems, TLAPS

(* The stages a handler may have left. *)
SaveSource  == <<"source", "analyze", "lower", "claim">>
SaveAnalyze == <<"analyze", "lower", "claim">>
SaveLower   == <<"lower", "claim">>
OpenClaim   == <<"claim", "others">>
JustOthers  == <<"others">>
LoopAnalyze == <<"analyze", "claim">>
LastClaim   == <<"claim">>
LoopInSave  == <<"analyze", "claim", "source", "analyze", "lower", "claim">>
ClaimInSave == <<"claim", "source", "analyze", "lower", "claim">>

AtAnalyze == {AfterOpen, LoopAnalyze, LoopInSave, SaveAnalyze}
AtClaim   == {OpenClaim, LastClaim, ClaimInSave}
Analysed  == AtClaim \union {SaveLower}
ToOthers  == {AfterOpen, OpenClaim, JustOthers, AfterSave, AfterClose}
Looping   == {<<>>, SaveSource, LoopAnalyze, LastClaim, LoopInSave, ClaimInSave}
Plans     == AtAnalyze \union Analysed \union ToOthers \union Looping

Form(h) ==
    /\ h.todo \in Plans
    /\ h.at = "wait" => /\ h.todo = AfterOpen /\ h.of = h.uri
                        /\ h.generation > 0 /\ h.text # None
    /\ h.at \in {"compile", "compiled"} => h.todo = SaveLower
    /\ h.at # "run" => h.others = {} /\ h.out = <<>>
    /\ h.others # {} => h.todo \in Looping
    /\ h.todo \in Analysed =>
          h.own.by = h.of /\ \A f \in Marked(h.foreign) : f # h.of /\ h.foreign[f].by = h.of
    /\ \A f \in Marked(h.lowered) : h.at = "compiled" /\ f # h.of /\ h.lowered[f].by = h.of

(* Handler `i` waits with the newest change of `f`. *)
Holds(i, f) ==
    /\ handlers[i].at = "wait" /\ handlers[i].uri = f
    /\ handlers[i].generation = changes[f].count
    /\ handlers[i].text = changes[f].text

(* One that would go on but holds an older text (a close or an open began the
   counts anew) is followed by one that holds the newest. *)
Followed(i) ==
    handlers[i].at = "wait" /\ StillNewest(i) =>
      \E j \in i .. Len(handlers) : Holds(j, handlers[i].uri)

Forms ==
    /\ \A i \in 1 .. Len(handlers) : Form(handlers[i])
    /\ \A i \in 1 .. Len(handlers) : Followed(i)
    /\ running # 0 => handlers[running].at = "run"
    /\ \A f \in Files : changes[f].count > 0 =>
          changes[f].text = buffer[f] /\ buffer[f] # None

-----------------------------------------------------------------------------
(* While nothing goes on at a suspended publish. *)

(* Handler `i` has begun, and neither waits nor compiles. *)
Runs(i) == i \in 1 .. Len(handlers) /\ handlers[i].at = "run"

OneRuns == \A i, j : Runs(i) /\ Runs(j) => i = j

(* The work of a handler, and that of none. *)
NoWork == [uri |-> "none", of |-> "none", text |-> None, todo |-> <<>>, others |-> {},
           own |-> Cleared, foreign |-> NoMarkers, lowered |-> NoMarkers, out |-> <<>>]

(* A text to analyse `f` with that is its newest or is about to be replaced. *)
Serves(f, text) ==
    /\ buffer[f] # None
    /\ text # None
    /\ changes[f].count = 0 => text = buffer[f]

Opens(h, f) == h.todo = AfterOpen /\ h.of = f

(* The documents agree with the client's, but for the one being opened. *)
Agree(h) ==
    /\ \A f \in Files : docs[f] # None => Serves(f, docs[f])
    /\ \A f \in Files : docs[f] = None /\ buffer[f] # None => Opens(h, f)
    /\ h.todo \in AtAnalyze => Serves(h.of, h.text)
    /\ \A o \in h.others : Serves(o.file, o.text)

Claimed(f) == \E d \in Files : f \in foreign_diags[d]

(* A marker of another document's analysis. *)
Foreign(f, markers) == markers.by \notin {f, "none"}

Queued(h, f) == \E k \in 1 .. Len(h.out) : h.out[k].file = f

(* What is shown in another file is claimed or about to be replaced. *)
Answered(h) ==
    /\ \A k \in 1 .. Len(h.out) :
          Foreign(h.out[k].file, h.out[k].markers) => Claimed(h.out[k].file)
    /\ \A f \in Files : Foreign(f, shown[f]) => Claimed(f) \/ Queued(h, f)

SteadyInv ==
    steady =>
      /\ OneRuns
      /\ \A i : Runs(i) => Agree(handlers[i]) /\ Answered(handlers[i])
      /\ (\A i : ~ Runs(i)) => Agree(NoWork) /\ Answered(NoWork)

-----------------------------------------------------------------------------
(* While, besides, nothing begins during a compile. *)

Works(i) == i \in 1 .. Len(handlers) /\ handlers[i].at # "wait"

OneWorks == \A i, j : Works(i) /\ Works(j) => i = j

(* The newest change of `f` waits. *)
Due(f) == \E i \in 1 .. Len(handlers) : Holds(i, f)

Fresh(f, markers) ==
    markers.by = f =>
        /\ buffer[f] # None
        /\ markers.text = buffer[f]
        /\ \A i \in Imports[f] : markers.saw[i] = Current(i)

(* `h` is to analyse `f` or to claim what its analysis found. *)
Analyses(h, f) ==
    \/ h.of = f /\ h.todo \in AtAnalyze \union Analysed
    \/ \E o \in h.others : o.file = f
    \/ h.todo \in ToOthers /\ h.uri \in Imports[f] /\ buffer[f] # None

(* What an open file shows of itself is fresh, or a handler will see to it. *)
OwnRight(h) ==
    /\ \A f \in Files : docs[f] # None => docs[f] = buffer[f] \/ Due(f) \/ Opens(h, f)
    /\ h.todo \in AtAnalyze => h.text = buffer[h.of] \/ Due(h.of)
    /\ h.todo \in AtAnalyze \union Analysed => buffer[h.of] # None
    /\ h.todo \in Analysed => Fresh(h.of, h.own) \/ Due(h.of)
    /\ \A o \in h.others : o.text = buffer[o.file] /\ buffer[o.file] # None
    /\ \A k \in 1 .. Len(h.out) :
          \/ Fresh(h.out[k].file, h.out[k].markers)
          \/ buffer[h.out[k].file] # None /\ Due(h.out[k].file)
    /\ \A f \in Files : buffer[f] # None =>
          \/ Fresh(f, shown[f])
          \/ \E g \in Imports[f] \union {f} : Due(g)
          \/ Queued(h, f)
          \/ Analyses(h, f)

(* The imports a document reports problems in. *)
Wanted(d) == {f \in Imports[d] : buffer[d] # None /\ buffer[f] = None /\ disk[f] \in BadTexts}

(* `h` is to set what `d` claims. *)
Claims(h, d) == Analyses(h, d) \/ (h.todo = AfterClose /\ h.uri = d)

(* Markers for the file `f`, which nobody has open. *)
Reported(f, markers) == Foreign(f, markers) /\ markers.text = disk[f] /\ Claimed(f)
Dropped(f, markers)  == markers = Cleared /\ ~ Claimed(f)

(* What a file nobody has open shows is right, or `h` will see to it. *)
ForeignRight(h) ==
    /\ \A d \in Files : foreign_diags[d] = Wanted(d) \/ Claims(h, d)
    /\ h.todo \in Analysed =>
          /\ Marked(h.foreign) = Wanted(h.of)
          /\ \A f \in Marked(h.foreign) : h.foreign[f].text = disk[f]
    /\ h.todo = AfterClose => buffer[h.uri] = None
    /\ \A f \in Marked(h.lowered) : f \in Imports[h.of] /\ disk[f] \in BadTexts
    /\ \A k \in 1 .. Len(h.out) :
          buffer[h.out[k].file] = None =>
             \/ Reported(h.out[k].file, h.out[k].markers)
             \/ Dropped(h.out[k].file, h.out[k].markers)
    /\ \A f \in Files : buffer[f] = None => Claimed(f) \/ shown[f] = Cleared \/ Queued(h, f)
    /\ \A f, d \in Files : buffer[f] = None /\ f \in foreign_diags[d] =>
          \/ shown[f].by # f /\ shown[f].text = disk[f]
          \/ Queued(h, f)
          \/ Claims(h, d)

CalmInv ==
    calm =>
      /\ steady
      /\ OneWorks
      /\ \A i : Works(i) => OwnRight(handlers[i]) /\ ForeignRight(handlers[i])
      /\ (\A i : ~ Works(i)) => OwnRight(NoWork) /\ ForeignRight(NoWork)

IInv == TypeOK /\ Forms /\ SteadyInv /\ CalmInv

-----------------------------------------------------------------------------
(* The stages. *)

LEMMA StageTypes ==
    ASSUME NEW t \in Plans PROVE t \in Seq(Stages)
<1>1. {"analyze", "claim", "others", "source", "lower", "release"} = Stages
  BY DEF Stages
<1>2. AfterOpen \in Seq(Stages) /\ OpenClaim \in Seq(Stages) /\ JustOthers \in Seq(Stages)
  BY <1>1 DEF AfterOpen, OpenClaim, JustOthers
<1>3. LoopAnalyze \in Seq(Stages) /\ LastClaim \in Seq(Stages) /\ <<>> \in Seq(Stages)
  BY <1>1 DEF LoopAnalyze, LastClaim
<1>4. AfterClose \in Seq(Stages) /\ SaveLower \in Seq(Stages) /\ SaveAnalyze \in Seq(Stages)
  BY <1>1 DEF AfterClose, SaveLower, SaveAnalyze
<1>5. SaveSource \in Seq(Stages)
  BY <1>1 DEF SaveSource
<1>6. AfterSave \in Seq(Stages)
  BY <1>1 DEF AfterSave
<1>7. ClaimInSave \in Seq(Stages)
  BY <1>1 DEF ClaimInSave
<1>8. LoopInSave \in Seq(Stages)
  BY <1>1 DEF LoopInSave
<1> QED
  BY <1>2, <1>3, <1>4, <1>5, <1>6, <1>7, <1>8
     DEF Plans, AtAnalyze, AtClaim, Analysed, ToOthers, Looping

LEMMA Heads ==
    /\ AfterOpen # <<>> /\ Head(AfterOpen) = "analyze" /\ Tail(AfterOpen) = OpenClaim
    /\ LoopAnalyze # <<>> /\ Head(LoopAnalyze) = "analyze" /\ Tail(LoopAnalyze) = LastClaim
    /\ LoopInSave # <<>> /\ Head(LoopInSave) = "analyze" /\ Tail(LoopInSave) = ClaimInSave
    /\ SaveAnalyze # <<>> /\ Head(SaveAnalyze) = "analyze" /\ Tail(SaveAnalyze) = SaveLower
    /\ OpenClaim # <<>> /\ Head(OpenClaim) = "claim" /\ Tail(OpenClaim) = JustOthers
    /\ LastClaim # <<>> /\ Head(LastClaim) = "claim" /\ Tail(LastClaim) = <<>>
    /\ ClaimInSave # <<>> /\ Head(ClaimInSave) = "claim" /\ Tail(ClaimInSave) = SaveSource
    /\ SaveLower # <<>> /\ Head(SaveLower) = "lower" /\ Tail(SaveLower) = LastClaim
    /\ JustOthers # <<>> /\ Head(JustOthers) = "others" /\ Tail(JustOthers) = <<>>
    /\ AfterSave # <<>> /\ Head(AfterSave) = "others" /\ Tail(AfterSave) = SaveSource
    /\ SaveSource # <<>> /\ Head(SaveSource) = "source" /\ Tail(SaveSource) = SaveAnalyze
    /\ AfterClose # <<>> /\ Head(AfterClose) = "release" /\ Tail(AfterClose) = JustOthers
BY DEF AfterOpen, AfterSave, AfterClose, SaveSource, SaveAnalyze, SaveLower, OpenClaim,
   JustOthers, LoopAnalyze, LastClaim, LoopInSave, ClaimInSave

(* Stages that are left differ in what is left first or after it. *)
LEMMA PlansDiffer ==
    /\ SaveSource # <<>> /\ SaveSource # JustOthers
    /\ JustOthers # <<>>
    /\ SaveLower # <<>> /\ SaveLower # JustOthers
    /\ LastClaim # OpenClaim /\ ClaimInSave # OpenClaim
    /\ LoopAnalyze # AfterOpen /\ LoopInSave # AfterOpen /\ SaveAnalyze # AfterOpen
    /\ SaveAnalyze # LoopAnalyze /\ SaveAnalyze # LoopInSave
BY DEF AfterOpen, AfterSave, AfterClose, SaveSource, SaveAnalyze, SaveLower, OpenClaim,
   JustOthers, LoopAnalyze, LastClaim, LoopInSave, ClaimInSave

LEMMA AnalyzeStage ==
    ASSUME NEW t \in Plans, t # <<>>, Head(t) = "analyze"
    PROVE  /\ t \in AtAnalyze /\ t \notin Analysed /\ t # AfterClose
           /\ Tail(t) \in Analysed /\ Tail(t) \notin AtAnalyze /\ Tail(t) \in Plans
           /\ t \in ToOthers => t = AfterOpen
           /\ t = AfterOpen => Tail(t) \in ToOthers
           /\ t \in Looping => Tail(t) \in Looping
           /\ Tail(t) # AfterClose
<1>1. t \in AtAnalyze
  BY Heads DEF Plans, AtAnalyze, AtClaim, Analysed, ToOthers, Looping
<1>2. t \notin Analysed /\ t # AfterClose
  BY Heads DEF AtClaim, Analysed
<1>3. Tail(t) \in {OpenClaim, LastClaim, ClaimInSave, SaveLower}
  BY <1>1, Heads DEF AtAnalyze
<1>4. Tail(t) \notin AtAnalyze /\ Tail(t) # AfterClose
  BY <1>3, Heads DEF AtAnalyze
<1>5. t \in ToOthers => t = AfterOpen
  BY Heads DEF ToOthers
<1>6. t \in Looping => Tail(t) \in Looping
  BY Heads DEF Looping
<1> QED
  BY <1>1, <1>2, <1>3, <1>4, <1>5, <1>6, Heads DEF Plans, AtClaim, Analysed, ToOthers

LEMMA ClaimStage ==
    ASSUME NEW t \in Plans, t # <<>>, Head(t) = "claim"
    PROVE  /\ t \in Analysed /\ t \notin AtAnalyze /\ t # AfterClose /\ t # AfterOpen
           /\ Tail(t) \notin Analysed \union AtAnalyze /\ Tail(t) \in Plans
           /\ t \in ToOthers => Tail(t) \in ToOthers
           /\ t \in Looping => Tail(t) \in Looping
           /\ Tail(t) # AfterClose
<1>1. t \in AtClaim
  BY Heads DEF Plans, AtAnalyze, AtClaim, Analysed, ToOthers, Looping
<1>2. t \notin AtAnalyze /\ t # AfterClose /\ t # AfterOpen
  BY Heads DEF AtAnalyze
<1>3. Tail(t) \in {JustOthers, <<>>, SaveSource}
  BY <1>1, Heads DEF AtClaim
<1>4. Tail(t) \notin Analysed \union AtAnalyze /\ Tail(t) # AfterClose
  BY <1>3, Heads DEF AtAnalyze, AtClaim, Analysed
<1>5. t \in ToOthers => Tail(t) \in ToOthers
  BY Heads DEF ToOthers
<1>6. t \in Looping => Tail(t) \in Looping
  BY Heads DEF Looping
<1> QED
  BY <1>1, <1>2, <1>3, <1>4, <1>5, <1>6 DEF Plans, Analysed, Looping, ToOthers

LEMMA OthersStage ==
    ASSUME NEW t \in Plans, t # <<>>, Head(t) = "others"
    PROVE  /\ t \notin AtAnalyze \union Analysed /\ t # AfterClose /\ t # AfterOpen
           /\ t \in {JustOthers, AfterSave}
           /\ Tail(t) \in {<<>>, SaveSource}
<1>1. t \in {JustOthers, AfterSave}
  BY Heads DEF Plans, AtAnalyze, AtClaim, Analysed, ToOthers, Looping
<1> QED
  BY <1>1, Heads DEF AtAnalyze, AtClaim, Analysed

(* Where a loop over the other documents begins and ends. *)
LEMMA LoopStages ==
    /\ <<>> \in Plans \cap Looping /\ SaveSource \in Plans \cap Looping
    /\ {<<>>, SaveSource} \cap (AtAnalyze \union Analysed \union ToOthers) = {}
    /\ <<"analyze", "claim">> \o <<>> = LoopAnalyze
    /\ <<"analyze", "claim">> \o SaveSource = LoopInSave
    /\ {LoopAnalyze, LoopInSave} \subseteq AtAnalyze \cap Plans \cap Looping
    /\ {LoopAnalyze, LoopInSave} \cap (Analysed \union ToOthers) = {}
    /\ AfterOpen \notin {LoopAnalyze, LoopInSave, SaveAnalyze}
<1>1. <<>> \in Plans \cap Looping /\ SaveSource \in Plans \cap Looping
  BY DEF Plans, Looping
<1>2. {<<>>, SaveSource} \cap (AtAnalyze \union Analysed \union ToOthers) = {}
  BY Heads DEF AtAnalyze, AtClaim, Analysed, ToOthers
<1>3. <<"analyze", "claim">> \o <<>> = LoopAnalyze
  BY DEF LoopAnalyze
<1>4. <<"analyze", "claim">> \o SaveSource = LoopInSave
  <2> DEFINE s == SaveSource
  <2> DEFINE v == <<"analyze", "claim">>
  <2> DEFINE u == v \o s
  <2>1. /\ s \in Seq(Stages) /\ Len(s) = 4
        /\ s[1] = "source" /\ s[2] = "analyze" /\ s[3] = "lower" /\ s[4] = "claim"
    BY StageTypes DEF SaveSource, Plans, Looping
  <2>2. v \in Seq(Stages) /\ Len(v) = 2 /\ v[1] = "analyze" /\ v[2] = "claim"
    BY DEF Stages
  <2> HIDE DEF s, v
  <2>3. /\ u \in Seq(Stages) /\ Len(u) = 6
        /\ u[1] = "analyze" /\ u[2] = "claim"
        /\ u[3] = s[1] /\ u[4] = s[2] /\ u[5] = s[3] /\ u[6] = s[4]
    <3>1. u \in Seq(Stages) /\ Len(u) = Len(v) + Len(s)
      BY <2>1, <2>2, ConcatProperties
    <3>2. \A i \in 1 .. Len(v) + Len(s) : u[i] = IF i <= Len(v) THEN v[i] ELSE s[i - Len(v)]
      BY <2>1, <2>2, ConcatProperties
    <3>3. Len(u) = 6
      BY <2>1, <2>2, <3>1
    <3> HIDE DEF u
    <3>4. \A i \in 1 .. 6 : u[i] = IF i <= 2 THEN v[i] ELSE s[i - 2]
      BY <2>1, <2>2, <3>2
    <3>5. u[1] = v[1] /\ u[2] = v[2]
      BY <3>4
    <3>6. u[3] = s[1] /\ u[4] = s[2]
      BY <3>4
    <3>7. u[5] = s[3] /\ u[6] = s[4]
      BY <3>4
    <3> QED
      BY <2>2, <3>1, <3>3, <3>5, <3>6, <3>7
  <2>4. /\ LoopInSave \in Seq(Stages) /\ Len(LoopInSave) = 6
        /\ LoopInSave[1] = "analyze" /\ LoopInSave[2] = "claim" /\ LoopInSave[3] = "source"
        /\ LoopInSave[4] = "analyze" /\ LoopInSave[5] = "lower" /\ LoopInSave[6] = "claim"
    BY StageTypes DEF LoopInSave, Plans, Looping
  <2> HIDE DEF u
  <2>5. \A i \in 1 .. 6 : i = 1 \/ i = 2 \/ i = 3 \/ i = 4 \/ i = 5 \/ i = 6
    OBVIOUS
  <2>6. \A i \in 1 .. Len(u) : u[i] = LoopInSave[i]
    BY <2>1, <2>3, <2>4, <2>5
  <2>7. u = LoopInSave
    BY <2>3, <2>4, <2>6, SeqEqual
  <2> QED
    BY <2>7 DEF u, v, s
<1>5. {LoopAnalyze, LoopInSave} \subseteq AtAnalyze \cap Plans \cap Looping
  BY DEF Plans, Looping, AtAnalyze
<1>6. {LoopAnalyze, LoopInSave} \cap (Analysed \union ToOthers) = {}
  BY Heads, PlansDiffer DEF AtClaim, Analysed, ToOthers
<1> QED
  BY <1>1, <1>2, <1>3, <1>4, <1>5, <1>6, PlansDiffer

LEMMA LoopNext ==
    ASSUME NEW t \in Looping, t # <<>> => Head(t) \notin {"analyze", "claim"}
    PROVE  t \in {<<>>, SaveSource}
BY Heads DEF Looping

LEMMA OtherStages ==
    /\ AfterOpen \in AtAnalyze \cap ToOthers \cap Plans /\ AfterOpen # AfterClose
    /\ AfterOpen \notin Analysed \union Looping
    /\ JustOthers \in ToOthers \cap Plans
    /\ JustOthers \notin AtAnalyze \union Analysed \union Looping \union {AfterClose}
    /\ AfterSave \in ToOthers \cap Plans
    /\ AfterSave \notin AtAnalyze \union Analysed \union Looping \union {AfterClose}
    /\ AfterClose \in ToOthers \cap Plans
    /\ AfterClose \notin AtAnalyze \union Analysed \union Looping
    /\ SaveAnalyze \in AtAnalyze \cap Plans
    /\ SaveAnalyze \notin Analysed \union Looping \union ToOthers \union {AfterClose}
    /\ SaveLower \in Analysed \cap Plans
    /\ SaveLower \notin AtAnalyze \union Looping \union ToOthers \union {AfterClose}
    /\ LastClaim \in Analysed \cap Plans
    /\ LastClaim \notin AtAnalyze \union ToOthers \union {AfterClose}
<1>1. /\ AfterOpen \in AtAnalyze \cap ToOthers \cap Plans
      /\ JustOthers \in ToOthers \cap Plans /\ AfterSave \in ToOthers \cap Plans
      /\ AfterClose \in ToOthers \cap Plans /\ SaveAnalyze \in AtAnalyze \cap Plans
      /\ SaveLower \in Analysed \cap Plans /\ LastClaim \in Analysed \cap Plans
  BY DEF Plans, AtAnalyze, AtClaim, Analysed, ToOthers
<1>2. /\ AfterOpen \notin Analysed \union Looping /\ AfterOpen # AfterClose
  BY Heads, PlansDiffer DEF AtClaim, Analysed, Looping
<1>3. JustOthers \notin AtAnalyze \union Analysed \union Looping \union {AfterClose}
  BY Heads DEF AtAnalyze, AtClaim, Analysed, Looping
<1>4. AfterSave \notin AtAnalyze \union Analysed \union Looping \union {AfterClose}
  BY Heads DEF AtAnalyze, AtClaim, Analysed, Looping
<1>5. AfterClose \notin AtAnalyze \union Analysed \union Looping
  BY Heads DEF AtAnalyze, AtClaim, Analysed, Looping
<1>6. SaveAnalyze \notin Analysed \union Looping \union ToOthers \union {AfterClose}
  BY Heads, PlansDiffer DEF AtClaim, Analysed, Looping, ToOthers
<1>7. SaveLower \notin AtAnalyze \union Looping \union ToOthers \union {AfterClose}
  BY Heads DEF AtAnalyze, Looping, ToOthers
<1>8. LastClaim \notin AtAnalyze \union ToOthers \union {AfterClose}
  BY Heads, PlansDiffer DEF AtAnalyze, ToOthers
<1> QED
  BY <1>1, <1>2, <1>3, <1>4, <1>5, <1>6, <1>7, <1>8

LEMMA StagesAt ==
    ASSUME NEW t \in Plans, t # <<>>
    PROVE  /\ Head(t) = "source" => t = SaveSource /\ Tail(t) = SaveAnalyze
           /\ Head(t) = "lower" => t = SaveLower /\ Tail(t) = LastClaim
           /\ Head(t) = "release" => t = AfterClose /\ Tail(t) = JustOthers
BY Heads DEF Plans, AtAnalyze, AtClaim, Analysed, ToOthers, Looping

-----------------------------------------------------------------------------
(* How the list of handlers changes. *)

LEMMA Appended ==
    ASSUME NEW hs \in Seq(Pending), NEW g \in Pending, NEW hs2, hs2 = Append(hs, g)
    PROVE  /\ hs2 \in Seq(Pending) /\ Len(hs) \in Nat /\ Len(hs2) = Len(hs) + 1
           /\ hs2[Len(hs) + 1] = g
           /\ \A i \in 1 .. Len(hs) : hs2[i] = hs[i]
           /\ \A i \in 1 .. Len(hs2) : i \in 1 .. Len(hs) \/ i = Len(hs) + 1
OBVIOUS

LEMMA Replaced ==
    ASSUME NEW hs \in Seq(Pending), NEW r \in 1 .. Len(hs), NEW g \in Pending,
           NEW hs2, hs2 = [hs EXCEPT ![r] = g]
    PROVE  /\ hs2 \in Seq(Pending) /\ Len(hs2) = Len(hs) /\ hs2[r] = g
           /\ \A i \in 1 .. Len(hs) : i # r => hs2[i] = hs[i]
OBVIOUS

LEMMA Removed ==
    ASSUME NEW hs \in Seq(Pending), NEW r \in 1 .. Len(hs), NEW hs2, hs2 = RemoveAt(hs, r)
    PROVE  /\ hs2 \in Seq(Pending) /\ Len(hs) \in Nat /\ Len(hs2) = Len(hs) - 1
           /\ \A i \in 1 .. Len(hs2) :
                 hs2[i] = hs[IF i < r THEN i ELSE i + 1]
           /\ \A j \in 1 .. Len(hs) : j # r =>
                 /\ (IF j < r THEN j ELSE j - 1) \in 1 .. Len(hs2)
                 /\ hs2[IF j < r THEN j ELSE j - 1] = hs[j]
<1> DEFINE n == Len(hs)
<1> DEFINE a == SubSeq(hs, 1, r - 1)
<1> DEFINE b == SubSeq(hs, r + 1, n)
<1>1. n \in Nat /\ r \in 1 .. n /\ \A i \in 1 .. n : hs[i] \in Pending
  OBVIOUS
<1>2. /\ a \in Seq(Pending)
      /\ Len(a) = IF 1 <= r - 1 THEN r - 1 - 1 + 1 ELSE 0
      /\ \A i \in 1 .. r - 1 - 1 + 1 : a[i] = hs[1 + i - 1]
  <2>1. \A i \in 1 .. r - 1 : hs[i] \in Pending
    BY <1>1
  <2> QED
    BY <1>1, <2>1, SubSeqProperties
<1>3. /\ b \in Seq(Pending)
      /\ Len(b) = IF r + 1 <= n THEN n - (r + 1) + 1 ELSE 0
      /\ \A i \in 1 .. n - (r + 1) + 1 : b[i] = hs[r + 1 + i - 1]
  <2>1. \A i \in r + 1 .. n : hs[i] \in Pending
    BY <1>1
  <2> QED
    BY <1>1, <2>1, SubSeqProperties
<1>4. hs2 = a \o b
  BY DEF RemoveAt
<1> HIDE DEF a, b, n
<1>5. /\ Len(a) = r - 1 /\ \A i \in 1 .. r - 1 : a[i] = hs[i]
      /\ Len(b) = n - r /\ \A i \in 1 .. n - r : b[i] = hs[r + i]
  BY <1>1, <1>2, <1>3
<1>a. a \in Seq(Pending) /\ b \in Seq(Pending)
  BY <1>2, <1>3
<1>b. /\ a \o b \in Seq(Pending) /\ Len(a \o b) = Len(a) + Len(b)
      /\ \A i \in 1 .. Len(a) + Len(b) : (a \o b)[i] = IF i <= Len(a) THEN a[i] ELSE b[i - Len(a)]
  BY ONLY <1>a, ConcatProperties
<1>6. /\ hs2 \in Seq(Pending) /\ Len(hs2) = Len(a) + Len(b)
      /\ \A i \in 1 .. Len(a) + Len(b) : hs2[i] = IF i <= Len(a) THEN a[i] ELSE b[i - Len(a)]
  BY <1>4, <1>b
<1>7. Len(hs2) = n - 1
  BY <1>1, <1>5, <1>6
<1>8. ASSUME NEW i \in 1 .. Len(hs2) PROVE hs2[i] = hs[IF i < r THEN i ELSE i + 1]
  <2>1. CASE i < r
    BY <1>1, <1>5, <1>6, <1>7, <2>1
  <2>2. CASE ~ (i < r)
    <3>1. i - (r - 1) \in 1 .. n - r /\ r + (i - (r - 1)) = i + 1
      BY <1>1, <1>7, <2>2
    <3>2. hs2[i] = b[i - (r - 1)]
      BY <1>1, <1>5, <1>6, <1>7, <2>2
    <3> QED
      BY <1>5, <2>2, <3>1, <3>2
  <2> QED
    BY <2>1, <2>2
<1>9. ASSUME NEW j \in 1 .. n, j # r
      PROVE  /\ (IF j < r THEN j ELSE j - 1) \in 1 .. Len(hs2)
             /\ hs2[IF j < r THEN j ELSE j - 1] = hs[j]
  <2>1. CASE j < r
    <3>1. j \in 1 .. Len(hs2)
      BY <1>1, <1>7, <2>1
    <3>2. hs2[j] = hs[j]
      BY <1>8, <2>1, <3>1
    <3> QED
      BY <1>1, <2>1, <3>1, <3>2
  <2>2. CASE j > r
    <3>1. j - 1 \in 1 .. Len(hs2) /\ ~ (j - 1 < r) /\ j - 1 + 1 = j
      BY <1>1, <1>7, <2>2
    <3>2. hs2[j - 1] = hs[j]
      BY <1>8, <3>1
    <3> QED
      BY <1>1, <2>2, <3>1, <3>2
  <2> QED
    BY <1>1, <1>9, <2>1, <2>2
<1> QED
  BY <1>1, <1>6, <1>7, <1>8, <1>9 DEF n

(* The handler on the task. *)
LEMMA OnTaskNow ==
    ASSUME TypeOK, Forms, running # 0
    PROVE  /\ running \in 1 .. Len(handlers) /\ H \in Pending /\ Form(H)
           /\ H.at = "run" /\ Runs(running) /\ Works(running)
BY DEF TypeOK, Forms, H, Runs, Works

LEMMA HandlerNow ==
    ASSUME TypeOK, Forms, NEW i \in 1 .. Len(handlers)
    PROVE  handlers[i] \in Pending /\ Form(handlers[i])
BY DEF TypeOK, Forms

LEMMA MarkersTyped ==
    /\ None \in Texts /\ 1 \in Texts
    /\ Cleared \in Markers /\ NoMarkers \in [Files -> Markers]
    /\ \A of \in Files, text \in Texts :
          [by |-> of, text |-> text, saw |-> NoText] \in Markers
    /\ \A of \in Files, text \in Texts, saw \in [Files -> Texts] :
          [by |-> of, text |-> text, saw |-> saw] \in Markers
    /\ \A f \in Files, m \in Markers : [file |-> f, markers |-> m] \in Publishes
<1>1. None \in Texts /\ 1 \in Texts
  BY ServerAssumption DEF Texts, None
<1>2. NoText \in [Files -> Texts]
  BY <1>1 DEF NoText, None
<1>3. Cleared \in Markers
  BY <1>1, <1>2 DEF Cleared, Markers, None
<1>4. NoMarkers \in [Files -> Markers]
  BY <1>3 DEF NoMarkers
<1> QED
  BY <1>1, <1>2, <1>3, <1>4 DEF Markers, Publishes

LEMMA ForeignTyped ==
    ASSUME NEW of \in Files, NEW saw \in [Files -> Texts], NEW open
    PROVE  /\ ForeignMarkers(of, saw, open) \in [Files -> Markers]
           /\ \A f \in Files :
                 /\ f \in Marked(ForeignMarkers(of, saw, open)) <=>
                       f \in Imports[of] /\ open[f] = None /\ saw[f] \in BadTexts
                 /\ f \in Marked(ForeignMarkers(of, saw, open)) =>
                       /\ ForeignMarkers(of, saw, open)[f].by = of
                       /\ ForeignMarkers(of, saw, open)[f].text = saw[f]
           /\ \A f \in Marked(ForeignMarkers(of, saw, open)) : f \in Files /\ f # of
<1> DEFINE m == ForeignMarkers(of, saw, open)
<1>1. of # "none" /\ of \notin Imports[of]
  BY ServerAssumption
<1>2. ASSUME NEW f \in Files
      PROVE  /\ m[f] \in Markers
             /\ f \in Marked(m) <=> f \in Imports[of] /\ open[f] = None /\ saw[f] \in BadTexts
             /\ f \in Marked(m) => m[f].by = of /\ m[f].text = saw[f]
  <2> DEFINE e == [by |-> of, text |-> saw[f], saw |-> NoText]
  <2>1. e.by = of /\ e.text = saw[f] /\ Cleared.by = "none"
    BY DEF Cleared
  <2>2. e \in Markers /\ Cleared \in Markers
    BY MarkersTyped
  <2>3. m[f] = IF f \in Imports[of] /\ open[f] = None /\ saw[f] \in BadTexts
               THEN e ELSE Cleared
    BY DEF ForeignMarkers
  <2>4. f \in Marked(m) <=> m[f] # Cleared
    BY DEF Marked
  <2> HIDE DEF e, m
  <2> QED
    BY <1>1, <2>1, <2>2, <2>3, <2>4
<1>3. m \in [Files -> Markers]
  BY <1>2 DEF ForeignMarkers
<1>4. Marked(m) \subseteq Files
  BY DEF Marked
<1> QED
  BY <1>1, <1>2, <1>3, <1>4

(* The messages for the files of a set, in some order. *)
LEMMA MessagesAre ==
    ASSUME NEW S \in SUBSET Files, NEW order \in Orders(S), NEW m \in [Files -> Markers]
    PROVE  /\ Messages(order, m) \in Seq(Publishes)
           /\ \A k \in 1 .. Len(Messages(order, m)) :
                 /\ Messages(order, m)[k].file \in S
                 /\ Messages(order, m)[k].markers = m[Messages(order, m)[k].file]
           /\ \A f \in S : \E k \in 1 .. Len(Messages(order, m)) : Messages(order, m)[k].file = f
<1> DEFINE n == Cardinality(S)
<1> DEFINE u == [k \in 1 .. n |-> [file |-> order[k], markers |-> m[order[k]]]]
<1>1. n \in Nat
  BY ServerAssumption, FS_Subset, FS_CardinalityType
<1>2. order \in [1 .. n -> S] /\ {order[k] : k \in 1 .. n} = S
  BY DEF Orders, Range
<1> HIDE DEF n
<1>3. \A k \in 1 .. n : order[k] \in S /\ order[k] \in Files /\ m[order[k]] \in Markers
  BY <1>2
<1>4. u \in [1 .. n -> Publishes]
  BY <1>3, MarkersTyped
<1>5. u \in Seq(Publishes) /\ Len(u) = n
  BY <1>1, <1>4
<1>6. Messages(order, m) = u
  BY <1>2 DEF Messages
<1>7. \A k \in 1 .. n : u[k].file = order[k] /\ u[k].markers = m[order[k]]
  OBVIOUS
<1> HIDE DEF u
<1>8. \A f \in S : \E k \in 1 .. n : order[k] = f
  BY <1>2
<1> QED
  BY <1>3, <1>5, <1>6, <1>7, <1>8

-----------------------------------------------------------------------------
(* The invariant, when the handler on the task goes on or leaves. *)

LEMMA NowRuns ==
    ASSUME IInv, running # 0
    PROVE  /\ steady => /\ \A i : Runs(i) <=> i = running
                        /\ Agree(H) /\ Answered(H)
           /\ calm => /\ steady /\ \A i : Works(i) <=> i = running
                      /\ OwnRight(H) /\ ForeignRight(H)
<1>1. Runs(running) /\ Works(running)
  BY OnTaskNow DEF IInv
<1>2. ASSUME steady
      PROVE  (\A i : Runs(i) <=> i = running) /\ Agree(H) /\ Answered(H)
  BY <1>1, <1>2 DEF IInv, SteadyInv, OneRuns, H
<1>3. ASSUME calm
      PROVE  /\ steady /\ \A i : Works(i) <=> i = running
             /\ OwnRight(H) /\ ForeignRight(H)
  BY <1>1, <1>3 DEF IInv, CalmInv, OneWorks, H
<1> QED
  BY <1>2, <1>3

LEMMA FormsInPlace ==
    ASSUME IInv, NEW r \in 1 .. Len(handlers), handlers[r].at # "wait",
           NEW g \in Pending, Form(g), g.at # "wait",
           handlers' = [handlers EXCEPT ![r] = g],
           running' # 0 => \/ running' = r /\ g.at = "run"
                           \/ running' = running /\ running # r,
           UNCHANGED <<changes, buffer>>
    PROVE  Forms'
<1>1. /\ Len(handlers') = Len(handlers) /\ handlers'[r] = g
      /\ \A i \in 1 .. Len(handlers) : i # r => handlers'[i] = handlers[i]
  BY Replaced DEF IInv, TypeOK
<1>2. \A i \in 1 .. Len(handlers) : Form(handlers[i])'
  BY <1>1 DEF IInv, Forms
<1>3. \A j \in 1 .. Len(handlers) : \A f : Holds(j, f)' <=> Holds(j, f)
  BY <1>1 DEF Holds
<1>4. \A i \in 1 .. Len(handlers) : Followed(i)'
  BY <1>1, <1>3 DEF IInv, Forms, Followed, StillNewest
<1>5. running' # 0 => handlers'[running'].at = "run"
  <2>1. running # 0 => running \in 1 .. Len(handlers) /\ handlers[running].at = "run"
    BY DEF IInv, TypeOK, Forms
  <2> QED
    BY <1>1, <2>1
<1> QED
  BY <1>1, <1>2, <1>4, <1>5 DEF IInv, Forms

LEMMA GoesOn ==
    ASSUME IInv, NEW r \in 1 .. Len(handlers), handlers[r].at # "wait",
           NEW g \in Pending, Form(g), g.at # "wait", g.at = "run" <=> handlers[r].at = "run",
           handlers' = [handlers EXCEPT ![r] = g],
           running' # 0 => running' = running /\ (running = r => g.at = "run"),
           UNCHANGED <<changes, buffer, steady, calm>>,
           steady /\ Runs(r) => Agree(g)' /\ Answered(g)',
           steady /\ ~ Runs(r) => UNCHANGED <<docs, shown, foreign_diags>>,
           calm => OwnRight(g)' /\ ForeignRight(g)'
    PROVE  Forms' /\ SteadyInv' /\ CalmInv' /\ handlers' \in Seq(Pending) /\ Len(handlers') = Len(handlers)
<1>1. /\ handlers' \in Seq(Pending) /\ Len(handlers') = Len(handlers) /\ handlers'[r] = g
      /\ \A i \in 1 .. Len(handlers) : i # r => handlers'[i] = handlers[i]
  BY Replaced DEF IInv, TypeOK
<1>2. Forms'
  BY FormsInPlace
<1>3. \A i : (Runs(i)' <=> Runs(i)) /\ (Works(i)' <=> Works(i))
  BY <1>1 DEF Runs, Works
<1>4. ASSUME steady PROVE SteadyInv'
  <2>1. OneRuns'
    BY <1>3, <1>4 DEF IInv, SteadyInv, OneRuns
  <2>2. CASE Runs(r)
    <3>1. \A i : Runs(i)' => i = r
      BY <1>3, <1>4, <2>2 DEF IInv, SteadyInv, OneRuns
    <3>2. Agree(handlers[r])' /\ Answered(handlers[r])'
      BY <1>1, <1>4, <2>2 DEF Agree, Serves, Opens, Answered, Queued
    <3> QED
      BY <1>3, <2>1, <2>2, <3>1, <3>2 DEF SteadyInv
  <2>3. CASE ~ Runs(r)
    <3>1. UNCHANGED <<docs, shown, foreign_diags, changes, buffer>>
      BY <1>4, <2>3
    <3>2. \A i : Runs(i) => handlers'[i] = handlers[i]
      BY <1>1, <2>3 DEF Runs
    <3>4. ASSUME NEW i, Runs(i)' PROVE Agree(handlers[i])' /\ Answered(handlers[i])'
      <4>1. Agree(handlers[i]) /\ Answered(handlers[i])
        BY <1>3, <1>4, <3>4 DEF IInv, SteadyInv
      <4>2. handlers'[i] = handlers[i]
        BY <1>3, <3>2, <3>4
      <4>3. Agree(handlers[i])' <=> Agree(handlers[i])
        BY <3>1, <4>2 DEF Agree, Serves, Opens
      <4>4. Answered(handlers[i])' <=> Answered(handlers[i])
        BY <3>1, <4>2 DEF Answered, Claimed, Queued
      <4> QED
        BY <4>1, <4>3, <4>4
    <3>5. ASSUME \A i : ~ Runs(i)' PROVE Agree(NoWork)' /\ Answered(NoWork)'
      <4>1. Agree(NoWork) /\ Answered(NoWork)
        BY <1>3, <1>4, <3>5 DEF IInv, SteadyInv
      <4>2. NoWork' = NoWork
        BY DEF NoWork, Cleared, NoMarkers
      <4>3. Agree(NoWork)' <=> Agree(NoWork)
        BY <3>1, <4>2 DEF Agree, Serves, Opens
      <4>4. Answered(NoWork)' <=> Answered(NoWork)
        BY <3>1, <4>2 DEF Answered, Claimed, Queued
      <4> QED
        BY <4>1, <4>3, <4>4
    <3> QED
      BY <2>1, <3>4, <3>5 DEF SteadyInv
  <2> QED
    BY <2>2, <2>3
<1>5. ASSUME calm PROVE CalmInv'
  <2>1. OneWorks' /\ Works(r) /\ steady'
    BY <1>3, <1>5 DEF IInv, CalmInv, OneWorks, Works
  <2>2. \A i : Works(i)' => i = r
    BY <1>3, <2>1 DEF OneWorks
  <2>3. OwnRight(handlers[r])' /\ ForeignRight(handlers[r])'
    BY <1>1, <1>5 DEF OwnRight, ForeignRight, Opens, Queued, Analyses, Claims
  <2> QED
    BY <1>3, <2>1, <2>2, <2>3 DEF CalmInv
<1> QED
  BY <1>1, <1>2, <1>4, <1>5 DEF SteadyInv, CalmInv

LEMMA DueInPlace ==
    ASSUME TypeOK, NEW r \in 1 .. Len(handlers), handlers[r].at # "wait",
           NEW g \in Pending, g.at # "wait", handlers' = [handlers EXCEPT ![r] = g],
           UNCHANGED changes
    PROVE  \A f : Due(f)' <=> Due(f)
<1>1. /\ Len(handlers') = Len(handlers) /\ handlers'[r] = g
      /\ \A i \in 1 .. Len(handlers) : i # r => handlers'[i] = handlers[i]
  BY Replaced DEF TypeOK
<1> QED
  BY <1>1 DEF Due, Holds

(* What an analysis loads are the newest texts, and what is not open for it is
   not open for the client. *)
LEMMA LoadsCurrent ==
    ASSUME IInv, steady, running # 0, NEW f \in Imports[H.of]
    PROVE  /\ f \in Files /\ f # H.of
           /\ Loaded(f) = Current(f)
           /\ docs[f] = None <=> buffer[f] = None
           /\ docs[f] = None => Loaded(f) = disk[f]
<1>1. H.of \in Files /\ H \in Pending
  BY OnTaskNow DEF IInv, Pending
<1>2. f \in Files /\ f # H.of
  BY <1>1, ServerAssumption
<1>3. Agree(H)
  BY NowRuns
<1>4. docs[f] = None => buffer[f] = None
  BY <1>2, <1>3 DEF Agree, Opens
<1>5. docs[f] # None => Serves(f, docs[f])
  BY <1>2, <1>3 DEF Agree
<1>6. changes[f].count > 0 => changes[f].text = buffer[f]
  BY <1>2 DEF IInv, Forms
<1>7. changes[f].count \in Nat
  BY <1>2 DEF IInv, TypeOK
<1> QED
  BY <1>2, <1>4, <1>5, <1>6, <1>7 DEF Loaded, NewestText, Current, Serves

LEMMA AnalyzeDoes ==
    ASSUME IInv, Analyze
    PROVE  LET saw == [f \in Files |-> IF f \in Imports[H.of] THEN Loaded(f) ELSE 0]
           IN  \E g \in Pending :
                 /\ handlers' = [handlers EXCEPT ![running] = g] /\ Form(g)
                 /\ g.at = "run" /\ g.uri = H.uri /\ g.of = H.of /\ g.others = H.others
                 /\ g.out = <<>> /\ H.out = <<>> /\ g.lowered = H.lowered
                 /\ g.todo = Tail(H.todo)
                 /\ g.own = [by |-> H.of, text |-> H.text, saw |-> saw]
                 /\ saw \in [Files -> Texts]
                 /\ g.foreign = ForeignMarkers(H.of, saw, docs')
                 /\ H.todo \in Plans /\ H.todo # <<>> /\ Head(H.todo) = "analyze"
<1> DEFINE saw == [f \in Files |-> IF f \in Imports[H.of] THEN Loaded(f) ELSE 0]
<1> DEFINE own == [by |-> H.of, text |-> H.text, saw |-> saw]
<1> DEFINE found == ForeignMarkers(H.of, saw, docs')
<1> DEFINE g == [H EXCEPT !.todo = Tail(@), !.own = own, !.foreign = found]
<1>1. /\ running \in 1 .. Len(handlers) /\ H \in Pending /\ Form(H) /\ H.at = "run"
      /\ H.of \in Files /\ H.text \in Texts
  BY OnTaskNow DEF IInv, Analyze, AtStage, Pending
<1>2. \A f \in Files : Loaded(f) \in Texts
  <2>1. \A f \in Files : docs[f] \in Texts /\ disk[f] \in Texts /\ changes[f].text \in Texts
    BY DEF IInv, TypeOK
  <2> QED
    BY <2>1 DEF Loaded, NewestText
<1>3. saw \in [Files -> Texts]
  BY <1>2, MarkersTyped DEF None
<1> HIDE DEF saw
<1>4. own \in Markers /\ own.by = H.of
  BY <1>1, <1>3, MarkersTyped
<1>5. /\ found \in [Files -> Markers]
      /\ \A f \in Marked(found) : f # H.of /\ found[f].by = H.of
  BY <1>1, <1>3, ForeignTyped
<1>6. /\ H.todo \in Plans /\ H.todo # <<>> /\ Head(H.todo) = "analyze"
      /\ Tail(H.todo) \in Plans /\ Tail(H.todo) \in Seq(Stages)
      /\ H.todo \in Looping => Tail(H.todo) \in Looping
  BY <1>1, AnalyzeStage, StageTypes DEF Form, Analyze, AtStage
<1> HIDE DEF own, found
<1>7. /\ g \in Pending
      /\ g.at = "run" /\ g.uri = H.uri /\ g.of = H.of /\ g.others = H.others
      /\ g.out = H.out /\ g.lowered = H.lowered /\ g.todo = Tail(H.todo)
      /\ g.own = own /\ g.foreign = found
  BY <1>1, <1>4, <1>5, <1>6 DEF Pending
<1>8. H.out = <<>> /\ handlers' = [handlers EXCEPT ![running] = g]
  BY DEF Analyze, AtStage, Update, saw, own, found
<1> HIDE DEF g
<1>9. Form(g)
  BY <1>1, <1>4, <1>5, <1>6, <1>7 DEF Form
<1>10. \E gg \in Pending :
         /\ handlers' = [handlers EXCEPT ![running] = gg] /\ Form(gg)
         /\ gg.at = "run" /\ gg.uri = H.uri /\ gg.of = H.of /\ gg.others = H.others
         /\ gg.out = <<>> /\ H.out = <<>> /\ gg.lowered = H.lowered
         /\ gg.todo = Tail(H.todo)
         /\ gg.own = own
         /\ gg.foreign = found
  BY <1>7, <1>8, <1>9
<1> QED
  BY <1>3, <1>6, <1>10 DEF own, found, saw

LEMMA AnalyzeKeeps ==
    ASSUME IInv, Analyze PROVE IInv'
<1> DEFINE saw == [f \in Files |-> IF f \in Imports[H.of] THEN Loaded(f) ELSE 0]
<1> DEFINE r == running
<1>1. /\ r \in 1 .. Len(handlers) /\ H \in Pending /\ Form(H) /\ H.at = "run" /\ Runs(r)
      /\ handlers[r] = H /\ H.of \in Files /\ H.text \in Texts /\ r # 0
  BY OnTaskNow DEF IInv, Analyze, AtStage, Pending, H
<1>2. PICK g \in Pending :
        /\ handlers' = [handlers EXCEPT ![r] = g] /\ Form(g)
        /\ g.at = "run" /\ g.uri = H.uri /\ g.of = H.of /\ g.others = H.others
        /\ g.out = <<>> /\ H.out = <<>> /\ g.lowered = H.lowered
        /\ g.todo = Tail(H.todo)
        /\ g.own = [by |-> H.of, text |-> H.text, saw |-> saw]
        /\ saw \in [Files -> Texts]
        /\ g.foreign = ForeignMarkers(H.of, saw, docs')
        /\ H.todo \in Plans /\ H.todo # <<>> /\ Head(H.todo) = "analyze"
  BY AnalyzeDoes
<1>3. /\ docs' = [docs EXCEPT ![H.of] = H.text]
      /\ UNCHANGED <<changes, foreign_diags, running, shown, buffer, disk, newest, sent,
                     steady, calm>>
  BY DEF Analyze, client, inputs
<1>4. docs' \in [Files -> Texts]
  BY <1>1, <1>3 DEF IInv, TypeOK
<1>5. /\ H.todo \in AtAnalyze /\ H.todo \notin Analysed /\ H.todo # AfterClose
      /\ g.todo \in Analysed /\ g.todo \notin AtAnalyze /\ g.todo \in Plans
      /\ H.todo \in ToOthers => g.todo \in ToOthers
      /\ g.todo # AfterClose
  BY <1>2, AnalyzeStage
<1>6. \A f : Due(f)' <=> Due(f)
  BY <1>1, <1>2, <1>3, DueInPlace DEF IInv
<1> HIDE DEF saw, r
<1>s. ASSUME steady PROVE Agree(g)' /\ Answered(g)'
  <2>1. Agree(H) /\ Answered(H)
    BY <1>1, <1>s, NowRuns DEF r
  <2>2. Serves(H.of, H.text)
    BY <1>5, <2>1 DEF Agree
  <2>3. \A f : \A t : Serves(f, t)' <=> Serves(f, t)
    BY <1>3 DEF Serves
  <2>4. \A f \in Files : docs'[f] = IF f = H.of THEN H.text ELSE docs[f]
    BY <1>3 DEF IInv, TypeOK
  <2>5. Agree(g)'
    BY <1>1, <1>2, <1>3, <1>5, <2>1, <2>2, <2>3, <2>4 DEF Agree, Serves, Opens
  <2>6. Answered(g)'
    BY <1>2, <1>3, <2>1 DEF Answered, Claimed, Queued
  <2> QED
    BY <2>5, <2>6
<1>c. ASSUME calm PROVE OwnRight(g)' /\ ForeignRight(g)'
  <2>1. steady /\ OwnRight(H) /\ ForeignRight(H)
    BY <1>1, <1>c, NowRuns DEF r
  <2>2. Agree(H) /\ Serves(H.of, H.text)
    BY <1>1, <1>5, <2>1, NowRuns DEF r, Agree
  <2>3. \A f \in Files : docs'[f] = IF f = H.of THEN H.text ELSE docs[f]
    BY <1>3 DEF IInv, TypeOK
  <2>4. \A f \in Imports[H.of] :
           /\ f \in Files /\ f # H.of /\ saw[f] = Current(f)
           /\ docs'[f] = None <=> buffer[f] = None
           /\ docs'[f] = None => saw[f] = disk[f]
    BY <1>1, <2>1, <2>3, LoadsCurrent DEF saw, r
  <2>5. \A f : \A m : Fresh(f, m)' <=> Fresh(f, m)
    BY <1>3 DEF Fresh, Current
  <2>6. Fresh(H.of, g.own) \/ Due(H.of)
    <3>1. H.text = buffer[H.of] \/ Due(H.of)
      BY <1>5, <2>1 DEF OwnRight
    <3>2. H.text = buffer[H.of] => Fresh(H.of, g.own)
      BY <1>2, <2>2, <2>4 DEF Fresh, Serves
    <3> QED
      BY <3>1, <3>2
  <2>7. \A f \in Files : Analyses(H, f) => Analyses(g, f)'
    BY <1>2, <1>3, <1>5 DEF Analyses
  <2>8. OwnRight(g)'
    <3>1. \A f \in Files : docs'[f] # None => docs'[f] = buffer'[f] \/ Due(f)'
      BY <1>3, <1>5, <1>6, <2>1, <2>3 DEF OwnRight, Opens
    <3>2. buffer'[g.of] # None /\ (Fresh(g.of, g.own)' \/ Due(g.of)')
      BY <1>2, <1>3, <1>5, <1>6, <2>1, <2>5, <2>6 DEF OwnRight
    <3>3. \A o \in g.others : o.text = buffer'[o.file] /\ buffer'[o.file] # None
      BY <1>2, <1>3, <2>1 DEF OwnRight
    <3>4. \A f \in Files : buffer'[f] # None =>
             Fresh(f, shown[f])' \/ (\E d \in Imports[f] \union {f} : Due(d)') \/ Analyses(g, f)'
      BY <1>2, <1>3, <1>6, <2>1, <2>5, <2>7 DEF OwnRight, Queued
    <3> QED
      BY <1>2, <1>5, <3>1, <3>2, <3>3, <3>4 DEF OwnRight
  <2>9. Marked(g.foreign) = Wanted(H.of) /\ \A f \in Marked(g.foreign) : g.foreign[f].text = disk[f]
    <3>1. buffer[H.of] # None
      BY <2>2 DEF Serves
    <3>2. \A f \in Files :
             /\ f \in Marked(g.foreign) <=>
                  f \in Imports[H.of] /\ docs'[f] = None /\ saw[f] \in BadTexts
             /\ f \in Marked(g.foreign) => g.foreign[f].text = saw[f]
      BY <1>1, <1>2, ForeignTyped
    <3>3. Marked(g.foreign) \subseteq Files
      BY DEF Marked
    <3> QED
      BY <2>4, <3>1, <3>2, <3>3 DEF Wanted
  <2>10. ForeignRight(g)'
    <3>1. \A d : Wanted(d)' = Wanted(d) /\ (Claimed(d)' <=> Claimed(d))
      BY <1>3 DEF Wanted, Claimed
    <3>2. \A d \in Files : Claims(H, d) => Claims(g, d)'
      BY <1>5, <2>7 DEF Claims
    <3>3. \A d \in Files : foreign_diags'[d] = Wanted(d)' \/ Claims(g, d)'
      BY <1>3, <2>1, <3>1, <3>2 DEF ForeignRight
    <3>4. \A f \in Marked(g.lowered)' : f \in Imports[g.of] /\ disk'[f] \in BadTexts
      BY <1>2, <1>3, <2>1 DEF ForeignRight, Marked, Cleared, NoText
    <3>5. \A f \in Files : buffer'[f] = None => Claimed(f)' \/ shown'[f] = Cleared'
      BY <1>2, <1>3, <2>1, <3>1 DEF ForeignRight, Queued, Cleared, NoText
    <3>6. \A f, d \in Files : buffer'[f] = None /\ f \in foreign_diags'[d] =>
             (shown'[f].by # f /\ shown'[f].text = disk'[f]) \/ Claims(g, d)'
      BY <1>2, <1>3, <2>1, <3>2 DEF ForeignRight, Queued
    <3>7. Marked(g.foreign)' = Marked(g.foreign)
      BY DEF Marked, Cleared, NoText
    <3>8. Marked(g.foreign)' = Wanted(g.of)' /\ \A f \in Marked(g.foreign)' : g.foreign[f].text = disk'[f]
      BY <1>2, <1>3, <2>9, <3>1, <3>7
    <3> QED
      BY <1>2, <1>5, <3>3, <3>4, <3>5, <3>6, <3>8 DEF ForeignRight
  <2> QED
    BY <2>8, <2>10
<1>7. /\ Forms' /\ SteadyInv' /\ CalmInv'
      /\ handlers' \in Seq(Pending) /\ Len(handlers') = Len(handlers)
  BY <1>1, <1>2, <1>3, <1>s, <1>c, GoesOn DEF r
<1>8. TypeOK'
  BY <1>3, <1>4, <1>7 DEF IInv, TypeOK
<1> QED
  BY <1>7, <1>8 DEF IInv

(* The messages of a claim, in their order. *)
LEMMA ThreeParts ==
    ASSUME NEW a \in Seq(Publishes), NEW b \in Seq(Publishes), NEW m \in Publishes
    PROVE  /\ a \o b \o <<m>> \in Seq(Publishes)
           /\ \A k \in 1 .. Len(a \o b \o <<m>>) :
                 \/ \E j \in 1 .. Len(a) : (a \o b \o <<m>>)[k] = a[j]
                 \/ \E j \in 1 .. Len(b) : (a \o b \o <<m>>)[k] = b[j]
                 \/ (a \o b \o <<m>>)[k] = m
           /\ \A j \in 1 .. Len(a) : \E k \in 1 .. Len(a \o b \o <<m>>) : (a \o b \o <<m>>)[k] = a[j]
           /\ \A j \in 1 .. Len(b) : \E k \in 1 .. Len(a \o b \o <<m>>) : (a \o b \o <<m>>)[k] = b[j]
           /\ \E k \in 1 .. Len(a \o b \o <<m>>) : (a \o b \o <<m>>)[k] = m
<1> DEFINE c == a \o b
<1> DEFINE l == <<m>>
<1> DEFINE u == c \o l
<1>1. /\ c \in Seq(Publishes) /\ Len(c) = Len(a) + Len(b)
      /\ \A i \in 1 .. Len(a) + Len(b) : c[i] = IF i <= Len(a) THEN a[i] ELSE b[i - Len(a)]
  BY ConcatProperties
<1>2. l \in Seq(Publishes) /\ Len(l) = 1 /\ l[1] = m
  OBVIOUS
<1> HIDE DEF c, l
<1>a. c \in Seq(Publishes) /\ l \in Seq(Publishes)
  BY <1>1, <1>2
<1>b. /\ c \o l \in Seq(Publishes) /\ Len(c \o l) = Len(c) + Len(l)
      /\ \A i \in 1 .. Len(c) + Len(l) : (c \o l)[i] = IF i <= Len(c) THEN c[i] ELSE l[i - Len(c)]
  BY ONLY <1>a, ConcatProperties
<1>3. /\ u \in Seq(Publishes) /\ Len(u) = Len(c) + Len(l)
      /\ \A i \in 1 .. Len(c) + Len(l) : u[i] = IF i <= Len(c) THEN c[i] ELSE l[i - Len(c)]
  BY <1>b
<1> HIDE DEF u
<1>4. /\ Len(a) \in Nat /\ Len(b) \in Nat /\ Len(c) = Len(a) + Len(b)
      /\ Len(u) = Len(a) + Len(b) + 1
  BY <1>1, <1>2, <1>3
<1>5. ASSUME NEW j \in 1 .. Len(a) PROVE j \in 1 .. Len(u) /\ u[j] = a[j]
  <2>1. j \in 1 .. Len(c) /\ j <= Len(a) /\ j \in 1 .. Len(u)
    BY <1>4
  <2> QED
    BY <1>1, <1>3, <1>4, <2>1
<1>6. ASSUME NEW j \in 1 .. Len(b) PROVE Len(a) + j \in 1 .. Len(u) /\ u[Len(a) + j] = b[j]
  <2>1. /\ Len(a) + j \in 1 .. Len(c) /\ ~ (Len(a) + j <= Len(a)) /\ Len(a) + j \in 1 .. Len(u)
        /\ Len(a) + j - Len(a) = j
    BY <1>4
  <2>2. c[Len(a) + j] = b[j]
    BY <1>1, <1>4, <2>1
  <2>3. u[Len(a) + j] = c[Len(a) + j]
    BY <1>2, <1>3, <1>4, <2>1
  <2> QED
    BY <2>1, <2>2, <2>3
<1>7. Len(u) \in 1 .. Len(u) /\ u[Len(u)] = m
  <2>1. Len(u) \in 1 .. Len(c) + Len(l) /\ ~ (Len(u) <= Len(c)) /\ Len(u) - Len(c) = 1
    BY <1>2, <1>4
  <2>2. u[Len(u)] = l[Len(u) - Len(c)]
    BY <1>3, <2>1
  <2> QED
    BY <1>2, <1>4, <2>1, <2>2
<1>8. ASSUME NEW k \in 1 .. Len(u)
      PROVE  \/ \E j \in 1 .. Len(a) : u[k] = a[j]
             \/ \E j \in 1 .. Len(b) : u[k] = b[j]
             \/ u[k] = m
  <2>1. k \in 1 .. Len(a) \/ k - Len(a) \in 1 .. Len(b) \/ k = Len(u)
    BY <1>4
  <2>2. k - Len(a) \in 1 .. Len(b) => Len(a) + (k - Len(a)) = k
    BY <1>4
  <2> QED
    BY <1>5, <1>6, <1>7, <2>1, <2>2
<1>9. u = a \o b \o <<m>>
  BY DEF u, c, l
<1> QED
  BY <1>3, <1>5, <1>6, <1>7, <1>8, <1>9

Retracted(of, claims) == {f \in foreign_diags[of] : \A d \in Files : f \notin claims[d]}

LEMMA ClaimDoes ==
    ASSUME IInv, Claim
    PROVE  \E g \in Pending :
             /\ handlers' = [handlers EXCEPT ![running] = g] /\ Form(g)
             /\ g.at = "run" /\ g.uri = H.uri /\ g.of = H.of /\ g.others = H.others
             /\ H.out = <<>> /\ g.lowered = H.lowered /\ g.todo = Tail(H.todo)
             /\ H.todo \in Plans /\ H.todo # <<>> /\ Head(H.todo) = "claim"
             /\ \A k \in 1 .. Len(g.out) :
                   \/ /\ g.out[k].file \in Marked(H.foreign)
                      /\ g.out[k].markers = H.foreign[g.out[k].file]
                   \/ /\ g.out[k].file \in Retracted(H.of, foreign_diags')
                      /\ g.out[k].markers = Cleared
                   \/ g.out[k].file = H.of /\ g.out[k].markers = H.own
             /\ \A f \in Marked(H.foreign) \union Retracted(H.of, foreign_diags') \union {H.of} :
                   Queued(g, f)
<1>1. /\ running \in 1 .. Len(handlers) /\ H \in Pending /\ Form(H) /\ H.at = "run"
      /\ H.of \in Files /\ H.own \in Markers /\ H.foreign \in [Files -> Markers]
  BY OnTaskNow DEF IInv, Claim, AtStage, Pending
<1>2. foreign_diags[H.of] \in SUBSET Files
  BY <1>1 DEF IInv, TypeOK
<1> DEFINE S == Marked(H.foreign)
<1> DEFINE R == Retracted(H.of, foreign_diags')
<1>3. PICK first \in Orders(S), last \in Orders(R) :
        Update([H EXCEPT !.todo = Tail(@),
                         !.out = Messages(first, H.foreign)
                                   \o Messages(last, NoMarkers)
                                   \o <<[file |-> H.of, markers |-> H.own]>>])
  BY DEF Claim, Retracted
<1>4. S \in SUBSET Files /\ R \in SUBSET Files
  BY <1>2 DEF Marked, Retracted
<1> HIDE DEF S, R
<1> DEFINE a == Messages(first, H.foreign)
<1> DEFINE b == Messages(last, NoMarkers)
<1> DEFINE m == [file |-> H.of, markers |-> H.own]
<1> DEFINE out == a \o b \o <<m>>
<1>5. /\ a \in Seq(Publishes)
      /\ \A k \in 1 .. Len(a) : a[k].file \in S /\ a[k].markers = H.foreign[a[k].file]
      /\ \A f \in S : \E k \in 1 .. Len(a) : a[k].file = f
  BY <1>1, <1>4, MessagesAre
<1>6. /\ b \in Seq(Publishes)
      /\ \A k \in 1 .. Len(b) : b[k].file \in R /\ b[k].markers = NoMarkers[b[k].file]
      /\ \A f \in R : \E k \in 1 .. Len(b) : b[k].file = f
  BY <1>4, MessagesAre, MarkersTyped
<1>7. \A f \in R : NoMarkers[f] = Cleared
  BY <1>4 DEF NoMarkers
<1>8. m \in Publishes /\ m.file = H.of /\ m.markers = H.own
  BY <1>1, MarkersTyped
<1> HIDE DEF a, b, m
<1>9. /\ out \in Seq(Publishes)
      /\ \A k \in 1 .. Len(out) :
                 \/ \E j \in 1 .. Len(a) : out[k] = a[j]
                 \/ \E j \in 1 .. Len(b) : out[k] = b[j]
                 \/ out[k] = m
      /\ \A j \in 1 .. Len(a) : \E k \in 1 .. Len(out) : out[k] = a[j]
      /\ \A j \in 1 .. Len(b) : \E k \in 1 .. Len(out) : out[k] = b[j]
      /\ \E k \in 1 .. Len(out) : out[k] = m
  <2>1. a \in Seq(Publishes) /\ b \in Seq(Publishes) /\ m \in Publishes
    BY <1>5, <1>6, <1>8
  <2> QED
    BY ONLY <2>1, ThreeParts
<1> HIDE DEF out
<1>10. \A k \in 1 .. Len(out) :
         \/ out[k].file \in S /\ out[k].markers = H.foreign[out[k].file]
         \/ out[k].file \in R /\ out[k].markers = Cleared
         \/ out[k].file = H.of /\ out[k].markers = H.own
  <2> SUFFICES ASSUME NEW k \in 1 .. Len(out)
               PROVE  \/ out[k].file \in S /\ out[k].markers = H.foreign[out[k].file]
                      \/ out[k].file \in R /\ out[k].markers = Cleared
                      \/ out[k].file = H.of /\ out[k].markers = H.own
    OBVIOUS
  <2>1. CASE \E j \in 1 .. Len(a) : out[k] = a[j]
    BY <1>5, <2>1
  <2>2. CASE \E j \in 1 .. Len(b) : out[k] = b[j]
    BY <1>6, <1>7, <2>2
  <2>3. CASE out[k] = m
    BY <1>8, <2>3
  <2> QED
    BY <1>9, <2>1, <2>2, <2>3
<1>11. \A f \in S \union R \union {H.of} : \E k \in 1 .. Len(out) : out[k].file = f
  <2>1. ASSUME NEW f \in S PROVE \E k \in 1 .. Len(out) : out[k].file = f
    <3>1. PICK j \in 1 .. Len(a) : a[j].file = f
      BY <1>5
    <3>2. PICK k \in 1 .. Len(out) : out[k] = a[j]
      BY <1>9
    <3> QED
      BY <3>1, <3>2
  <2>2. \A f \in R : \E k \in 1 .. Len(out) : out[k].file = f
    BY <1>6, <1>9
  <2>3. \E k \in 1 .. Len(out) : out[k].file = H.of
    BY <1>8, <1>9
  <2> QED
    BY <2>1, <2>2, <2>3
<1> DEFINE g == [H EXCEPT !.todo = Tail(@), !.out = out]
<1>12. H.todo \in Plans /\ H.todo # <<>> /\ Head(H.todo) = "claim" /\ H.out = <<>>
  BY <1>1 DEF Form, Claim, AtStage
<1>13. /\ Tail(H.todo) \in Plans /\ Tail(H.todo) \in Seq(Stages) /\ Tail(H.todo) \notin Analysed
       /\ H.todo \in Looping => Tail(H.todo) \in Looping
  BY <1>12, ClaimStage, StageTypes
<1>14. /\ g \in Pending
       /\ g.at = "run" /\ g.uri = H.uri /\ g.of = H.of /\ g.others = H.others
       /\ g.lowered = H.lowered /\ g.todo = Tail(H.todo) /\ g.out = out
  BY <1>1, <1>9, <1>13 DEF Pending
<1>15. handlers' = [handlers EXCEPT ![running] = g]
  BY <1>3 DEF Update, out, a, b, m
<1> HIDE DEF g
<1>16. Form(g)
  BY <1>1, <1>13, <1>14 DEF Form
<1>17. \A f \in S \union R \union {H.of} : Queued(g, f)
  BY <1>11, <1>14 DEF Queued
<1> QED
  BY <1>10, <1>12, <1>14, <1>15, <1>16, <1>17 DEF S, R

LEMMA ClaimKeeps ==
    ASSUME IInv, Claim PROVE IInv'
<1> DEFINE r == running
<1>1. /\ r \in 1 .. Len(handlers) /\ H \in Pending /\ Form(H) /\ H.at = "run" /\ Runs(r)
      /\ handlers[r] = H /\ H.of \in Files /\ r # 0 /\ H.foreign \in [Files -> Markers]
  BY OnTaskNow DEF IInv, Claim, AtStage, Pending, H
<1>2. PICK g \in Pending :
        /\ handlers' = [handlers EXCEPT ![r] = g] /\ Form(g)
        /\ g.at = "run" /\ g.uri = H.uri /\ g.of = H.of /\ g.others = H.others
        /\ H.out = <<>> /\ g.lowered = H.lowered /\ g.todo = Tail(H.todo)
        /\ H.todo \in Plans /\ H.todo # <<>> /\ Head(H.todo) = "claim"
        /\ \A k \in 1 .. Len(g.out) :
              \/ /\ g.out[k].file \in Marked(H.foreign)
                 /\ g.out[k].markers = H.foreign[g.out[k].file]
              \/ /\ g.out[k].file \in Retracted(H.of, foreign_diags')
                 /\ g.out[k].markers = Cleared
              \/ g.out[k].file = H.of /\ g.out[k].markers = H.own
        /\ \A f \in Marked(H.foreign) \union Retracted(H.of, foreign_diags') \union {H.of} :
              Queued(g, f)
  BY ClaimDoes
<1>3. /\ foreign_diags' = [foreign_diags EXCEPT ![H.of] = Marked(H.foreign)]
      /\ UNCHANGED <<docs, changes, running, shown, buffer, disk, newest, sent, steady, calm>>
  BY DEF Claim, client, inputs
<1>4. Marked(H.foreign) \subseteq Files
  BY DEF Marked
<1>5. /\ foreign_diags' \in [Files -> SUBSET Files]
      /\ \A d \in Files : foreign_diags'[d] = IF d = H.of THEN Marked(H.foreign)
                                              ELSE foreign_diags[d]
  BY <1>1, <1>3, <1>4 DEF IInv, TypeOK
<1>6. /\ H.todo \in Analysed /\ H.todo \notin AtAnalyze /\ H.todo # AfterClose
      /\ H.todo # AfterOpen
      /\ g.todo \notin Analysed /\ g.todo \notin AtAnalyze /\ g.todo \in Plans
      /\ H.todo \in ToOthers => g.todo \in ToOthers
      /\ g.todo # AfterClose
  BY <1>2, ClaimStage
<1>7. H.own.by = H.of /\ \A f \in Marked(H.foreign) : f # H.of /\ H.foreign[f].by = H.of
  BY <1>1, <1>6 DEF Form
<1>8. \A f : Due(f)' <=> Due(f)
  BY <1>1, <1>2, <1>3, DueInPlace DEF IInv
<1>9. Cleared.by = "none" /\ "none" \notin Files
  BY ServerAssumption DEF Cleared
<1>10. Retracted(H.of, foreign_diags') \subseteq Files
  BY <1>1 DEF Retracted, IInv, TypeOK
<1>11. \A f \in Marked(H.foreign) : Claimed(f)'
  BY <1>1, <1>5 DEF Claimed
<1>12. \A f \in Files : Claimed(f) => Claimed(f)' \/ f \in Retracted(H.of, foreign_diags')
  BY <1>5 DEF Claimed, Retracted
<1>16. \A f : ~ Queued(H, f)
  BY <1>2 DEF Queued
<1>13. \A f \in Retracted(H.of, foreign_diags') : ~ Claimed(f)'
  BY DEF Claimed, Retracted
<1> HIDE DEF r
<1>s. ASSUME steady PROVE Agree(g)' /\ Answered(g)'
  <2>1. Agree(H) /\ Answered(H)
    BY <1>1, <1>s, NowRuns DEF r
  <2>2. Agree(g)'
    BY <1>2, <1>3, <1>6, <2>1 DEF Agree, Serves, Opens
  <2>3. ASSUME NEW k \in 1 .. Len(g.out), Foreign(g.out[k].file, g.out[k].markers)
        PROVE  Claimed(g.out[k].file)'
    BY <1>2, <1>7, <1>9, <1>11, <2>3 DEF Foreign
  <2>4. ASSUME NEW f \in Files, Foreign(f, shown[f])' PROVE Claimed(f)' \/ Queued(g, f)
    <3>1. Foreign(f, shown[f])
      BY <1>3, <2>4 DEF Foreign
    <3>2. Claimed(f)
      BY <1>2, <2>1, <3>1 DEF Answered, Queued
    <3> QED
      BY <1>2, <1>12, <3>2
  <2>5. Answered(g)'
    BY <2>3, <2>4 DEF Answered, Foreign, Queued
  <2> QED
    BY <2>2, <2>5
<1>c. ASSUME calm PROVE OwnRight(g)' /\ ForeignRight(g)'
  <2>1. steady /\ OwnRight(H) /\ ForeignRight(H)
    BY <1>1, <1>c, NowRuns DEF r
  <2>2. \A f : \A m : Fresh(f, m)' <=> Fresh(f, m)
    BY <1>3 DEF Fresh, Current
  <2>3. \A f \in Files : Analyses(H, f) => f = H.of \/ Analyses(g, f)'
    BY <1>2, <1>3, <1>6 DEF Analyses
  <2>4. ASSUME NEW k \in 1 .. Len(g.out)
        PROVE  \/ Fresh(g.out[k].file, g.out[k].markers)'
               \/ buffer'[g.out[k].file] # None /\ Due(g.out[k].file)'
    <3>1. CASE g.out[k].file \in Marked(H.foreign) /\ g.out[k].markers = H.foreign[g.out[k].file]
      BY <1>7, <3>1 DEF Fresh
    <3>2. CASE g.out[k].file \in Retracted(H.of, foreign_diags') /\ g.out[k].markers = Cleared
      BY <1>9, <1>10, <3>2 DEF Fresh
    <3>3. CASE g.out[k].file = H.of /\ g.out[k].markers = H.own
      BY <1>3, <1>6, <1>8, <2>1, <2>2, <3>3 DEF OwnRight
    <3> QED
      BY <1>2, <3>1, <3>2, <3>3
  <2>5. OwnRight(g)'
    <3>1. \A f \in Files : docs'[f] # None => docs'[f] = buffer'[f] \/ Due(f)'
      BY <1>3, <1>6, <1>8, <2>1 DEF OwnRight, Opens
    <3>2. \A o \in g.others : o.text = buffer'[o.file] /\ buffer'[o.file] # None
      BY <1>2, <1>3, <2>1 DEF OwnRight
    <3>3. \A f \in Files : buffer'[f] # None =>
             \/ Fresh(f, shown[f])' \/ (\E d \in Imports[f] \union {f} : Due(d)')
             \/ Queued(g, f) \/ Analyses(g, f)'
      BY <1>2, <1>3, <1>8, <1>16, <2>1, <2>2, <2>3 DEF OwnRight
    <3> QED
      BY <1>6, <2>4, <3>1, <3>2, <3>3 DEF OwnRight, Queued
  <2>6. ForeignRight(g)'
    <3>1. \A d : Wanted(d)' = Wanted(d)
      BY <1>3 DEF Wanted
    <3>2. \A d \in Files : Claims(H, d) => d = H.of \/ Claims(g, d)'
      BY <1>6, <2>3 DEF Claims
    <3>3. Marked(H.foreign) = Wanted(H.of) /\ \A f \in Marked(H.foreign) : H.foreign[f].text = disk[f]
      BY <1>6, <2>1 DEF ForeignRight
    <3>4. \A d \in Files : foreign_diags'[d] = Wanted(d)' \/ Claims(g, d)'
      BY <1>5, <2>1, <3>1, <3>2, <3>3 DEF ForeignRight
    <3>5. \A f \in Marked(g.lowered)' : f \in Imports[g.of] /\ disk'[f] \in BadTexts
      BY <1>2, <1>3, <2>1 DEF ForeignRight, Marked, Cleared, NoText
    <3>6. ASSUME NEW k \in 1 .. Len(g.out), buffer'[g.out[k].file] = None
          PROVE  \/ Reported(g.out[k].file, g.out[k].markers)'
                 \/ Dropped(g.out[k].file, g.out[k].markers)'
      <4>1. CASE g.out[k].file \in Marked(H.foreign) /\ g.out[k].markers = H.foreign[g.out[k].file]
        BY <1>1, <1>3, <1>7, <1>9, <1>11, <3>3, <4>1 DEF Reported, Foreign
      <4>2. CASE g.out[k].file \in Retracted(H.of, foreign_diags') /\ g.out[k].markers = Cleared
        BY <1>13, <4>2 DEF Dropped, Cleared, NoText
      <4>3. CASE g.out[k].file = H.of
        BY <1>3, <1>6, <2>1, <3>6, <4>3 DEF OwnRight
      <4> QED
        BY <1>2, <4>1, <4>2, <4>3
    <3>7. \A f \in Files : buffer'[f] = None => Claimed(f)' \/ shown'[f] = Cleared' \/ Queued(g, f)
      BY <1>2, <1>3, <1>12, <1>16, <2>1 DEF ForeignRight, Cleared, NoText
    <3>8. \A f, d \in Files : buffer'[f] = None /\ f \in foreign_diags'[d] =>
             (shown'[f].by # f /\ shown'[f].text = disk'[f]) \/ Queued(g, f) \/ Claims(g, d)'
      BY <1>2, <1>3, <1>5, <2>1, <3>2 DEF ForeignRight, Queued
    <3> QED
      BY <1>6, <3>4, <3>5, <3>6, <3>7, <3>8 DEF ForeignRight, Queued
  <2> QED
    BY <2>5, <2>6
<1>14. /\ Forms' /\ SteadyInv' /\ CalmInv'
       /\ handlers' \in Seq(Pending) /\ Len(handlers') = Len(handlers)
  BY <1>1, <1>2, <1>3, <1>s, <1>c, GoesOn DEF r
<1>15. TypeOK'
  BY <1>3, <1>5, <1>14 DEF IInv, TypeOK
<1> QED
  BY <1>14, <1>15 DEF IInv

LEMMA PublishKeeps ==
    ASSUME IInv, Publish PROVE IInv'
<1> DEFINE r == running
<1> DEFINE new == [H EXCEPT !.out = Tail(@)]
<1>1. /\ r \in 1 .. Len(handlers) /\ H \in Pending /\ Form(H) /\ H.at = "run" /\ Runs(r)
      /\ handlers[r] = H /\ r # 0 /\ H.out # <<>> /\ H.out \in Seq(Publishes)
  BY OnTaskNow DEF IInv, Publish, Pending, H
<1>2. PICK m \in Publishes :
      /\ m = Head(H.out) /\ m = H.out[1] /\ Tail(H.out) \in Seq(Publishes)
      /\ Len(Tail(H.out)) = Len(H.out) - 1 /\ Len(H.out) \in Nat \ {0}
      /\ \A k \in 1 .. Len(Tail(H.out)) : Tail(H.out)[k] = H.out[k + 1]
  BY <1>1
<1>3. PICK g \in Pending :
        /\ g = new /\ g.at = "run" /\ g.uri = H.uri /\ g.of = H.of /\ g.text = H.text
        /\ g.todo = H.todo /\ g.others = H.others /\ g.own = H.own /\ g.foreign = H.foreign
        /\ g.lowered = H.lowered /\ g.out = Tail(H.out)
  <2>1. new \in Pending /\ new.at = "run" /\ new.uri = H.uri /\ new.of = H.of
    BY <1>1, <1>2 DEF Pending
  <2>2. /\ new.text = H.text /\ new.todo = H.todo /\ new.others = H.others /\ new.own = H.own
        /\ new.foreign = H.foreign /\ new.lowered = H.lowered /\ new.out = Tail(H.out)
    BY <1>1 DEF Pending
  <2> HIDE DEF new
  <2> QED
    BY <2>1, <2>2
<1>4. /\ handlers' = [handlers EXCEPT ![r] = g]
      /\ shown' = [shown EXCEPT ![m.file] = m.markers] /\ (running' = running \/ running' = 0)
      /\ UNCHANGED <<docs, changes, foreign_diags, buffer, disk, newest, sent, steady, calm>>
  BY <1>2, <1>3 DEF Publish, Update, client, inputs
<1>5. m.file \in Files /\ m.markers \in Markers
  BY <1>2 DEF Publishes
<1> HIDE DEF new
<1>6. /\ shown' \in [Files -> Markers]
      /\ \A f \in Files : shown'[f] = IF f = m.file THEN m.markers ELSE shown[f]
  BY <1>4, <1>5 DEF IInv, TypeOK
<1>7. Form(g)
  BY <1>1, <1>3 DEF Form
<1>8. ASSUME NEW k \in 1 .. Len(g.out) PROVE k + 1 \in 1 .. Len(H.out) /\ g.out[k] = H.out[k + 1]
  BY <1>2, <1>3
<1>9. ASSUME NEW f, Queued(H, f) PROVE f = m.file \/ Queued(g, f)
  <2>1. PICK k \in 1 .. Len(H.out) : H.out[k].file = f
    BY <1>9 DEF Queued
  <2>2. CASE k = 1
    BY <1>2, <2>1, <2>2
  <2>3. CASE k # 1
    <3>1. k - 1 \in 1 .. Len(g.out) /\ k - 1 + 1 = k
      BY <1>2, <1>3, <2>3
    <3>2. g.out[k - 1] = H.out[k]
      BY <1>8, <3>1
    <3> QED
      BY <2>1, <3>1, <3>2 DEF Queued
  <2> QED
    BY <2>2, <2>3
<1>10. \A f : Due(f)' <=> Due(f)
  BY <1>1, <1>3, <1>4, DueInPlace DEF IInv
<1>11. 1 \in 1 .. Len(H.out) /\ H.out[1] = m
  BY <1>2
<1> HIDE DEF r
<1>s. ASSUME steady PROVE Agree(g)' /\ Answered(g)'
  <2>1. Agree(H) /\ Answered(H)
    BY <1>1, <1>s, NowRuns DEF r
  <2>2. Agree(g)'
    BY <1>3, <1>4, <2>1 DEF Agree, Serves, Opens
  <2>3. \A f : Claimed(f)' <=> Claimed(f)
    BY <1>4 DEF Claimed
  <2>4. ASSUME NEW k \in 1 .. Len(g.out), Foreign(g.out[k].file, g.out[k].markers)
        PROVE  Claimed(g.out[k].file)'
    BY <1>8, <2>1, <2>3, <2>4 DEF Answered
  <2>5. Foreign(m.file, m.markers) => Claimed(m.file)
    BY <1>11, <2>1 DEF Answered
  <2>6. ASSUME NEW f \in Files, Foreign(f, shown[f])' PROVE Claimed(f)' \/ Queued(g, f)
    <3>1. CASE f = m.file
      BY <1>6, <2>3, <2>5, <2>6, <3>1 DEF Foreign
    <3>2. CASE f # m.file
      BY <1>6, <1>9, <2>1, <2>3, <2>6, <3>2 DEF Answered, Foreign
    <3> QED
      BY <3>1, <3>2
  <2>7. Answered(g)'
    BY <2>4, <2>6 DEF Answered, Foreign, Queued
  <2> QED
    BY <2>2, <2>7
<1>c. ASSUME calm PROVE OwnRight(g)' /\ ForeignRight(g)'
  <2>1. steady /\ OwnRight(H) /\ ForeignRight(H)
    BY <1>1, <1>c, NowRuns DEF r
  <2>2. \A f : \A w : Fresh(f, w)' <=> Fresh(f, w)
    BY <1>4 DEF Fresh, Current
  <2>3. \A f : Analyses(g, f)' <=> Analyses(H, f)
    BY <1>3, <1>4 DEF Analyses
  <2>4. OwnRight(g)'
    <3>1. \A f \in Files : docs'[f] # None => docs'[f] = buffer'[f] \/ Due(f)' \/ Opens(g, f)'
      BY <1>3, <1>4, <1>10, <2>1 DEF OwnRight, Opens
    <3>2. /\ g.todo \in AtAnalyze => g.text = buffer'[g.of] \/ Due(g.of)'
          /\ g.todo \in AtAnalyze \union Analysed => buffer'[g.of] # None
          /\ g.todo \in Analysed => Fresh(g.of, g.own)' \/ Due(g.of)'
          /\ \A o \in g.others : o.text = buffer'[o.file] /\ buffer'[o.file] # None
      BY <1>3, <1>4, <1>10, <2>1, <2>2 DEF OwnRight
    <3>3. ASSUME NEW k \in 1 .. Len(g.out)
          PROVE  \/ Fresh(g.out[k].file, g.out[k].markers)'
                 \/ buffer'[g.out[k].file] # None /\ Due(g.out[k].file)'
      BY <1>4, <1>8, <1>10, <2>1, <2>2 DEF OwnRight
    <3>4. ASSUME NEW f \in Files, buffer'[f] # None
          PROVE  \/ Fresh(f, shown[f])' \/ (\E d \in Imports[f] \union {f} : Due(d)')
                 \/ Queued(g, f) \/ Analyses(g, f)'
      <4>1. CASE f = m.file
        <5>1. Fresh(f, m.markers) \/ Due(f)
          BY <1>11, <2>1, <4>1 DEF OwnRight
        <5> QED
          BY <1>6, <1>10, <2>2, <4>1, <5>1
      <4>2. CASE f # m.file
        BY <1>4, <1>6, <1>9, <1>10, <2>1, <2>2, <2>3, <3>4, <4>2 DEF OwnRight
      <4> QED
        BY <4>1, <4>2
    <3> QED
      BY <3>1, <3>2, <3>3, <3>4 DEF OwnRight, Queued, Opens
  <2>5. ForeignRight(g)'
    <3>1. \A d : /\ Wanted(d)' = Wanted(d) /\ (Claimed(d)' <=> Claimed(d))
                 /\ (Claims(g, d)' <=> Claims(H, d))
      BY <1>3, <1>4, <2>3 DEF Wanted, Claimed, Claims
    <3>2. Marked(g.foreign)' = Marked(g.foreign) /\ Marked(g.lowered)' = Marked(g.lowered)
      BY DEF Marked, Cleared, NoText
    <3>3. /\ \A d \in Files : foreign_diags'[d] = Wanted(d)' \/ Claims(g, d)'
          /\ g.todo \in Analysed =>
               /\ Marked(g.foreign)' = Wanted(g.of)'
               /\ \A f \in Marked(g.foreign)' : g.foreign[f].text = disk'[f]
          /\ g.todo = AfterClose => buffer'[g.uri] = None
      BY <1>3, <1>4, <2>1, <3>1, <3>2 DEF ForeignRight
    <3>4. \A f \in Marked(g.lowered)' : f \in Imports[g.of] /\ disk'[f] \in BadTexts
      BY <1>3, <1>4, <2>1, <3>2 DEF ForeignRight
    <3>5. \A f : \A w : (Reported(f, w)' <=> Reported(f, w)) /\ (Dropped(f, w)' <=> Dropped(f, w))
      BY <1>4, <3>1 DEF Reported, Foreign, Dropped, Cleared, NoText
    <3>6. ASSUME NEW k \in 1 .. Len(g.out), buffer'[g.out[k].file] = None
          PROVE  \/ Reported(g.out[k].file, g.out[k].markers)'
                 \/ Dropped(g.out[k].file, g.out[k].markers)'
      BY <1>4, <1>8, <2>1, <3>5, <3>6 DEF ForeignRight
    <3>7. buffer[m.file] = None => Reported(m.file, m.markers) \/ Dropped(m.file, m.markers)
      BY <1>11, <2>1 DEF ForeignRight
    <3>8. ASSUME NEW f \in Files, buffer'[f] = None
          PROVE  Claimed(f)' \/ shown'[f] = Cleared \/ Queued(g, f)
      <4>1. CASE f = m.file
        BY <1>4, <1>6, <3>1, <3>7, <3>8, <4>1 DEF Reported, Dropped
      <4>2. CASE f # m.file
        BY <1>4, <1>6, <1>9, <2>1, <3>1, <3>8, <4>2 DEF ForeignRight
      <4> QED
        BY <4>1, <4>2
    <3>9. ASSUME NEW f \in Files, NEW d \in Files, buffer'[f] = None, f \in foreign_diags'[d]
          PROVE  (shown'[f].by # f /\ shown'[f].text = disk'[f]) \/ Queued(g, f) \/ Claims(g, d)'
      <4>1. CASE f = m.file
        <5>1. Claimed(f)
          BY <1>4, <3>9 DEF Claimed
        <5> QED
          BY <1>4, <1>6, <3>7, <3>9, <4>1, <5>1 DEF Reported, Dropped, Foreign
      <4>2. CASE f # m.file
        BY <1>4, <1>6, <1>9, <2>1, <3>1, <3>9, <4>2 DEF ForeignRight
      <4> QED
        BY <4>1, <4>2
    <3>10. Cleared' = Cleared
      BY DEF Cleared, NoText
    <3> QED
      BY <3>3, <3>4, <3>6, <3>8, <3>9, <3>10 DEF ForeignRight, Queued
  <2> QED
    BY <2>4, <2>5
<1>12. /\ Forms' /\ SteadyInv' /\ CalmInv'
       /\ handlers' \in Seq(Pending) /\ Len(handlers') = Len(handlers)
  BY <1>1, <1>3, <1>4, <1>7, <1>s, <1>c, GoesOn DEF r
<1>13. TypeOK'
  BY <1>4, <1>6, <1>12 DEF IInv, TypeOK
<1> QED
  BY <1>12, <1>13 DEF IInv

(* What a loop over the other documents reads is each one's newest text. *)
LEMMA NewestServes ==
    ASSUME IInv, steady, running # 0, H.todo # AfterOpen, NEW d \in Files
    PROVE  /\ docs[d] # None <=> buffer[d] # None
           /\ docs[d] # None => Serves(d, NewestText(d)) /\ NewestText(d) = buffer[d]
<1>1. Agree(H)
  BY NowRuns
<1>2. docs[d] # None => Serves(d, docs[d])
  BY <1>1 DEF Agree
<1>3. docs[d] = None => buffer[d] = None
  BY <1>1 DEF Agree, Opens
<1>4. changes[d].count \in Nat
  BY DEF IInv, TypeOK
<1>5. changes[d].count > 0 => changes[d].text = buffer[d] /\ buffer[d] # None
  BY DEF IInv, Forms
<1> QED
  BY <1>2, <1>3, <1>4, <1>5 DEF Serves, NewestText

LEMMA OthersKeeps ==
    ASSUME IInv, Others PROVE IInv'
<1> DEFINE r == running
<1> DEFINE open == {[file |-> d, text |-> NewestText(d)] :
                       d \in {d \in Files : docs[d] # None /\ H.uri \in Imports[d]}}
<1> DEFINE new == [H EXCEPT !.todo = Tail(@), !.others = open]
<1>1. /\ r \in 1 .. Len(handlers) /\ H \in Pending /\ Form(H) /\ H.at = "run" /\ Runs(r)
      /\ handlers[r] = H /\ r # 0 /\ H.out = <<>> /\ H.others = {}
      /\ H.todo # <<>> /\ Head(H.todo) = "others" /\ H.todo \in Plans
  BY OnTaskNow DEF IInv, Others, AtStage, H, Form
<1>2. /\ H.todo \notin AtAnalyze \union Analysed /\ H.todo # AfterClose /\ H.todo # AfterOpen
      /\ Tail(H.todo) \in {<<>>, SaveSource} /\ Tail(H.todo) \in Plans \cap Looping
      /\ Tail(H.todo) \notin AtAnalyze \union Analysed \union ToOthers
  BY <1>1, OthersStage, LoopStages
<1>3. Tail(H.todo) # AfterClose
  BY <1>2, OtherStages
<1>4. Tail(H.todo) \in Seq(Stages)
  BY <1>2, StageTypes
<1>5. \A d \in Files : NewestText(d) \in Texts
  <2>1. \A d \in Files : docs[d] \in Texts /\ changes[d].text \in Texts
    BY DEF IInv, TypeOK
  <2> QED
    BY <2>1 DEF NewestText
<1>6. open \subseteq [file : Files, text : Texts]
  BY <1>5
<1>a. PICK S \in SUBSET [file : Files, text : Texts] : S = open
  BY <1>6
<1>7. \A o \in S : /\ o.file \in Files /\ docs[o.file] # None /\ o.text = NewestText(o.file)
                   /\ H.uri \in Imports[o.file]
  BY <1>a
<1>8. ASSUME NEW d \in Files, docs[d] # None, H.uri \in Imports[d]
      PROVE  \E o \in S : o.file = d
  <2>1. [file |-> d, text |-> NewestText(d)] \in S
    BY <1>8, <1>a
  <2> QED
    BY <2>1
<1> HIDE DEF open
<1>9. PICK g \in Pending :
        /\ g = new /\ g.at = "run" /\ g.uri = H.uri /\ g.of = H.of
        /\ g.todo = Tail(H.todo) /\ g.others = S /\ g.lowered = H.lowered /\ g.out = <<>>
  <2>1. /\ new \in Pending /\ new.at = "run" /\ new.uri = H.uri /\ new.of = H.of
        /\ new.todo = Tail(H.todo) /\ new.others = S /\ new.lowered = H.lowered
        /\ new.out = <<>>
    BY <1>1, <1>4, <1>a DEF Pending
  <2> HIDE DEF new
  <2> QED
    BY <2>1
<1>10. /\ handlers' = [handlers EXCEPT ![r] = g]
       /\ UNCHANGED <<docs, changes, foreign_diags, running, shown, buffer, disk, newest, sent,
                      steady, calm>>
  BY <1>9 DEF Others, Update, client, inputs, open
<1> HIDE DEF new
<1>11. Form(g)
  BY <1>1, <1>2, <1>9 DEF Form
<1>12. \A f : Due(f)' <=> Due(f)
  BY <1>1, <1>9, <1>10, DueInPlace DEF IInv
<1>13. \A f : ~ Queued(H, f) /\ ~ Queued(g, f)
  BY <1>1, <1>9 DEF Queued
<1> HIDE DEF r
<1>s. ASSUME steady PROVE Agree(g)' /\ Answered(g)'
  <2>1. Agree(H) /\ Answered(H)
    BY <1>1, <1>s, NowRuns DEF r
  <2>2. \A f : \A t : Serves(f, t)' <=> Serves(f, t)
    BY <1>10 DEF Serves
  <2>3. \A o \in g.others : Serves(o.file, o.text)
    BY <1>1, <1>2, <1>7, <1>9, <1>s, NewestServes DEF r
  <2>4. Agree(g)'
    BY <1>2, <1>9, <1>10, <2>1, <2>2, <2>3 DEF Agree, Opens
  <2>5. Answered(g)'
    BY <1>9, <1>10, <1>13, <2>1 DEF Answered, Foreign, Claimed
  <2> QED
    BY <2>4, <2>5
<1>c. ASSUME calm PROVE OwnRight(g)' /\ ForeignRight(g)'
  <2>1. steady /\ OwnRight(H) /\ ForeignRight(H)
    BY <1>1, <1>c, NowRuns DEF r
  <2>2. \A f : \A w : Fresh(f, w)' <=> Fresh(f, w)
    BY <1>10 DEF Fresh, Current
  <2>3. ASSUME NEW f \in Files PROVE Analyses(H, f) => Analyses(g, f)'
    <3>1. Analyses(H, f) => buffer[f] # None /\ H.uri \in Imports[f]
      BY <1>1, <1>2 DEF Analyses
    <3>2. buffer[f] # None => docs[f] # None
      BY <1>1, <1>2, <2>1, NewestServes DEF r
    <3> QED
      BY <1>8, <1>9, <3>1, <3>2 DEF Analyses
  <2>4. OwnRight(g)'
    <3>1. \A f \in Files : docs'[f] # None => docs'[f] = buffer'[f] \/ Due(f)'
      BY <1>2, <1>10, <1>12, <2>1 DEF OwnRight, Opens
    <3>2. \A o \in g.others : o.text = buffer'[o.file] /\ buffer'[o.file] # None
      BY <1>1, <1>2, <1>7, <1>9, <1>10, <2>1, NewestServes DEF r
    <3>3. \A f \in Files : buffer'[f] # None =>
             Fresh(f, shown[f])' \/ (\E d \in Imports[f] \union {f} : Due(d)') \/ Analyses(g, f)'
      BY <1>10, <1>12, <1>13, <2>1, <2>2, <2>3 DEF OwnRight
    <3> QED
      BY <1>2, <1>9, <3>1, <3>2, <3>3 DEF OwnRight
  <2>5. ForeignRight(g)'
    <3>1. \A d : /\ Wanted(d)' = Wanted(d) /\ (Claimed(d)' <=> Claimed(d))
      BY <1>10 DEF Wanted, Claimed
    <3>2. \A d \in Files : Claims(H, d) => Claims(g, d)'
      BY <1>2, <2>3 DEF Claims
    <3>3. \A f \in Marked(g.lowered)' : f \in Imports[g.of] /\ disk'[f] \in BadTexts
      BY <1>9, <1>10, <2>1 DEF ForeignRight, Marked, Cleared, NoText
    <3>4. \A d \in Files : foreign_diags'[d] = Wanted(d)' \/ Claims(g, d)'
      BY <1>10, <2>1, <3>1, <3>2 DEF ForeignRight
    <3>5. \A f \in Files : buffer'[f] = None => Claimed(f)' \/ shown'[f] = Cleared'
      BY <1>10, <1>13, <2>1, <3>1 DEF ForeignRight, Cleared, NoText
    <3>6. \A f, d \in Files : buffer'[f] = None /\ f \in foreign_diags'[d] =>
             (shown'[f].by # f /\ shown'[f].text = disk'[f]) \/ Claims(g, d)'
      BY <1>10, <1>13, <2>1, <3>2 DEF ForeignRight
    <3> QED
      BY <1>2, <1>3, <1>9, <3>3, <3>4, <3>5, <3>6 DEF ForeignRight
  <2> QED
    BY <2>4, <2>5
<1>14. /\ Forms' /\ SteadyInv' /\ CalmInv'
       /\ handlers' \in Seq(Pending) /\ Len(handlers') = Len(handlers)
  BY <1>1, <1>9, <1>10, <1>11, <1>s, <1>c, GoesOn DEF r
<1>15. TypeOK'
  BY <1>10, <1>14 DEF IInv, TypeOK
<1> QED
  BY <1>14, <1>15 DEF IInv

LEMMA NextOtherDoes ==
    ASSUME IInv, NextOther
    PROVE  \E g \in Pending, o \in H.others :
             /\ handlers' = [handlers EXCEPT ![running] = g] /\ Form(g)
             /\ g.at = "run" /\ g.uri = H.uri /\ g.of = o.file /\ g.text = o.text
             /\ g.others = H.others \ {o} /\ g.out = <<>> /\ H.out = <<>>
             /\ g.lowered = H.lowered
             /\ H.todo \in {<<>>, SaveSource} /\ g.todo \in {LoopAnalyze, LoopInSave}
<1>1. /\ running \in 1 .. Len(handlers) /\ H \in Pending /\ Form(H) /\ H.at = "run"
      /\ H.out = <<>> /\ H.others \in SUBSET [file : Files, text : Texts]
  BY OnTaskNow DEF IInv, NextOther, Pending
<1>2. PICK o \in H.others :
        Update([H EXCEPT !.others = @ \ {o}, !.of = o.file, !.text = o.text,
                         !.todo = <<"analyze", "claim">> \o @])
  BY DEF NextOther
<1>3. o.file \in Files /\ o.text \in Texts
  BY <1>1
<1>4. H.todo \in {<<>>, SaveSource}
  <2>1. H.todo \in Looping
    BY <1>1, <1>2 DEF Form
  <2> QED
    BY <2>1, LoopNext DEF NextOther
<1> DEFINE todo == <<"analyze", "claim">> \o H.todo
<1>5. todo \in {LoopAnalyze, LoopInSave}
  BY <1>4, LoopStages
<1> HIDE DEF todo
<1>6. todo \in Plans \cap Looping /\ todo \notin Analysed /\ todo \in Seq(Stages)
  BY <1>5, LoopStages, StageTypes
<1> DEFINE g == [H EXCEPT !.others = @ \ {o}, !.of = o.file, !.text = o.text, !.todo = todo]
<1>7. /\ g \in Pending
      /\ g.at = "run" /\ g.uri = H.uri /\ g.of = o.file /\ g.text = o.text
      /\ g.others = H.others \ {o} /\ g.out = <<>> /\ g.lowered = H.lowered /\ g.todo = todo
  BY <1>1, <1>3, <1>6 DEF Pending
<1>8. handlers' = [handlers EXCEPT ![running] = g]
  BY <1>2 DEF Update, todo
<1> HIDE DEF g
<1>9. Form(g)
  BY <1>1, <1>6, <1>7 DEF Form
<1> QED
  BY <1>1, <1>4, <1>5, <1>7, <1>8, <1>9

LEMMA NextOtherKeeps ==
    ASSUME IInv, NextOther PROVE IInv'
<1> DEFINE r == running
<1>1. /\ r \in 1 .. Len(handlers) /\ H \in Pending /\ Form(H) /\ H.at = "run" /\ Runs(r)
      /\ handlers[r] = H /\ r # 0 /\ H.others \in SUBSET [file : Files, text : Texts]
  BY OnTaskNow DEF IInv, NextOther, Pending, H
<1>2. PICK g \in Pending, o \in H.others :
        /\ handlers' = [handlers EXCEPT ![r] = g] /\ Form(g)
        /\ g.at = "run" /\ g.uri = H.uri /\ g.of = o.file /\ g.text = o.text
        /\ g.others = H.others \ {o} /\ g.out = <<>> /\ H.out = <<>>
        /\ g.lowered = H.lowered
        /\ H.todo \in {<<>>, SaveSource} /\ g.todo \in {LoopAnalyze, LoopInSave}
  BY NextOtherDoes
<1>3. UNCHANGED <<docs, changes, foreign_diags, running, shown, buffer, disk, newest, sent,
                  steady, calm>>
  BY DEF NextOther, client, inputs
<1>4. /\ H.todo \notin AtAnalyze \union Analysed \union ToOthers
      /\ H.todo # AfterOpen /\ H.todo # AfterClose
      /\ g.todo \in AtAnalyze /\ g.todo \notin Analysed \union ToOthers
      /\ g.todo # AfterOpen /\ g.todo # AfterClose
  BY <1>2, LoopStages, OtherStages
<1>5. \A f : Due(f)' <=> Due(f)
  BY <1>1, <1>2, <1>3, DueInPlace DEF IInv
<1>6. \A f : ~ Queued(H, f) /\ ~ Queued(g, f)
  BY <1>2 DEF Queued
<1>7. o.file \in Files
  BY <1>1
<1> HIDE DEF r
<1>s. ASSUME steady PROVE Agree(g)' /\ Answered(g)'
  <2>1. Agree(H) /\ Answered(H)
    BY <1>1, <1>s, NowRuns DEF r
  <2>2. \A f : \A t : Serves(f, t)' <=> Serves(f, t)
    BY <1>3 DEF Serves
  <2>3. Agree(g)'
    BY <1>2, <1>3, <1>4, <2>1, <2>2 DEF Agree, Opens
  <2>4. Answered(g)'
    BY <1>2, <1>3, <1>6, <2>1 DEF Answered, Foreign, Claimed
  <2> QED
    BY <2>3, <2>4
<1>c. ASSUME calm PROVE OwnRight(g)' /\ ForeignRight(g)'
  <2>1. steady /\ OwnRight(H) /\ ForeignRight(H)
    BY <1>1, <1>c, NowRuns DEF r
  <2>2. \A f : \A w : Fresh(f, w)' <=> Fresh(f, w)
    BY <1>3 DEF Fresh, Current
  <2>3. \A f \in Files : Analyses(H, f) => Analyses(g, f)'
    BY <1>2, <1>3, <1>4 DEF Analyses
  <2>4. OwnRight(g)'
    <3>1. \A f \in Files : docs'[f] # None => docs'[f] = buffer'[f] \/ Due(f)'
      BY <1>3, <1>4, <1>5, <2>1 DEF OwnRight, Opens
    <3>2. g.text = buffer'[g.of] /\ buffer'[g.of] # None
      BY <1>2, <1>3, <2>1 DEF OwnRight
    <3>3. \A p \in g.others : p.text = buffer'[p.file] /\ buffer'[p.file] # None
      BY <1>2, <1>3, <2>1 DEF OwnRight
    <3>4. \A f \in Files : buffer'[f] # None =>
             Fresh(f, shown[f])' \/ (\E d \in Imports[f] \union {f} : Due(d)') \/ Analyses(g, f)'
      BY <1>3, <1>5, <1>6, <2>1, <2>2, <2>3 DEF OwnRight
    <3> QED
      BY <1>2, <1>4, <3>1, <3>2, <3>3, <3>4 DEF OwnRight
  <2>5. ForeignRight(g)'
    <3>1. \A d : /\ Wanted(d)' = Wanted(d) /\ (Claimed(d)' <=> Claimed(d))
      BY <1>3 DEF Wanted, Claimed
    <3>2. \A d \in Files : Claims(H, d) => Claims(g, d)'
      BY <1>4, <2>3 DEF Claims
    <3>3. Marked(g.lowered)' = {}
      BY <1>2, <1>1 DEF Form, Marked, Cleared, NoText
    <3>4. \A d \in Files : foreign_diags'[d] = Wanted(d)' \/ Claims(g, d)'
      BY <1>3, <2>1, <3>1, <3>2 DEF ForeignRight
    <3>5. \A f \in Files : buffer'[f] = None => Claimed(f)' \/ shown'[f] = Cleared'
      BY <1>3, <1>6, <2>1, <3>1 DEF ForeignRight, Cleared, NoText
    <3>6. \A f, d \in Files : buffer'[f] = None /\ f \in foreign_diags'[d] =>
             (shown'[f].by # f /\ shown'[f].text = disk'[f]) \/ Claims(g, d)'
      BY <1>3, <1>6, <2>1, <3>2 DEF ForeignRight
    <3> QED
      BY <1>2, <1>4, <3>3, <3>4, <3>5, <3>6 DEF ForeignRight
  <2> QED
    BY <2>4, <2>5
<1>8. /\ Forms' /\ SteadyInv' /\ CalmInv'
      /\ handlers' \in Seq(Pending) /\ Len(handlers') = Len(handlers)
  BY <1>1, <1>2, <1>3, <1>s, <1>c, GoesOn DEF r
<1>9. TypeOK'
  BY <1>3, <1>8 DEF IInv, TypeOK
<1> QED
  BY <1>8, <1>9 DEF IInv

(* did_save goes on with the document it found open. *)
LEMMA SourceGoesOn ==
    ASSUME IInv, Source, docs[H.uri] # None PROVE IInv'
<1> DEFINE r == running
<1> DEFINE new == [H EXCEPT !.todo = Tail(@), !.of = H.uri, !.text = docs[H.uri]]
<1>1. /\ r \in 1 .. Len(handlers) /\ H \in Pending /\ Form(H) /\ H.at = "run" /\ Runs(r)
      /\ handlers[r] = H /\ r # 0 /\ H.out = <<>> /\ H.others = {}
      /\ H.todo # <<>> /\ Head(H.todo) = "source" /\ H.todo \in Plans /\ H.uri \in Files
  BY OnTaskNow DEF IInv, Source, AtStage, H, Form, Pending
<1>2. /\ H.todo = SaveSource /\ Tail(H.todo) = SaveAnalyze
      /\ SaveSource \notin AtAnalyze \union Analysed \union ToOthers
      /\ SaveSource # AfterOpen /\ SaveSource # AfterClose
      /\ SaveAnalyze \in AtAnalyze \cap Plans
      /\ SaveAnalyze \notin Analysed \union ToOthers \union {AfterClose}
      /\ SaveAnalyze # AfterOpen /\ SaveAnalyze \in Seq(Stages)
  BY <1>1, StagesAt, LoopStages, OtherStages, StageTypes
<1>3. docs[H.uri] \in Texts
  BY <1>1 DEF IInv, TypeOK
<1>4. PICK g \in Pending :
        /\ g = new /\ g.at = "run" /\ g.uri = H.uri /\ g.of = H.uri /\ g.text = docs[H.uri]
        /\ g.todo = SaveAnalyze /\ g.others = {} /\ g.lowered = H.lowered /\ g.out = <<>>
  <2>1. new \in Pending /\ new.at = "run" /\ new.uri = H.uri /\ new.of = H.uri
    BY <1>1, <1>2, <1>3 DEF Pending
  <2>2. /\ new.text = docs[H.uri] /\ new.todo = SaveAnalyze
        /\ new.others = {} /\ new.lowered = H.lowered /\ new.out = <<>>
    BY <1>1, <1>2 DEF Pending
  <2> HIDE DEF new
  <2> QED
    BY <2>1, <2>2
<1>5. /\ handlers' = [handlers EXCEPT ![r] = g]
      /\ UNCHANGED <<docs, changes, foreign_diags, running, shown, buffer, disk, newest, sent,
                     steady, calm>>
  BY <1>4 DEF Source, Update, client, inputs
<1> HIDE DEF new
<1>6. Form(g)
  BY <1>1, <1>2, <1>4 DEF Form
<1>7. \A f : Due(f)' <=> Due(f)
  BY <1>1, <1>4, <1>5, DueInPlace DEF IInv
<1>8. \A f : ~ Queued(H, f) /\ ~ Queued(g, f)
  BY <1>1, <1>4 DEF Queued
<1> HIDE DEF r
<1>s. ASSUME steady PROVE Agree(g)' /\ Answered(g)'
  <2>1. Agree(H) /\ Answered(H)
    BY <1>1, <1>s, NowRuns DEF r
  <2>2. \A f : \A t : Serves(f, t)' <=> Serves(f, t)
    BY <1>5 DEF Serves
  <2>3. Serves(g.of, g.text)
    BY <1>1, <1>4, <2>1 DEF Agree
  <2>4. Agree(g)'
    BY <1>2, <1>4, <1>5, <2>1, <2>2, <2>3 DEF Agree, Opens
  <2>5. Answered(g)'
    BY <1>4, <1>5, <1>8, <2>1 DEF Answered, Foreign, Claimed
  <2> QED
    BY <2>4, <2>5
<1>c. ASSUME calm PROVE OwnRight(g)' /\ ForeignRight(g)'
  <2>1. steady /\ OwnRight(H) /\ ForeignRight(H)
    BY <1>1, <1>c, NowRuns DEF r
  <2>2. \A f : \A w : Fresh(f, w)' <=> Fresh(f, w)
    BY <1>5 DEF Fresh, Current
  <2>3. \A f \in Files : ~ Analyses(H, f) /\ ~ Claims(H, f)
    BY <1>1, <1>2 DEF Analyses, Claims
  <2>4. OwnRight(g)'
    <3>1. \A f \in Files : docs'[f] # None => docs'[f] = buffer'[f] \/ Due(f)'
      BY <1>2, <1>5, <1>7, <2>1 DEF OwnRight, Opens
    <3>2. buffer[H.uri] # None
      BY <1>1, <2>1, NowRuns DEF r, Agree, Serves
    <3>3. (g.text = buffer'[g.of] \/ Due(g.of)') /\ buffer'[g.of] # None
      BY <1>1, <1>4, <1>5, <3>1, <3>2
    <3>4. \A f \in Files : buffer'[f] # None =>
             Fresh(f, shown[f])' \/ (\E d \in Imports[f] \union {f} : Due(d)')
      BY <1>5, <1>7, <1>8, <2>1, <2>2, <2>3 DEF OwnRight
    <3> QED
      BY <1>2, <1>4, <3>1, <3>3, <3>4 DEF OwnRight
  <2>5. ForeignRight(g)'
    <3>1. \A d : /\ Wanted(d)' = Wanted(d) /\ (Claimed(d)' <=> Claimed(d))
      BY <1>5 DEF Wanted, Claimed
    <3>2. Marked(g.lowered)' = {}
      BY <1>1, <1>4 DEF Form, Marked, Cleared, NoText
    <3>3. \A d \in Files : foreign_diags'[d] = Wanted(d)'
      BY <1>5, <2>1, <2>3, <3>1 DEF ForeignRight
    <3>4. \A f \in Files : buffer'[f] = None => Claimed(f)' \/ shown'[f] = Cleared'
      BY <1>5, <1>8, <2>1, <3>1 DEF ForeignRight, Cleared, NoText
    <3>5. \A f, d \in Files : buffer'[f] = None /\ f \in foreign_diags'[d] =>
             shown'[f].by # f /\ shown'[f].text = disk'[f]
      BY <1>5, <1>8, <2>1, <2>3 DEF ForeignRight
    <3> QED
      BY <1>2, <1>4, <3>2, <3>3, <3>4, <3>5 DEF ForeignRight
  <2> QED
    BY <2>4, <2>5
<1>9. /\ Forms' /\ SteadyInv' /\ CalmInv'
      /\ handlers' \in Seq(Pending) /\ Len(handlers') = Len(handlers)
  BY <1>1, <1>4, <1>5, <1>6, <1>s, <1>c, GoesOn DEF r
<1>10. TypeOK'
  BY <1>5, <1>9 DEF IInv, TypeOK
<1> QED
  BY <1>9, <1>10 DEF IInv

LEMMA ReleaseDoes ==
    ASSUME IInv, Release
    PROVE  \E g \in Pending :
             /\ handlers' = [handlers EXCEPT ![running] = g] /\ Form(g)
             /\ g.at = "run" /\ g.uri = H.uri /\ g.of = H.of /\ g.others = {}
             /\ H.out = <<>> /\ H.others = {}
             /\ g.lowered = H.lowered /\ g.todo = JustOthers /\ H.todo = AfterClose
             /\ \A k \in 1 .. Len(g.out) :
                   /\ g.out[k].file \in Retracted(H.uri, foreign_diags')
                   /\ g.out[k].markers = Cleared
             /\ \A f \in Retracted(H.uri, foreign_diags') : Queued(g, f)
<1>1. /\ running \in 1 .. Len(handlers) /\ H \in Pending /\ Form(H) /\ H.at = "run"
      /\ H.uri \in Files /\ H.out = <<>> /\ H.others = {}
      /\ H.todo # <<>> /\ Head(H.todo) = "release" /\ H.todo \in Plans
  BY OnTaskNow DEF IInv, Release, AtStage, Pending, Form
<1>2. foreign_diags[H.uri] \in SUBSET Files
  BY <1>1 DEF IInv, TypeOK
<1> DEFINE R == Retracted(H.uri, foreign_diags')
<1>3. PICK order \in Orders(R) :
        Update([H EXCEPT !.todo = Tail(@), !.out = Messages(order, NoMarkers)])
  BY DEF Release, Retracted
<1>4. R \in SUBSET Files
  BY <1>2 DEF Retracted
<1> HIDE DEF R
<1> DEFINE b == Messages(order, NoMarkers)
<1>5. /\ b \in Seq(Publishes)
      /\ \A k \in 1 .. Len(b) : b[k].file \in R /\ b[k].markers = NoMarkers[b[k].file]
      /\ \A f \in R : \E k \in 1 .. Len(b) : b[k].file = f
  BY <1>4, MessagesAre, MarkersTyped
<1>6. \A f \in R : NoMarkers[f] = Cleared
  BY <1>4 DEF NoMarkers
<1> HIDE DEF b
<1>7. /\ H.todo = AfterClose /\ Tail(H.todo) = JustOthers
      /\ JustOthers \in Plans /\ JustOthers \in Seq(Stages) /\ JustOthers \notin Analysed
  BY <1>1, StagesAt, OtherStages, StageTypes
<1> DEFINE g == [H EXCEPT !.todo = Tail(@), !.out = b]
<1>8. /\ g \in Pending
      /\ g.at = "run" /\ g.uri = H.uri /\ g.of = H.of /\ g.others = {}
      /\ g.lowered = H.lowered /\ g.todo = JustOthers /\ g.out = b
  BY <1>1, <1>5, <1>7 DEF Pending
<1>9. handlers' = [handlers EXCEPT ![running] = g]
  BY <1>3 DEF Update, b
<1> HIDE DEF g
<1>10. Form(g)
  BY <1>1, <1>7, <1>8 DEF Form
<1>11. \A f \in R : Queued(g, f)
  BY <1>5, <1>8 DEF Queued
<1>12. \A k \in 1 .. Len(g.out) : g.out[k].file \in R /\ g.out[k].markers = Cleared
  BY <1>5, <1>6, <1>8
<1> QED
  BY <1>1, <1>7, <1>8, <1>9, <1>10, <1>11, <1>12 DEF R

LEMMA ReleaseKeeps ==
    ASSUME IInv, Release PROVE IInv'
<1> DEFINE r == running
<1>1. /\ r \in 1 .. Len(handlers) /\ H \in Pending /\ Form(H) /\ H.at = "run" /\ Runs(r)
      /\ handlers[r] = H /\ H.uri \in Files /\ r # 0
  BY OnTaskNow DEF IInv, Release, AtStage, Pending, H
<1>2. PICK g \in Pending :
        /\ handlers' = [handlers EXCEPT ![r] = g] /\ Form(g)
        /\ g.at = "run" /\ g.uri = H.uri /\ g.of = H.of /\ g.others = {}
        /\ H.out = <<>> /\ H.others = {}
        /\ g.lowered = H.lowered /\ g.todo = JustOthers /\ H.todo = AfterClose
        /\ \A k \in 1 .. Len(g.out) :
              /\ g.out[k].file \in Retracted(H.uri, foreign_diags')
              /\ g.out[k].markers = Cleared
        /\ \A f \in Retracted(H.uri, foreign_diags') : Queued(g, f)
  BY ReleaseDoes
<1>3. /\ foreign_diags' = [foreign_diags EXCEPT ![H.uri] = {}]
      /\ UNCHANGED <<docs, changes, running, shown, buffer, disk, newest, sent, steady, calm>>
  BY DEF Release, client, inputs
<1>4. /\ foreign_diags' \in [Files -> SUBSET Files]
      /\ \A d \in Files : foreign_diags'[d] = IF d = H.uri THEN {} ELSE foreign_diags[d]
  BY <1>1, <1>3 DEF IInv, TypeOK
<1>5. /\ AfterClose \in ToOthers /\ AfterClose \notin AtAnalyze \union Analysed
      /\ AfterClose # AfterOpen
      /\ JustOthers \in ToOthers /\ JustOthers # AfterClose
      /\ JustOthers \notin AtAnalyze \union Analysed
  BY OtherStages
<1>6. \A f : Due(f)' <=> Due(f)
  BY <1>1, <1>2, <1>3, DueInPlace DEF IInv
<1>7. Cleared.by = "none" /\ "none" \notin Files
  BY ServerAssumption DEF Cleared
<1>8. Retracted(H.uri, foreign_diags') \subseteq Files
  BY <1>1 DEF Retracted, IInv, TypeOK
<1>9. \A f \in Files : Claimed(f) => Claimed(f)' \/ f \in Retracted(H.uri, foreign_diags')
  BY <1>4 DEF Claimed, Retracted
<1>10. \A f \in Retracted(H.uri, foreign_diags') : ~ Claimed(f)'
  BY DEF Claimed, Retracted
<1>11. \A f : ~ Queued(H, f)
  BY <1>2 DEF Queued
<1> HIDE DEF r
<1>s. ASSUME steady PROVE Agree(g)' /\ Answered(g)'
  <2>1. Agree(H) /\ Answered(H)
    BY <1>1, <1>s, NowRuns DEF r
  <2>2. Agree(g)'
    BY <1>2, <1>3, <1>5, <2>1 DEF Agree, Serves, Opens
  <2>3. \A k \in 1 .. Len(g.out) : ~ Foreign(g.out[k].file, g.out[k].markers)
    BY <1>2, <1>7 DEF Foreign
  <2>4. ASSUME NEW f \in Files, Foreign(f, shown[f])' PROVE Claimed(f)' \/ Queued(g, f)
    <3>1. Foreign(f, shown[f])
      BY <1>3, <2>4 DEF Foreign
    <3>2. Claimed(f)
      BY <1>11, <2>1, <3>1 DEF Answered
    <3> QED
      BY <1>2, <1>9, <3>2
  <2>5. Answered(g)'
    BY <2>3, <2>4 DEF Answered, Foreign, Queued
  <2> QED
    BY <2>2, <2>5
<1>c. ASSUME calm PROVE OwnRight(g)' /\ ForeignRight(g)'
  <2>1. steady /\ OwnRight(H) /\ ForeignRight(H)
    BY <1>1, <1>c, NowRuns DEF r
  <2>2. \A f : \A m : Fresh(f, m)' <=> Fresh(f, m)
    BY <1>3 DEF Fresh, Current
  <2>3. \A f \in Files : Analyses(H, f) => Analyses(g, f)'
    BY <1>2, <1>3, <1>5 DEF Analyses
  <2>4. \A k \in 1 .. Len(g.out) : Fresh(g.out[k].file, g.out[k].markers)'
    BY <1>2, <1>7, <1>8 DEF Fresh
  <2>5. OwnRight(g)'
    <3>1. \A f \in Files : docs'[f] # None => docs'[f] = buffer'[f] \/ Due(f)'
      BY <1>2, <1>3, <1>5, <1>6, <2>1 DEF OwnRight, Opens
    <3>2. \A f \in Files : buffer'[f] # None =>
             Fresh(f, shown[f])' \/ (\E d \in Imports[f] \union {f} : Due(d)') \/ Analyses(g, f)'
      BY <1>3, <1>6, <1>11, <2>1, <2>2, <2>3 DEF OwnRight
    <3> QED
      BY <1>2, <1>5, <2>4, <3>1, <3>2 DEF OwnRight
  <2>6. ForeignRight(g)'
    <3>1. \A d : Wanted(d)' = Wanted(d)
      BY <1>3 DEF Wanted
    <3>2. \A d \in Files : Claims(H, d) => d = H.uri \/ Claims(g, d)'
      BY <2>3 DEF Claims
    <3>3. Wanted(H.uri) = {}
      BY <1>2, <2>1 DEF ForeignRight, Wanted
    <3>4. \A d \in Files : foreign_diags'[d] = Wanted(d)' \/ Claims(g, d)'
      BY <1>4, <2>1, <3>1, <3>2, <3>3 DEF ForeignRight
    <3>5. Marked(g.lowered)' = {}
      BY <1>1, <1>2 DEF Form, Marked, Cleared, NoText
    <3>6. \A k \in 1 .. Len(g.out) : Dropped(g.out[k].file, g.out[k].markers)'
      BY <1>2, <1>10 DEF Dropped, Cleared, NoText
    <3>7. \A f \in Files : buffer'[f] = None => Claimed(f)' \/ shown'[f] = Cleared' \/ Queued(g, f)
      BY <1>2, <1>3, <1>9, <1>11, <2>1 DEF ForeignRight, Cleared, NoText
    <3>8. \A f, d \in Files : buffer'[f] = None /\ f \in foreign_diags'[d] =>
             (shown'[f].by # f /\ shown'[f].text = disk'[f]) \/ Queued(g, f) \/ Claims(g, d)'
      BY <1>3, <1>4, <1>11, <2>1, <3>2 DEF ForeignRight
    <3> QED
      BY <1>2, <1>5, <3>4, <3>5, <3>6, <3>7, <3>8 DEF ForeignRight, Queued
  <2> QED
    BY <2>5, <2>6
<1>12. /\ Forms' /\ SteadyInv' /\ CalmInv'
       /\ handlers' \in Seq(Pending) /\ Len(handlers') = Len(handlers)
  BY <1>1, <1>2, <1>3, <1>s, <1>c, GoesOn DEF r
<1>13. TypeOK'
  BY <1>3, <1>4, <1>12 DEF IInv, TypeOK
<1> QED
  BY <1>12, <1>13 DEF IInv

(* What a handler with nothing more to publish or re-analyse leaves behind. *)
LEMMA NothingLeft ==
    ASSUME NEW h, h.others = {}, h.out = <<>>, h.todo \in {<<>>, SaveSource, SaveLower}
    PROVE  /\ Agree(h) => Agree(NoWork)
           /\ Answered(h) => Answered(NoWork)
<1>1. NoWork.others = {} /\ NoWork.out = <<>> /\ NoWork.todo = <<>>
  BY DEF NoWork
<1>2. h.todo # AfterOpen /\ <<>> \notin AtAnalyze
  BY LoopStages, PlansDiffer, Heads, OtherStages
<1>3. Agree(h) => Agree(NoWork)
  BY <1>1, <1>2 DEF Agree, Opens
<1>4. Answered(h) => Answered(NoWork)
  BY <1>1 DEF Answered, Queued
<1> QED
  BY <1>3, <1>4

LEMMA NothingRight ==
    ASSUME NEW h, h.others = {}, h.out = <<>>, h.todo \in {<<>>, SaveSource}
    PROVE  /\ OwnRight(h) => OwnRight(NoWork)
           /\ ForeignRight(h) => ForeignRight(NoWork)
<1>1. /\ NoWork.others = {} /\ NoWork.out = <<>> /\ NoWork.todo = <<>>
      /\ NoWork.lowered = NoMarkers
  BY DEF NoWork
<1>2. /\ h.todo \notin AtAnalyze \union Analysed \union ToOthers
      /\ <<>> \notin AtAnalyze \union Analysed \union ToOthers
      /\ h.todo # AfterOpen /\ h.todo # AfterClose /\ <<>> # AfterOpen /\ <<>> # AfterClose
  BY LoopStages, OtherStages
<1>3. \A f \in Files : ~ Queued(h, f) /\ ~ Analyses(h, f) /\ ~ Claims(h, f)
  BY <1>2 DEF Queued, Analyses, Claims
<1>4. OwnRight(h) => OwnRight(NoWork)
  BY <1>1, <1>2, <1>3 DEF OwnRight, Opens
<1>5. Marked(NoWork.lowered) = {}
  BY <1>1 DEF Marked, NoMarkers
<1>6. ForeignRight(h) => ForeignRight(NoWork)
  BY <1>1, <1>2, <1>3, <1>5 DEF ForeignRight
<1> QED
  BY <1>4, <1>6

LEMMA Unmoved ==
    ASSUME UNCHANGED <<docs, changes, buffer, disk, shown, foreign_diags>>,
           \A f : Due(f)' <=> Due(f), NEW h
    PROVE  /\ Agree(h)' <=> Agree(h)
           /\ Answered(h)' <=> Answered(h)
           /\ OwnRight(h)' <=> OwnRight(h)
           /\ ForeignRight(h)' <=> ForeignRight(h)
<1>1. Agree(h)' <=> Agree(h)
  BY DEF Agree, Serves, Opens
<1>2. \A f : Claimed(f)' <=> Claimed(f)
  BY DEF Claimed
<1>3. Answered(h)' <=> Answered(h)
  BY <1>2 DEF Answered, Foreign, Queued
<1>4. \A f : \A m : Fresh(f, m)' <=> Fresh(f, m)
  BY DEF Fresh, Current
<1>5. \A f : /\ Analyses(h, f)' <=> Analyses(h, f)
             /\ Queued(h, f)' <=> Queued(h, f)
             /\ Claims(h, f)' <=> Claims(h, f)
  BY DEF Analyses, Queued, Claims
<1>6. OwnRight(h)' <=> OwnRight(h)
  BY <1>4, <1>5 DEF OwnRight, Opens
<1>7. \A d : Wanted(d)' = Wanted(d)
  BY DEF Wanted
<1>8. Marked(h.foreign)' = Marked(h.foreign) /\ Marked(h.lowered)' = Marked(h.lowered)
  BY DEF Marked, Cleared, NoText
<1>9. \A f : \A m : (Reported(f, m)' <=> Reported(f, m)) /\ (Dropped(f, m)' <=> Dropped(f, m))
  BY <1>2 DEF Reported, Dropped, Foreign, Cleared, NoText
<1>10. Cleared' = Cleared
  BY DEF Cleared, NoText
<1>11. ForeignRight(h)' <=> ForeignRight(h)
  BY <1>2, <1>5, <1>7, <1>8, <1>9, <1>10 DEF ForeignRight
<1> QED
  BY <1>1, <1>3, <1>6, <1>11

(* A handler leaves: did_change whose wait is over and whose count is old, or
   the one on the task with nothing more to do. *)
LEMMA Leaves ==
    ASSUME IInv, NEW r \in 1 .. Len(handlers), handlers' = RemoveAt(handlers, r),
           running' = 0, running \in {0, r},
           UNCHANGED <<docs, changes, buffer, disk, shown, foreign_diags>>,
           steady' => steady, calm' => calm /\ steady',
           steady' => \A i : ~ Runs(i) \/ i = r,
           calm' => \A i : ~ Works(i) \/ i = r,
           steady' => Agree(NoWork) /\ Answered(NoWork),
           calm' => OwnRight(NoWork) /\ ForeignRight(NoWork),
           \A f : ~ Holds(r, f)
    PROVE  Forms' /\ SteadyInv' /\ CalmInv' /\ handlers' \in Seq(Pending)
<1>1. /\ handlers' \in Seq(Pending) /\ Len(handlers) \in Nat
      /\ Len(handlers') = Len(handlers) - 1
      /\ \A i \in 1 .. Len(handlers') : handlers'[i] = handlers[IF i < r THEN i ELSE i + 1]
      /\ \A j \in 1 .. Len(handlers) : j # r =>
            /\ (IF j < r THEN j ELSE j - 1) \in 1 .. Len(handlers')
            /\ handlers'[IF j < r THEN j ELSE j - 1] = handlers[j]
  BY Removed DEF IInv, TypeOK
<1>2. ASSUME NEW i \in 1 .. Len(handlers')
      PROVE  \E j \in 1 .. Len(handlers) :
               /\ j # r /\ handlers'[i] = handlers[j] /\ j = (IF i < r THEN i ELSE i + 1)
  BY <1>1
<1>3. ASSUME NEW i \in 1 .. Len(handlers') PROVE Form(handlers[i])'
  <2>1. PICK j \in 1 .. Len(handlers) : handlers'[i] = handlers[j]
    BY <1>2
  <2>2. Form(handlers[j])
    BY DEF IInv, Forms
  <2> QED
    BY <2>1, <2>2
<1>4. ASSUME NEW i \in 1 .. Len(handlers') PROVE Followed(i)'
  <2>1. PICK j \in 1 .. Len(handlers) :
          j # r /\ handlers'[i] = handlers[j] /\ j = (IF i < r THEN i ELSE i + 1)
    BY <1>2
  <2> SUFFICES ASSUME handlers'[i].at = "wait", StillNewest(i)'
               PROVE  \E k \in i .. Len(handlers') : Holds(k, handlers[i].uri)'
    BY DEF Followed
  <2>2. handlers[j].at = "wait" /\ StillNewest(j)
    BY <2>1 DEF StillNewest
  <2>3. PICK k \in j .. Len(handlers) : Holds(k, handlers[j].uri)
    BY <2>2 DEF IInv, Forms, Followed
  <2>4. k \in 1 .. Len(handlers) /\ k # r
    BY <1>1, <2>3
  <2> DEFINE n == IF k < r THEN k ELSE k - 1
  <2>5. n \in 1 .. Len(handlers') /\ handlers'[n] = handlers[k]
    BY <1>1, <2>4
  <2>6. n >= i
    BY <1>1, <2>1, <2>3, <2>4
  <2>7. n \in i .. Len(handlers')
    BY <1>1, <2>5, <2>6
  <2> HIDE DEF n
  <2>8. Holds(n, handlers[i].uri)'
    BY <2>1, <2>3, <2>5 DEF Holds
  <2> QED
    BY <2>7, <2>8
<1>5. Forms'
  BY <1>3, <1>4 DEF IInv, Forms
<1>6. ASSUME NEW f PROVE Due(f)' <=> Due(f)
  <2>1. ASSUME Due(f) PROVE Due(f)'
    <3>1. PICK k \in 1 .. Len(handlers) : Holds(k, f)
      BY <2>1 DEF Due
    <3> DEFINE n == IF k < r THEN k ELSE k - 1
    <3>2. n \in 1 .. Len(handlers') /\ handlers'[n] = handlers[k]
      BY <1>1, <3>1
    <3> HIDE DEF n
    <3>3. Holds(n, f)'
      BY <3>1, <3>2 DEF Holds
    <3> QED
      BY <3>2, <3>3 DEF Due
  <2>2. ASSUME Due(f)' PROVE Due(f)
    <3>1. PICK i \in 1 .. Len(handlers') : Holds(i, f)'
      BY <2>2 DEF Due
    <3>2. PICK j \in 1 .. Len(handlers) : handlers'[i] = handlers[j]
      BY <1>2
    <3>3. Holds(j, f)
      BY <3>1, <3>2 DEF Holds
    <3> QED
      BY <3>3 DEF Due
  <2> QED
    BY <2>1, <2>2
<1>7. /\ Agree(NoWork)' <=> Agree(NoWork)
      /\ Answered(NoWork)' <=> Answered(NoWork)
      /\ OwnRight(NoWork)' <=> OwnRight(NoWork)
      /\ ForeignRight(NoWork)' <=> ForeignRight(NoWork)
  BY <1>6, Unmoved
<1>8. ASSUME steady', NEW i, Runs(i)' PROVE FALSE
  <2>1. PICK j \in 1 .. Len(handlers) : j # r /\ handlers'[i] = handlers[j]
    BY <1>2, <1>8 DEF Runs
  <2>2. Runs(j)
    BY <1>8, <2>1 DEF Runs
  <2> QED
    BY <1>8, <2>1, <2>2
<1>9. ASSUME calm', NEW i, Works(i)' PROVE FALSE
  <2>1. PICK j \in 1 .. Len(handlers) : j # r /\ handlers'[i] = handlers[j]
    BY <1>2, <1>9 DEF Works
  <2>2. Works(j)
    BY <1>9, <2>1 DEF Works
  <2> QED
    BY <1>9, <2>1, <2>2
<1>10. SteadyInv'
  BY <1>7, <1>8 DEF SteadyInv, OneRuns
<1>11. CalmInv'
  BY <1>7, <1>9 DEF CalmInv, OneWorks
<1> QED
  BY <1>1, <1>5, <1>10, <1>11

(* The handler on the task leaves. *)
LEMMA LeaveKeeps ==
    ASSUME IInv, running # 0, Leave, H.out = <<>>, H.others = {},
           H.todo \in {<<>>, SaveSource},
           UNCHANGED <<docs, changes, foreign_diags, shown, client>>
    PROVE  IInv'
<1> DEFINE r == running
<1>1. /\ r \in 1 .. Len(handlers) /\ H \in Pending /\ H.at = "run" /\ handlers[r] = H
  BY OnTaskNow DEF IInv, H
<1>2. /\ handlers' = RemoveAt(handlers, r) /\ running' = 0
      /\ UNCHANGED <<docs, changes, foreign_diags, shown, buffer, disk, newest, sent,
                     steady, calm>>
  BY DEF Leave, client, inputs
<1>3. \A f : ~ Holds(r, f)
  BY <1>1 DEF Holds
<1> HIDE DEF r
<1>4. ASSUME steady PROVE (\A i : ~ Runs(i) \/ i = r) /\ Agree(NoWork) /\ Answered(NoWork)
  <2>1. (\A i : Runs(i) <=> i = r) /\ Agree(H) /\ Answered(H)
    BY <1>4, NowRuns DEF r
  <2>2. Agree(NoWork) /\ Answered(NoWork)
    <3>1. PICK h : h = H
      OBVIOUS
    <3>2. h.out = <<>> /\ h.others = {} /\ h.todo \in {<<>>, SaveSource}
      BY <3>1
    <3>3. Agree(h) /\ Answered(h)
      BY <2>1, <3>1
    <3> QED
      BY <3>2, <3>3, NothingLeft
  <2> QED
    BY <2>1, <2>2
<1>5. ASSUME calm
      PROVE steady /\ (\A i : ~ Works(i) \/ i = r) /\ OwnRight(NoWork) /\ ForeignRight(NoWork)
  <2>1. steady /\ (\A i : Works(i) <=> i = r) /\ OwnRight(H) /\ ForeignRight(H)
    BY <1>5, NowRuns DEF r
  <2>2. OwnRight(NoWork) /\ ForeignRight(NoWork)
    <3>1. PICK h : h = H
      OBVIOUS
    <3>2. h.out = <<>> /\ h.others = {} /\ h.todo \in {<<>>, SaveSource}
      BY <3>1
    <3>3. OwnRight(h) /\ ForeignRight(h)
      BY <2>1, <3>1
    <3> QED
      BY <3>2, <3>3, NothingRight
  <2> QED
    BY <2>1, <2>2
<1>6. Forms' /\ SteadyInv' /\ CalmInv' /\ handlers' \in Seq(Pending)
  <2>1. running \in {0, r}
    BY DEF r
  <2> QED
    BY <1>1, <1>2, <1>3, <1>4, <1>5, <2>1, Leaves
<1>7. running' \in 0 .. Len(handlers')
  BY <1>2, <1>6
<1>8. TypeOK'
  BY <1>2, <1>6, <1>7 DEF IInv, TypeOK
<1> QED
  BY <1>6, <1>8 DEF IInv

LEMMA ReturnKeeps ==
    ASSUME IInv, Return PROVE IInv'
BY LeaveKeeps DEF Return

(* did_save of a document that was closed meanwhile. *)
LEMMA SourceKeeps ==
    ASSUME IInv, Source PROVE IInv'
<1>1. CASE docs[H.uri] # None
  BY <1>1, SourceGoesOn
<1>2. CASE docs[H.uri] = None
  <2>1. /\ running # 0 /\ H.out = <<>> /\ H.others = {}
        /\ H.todo # <<>> /\ Head(H.todo) = "source"
    BY DEF Source, AtStage
  <2>2. H.todo = SaveSource
    BY <2>1, OnTaskNow, StagesAt DEF IInv, Form
  <2>3. Leave /\ UNCHANGED <<docs, changes, foreign_diags, shown, client>>
    BY <1>2 DEF Source
  <2> QED
    BY <2>1, <2>2, <2>3, LeaveKeeps
<1> QED
  BY <1>1, <1>2

LEMMA LowerKeeps ==
    ASSUME IInv, Lower PROVE IInv'
<1> DEFINE new == [H EXCEPT !.at = "compile"]
<1>1. PICK r \in 1 .. Len(handlers) :
      /\ r = running /\ H \in Pending /\ Form(H) /\ H.at = "run"
      /\ handlers[r] = H /\ r # 0 /\ H.out = <<>>
      /\ H.todo # <<>> /\ Head(H.todo) = "lower" /\ H.todo \in Plans
  BY OnTaskNow DEF IInv, Lower, AtStage, H, Form
<1>2. H.todo = SaveLower /\ SaveLower \notin Looping /\ SaveLower # AfterOpen
  BY <1>1, StagesAt, OtherStages, Heads
<1>3. H.others = {}
  BY <1>1, <1>2 DEF Form
<1>4. PICK g \in Pending :
        /\ g = new /\ g.at = "compile" /\ g.uri = H.uri /\ g.of = H.of /\ g.text = H.text
        /\ g.todo = H.todo /\ g.others = H.others /\ g.own = H.own /\ g.foreign = H.foreign
        /\ g.lowered = H.lowered /\ g.out = H.out
  <2>1. new \in Pending /\ new.at = "compile" /\ new.uri = H.uri /\ new.of = H.of
    BY <1>1 DEF Pending
  <2>2. /\ new.text = H.text /\ new.todo = H.todo /\ new.others = H.others /\ new.own = H.own
        /\ new.foreign = H.foreign /\ new.lowered = H.lowered /\ new.out = H.out
    BY <1>1 DEF Pending
  <2> HIDE DEF new
  <2> QED
    BY <2>1, <2>2
<1>5. /\ handlers' = [handlers EXCEPT ![r] = g] /\ running' = 0
      /\ UNCHANGED <<docs, changes, foreign_diags, shown, buffer, disk, newest, sent,
                     steady, calm>>
  BY <1>1, <1>4 DEF Lower, Update, client, inputs
<1> HIDE DEF new
<1>6. Form(g)
  BY <1>1, <1>2, <1>3, <1>4 DEF Form
<1>7. Forms'
  BY <1>1, <1>4, <1>5, <1>6, FormsInPlace
<1>8. \A f : Due(f)' <=> Due(f)
  BY <1>1, <1>4, <1>5, DueInPlace DEF IInv
<1>9. \A h : /\ Agree(h)' <=> Agree(h)
             /\ Answered(h)' <=> Answered(h)
             /\ OwnRight(h)' <=> OwnRight(h)
             /\ ForeignRight(h)' <=> ForeignRight(h)
  BY <1>5, <1>8, Unmoved
<1>10. /\ handlers' \in Seq(Pending) /\ Len(handlers') = Len(handlers) /\ handlers'[r] = g
       /\ \A i \in 1 .. Len(handlers) : i # r => handlers'[i] = handlers[i]
  BY <1>1, <1>5, Replaced DEF IInv, TypeOK
<1>11. \A i : (Runs(i)' <=> Runs(i) /\ i # r) /\ (Works(i)' <=> Works(i))
  BY <1>1, <1>4, <1>10 DEF Runs, Works
<1>12. ASSUME steady PROVE SteadyInv'
  <2>1. (\A i : Runs(i) <=> i = r) /\ Agree(H) /\ Answered(H)
    BY <1>1, <1>12, NowRuns
  <2>2. Agree(g) /\ Answered(g)
    BY <1>4, <2>1 DEF Agree, Opens, Answered, Queued
  <2>3. Agree(NoWork) /\ Answered(NoWork)
    BY <1>1, <1>2, <1>3, <1>4, <2>2, NothingLeft
  <2> QED
    BY <1>9, <1>11, <2>1, <2>3 DEF SteadyInv, OneRuns
<1>13. ASSUME calm PROVE CalmInv'
  <2>1. steady /\ (\A i : Works(i) <=> i = r) /\ OwnRight(H) /\ ForeignRight(H)
    BY <1>1, <1>13, NowRuns
  <2>2. OwnRight(g)
    BY <1>4, <2>1 DEF OwnRight, Opens, Queued, Analyses
  <2>3. \A d : Claims(H, d) <=> Claims(g, d)
    BY <1>4 DEF Claims, Analyses
  <2>4. ForeignRight(g)
    BY <1>4, <2>1, <2>3 DEF ForeignRight, Queued
  <2>5. OwnRight(handlers[r])' /\ ForeignRight(handlers[r])'
    <3>1. OwnRight(g)' /\ ForeignRight(g)'
      BY <1>9, <2>2, <2>4
    <3> QED
      BY <1>10, <3>1 DEF OwnRight, ForeignRight, Opens, Queued, Analyses, Claims
  <2>6. Works(r)' /\ steady'
    BY <1>5, <1>11, <2>1
  <2> QED
    BY <1>11, <2>1, <2>5, <2>6 DEF CalmInv, OneWorks
<1>14. SteadyInv' /\ CalmInv'
  BY <1>5, <1>12, <1>13 DEF SteadyInv, CalmInv
<1>15. TypeOK'
  BY <1>5, <1>10 DEF IInv, TypeOK
<1> QED
  BY <1>7, <1>14, <1>15 DEF IInv

LEMMA ResumeKeeps ==
    ASSUME IInv, NEW i \in 1 .. Len(handlers), Resume(i) PROVE IInv'
<1>1. /\ running = 0 /\ handlers[i].at = "run" /\ running' = i
      /\ UNCHANGED <<docs, changes, foreign_diags, handlers, shown, buffer, disk, newest, sent,
                     steady, calm>>
  BY DEF Resume, client, inputs
<1>2. Len(handlers) \in Nat
  BY DEF IInv, TypeOK
<1>3. TypeOK'
  BY <1>1, <1>2 DEF IInv, TypeOK
<1>4. \A j, f : Holds(j, f)' <=> Holds(j, f)
  BY <1>1 DEF Holds
<1>5. Forms'
  BY <1>1, <1>4 DEF IInv, Forms, Followed, StillNewest
<1>6. \A f : Due(f)' <=> Due(f)
  BY <1>1, <1>4 DEF Due
<1>7. \A h : /\ Agree(h)' <=> Agree(h)
             /\ Answered(h)' <=> Answered(h)
             /\ OwnRight(h)' <=> OwnRight(h)
             /\ ForeignRight(h)' <=> ForeignRight(h)
  BY <1>1, <1>6, Unmoved
<1>8. \A j : (Runs(j)' <=> Runs(j)) /\ (Works(j)' <=> Works(j))
  BY <1>1 DEF Runs, Works
<1>9. \A j : /\ (Agree(handlers[j])' <=> Agree(handlers[j]))
             /\ (Answered(handlers[j])' <=> Answered(handlers[j]))
             /\ (OwnRight(handlers[j])' <=> OwnRight(handlers[j]))
             /\ (ForeignRight(handlers[j])' <=> ForeignRight(handlers[j]))
  <2> SUFFICES ASSUME NEW j
               PROVE  /\ (Agree(handlers[j])' <=> Agree(handlers[j]))
                      /\ (Answered(handlers[j])' <=> Answered(handlers[j]))
                      /\ (OwnRight(handlers[j])' <=> OwnRight(handlers[j]))
                      /\ (ForeignRight(handlers[j])' <=> ForeignRight(handlers[j]))
    OBVIOUS
  <2>1. PICK h : h = handlers[j] /\ h = handlers'[j]
    BY <1>1
  <2> QED
    BY <1>7, <2>1
<1>10. SteadyInv'
  BY <1>1, <1>7, <1>8, <1>9 DEF IInv, SteadyInv, OneRuns
<1>11. CalmInv'
  BY <1>1, <1>7, <1>8, <1>9 DEF IInv, CalmInv, OneWorks
<1> QED
  BY <1>3, <1>5, <1>10, <1>11 DEF IInv

(* What begins does so when no other handler runs, or none works. *)
LEMMA BeginsWhen ==
    ASSUME IInv, Begins
    PROVE  /\ steady' \in BOOLEAN /\ calm' \in BOOLEAN
           /\ steady' => steady /\ \A i : ~ Runs(i)
           /\ calm' => calm /\ steady' /\ \A i : ~ Works(i)
<1>1. steady' = (steady /\ \A i \in DOMAIN handlers : handlers[i].at # "run")
  BY DEF Begins, Steady
<1>2. calm' = (calm /\ \A i \in DOMAIN handlers : handlers[i].at = "wait")
  BY DEF Begins
<1>3. DOMAIN handlers = 1 .. Len(handlers)
  BY DEF IInv, TypeOK
<1>4. calm => steady
  BY DEF IInv, CalmInv
<1>5. steady' => steady /\ \A i : ~ Runs(i)
  BY <1>1, <1>3 DEF Runs
<1>6. calm' => calm /\ \A i : ~ Works(i)
  BY <1>2, <1>3 DEF Works
<1>7. calm' => steady'
  <2>1. (\A i \in DOMAIN handlers : handlers[i].at = "wait") =>
           \A i \in DOMAIN handlers : handlers[i].at # "run"
    OBVIOUS
  <2> QED
    BY <1>1, <1>2, <1>4, <2>1
<1>8. steady' \in BOOLEAN /\ calm' \in BOOLEAN
  BY <1>1, <1>2, Zenon
<1> QED
  BY <1>5, <1>6, <1>7, <1>8

(* did_change goes on after its wait. *)
LEMMA WakeGoesOn ==
    ASSUME IInv, NEW i \in 1 .. Len(handlers), Wake(i), StillNewest(i) PROVE IInv'
<1> DEFINE new == [handlers[i] EXCEPT !.at = "run"]
<1>1. /\ handlers[i] \in Pending /\ Form(handlers[i])
  BY HandlerNow DEF IInv
<1>2. PICK h \in Pending : h = handlers[i] /\ h.at = "wait"
  BY <1>1 DEF Wake
<1>3. /\ h.todo = AfterOpen /\ h.of = h.uri /\ h.generation > 0 /\ h.text # None
      /\ h.others = {} /\ h.out = <<>> /\ Marked(h.lowered) = {} /\ h.uri \in Files
  BY <1>1, <1>2 DEF Form, Pending
<1>4. PICK g \in Pending :
        /\ g = new /\ g.at = "run" /\ g.uri = h.uri /\ g.of = h.uri /\ g.text = h.text
        /\ g.todo = AfterOpen /\ g.others = {} /\ g.out = <<>> /\ g.lowered = h.lowered
  <2>1. new \in Pending /\ new.at = "run" /\ new.uri = h.uri /\ new.of = h.uri
    BY <1>2, <1>3 DEF Pending
  <2>2. /\ new.text = h.text /\ new.todo = AfterOpen /\ new.others = {} /\ new.out = <<>>
        /\ new.lowered = h.lowered
    BY <1>2, <1>3 DEF Pending
  <2> HIDE DEF new
  <2> QED
    BY <2>1, <2>2
<1>5. /\ handlers' = [handlers EXCEPT ![i] = g] /\ running' = i /\ running = 0 /\ Begins
      /\ \A j \in 1 .. i - 1 : handlers[j].at # "wait"
      /\ UNCHANGED <<docs, changes, foreign_diags, shown, buffer, disk, newest, sent>>
  BY <1>4 DEF Wake, inputs
<1> HIDE DEF new
<1>6. /\ handlers' \in Seq(Pending) /\ Len(handlers') = Len(handlers) /\ handlers'[i] = g
      /\ \A j \in 1 .. Len(handlers) : j # i => handlers'[j] = handlers[j]
      /\ Len(handlers) \in Nat
  BY <1>5, Replaced DEF IInv, TypeOK
<1>7. /\ AfterOpen \in AtAnalyze \cap ToOthers \cap Plans /\ AfterOpen # AfterClose
      /\ AfterOpen \notin Analysed \union Looping
  BY OtherStages
<1>8. Form(g)
  BY <1>3, <1>4, <1>7 DEF Form
<1>10. ASSUME NEW j \in 1 .. Len(handlers), NEW f, j # i PROVE Holds(j, f)' <=> Holds(j, f)
  BY <1>5, <1>6, <1>10 DEF Holds
<1>11. ASSUME NEW j \in 1 .. Len(handlers) PROVE Form(handlers[j])'
  <2>1. Form(handlers[j]) /\ (j = i \/ handlers'[j] = handlers[j])
    BY <1>6 DEF IInv, Forms
  <2> QED
    BY <1>6, <1>8, <2>1
<1>12. ASSUME NEW j \in 1 .. Len(handlers) PROVE Followed(j)'
  <2> SUFFICES ASSUME handlers'[j].at = "wait", StillNewest(j)'
               PROVE  \E k \in j .. Len(handlers') : Holds(k, handlers[j].uri)'
    BY DEF Followed
  <2>1. j # i /\ handlers'[j] = handlers[j]
    BY <1>4, <1>6
  <2>2. handlers[j].at = "wait" /\ StillNewest(j)
    BY <1>5, <2>1 DEF StillNewest
  <2>3. PICK k \in j .. Len(handlers) : Holds(k, handlers[j].uri)
    BY <2>2 DEF IInv, Forms, Followed
  <2>4. j \notin 1 .. i - 1
    BY <1>5, <2>2
  <2>5. k # i /\ k \in 1 .. Len(handlers)
    BY <1>6, <2>1, <2>4
  <2>6. Holds(k, handlers[j].uri)'
    BY <1>10, <2>1, <2>3, <2>5
  <2> QED
    BY <1>6, <2>3, <2>6
<1>13. Forms'
  BY <1>4, <1>5, <1>6, <1>11, <1>12 DEF IInv, Forms
<1>14. ASSUME NEW f, Due(f) PROVE Due(f)' \/ f = h.uri
  <2>1. PICK j \in 1 .. Len(handlers) : Holds(j, f)
    BY <1>14 DEF Due
  <2>2. CASE j = i
    BY <1>2, <2>1, <2>2 DEF Holds
  <2>3. CASE j # i
    BY <1>6, <1>10, <2>1, <2>3 DEF Due
  <2> QED
    BY <2>2, <2>3
(* Either it holds the newest text or one behind it does. *)
<1>15. buffer[h.uri] # None /\ (h.text = buffer[h.uri] \/ Due(h.uri)')
  <2>1. changes[h.uri].count = h.generation
    BY <1>2 DEF StillNewest
  <2>2. changes[h.uri].text = buffer[h.uri] /\ buffer[h.uri] # None
    BY <1>3, <2>1 DEF IInv, Forms
  <2>3. PICK k \in i .. Len(handlers) : Holds(k, h.uri)
    BY <1>2 DEF IInv, Forms, Followed
  <2>4. CASE k = i
    BY <1>2, <2>2, <2>3, <2>4 DEF Holds
  <2>5. CASE k # i
    <3>1. k \in 1 .. Len(handlers)
      BY <1>6
    <3>2. Holds(k, h.uri)'
      BY <1>10, <2>3, <2>5, <3>1
    <3> QED
      BY <1>6, <2>2, <3>1, <3>2 DEF Due
  <2> QED
    BY <2>4, <2>5
<1>16. \A f : (Opens(NoWork, f) => FALSE) /\ (Queued(NoWork, f) => FALSE)
  BY Heads DEF Opens, Queued, NoWork
<1>17. /\ NoWork.todo = <<>> /\ NoWork.others = {} /\ NoWork.out = <<>>
  BY DEF NoWork
<1>18. <<>> \notin AtAnalyze \union Analysed \union ToOthers /\ <<>> # AfterClose
  BY LoopStages, Heads
<1>s. ASSUME steady' PROVE SteadyInv'
  <2>1. steady /\ \A j : ~ Runs(j)
    BY <1>5, <1>s, BeginsWhen
  <2>2. Agree(NoWork) /\ Answered(NoWork)
    BY <2>1 DEF IInv, SteadyInv
  <2>3. Serves(h.uri, h.text)
    <3>1. changes[h.uri].count = h.generation
      BY <1>2 DEF StillNewest
    <3> QED
      BY <1>3, <1>15, <3>1 DEF Serves
  <2>4. \A f : \A t : Serves(f, t)' <=> Serves(f, t)
    BY <1>5 DEF Serves
  <2>5. Agree(g)'
    BY <1>4, <1>5, <1>16, <2>2, <2>3, <2>4 DEF Agree
  <2>6. Answered(g)'
    BY <1>4, <1>5, <1>16, <2>2 DEF Answered, Foreign, Claimed
  <2>7. \A j : Runs(j)' <=> j = i
    BY <1>4, <1>6, <2>1 DEF Runs
  <2>8. Agree(handlers[i])' /\ Answered(handlers[i])'
    BY <1>6, <2>5, <2>6 DEF Agree, Serves, Opens, Answered, Queued
  <2> QED
    BY <2>7, <2>8 DEF SteadyInv, OneRuns
<1>c. ASSUME calm' PROVE CalmInv'
  <2>1. calm /\ steady' /\ \A j : ~ Works(j)
    BY <1>5, <1>c, BeginsWhen
  <2>2. OwnRight(NoWork) /\ ForeignRight(NoWork)
    BY <2>1 DEF IInv, CalmInv
  <2>3. \A f : \A w : Fresh(f, w)' <=> Fresh(f, w)
    BY <1>5 DEF Fresh, Current
  <2>4. \A f \in Files : ~ Analyses(NoWork, f) /\ ~ Claims(NoWork, f)
    BY <1>17, <1>18 DEF Analyses, Claims
  <2>5. OwnRight(g)'
    <3>1. \A f \in Files : docs'[f] # None => docs'[f] = buffer'[f] \/ Due(f)' \/ Opens(g, f)'
      BY <1>4, <1>5, <1>14, <1>16, <2>2 DEF OwnRight, Opens
    <3>2. (g.text = buffer'[g.of] \/ Due(g.of)') /\ buffer'[g.of] # None
      BY <1>4, <1>5, <1>15
    <3>3. ASSUME NEW f \in Files, buffer'[f] # None
          PROVE  \/ Fresh(f, shown[f])' \/ (\E d \in Imports[f] \union {f} : Due(d)')
                 \/ Analyses(g, f)'
      <4>1. Fresh(f, shown[f]) \/ \E d \in Imports[f] \union {f} : Due(d)
        BY <1>5, <1>16, <2>2, <2>4, <3>3 DEF OwnRight
      <4>2. CASE Fresh(f, shown[f])
        BY <1>5, <2>3, <4>2
      <4>3. CASE \E d \in Imports[f] \union {f} : Due(d)
        <5>1. PICK d \in Imports[f] \union {f} : Due(d)
          BY <4>3
        <5>2. CASE Due(d)'
          BY <5>1, <5>2
        <5>3. CASE d = h.uri
          BY <1>4, <1>5, <1>7, <3>3, <5>1, <5>3 DEF Analyses
        <5> QED
          BY <1>14, <5>1, <5>2, <5>3
      <4> QED
        BY <4>1, <4>2, <4>3
    <3> QED
      BY <1>4, <1>7, <3>1, <3>2, <3>3 DEF OwnRight
  <2>6. ForeignRight(g)'
    <3>1. \A d : /\ Wanted(d)' = Wanted(d) /\ (Claimed(d)' <=> Claimed(d))
      BY <1>5 DEF Wanted, Claimed
    <3>2. Marked(g.lowered)' = {}
      BY <1>3, <1>4 DEF Marked, Cleared, NoText
    <3>3. \A d \in Files : foreign_diags'[d] = Wanted(d)'
      BY <1>5, <2>2, <2>4, <3>1 DEF ForeignRight
    <3>4. \A f \in Files : buffer'[f] = None => Claimed(f)' \/ shown'[f] = Cleared'
      BY <1>5, <1>16, <2>2, <3>1 DEF ForeignRight, Cleared, NoText
    <3>5. \A f, d \in Files : buffer'[f] = None /\ f \in foreign_diags'[d] =>
             shown'[f].by # f /\ shown'[f].text = disk'[f]
      BY <1>5, <1>16, <2>2, <2>4 DEF ForeignRight
    <3> QED
      BY <1>4, <1>7, <3>2, <3>3, <3>4, <3>5 DEF ForeignRight
  <2>7. \A j : Works(j)' <=> j = i
    BY <1>4, <1>6, <2>1 DEF Works
  <2>8. OwnRight(handlers[i])' /\ ForeignRight(handlers[i])'
    BY <1>6, <2>5, <2>6 DEF OwnRight, ForeignRight, Opens, Queued, Analyses, Claims
  <2> QED
    BY <2>1, <2>7, <2>8 DEF CalmInv, OneWorks
<1>19. SteadyInv' /\ CalmInv'
  BY <1>s, <1>c DEF SteadyInv, CalmInv
<1>20. TypeOK'
  <2>1. {steady', calm'} \subseteq BOOLEAN
    BY <1>5, BeginsWhen
  <2> QED
    BY <1>5, <1>6, <2>1 DEF IInv, TypeOK
<1> QED
  BY <1>13, <1>19, <1>20 DEF IInv

LEMMA WakeKeeps ==
    ASSUME IInv, NEW i \in 1 .. Len(handlers), Wake(i) PROVE IInv'
<1>1. CASE StillNewest(i)
  BY <1>1, WakeGoesOn
<1>2. CASE ~ StillNewest(i)
  <2>1. /\ handlers' = RemoveAt(handlers, i) /\ running' = 0 /\ running = 0 /\ Begins
        /\ handlers[i].at = "wait"
        /\ UNCHANGED <<docs, changes, foreign_diags, shown, buffer, disk, newest, sent>>
    BY <1>2 DEF Wake, inputs
  <2>2. \A f : ~ Holds(i, f)
    BY <1>2 DEF Holds, StillNewest
  <2>3. steady' => steady /\ (\A j : ~ Runs(j)) /\ Agree(NoWork) /\ Answered(NoWork)
    BY <2>1, BeginsWhen DEF IInv, SteadyInv
  <2>4. calm' => /\ calm /\ steady' /\ (\A j : ~ Works(j))
                 /\ OwnRight(NoWork) /\ ForeignRight(NoWork)
    BY <2>1, BeginsWhen DEF IInv, CalmInv
  <2>5. Forms' /\ SteadyInv' /\ CalmInv' /\ handlers' \in Seq(Pending)
    BY <2>1, <2>2, <2>3, <2>4, Leaves
  <2>6. {steady', calm'} \subseteq BOOLEAN
    BY <2>1, BeginsWhen
  <2>7. running' \in 0 .. Len(handlers')
    BY <2>1, <2>5
  <2>8. TypeOK'
    BY <2>1, <2>5, <2>6, <2>7 DEF IInv, TypeOK
  <2> QED
    BY <2>5, <2>8 DEF IInv
<1> QED
  BY <1>1, <1>2

LEMMA CompileKeeps ==
    ASSUME IInv, NEW i \in 1 .. Len(handlers), Compile(i) PROVE IInv'
<1> DEFINE lowered == ForeignMarkers(handlers[i].of, disk, NoText)
<1> DEFINE new == [handlers[i] EXCEPT !.at = "compiled", !.lowered = lowered]
<1>1. PICK h \in Pending : h = handlers[i] /\ h.at = "compile" /\ Form(h)
  BY HandlerNow DEF IInv, Compile
<1>2. /\ h.of \in Files /\ h.todo = SaveLower /\ h.others = {} /\ h.out = <<>>
      /\ disk \in [Files -> Texts]
  BY <1>1 DEF Form, Pending, IInv, TypeOK
<1>3. /\ lowered \in [Files -> Markers]
      /\ \A f \in Files : f \in Marked(lowered) =>
            f \in Imports[h.of] /\ disk[f] \in BadTexts /\ lowered[f].by = h.of
      /\ \A f \in Marked(lowered) : f \in Files /\ f # h.of
  BY <1>1, <1>2, ForeignTyped
<1>4. PICK g \in Pending :
        /\ g = new /\ g.at = "compiled" /\ g.uri = h.uri /\ g.of = h.of /\ g.text = h.text
        /\ g.todo = h.todo /\ g.others = h.others /\ g.own = h.own /\ g.foreign = h.foreign
        /\ g.lowered = lowered /\ g.out = h.out
  <2> HIDE DEF lowered
  <2>1. new \in Pending /\ new.at = "compiled" /\ new.uri = h.uri /\ new.of = h.of
    BY <1>1, <1>3 DEF Pending
  <2>2. /\ new.text = h.text /\ new.todo = h.todo /\ new.others = h.others /\ new.own = h.own
        /\ new.foreign = h.foreign /\ new.lowered = lowered /\ new.out = h.out
    BY <1>1 DEF Pending
  <2> HIDE DEF new
  <2> QED
    BY <2>1, <2>2
<1>5. /\ handlers' = [handlers EXCEPT ![i] = g]
      /\ UNCHANGED <<docs, changes, foreign_diags, running, shown, buffer, disk, newest, sent,
                     steady, calm>>
  BY <1>1, <1>4 DEF Compile, client, inputs
<1> HIDE DEF new, lowered
<1>6. Form(g)
  BY <1>1, <1>2, <1>3, <1>4 DEF Form
<1>7. running' # 0 => running' = running /\ (running = i => g.at = "run")
  BY <1>1, <1>5 DEF IInv, Forms
<1>8. ~ Runs(i) /\ Works(i)
  BY <1>1 DEF Runs, Works
<1>9. \A f : Due(f)' <=> Due(f)
  BY <1>1, <1>4, <1>5, DueInPlace DEF IInv
<1>c. ASSUME calm PROVE OwnRight(g)' /\ ForeignRight(g)'
  <2>1. OwnRight(h) /\ ForeignRight(h)
    BY <1>1, <1>8, <1>c DEF IInv, CalmInv
  <2>2. OwnRight(g)
    BY <1>4, <2>1 DEF OwnRight, Opens, Queued, Analyses
  <2>3. \A d : Claims(h, d) <=> Claims(g, d)
    BY <1>4 DEF Claims, Analyses
  <2>4. \A f \in Marked(g.lowered) : f \in Imports[g.of] /\ disk[f] \in BadTexts
    BY <1>3, <1>4
  <2>5. ForeignRight(g)
    BY <1>4, <2>1, <2>3, <2>4 DEF ForeignRight, Queued
  <2> QED
    BY <1>5, <1>9, <2>2, <2>5, Unmoved
<1>10. /\ Forms' /\ SteadyInv' /\ CalmInv'
       /\ handlers' \in Seq(Pending) /\ Len(handlers') = Len(handlers)
  <2>1. g.at = "run" <=> handlers[i].at = "run"
    BY <1>1, <1>4
  <2>2. handlers[i].at # "wait" /\ g.at # "wait"
    BY <1>1, <1>4
  <2> QED
    BY <1>4, <1>5, <1>6, <1>7, <1>8, <1>c, <2>1, <2>2, GoesOn
<1>11. TypeOK'
  BY <1>5, <1>10 DEF IInv, TypeOK
<1> QED
  BY <1>10, <1>11 DEF IInv

(* What the compile found in an import that is not open the analysis had found,
   when nothing began meanwhile. *)
LEMMA CompiledKeeps ==
    ASSUME IInv, NEW i \in 1 .. Len(handlers), Compiled(i) PROVE IInv'
<1> DEFINE found == [f \in Files |->
                       IF handlers[i].foreign[f] = Cleared /\ docs[f] = None
                       THEN handlers[i].lowered[f] ELSE handlers[i].foreign[f]]
<1> DEFINE new == [handlers[i] EXCEPT !.at = "run", !.todo = Tail(@), !.foreign = found,
                                      !.lowered = NoMarkers]
<1>1. PICK h \in Pending : h = handlers[i] /\ h.at = "compiled" /\ Form(h)
  BY HandlerNow DEF IInv, Compiled
<1>2. /\ h.of \in Files /\ h.todo = SaveLower /\ h.others = {} /\ h.out = <<>>
      /\ h.foreign \in [Files -> Markers] /\ h.lowered \in [Files -> Markers]
  BY <1>1 DEF Form, Pending
<1>3. /\ SaveLower \in Analysed /\ Tail(SaveLower) = LastClaim
      /\ LastClaim \in Analysed \cap Plans /\ LastClaim \in Seq(Stages)
      /\ LastClaim \notin AtAnalyze \union ToOthers \union {AfterClose}
      /\ SaveLower \notin AtAnalyze \union ToOthers \union {AfterClose}
      /\ LastClaim # AfterOpen /\ SaveLower # AfterOpen
  BY OtherStages, Heads, StageTypes
<1>4. /\ h.own.by = h.of
      /\ \A f \in Marked(h.foreign) : f # h.of /\ h.foreign[f].by = h.of
      /\ \A f \in Marked(h.lowered) : f # h.of /\ h.lowered[f].by = h.of
  BY <1>1, <1>2, <1>3 DEF Form
<1>5. PICK m \in [Files -> Markers] : m = found
  BY <1>1, <1>2
<1>6. \A f \in Files : m[f] = IF h.foreign[f] = Cleared /\ docs[f] = None
                              THEN h.lowered[f] ELSE h.foreign[f]
  BY <1>1, <1>5
<1> HIDE DEF found
<1>7. \A f \in Marked(m) :
         \/ f \in Marked(h.foreign) /\ m[f] = h.foreign[f]
         \/ f \in Marked(h.lowered) /\ m[f] = h.lowered[f] /\ docs[f] = None /\ f \in Files
  BY <1>6 DEF Marked
<1>8. PICK g \in Pending :
        /\ g = new /\ g.at = "run" /\ g.uri = h.uri /\ g.of = h.of /\ g.text = h.text
        /\ g.todo = LastClaim /\ g.others = {} /\ g.own = h.own /\ g.foreign = m
        /\ g.lowered = NoMarkers /\ g.out = <<>>
  <2>1. new \in Pending /\ new.at = "run" /\ new.uri = h.uri /\ new.of = h.of
    BY <1>1, <1>2, <1>3, <1>5, MarkersTyped DEF Pending
  <2>2. /\ new.text = h.text /\ new.todo = LastClaim /\ new.others = {} /\ new.own = h.own
        /\ new.foreign = m /\ new.lowered = NoMarkers /\ new.out = <<>>
    BY <1>1, <1>2, <1>3, <1>5 DEF Pending
  <2> HIDE DEF new
  <2> QED
    BY <2>1, <2>2
<1>9. /\ handlers' = [handlers EXCEPT ![i] = g] /\ running = 0 /\ running' = i
      /\ Steady(DOMAIN handlers \ {i})
      /\ UNCHANGED <<docs, changes, foreign_diags, shown, buffer, disk, newest, sent, calm>>
  BY <1>8 DEF Compiled, inputs, found
<1> HIDE DEF new
<1>10. Marked(g.lowered) = {}
  BY <1>8 DEF Marked, NoMarkers
<1>11. Form(g)
  BY <1>3, <1>4, <1>7, <1>8, <1>10 DEF Form
<1>12. Forms'
  BY <1>1, <1>8, <1>9, <1>11, FormsInPlace
<1>13. /\ handlers' \in Seq(Pending) /\ Len(handlers') = Len(handlers) /\ handlers'[i] = g
       /\ \A j \in 1 .. Len(handlers) : j # i => handlers'[j] = handlers[j]
       /\ DOMAIN handlers = 1 .. Len(handlers)
  BY <1>9, Replaced DEF IInv, TypeOK
<1>14. \A f : Due(f)' <=> Due(f)
  BY <1>1, <1>8, <1>9, DueInPlace DEF IInv
<1>15. \A w : /\ Agree(w)' <=> Agree(w)
              /\ Answered(w)' <=> Answered(w)
              /\ OwnRight(w)' <=> OwnRight(w)
              /\ ForeignRight(w)' <=> ForeignRight(w)
  BY <1>9, <1>14, Unmoved
<1>16. steady' = (steady /\ \A j \in DOMAIN handlers \ {i} : handlers[j].at # "run")
  BY <1>9 DEF Steady
<1>17. steady' => steady /\ \A j : ~ Runs(j)
  BY <1>1, <1>13, <1>16 DEF Runs
<1>18. steady' \in BOOLEAN
  BY <1>16, Zenon
<1>19. \A j : (Works(j)' <=> Works(j)) /\ (Runs(j)' <=> Runs(j) \/ j = i)
  BY <1>1, <1>8, <1>13 DEF Works, Runs
<1>20. Works(i)
  BY <1>1 DEF Works
<1>21. NoWork.todo = <<>> /\ NoWork.others = {} /\ NoWork.out = <<>> /\ <<>> # AfterOpen
  BY Heads DEF NoWork
<1>s. ASSUME steady' PROVE SteadyInv'
  <2>1. Agree(NoWork) /\ Answered(NoWork)
    BY <1>17, <1>s DEF IInv, SteadyInv
  <2>2. Agree(g) /\ Answered(g)
    BY <1>3, <1>8, <1>21, <2>1 DEF Agree, Answered, Opens, Queued
  <2>3. Agree(g)' /\ Answered(g)'
    BY <1>15, <2>2
  <2>4. Agree(handlers[i])' /\ Answered(handlers[i])'
    BY <1>13, <2>3 DEF Agree, Serves, Opens, Answered, Queued
  <2> QED
    BY <1>17, <1>19, <1>s, <2>4 DEF SteadyInv, OneRuns
<1>c. ASSUME calm PROVE CalmInv'
  <2>1. /\ steady /\ OwnRight(h) /\ ForeignRight(h)
        /\ \A j : Works(j) <=> j = i
    BY <1>1, <1>20, <1>c DEF IInv, CalmInv, OneWorks
  <2>2. \A j : ~ Runs(j)
    BY <1>1, <2>1 DEF Runs, Works
  <2>3. Agree(NoWork)
    BY <2>1, <2>2 DEF IInv, SteadyInv
  <2>4. steady'
    BY <1>13, <1>16, <2>1, <2>2 DEF Runs
  <2>5. \A f \in Files : Analyses(h, f) <=> Analyses(g, f)
    BY <1>2, <1>3, <1>8 DEF Analyses
  <2>6. \A d \in Files : Claims(h, d) <=> Claims(g, d)
    BY <1>2, <1>3, <1>8, <2>5 DEF Claims
  <2>7. OwnRight(g)
    BY <1>2, <1>3, <1>8, <2>1, <2>5 DEF OwnRight, Opens, Queued
  <2>8. /\ Marked(h.foreign) = Wanted(h.of)
        /\ \A f \in Marked(h.foreign) : h.foreign[f].text = disk[f]
        /\ \A f \in Marked(h.lowered) : f \in Imports[h.of] /\ disk[f] \in BadTexts
        /\ buffer[h.of] # None
    BY <1>2, <1>3, <2>1 DEF ForeignRight, OwnRight
  <2>9. \A f \in Files : docs[f] = None => buffer[f] = None
    BY <1>21, <2>3 DEF Agree, Opens
  <2>10. \A f \in Marked(m) : f \in Marked(h.foreign) /\ m[f] = h.foreign[f]
    <3> SUFFICES ASSUME NEW f \in Marked(m), f \in Marked(h.lowered), docs[f] = None, f \in Files,
                        m[f] = h.lowered[f]
                 PROVE  f \in Marked(h.foreign) /\ m[f] = h.foreign[f]
      BY <1>7
    <3>1. f \in Wanted(h.of)
      BY <2>8, <2>9 DEF Wanted
    <3>2. f \in Marked(h.foreign)
      BY <2>8, <3>1
    <3> QED
      BY <1>6, <3>2 DEF Marked
  <2>11. Marked(h.foreign) \subseteq Marked(m)
    BY <1>6 DEF Marked
  <2>12. Marked(g.foreign) = Wanted(g.of) /\ \A f \in Marked(g.foreign) : g.foreign[f].text = disk[f]
    BY <1>8, <2>8, <2>10, <2>11
  <2>13. ForeignRight(g)
    BY <1>2, <1>3, <1>8, <1>10, <2>1, <2>6, <2>12 DEF ForeignRight, Queued
  <2>14. OwnRight(g)' /\ ForeignRight(g)'
    BY <1>15, <2>7, <2>13
  <2>15. OwnRight(handlers[i])' /\ ForeignRight(handlers[i])'
    BY <1>13, <2>14 DEF OwnRight, ForeignRight, Opens, Queued, Analyses, Claims
  <2> QED
    BY <1>19, <2>1, <2>4, <2>15 DEF CalmInv, OneWorks
<1>22. SteadyInv' /\ CalmInv'
  BY <1>9, <1>s, <1>c DEF SteadyInv, CalmInv
<1>23. TypeOK'
  BY <1>9, <1>13, <1>18 DEF IInv, TypeOK
<1> QED
  BY <1>12, <1>22, <1>23 DEF IInv

-----------------------------------------------------------------------------
(* The invariant, when a message comes. *)

(* When no handler runs, the documents agree and what is shown is claimed; when
   none works, what is shown is right or a change of it waits. *)
LEMMA Settled ==
    ASSUME IInv, Begins
    PROVE  /\ {steady', calm'} \subseteq BOOLEAN
           /\ steady' => /\ steady /\ \A i : ~ Runs(i)
                         /\ \A f \in Files : docs[f] # None => Serves(f, docs[f])
                         /\ \A f \in Files : docs[f] = None => buffer[f] = None
                         /\ \A f \in Files : Foreign(f, shown[f]) => Claimed(f)
           /\ calm' => /\ calm /\ steady' /\ \A i : ~ Works(i)
                       /\ \A f \in Files : docs[f] # None => docs[f] = buffer[f] \/ Due(f)
                       /\ \A f \in Files : buffer[f] # None =>
                             \/ Fresh(f, shown[f])
                             \/ \E g \in Imports[f] \union {f} : Due(g)
                       /\ \A d \in Files : foreign_diags[d] = Wanted(d)
                       /\ \A f \in Files : buffer[f] = None => Claimed(f) \/ shown[f] = Cleared
                       /\ \A f, d \in Files : buffer[f] = None /\ f \in foreign_diags[d] =>
                             shown[f].by # f /\ shown[f].text = disk[f]
<1>1. NoWork.todo = <<>> /\ NoWork.others = {} /\ NoWork.out = <<>>
  BY DEF NoWork
<1>2. <<>> \notin AtAnalyze \union Analysed \union ToOthers /\ <<>> # AfterClose /\ <<>> # AfterOpen
  BY LoopStages, Heads
<1>3. \A f \in Files : /\ ~ Opens(NoWork, f) /\ ~ Queued(NoWork, f)
                       /\ ~ Analyses(NoWork, f) /\ ~ Claims(NoWork, f)
  BY <1>1, <1>2 DEF Opens, Queued, Analyses, Claims
<1>4. ASSUME steady'
      PROVE  /\ steady /\ \A i : ~ Runs(i)
             /\ \A f \in Files : docs[f] # None => Serves(f, docs[f])
             /\ \A f \in Files : docs[f] = None => buffer[f] = None
             /\ \A f \in Files : Foreign(f, shown[f]) => Claimed(f)
  <2>1. steady /\ \A i : ~ Runs(i)
    BY <1>4, BeginsWhen
  <2>2. Agree(NoWork) /\ Answered(NoWork)
    BY <2>1 DEF IInv, SteadyInv
  <2> QED
    BY <1>3, <2>1, <2>2 DEF Agree, Answered
<1>5. ASSUME calm'
      PROVE  /\ calm /\ steady' /\ \A i : ~ Works(i)
             /\ \A f \in Files : docs[f] # None => docs[f] = buffer[f] \/ Due(f)
             /\ \A f \in Files : buffer[f] # None =>
                   Fresh(f, shown[f]) \/ \E g \in Imports[f] \union {f} : Due(g)
             /\ \A d \in Files : foreign_diags[d] = Wanted(d)
             /\ \A f \in Files : buffer[f] = None => Claimed(f) \/ shown[f] = Cleared
             /\ \A f, d \in Files : buffer[f] = None /\ f \in foreign_diags[d] =>
                   shown[f].by # f /\ shown[f].text = disk[f]
  <2>1. calm /\ steady' /\ \A i : ~ Works(i)
    BY <1>5, BeginsWhen
  <2>2. OwnRight(NoWork) /\ ForeignRight(NoWork)
    BY <2>1 DEF IInv, CalmInv
  <2>3. /\ \A f \in Files : docs[f] # None => docs[f] = buffer[f] \/ Due(f)
        /\ \A f \in Files : buffer[f] # None =>
                   Fresh(f, shown[f]) \/ \E g \in Imports[f] \union {f} : Due(g)
    BY <1>3, <2>2 DEF OwnRight
  <2>4. /\ \A d \in Files : foreign_diags[d] = Wanted(d)
        /\ \A f \in Files : buffer[f] = None => Claimed(f) \/ shown[f] = Cleared
        /\ \A f, d \in Files : buffer[f] = None /\ f \in foreign_diags[d] =>
                   shown[f].by # f /\ shown[f].text = disk[f]
    BY <1>3, <2>2 DEF ForeignRight
  <2> QED
    BY <2>1, <2>3, <2>4
<1>6. {steady', calm'} \subseteq BOOLEAN
  BY BeginsWhen
<1> QED
  BY <1>4, <1>5, <1>6

LEMMA HandlerTyped ==
    ASSUME NEW f \in Files, NEW t \in Texts, NEW n \in Nat, NEW plan \in Plans
    PROVE  \E g \in Pending :
             /\ g = Handler(f, t, n, plan)
             /\ g.uri = f /\ g.of = f /\ g.text = t /\ g.generation = n /\ g.at = "run"
             /\ g.todo = plan /\ g.others = {} /\ g.own = Cleared /\ g.foreign = NoMarkers
             /\ g.lowered = NoMarkers /\ g.out = <<>>
<1> DEFINE g == Handler(f, t, n, plan)
<1>1. plan \in Seq(Stages)
  BY StageTypes
<1>2. Cleared \in Markers /\ NoMarkers \in [Files -> Markers]
  BY MarkersTyped
<1>3. g \in Pending
  BY <1>1, <1>2 DEF Handler, Pending
<1>4. /\ g.uri = f /\ g.of = f /\ g.text = t /\ g.generation = n /\ g.at = "run"
      /\ g.todo = plan /\ g.others = {} /\ g.own = Cleared /\ g.foreign = NoMarkers
      /\ g.lowered = NoMarkers /\ g.out = <<>>
  BY DEF Handler
<1> HIDE DEF g
<1>5. \E h \in Pending :
             /\ h = g
             /\ h.uri = f /\ h.of = f /\ h.text = t /\ h.generation = n /\ h.at = "run"
             /\ h.todo = plan /\ h.others = {} /\ h.own = Cleared /\ h.foreign = NoMarkers
             /\ h.lowered = NoMarkers /\ h.out = <<>>
  BY <1>3, <1>4
<1> QED
  BY <1>5 DEF g

LEMMA DueStays ==
    ASSUME TypeOK, NEW g \in Pending, handlers' = Append(handlers, g), NEW f,
           changes'[f] = changes[f], Due(f)
    PROVE  Due(f)'
<1>1. PICK i \in 1 .. Len(handlers) : Holds(i, f)
  BY DEF Due
<1>2. /\ Len(handlers) \in Nat /\ Len(handlers') = Len(handlers) + 1
      /\ handlers'[i] = handlers[i]
  BY Appended DEF TypeOK
<1>3. Holds(i, f)'
  BY <1>1, <1>2 DEF Holds
<1> QED
  BY <1>2, <1>3 DEF Due

LEMMA FormsAppended ==
    ASSUME IInv, NEW g \in Pending, Form(g), handlers' = Append(handlers, g),
           NEW n, n = Len(handlers) + 1,
           \A f \in Files : \/ changes'[f] = changes[f] \/ changes'[f].count = 0
                            \/ Holds(n, f)',
           \A f \in Files : changes'[f].count > 0 =>
              changes'[f].text = buffer'[f] /\ buffer'[f] # None,
           running' = running \/ (running' = n /\ g.at = "run"),
           g.at = "wait" => Holds(n, g.uri)'
    PROVE  Forms'
<1>1. /\ handlers' \in Seq(Pending) /\ Len(handlers) \in Nat /\ Len(handlers') = Len(handlers) + 1
      /\ handlers'[Len(handlers) + 1] = g
      /\ \A i \in 1 .. Len(handlers) : handlers'[i] = handlers[i]
      /\ \A i \in 1 .. Len(handlers') : i \in 1 .. Len(handlers) \/ i = Len(handlers) + 1
  BY Appended DEF IInv, TypeOK
<1>2. ASSUME NEW i \in 1 .. Len(handlers') PROVE Form(handlers[i])'
  <2>1. CASE i \in 1 .. Len(handlers)
    <3>1. Form(handlers[i]) /\ handlers'[i] = handlers[i]
      BY <1>1, <2>1 DEF IInv, Forms
    <3> QED
      BY <3>1
  <2> QED
    BY <1>1, <2>1
<1>3. ASSUME NEW i \in 1 .. Len(handlers') PROVE Followed(i)'
  <2> SUFFICES ASSUME handlers'[i].at = "wait", StillNewest(i)'
               PROVE  \E k \in i .. Len(handlers') : Holds(k, handlers[i].uri)'
    BY DEF Followed
  <2>1. CASE i = Len(handlers) + 1
    <3>1. i = n /\ n \in i .. Len(handlers') /\ handlers'[i] = g
      BY <1>1, <2>1
    <3> QED
      BY <3>1
  <2>2. CASE i \in 1 .. Len(handlers)
    <3>1. PICK h \in Pending : h = handlers[i] /\ h = handlers'[i] /\ Form(h) /\ h.at = "wait"
      BY <1>1, <2>2, HandlerNow DEF IInv
    <3>2. h.generation > 0 /\ h.uri \in Files /\ changes'[h.uri].count = h.generation
      BY <3>1 DEF Form, Pending, StillNewest
    <3>3. CASE changes'[h.uri] = changes[h.uri]
      <4>1. StillNewest(i)
        BY <3>1, <3>2, <3>3 DEF StillNewest
      <4>2. PICK k \in i .. Len(handlers) : Holds(k, h.uri)
        BY <2>2, <3>1, <4>1 DEF IInv, Forms, Followed
      <4>3. k \in 1 .. Len(handlers) /\ k \in i .. Len(handlers')
        BY <1>1, <2>2, <4>2
      <4>4. Holds(k, h.uri)'
        BY <1>1, <3>3, <4>2, <4>3 DEF Holds
      <4> QED
        BY <3>1, <4>3, <4>4
    <3>4. CASE Holds(n, h.uri)'
      <4>1. n \in i .. Len(handlers')
        BY <1>1, <2>2
      <4> QED
        BY <3>1, <3>4, <4>1
    <3> QED
      BY <3>2, <3>3, <3>4
  <2> QED
    BY <1>1, <2>1, <2>2
<1>4. running' # 0 => handlers'[running'].at = "run"
  <2>1. running # 0 => running \in 1 .. Len(handlers) /\ handlers[running].at = "run"
    BY DEF IInv, TypeOK, Forms
  <2> QED
    BY <1>1, <2>1
<1> QED
  BY <1>2, <1>3, <1>4 DEF Forms

(* A handler starts at once. *)
LEMMA Starting ==
    ASSUME IInv, Begins, NEW g \in Pending, Form(g), g.at = "run", Starts(g),
           \A f \in Files : changes'[f] = changes[f] \/ changes'[f].count = 0,
           \A f \in Files : changes'[f].count > 0 =>
              changes'[f].text = buffer'[f] /\ buffer'[f] # None,
           steady' => Agree(g)' /\ Answered(g)',
           calm' => OwnRight(g)' /\ ForeignRight(g)'
    PROVE  /\ Forms' /\ SteadyInv' /\ CalmInv' /\ handlers' \in Seq(Pending)
           /\ running' \in 0 .. Len(handlers')
<1>1. PICK n : n = Len(handlers) + 1
  OBVIOUS
<1>2. handlers' = Append(handlers, g) /\ running' = n
  BY <1>1 DEF Starts
<1>3. /\ handlers' \in Seq(Pending) /\ Len(handlers) \in Nat /\ Len(handlers') = n
      /\ handlers'[n] = g
      /\ \A i \in 1 .. Len(handlers) : handlers'[i] = handlers[i]
      /\ \A i \in 1 .. Len(handlers') : i \in 1 .. Len(handlers) \/ i = n
  BY <1>1, <1>2, Appended DEF IInv, TypeOK
<1>4. Forms'
  BY <1>1, <1>2, FormsAppended
<1>5. ASSUME steady' PROVE SteadyInv'
  <2>1. \A i : ~ Runs(i)
    BY <1>5, Settled
  <2>2. \A i : Runs(i)' <=> i = n
    BY <1>1, <1>3, <2>1 DEF Runs
  <2>3. Agree(handlers[n])' /\ Answered(handlers[n])'
    BY <1>3, <1>5 DEF Agree, Serves, Opens, Answered, Queued
  <2> QED
    BY <2>2, <2>3 DEF SteadyInv, OneRuns
<1>6. ASSUME calm' PROVE CalmInv'
  <2>1. steady' /\ \A i : ~ Works(i)
    BY <1>6, Settled
  <2>2. \A i : Works(i)' <=> i = n
    BY <1>1, <1>3, <2>1 DEF Works
  <2>3. OwnRight(handlers[n])' /\ ForeignRight(handlers[n])'
    BY <1>3, <1>6 DEF OwnRight, ForeignRight, Opens, Queued, Analyses, Claims
  <2> QED
    BY <2>1, <2>2, <2>3 DEF CalmInv, OneWorks
<1>7. SteadyInv' /\ CalmInv'
  BY <1>5, <1>6 DEF SteadyInv, CalmInv
<1>8. running' \in 0 .. Len(handlers')
  BY <1>1, <1>2, <1>3
<1> QED
  BY <1>3, <1>4, <1>7, <1>8

LEMMA ReceivesTyped ==
    ASSUME TypeOK, NEW kind, Receives(kind)
    PROVE  sent' \in 0 .. MaxMessages /\ running = 0 /\ Begins
BY ServerAssumption DEF Receives, TypeOK

LEMMA WritesTyped ==
    ASSUME TypeOK, Writes
    PROVE  newest' \in Texts /\ newest' # None /\ newest' > newest /\ newest' \in Nat
BY ServerAssumption DEF Writes, TypeOK, Texts, None

LEMMA OpenKeeps ==
    ASSUME IInv, NEW f \in Files, Open(f) PROVE IInv'
<1>1. /\ Begins /\ buffer[f] = None /\ (Writes \/ UNCHANGED newest)
      /\ buffer' = [buffer EXCEPT ![f] = IF newest' > newest THEN newest' ELSE disk[f]]
      /\ changes' = [changes EXCEPT ![f] = [count |-> 0, text |-> None]]
      /\ Starts(Handler(f, buffer'[f], 0, AfterOpen))
      /\ UNCHANGED <<docs, foreign_diags, shown, disk>>
      /\ sent' \in 0 .. MaxMessages
  BY ReceivesTyped DEF Open, Forget, Receives, IInv
<1>2. newest' \in Texts /\ (newest' > newest => newest' # None)
  BY <1>1, WritesTyped DEF IInv, TypeOK, Texts, None
<1>3. disk[f] \in Texts /\ disk[f] # None
  BY DEF IInv, TypeOK
<1>4. PICK t \in Texts : t # None /\ t = IF newest' > newest THEN newest' ELSE disk[f]
  BY <1>2, <1>3
<1>5. /\ buffer' = [buffer EXCEPT ![f] = t] /\ buffer' \in [Files -> Texts]
      /\ \A x \in Files : buffer'[x] = IF x = f THEN t ELSE buffer[x]
  BY <1>1, <1>4 DEF IInv, TypeOK
<1>6. /\ changes' \in [Files -> [count : Nat, text : Texts]]
      /\ changes'[f].count = 0
      /\ \A x \in Files : x # f => changes'[x] = changes[x]
  BY <1>1, MarkersTyped DEF IInv, TypeOK
<1>7. /\ AfterOpen \in AtAnalyze \cap ToOthers \cap Plans /\ AfterOpen # AfterClose
      /\ AfterOpen \notin Analysed \union Looping
  BY OtherStages
<1>8. PICK g \in Pending :
        /\ g = Handler(f, t, 0, AfterOpen)
        /\ g.uri = f /\ g.of = f /\ g.text = t /\ g.at = "run" /\ g.todo = AfterOpen
        /\ g.others = {} /\ g.lowered = NoMarkers /\ g.out = <<>>
  BY <1>7, HandlerTyped
<1>9. Starts(g)
  BY <1>1, <1>5, <1>8
<1>10. Marked(g.lowered) = {}
  BY <1>8 DEF Marked, NoMarkers
<1>11. Form(g)
  BY <1>7, <1>8, <1>10 DEF Form
<1>12. \A x \in Files : changes'[x].count > 0 => changes'[x].text = buffer'[x] /\ buffer'[x] # None
  BY <1>5, <1>6 DEF IInv, Forms
<1>s. ASSUME steady' PROVE Agree(g)' /\ Answered(g)'
  <2>1. /\ \A x \in Files : docs[x] # None => Serves(x, docs[x])
        /\ \A x \in Files : docs[x] = None => buffer[x] = None
        /\ \A x \in Files : Foreign(x, shown[x]) => Claimed(x)
    BY <1>1, <1>s, Settled
  <2>2. Agree(g)'
    <3>1. \A x \in Files : docs'[x] # None => Serves(x, docs[x])'
      BY <1>1, <1>5, <1>6, <2>1 DEF Serves
    <3>2. \A x \in Files : docs'[x] = None /\ buffer'[x] # None => Opens(g, x)
      BY <1>1, <1>5, <1>8, <2>1 DEF Opens
    <3>3. Serves(g.of, g.text)'
      BY <1>4, <1>5, <1>8 DEF Serves
    <3> QED
      BY <1>8, <3>1, <3>2, <3>3 DEF Agree, Opens
  <2>3. Answered(g)'
    BY <1>1, <1>8, <2>1 DEF Answered, Foreign, Claimed
  <2> QED
    BY <2>2, <2>3
<1>c. ASSUME calm' PROVE OwnRight(g)' /\ ForeignRight(g)'
  <2>1. /\ \A x \in Files : docs[x] # None => docs[x] = buffer[x] \/ Due(x)
        /\ \A x \in Files : buffer[x] # None =>
              Fresh(x, shown[x]) \/ \E y \in Imports[x] \union {x} : Due(y)
        /\ \A d \in Files : foreign_diags[d] = Wanted(d)
        /\ \A x \in Files : buffer[x] = None => Claimed(x) \/ shown[x] = Cleared
        /\ \A x, d \in Files : buffer[x] = None /\ x \in foreign_diags[d] =>
              shown[x].by # x /\ shown[x].text = disk[x]
    BY <1>1, <1>c, Settled
  <2>2. \A x \in Files : x # f /\ Due(x) => Due(x)'
    BY <1>6, <1>9, DueStays DEF Starts, IInv
  <2>3. ASSUME NEW x \in Files, buffer'[x] # None, f \in Imports[x] \/ x = f
        PROVE  Analyses(g, x)'
    BY <1>7, <1>8, <2>3 DEF Analyses
  <2>4. ASSUME NEW x \in Files, f \notin Imports[x], x # f, Fresh(x, shown[x])
        PROVE  Fresh(x, shown[x])'
    <3>1. \A y \in Imports[x] : Current(y)' = Current(y)
      <4> SUFFICES ASSUME NEW y \in Imports[x] PROVE Current(y)' = Current(y)
        OBVIOUS
      <4>1. y \in Files /\ y # f
        BY <2>4, ServerAssumption
      <4> QED
        BY <1>1, <1>5, <4>1 DEF Current
    <3> QED
      BY <1>1, <1>5, <2>4, <3>1 DEF Fresh
  <2>5. OwnRight(g)'
    <3>1. \A x \in Files : docs'[x] # None => docs'[x] = buffer'[x] \/ Due(x)' \/ Opens(g, x)
      BY <1>1, <1>5, <1>8, <2>1, <2>2 DEF Opens
    <3>2. g.text = buffer'[g.of] /\ buffer'[g.of] # None
      BY <1>4, <1>5, <1>8
    <3>3. ASSUME NEW x \in Files, buffer'[x] # None
          PROVE  \/ Fresh(x, shown[x])' \/ (\E d \in Imports[x] \union {x} : Due(d)')
                 \/ Analyses(g, x)'
      <4>1. CASE f \in Imports[x] \/ x = f
        BY <2>3, <3>3, <4>1
      <4>2. CASE f \notin Imports[x] /\ x # f
        <5>1. Fresh(x, shown[x]) \/ \E y \in Imports[x] \union {x} : Due(y)
          BY <1>5, <2>1, <3>3, <4>2
        <5>2. \A y \in Imports[x] \union {x} : y \in Files /\ y # f
          BY <4>2, ServerAssumption
        <5> QED
          BY <2>2, <2>4, <4>2, <5>1, <5>2
      <4> QED
        BY <4>1, <4>2
    <3> QED
      BY <1>7, <1>8, <3>1, <3>2, <3>3 DEF OwnRight, Opens
  <2>6. ForeignRight(g)'
    <3>1. ASSUME NEW d \in Files PROVE foreign_diags'[d] = Wanted(d)' \/ Claims(g, d)'
      <4>1. CASE buffer'[d] # None /\ (f \in Imports[d] \/ d = f)
        BY <2>3, <4>1 DEF Claims
      <4>2. CASE buffer'[d] = None \/ (f \notin Imports[d] /\ d # f)
        <5>1. \A x \in Imports[d] : x \in Files
          BY ServerAssumption
        <5>2. buffer'[d] = None => d # f
          BY <1>4, <1>5
        <5>3. Wanted(d)' = Wanted(d)
          BY <1>1, <1>5, <4>2, <5>1, <5>2 DEF Wanted
        <5> QED
          BY <1>1, <2>1, <5>3
      <4> QED
        BY <4>1, <4>2
    <3>2. Marked(g.lowered)' = {}
      BY <1>8 DEF Marked, NoMarkers, Cleared, NoText
    <3>3. \A x \in Files : buffer'[x] = None => buffer[x] = None
      BY <1>4, <1>5
    <3>4. \A x \in Files : buffer'[x] = None => Claimed(x)' \/ shown'[x] = Cleared'
      BY <1>1, <2>1, <3>3 DEF Claimed, Cleared, NoText
    <3>5. \A x, d \in Files : buffer'[x] = None /\ x \in foreign_diags'[d] =>
             shown'[x].by # x /\ shown'[x].text = disk'[x]
      BY <1>1, <2>1, <3>3
    <3> QED
      BY <1>7, <1>8, <3>1, <3>2, <3>4, <3>5 DEF ForeignRight
  <2> QED
    BY <2>5, <2>6
<1>13. /\ Forms' /\ SteadyInv' /\ CalmInv' /\ handlers' \in Seq(Pending)
       /\ running' \in 0 .. Len(handlers')
  BY <1>1, <1>6, <1>8, <1>9, <1>11, <1>12, <1>s, <1>c, Starting
<1>14. {steady', calm'} \subseteq BOOLEAN
  BY <1>1, Settled
<1>15. TypeOK'
  BY <1>1, <1>2, <1>5, <1>6, <1>13, <1>14 DEF IInv, TypeOK
<1> QED
  BY <1>13, <1>15 DEF IInv

LEMMA DiskChangeKeeps ==
    ASSUME IInv, NEW f \in Files, DiskChange(f) PROVE IInv'
<1>1. /\ Begins /\ buffer[f] = None /\ Writes
      /\ disk' = [disk EXCEPT ![f] = newest']
      /\ Starts(Handler(f, None, 0, <<"others">>))
      /\ UNCHANGED <<docs, changes, foreign_diags, shown, buffer>>
      /\ sent' \in 0 .. MaxMessages
  BY ReceivesTyped DEF DiskChange, Receives, IInv
<1>2. newest' \in Texts /\ newest' # None
  BY <1>1, WritesTyped DEF IInv
<1>3. /\ disk' \in [Files -> Texts \ {None}]
      /\ \A x \in Files : x # f => disk'[x] = disk[x]
  BY <1>1, <1>2 DEF IInv, TypeOK
<1>4. /\ JustOthers \in ToOthers \cap Plans
      /\ JustOthers \notin AtAnalyze \union Analysed \union Looping \union {AfterClose}
      /\ JustOthers # AfterOpen /\ JustOthers = <<"others">>
  BY OtherStages, Heads DEF JustOthers
<1>5. PICK g \in Pending :
        /\ g = Handler(f, None, 0, JustOthers)
        /\ g.uri = f /\ g.of = f /\ g.at = "run" /\ g.todo = JustOthers
        /\ g.others = {} /\ g.lowered = NoMarkers /\ g.out = <<>>
  BY <1>4, HandlerTyped, MarkersTyped
<1>6. Starts(g)
  BY <1>1, <1>4, <1>5
<1>7. Marked(g.lowered) = {}
  BY <1>5 DEF Marked, NoMarkers
<1>8. Form(g)
  BY <1>4, <1>5, <1>7 DEF Form
<1>9. \A x \in Files : changes'[x].count > 0 => changes'[x].text = buffer'[x] /\ buffer'[x] # None
  BY <1>1 DEF IInv, Forms
<1>s. ASSUME steady' PROVE Agree(g)' /\ Answered(g)'
  <2>1. /\ \A x \in Files : docs[x] # None => Serves(x, docs[x])
        /\ \A x \in Files : docs[x] = None => buffer[x] = None
        /\ \A x \in Files : Foreign(x, shown[x]) => Claimed(x)
    BY <1>1, <1>s, Settled
  <2>2. Agree(g)'
    BY <1>1, <1>4, <1>5, <2>1 DEF Agree, Serves
  <2>3. Answered(g)'
    BY <1>1, <1>5, <2>1 DEF Answered, Foreign, Claimed
  <2> QED
    BY <2>2, <2>3
<1>c. ASSUME calm' PROVE OwnRight(g)' /\ ForeignRight(g)'
  <2>1. /\ \A x \in Files : docs[x] # None => docs[x] = buffer[x] \/ Due(x)
        /\ \A x \in Files : buffer[x] # None =>
              Fresh(x, shown[x]) \/ \E y \in Imports[x] \union {x} : Due(y)
        /\ \A d \in Files : foreign_diags[d] = Wanted(d)
        /\ \A x \in Files : buffer[x] = None => Claimed(x) \/ shown[x] = Cleared
        /\ \A x, d \in Files : buffer[x] = None /\ x \in foreign_diags[d] =>
              shown[x].by # x /\ shown[x].text = disk[x]
    BY <1>1, <1>c, Settled
  <2>2. \A x \in Files : Due(x) => Due(x)'
    BY <1>1, <1>6, DueStays DEF Starts, IInv
  <2>3. ASSUME NEW x \in Files, buffer'[x] # None, f \in Imports[x]
        PROVE  Analyses(g, x)'
    BY <1>4, <1>5, <2>3 DEF Analyses
  <2>4. ASSUME NEW x \in Files, f \notin Imports[x], Fresh(x, shown[x])
        PROVE  Fresh(x, shown[x])'
    <3>1. \A y \in Imports[x] : Current(y)' = Current(y)
      BY <1>1, <1>3, <2>4, ServerAssumption DEF Current
    <3> QED
      BY <1>1, <2>4, <3>1 DEF Fresh
  <2>5. OwnRight(g)'
    <3>1. \A x \in Files : docs'[x] # None => docs'[x] = buffer'[x] \/ Due(x)'
      BY <1>1, <2>1, <2>2
    <3>2. ASSUME NEW x \in Files, buffer'[x] # None
          PROVE  \/ Fresh(x, shown[x])' \/ (\E d \in Imports[x] \union {x} : Due(d)')
                 \/ Analyses(g, x)'
      <4>1. CASE f \in Imports[x]
        BY <2>3, <3>2, <4>1
      <4>2. CASE f \notin Imports[x]
        <5>1. Fresh(x, shown[x]) \/ \E y \in Imports[x] \union {x} : Due(y)
          BY <1>1, <2>1, <3>2
        <5>2. \A y \in Imports[x] \union {x} : y \in Files
          BY ServerAssumption
        <5> QED
          BY <2>2, <2>4, <4>2, <5>1, <5>2
      <4> QED
        BY <4>1, <4>2
    <3> QED
      BY <1>4, <1>5, <3>1, <3>2 DEF OwnRight
  <2>6. ForeignRight(g)'
    <3>1. ASSUME NEW d \in Files PROVE foreign_diags'[d] = Wanted(d)' \/ Claims(g, d)'
      <4>1. CASE buffer'[d] # None /\ f \in Imports[d]
        BY <2>3, <4>1 DEF Claims
      <4>2. CASE buffer'[d] = None \/ f \notin Imports[d]
        <5>1. \A x \in Imports[d] : x \in Files
          BY ServerAssumption
        <5>2. Wanted(d)' = Wanted(d)
          BY <1>1, <1>3, <4>2, <5>1 DEF Wanted
        <5> QED
          BY <1>1, <2>1, <5>2
      <4> QED
        BY <4>1, <4>2
    <3>2. Marked(g.lowered)' = {}
      BY <1>5 DEF Marked, NoMarkers, Cleared, NoText
    <3>3. \A x \in Files : buffer'[x] = None => Claimed(x)' \/ shown'[x] = Cleared'
      BY <1>1, <2>1 DEF Claimed, Cleared, NoText
    <3>4. ASSUME NEW x \in Files, NEW d \in Files, buffer'[x] = None, x \in foreign_diags'[d]
          PROVE  (shown'[x].by # x /\ shown'[x].text = disk'[x]) \/ Claims(g, d)'
      <4>1. CASE x = f
        <5>1. x \in Wanted(d)
          BY <1>1, <2>1, <3>4
        <5> QED
          BY <1>1, <2>3, <4>1, <5>1 DEF Wanted, Claims
      <4>2. CASE x # f
        BY <1>1, <1>3, <2>1, <3>4, <4>2
      <4> QED
        BY <4>1, <4>2
    <3> QED
      BY <1>4, <1>5, <3>1, <3>2, <3>3, <3>4 DEF ForeignRight
  <2> QED
    BY <2>5, <2>6
<1>10. /\ Forms' /\ SteadyInv' /\ CalmInv' /\ handlers' \in Seq(Pending)
       /\ running' \in 0 .. Len(handlers')
  BY <1>1, <1>5, <1>6, <1>8, <1>9, <1>s, <1>c, Starting
<1>11. {steady', calm'} \subseteq BOOLEAN
  BY <1>1, Settled
<1>12. TypeOK'
  BY <1>1, <1>2, <1>3, <1>10, <1>11 DEF IInv, TypeOK
<1> QED
  BY <1>10, <1>12 DEF IInv

LEMMA SaveKeeps ==
    ASSUME IInv, NEW f \in Files, Save(f) PROVE IInv'
<1>1. /\ Begins /\ buffer[f] # None
      /\ disk' = [disk EXCEPT ![f] = buffer[f]]
      /\ Starts(Handler(f, None, 0, AfterSave))
      /\ UNCHANGED <<docs, changes, foreign_diags, shown, buffer, newest>>
      /\ sent' \in 0 .. MaxMessages
  BY ReceivesTyped DEF Save, Receives, IInv
<1>2. /\ disk' \in [Files -> Texts \ {None}]
      /\ \A x \in Files : x # f => disk'[x] = disk[x]
  BY <1>1 DEF IInv, TypeOK
<1>3. /\ AfterSave \in ToOthers \cap Plans
      /\ AfterSave \notin AtAnalyze \union Analysed \union Looping \union {AfterClose}
      /\ AfterSave # AfterOpen
  BY OtherStages
<1>4. PICK g \in Pending :
        /\ g = Handler(f, None, 0, AfterSave)
        /\ g.uri = f /\ g.of = f /\ g.at = "run" /\ g.todo = AfterSave
        /\ g.others = {} /\ g.lowered = NoMarkers /\ g.out = <<>>
  BY <1>3, HandlerTyped, MarkersTyped
<1>5. Starts(g)
  BY <1>1, <1>4
<1>6. Marked(g.lowered) = {}
  BY <1>4 DEF Marked, NoMarkers
<1>7. Form(g)
  BY <1>3, <1>4, <1>6 DEF Form
<1>8. \A x \in Files : changes'[x].count > 0 => changes'[x].text = buffer'[x] /\ buffer'[x] # None
  BY <1>1 DEF IInv, Forms
<1>s. ASSUME steady' PROVE Agree(g)' /\ Answered(g)'
  <2>1. /\ \A x \in Files : docs[x] # None => Serves(x, docs[x])
        /\ \A x \in Files : docs[x] = None => buffer[x] = None
        /\ \A x \in Files : Foreign(x, shown[x]) => Claimed(x)
    BY <1>1, <1>s, Settled
  <2>2. Agree(g)'
    BY <1>1, <1>3, <1>4, <2>1 DEF Agree, Serves
  <2>3. Answered(g)'
    BY <1>1, <1>4, <2>1 DEF Answered, Foreign, Claimed
  <2> QED
    BY <2>2, <2>3
<1>c. ASSUME calm' PROVE OwnRight(g)' /\ ForeignRight(g)'
  <2>1. /\ \A x \in Files : docs[x] # None => docs[x] = buffer[x] \/ Due(x)
        /\ \A x \in Files : buffer[x] # None =>
              Fresh(x, shown[x]) \/ \E y \in Imports[x] \union {x} : Due(y)
        /\ \A d \in Files : foreign_diags[d] = Wanted(d)
        /\ \A x \in Files : buffer[x] = None => Claimed(x) \/ shown[x] = Cleared
        /\ \A x, d \in Files : buffer[x] = None /\ x \in foreign_diags[d] =>
              shown[x].by # x /\ shown[x].text = disk[x]
    BY <1>1, <1>c, Settled
  <2>2. \A x \in Files : Due(x) => Due(x)'
    BY <1>1, <1>5, DueStays DEF Starts, IInv
  <2>3. \A y \in Files : Current(y)' = Current(y)
    BY <1>1, <1>2 DEF Current
  <2>4. \A x \in Files : \A y \in Imports[x] \union {x} : y \in Files
    BY ServerAssumption
  <2>5. \A x \in Files : Fresh(x, shown[x]) => Fresh(x, shown[x])'
    BY <1>1, <2>3, <2>4 DEF Fresh
  <2>6. OwnRight(g)'
    <3>1. \A x \in Files : docs'[x] # None => docs'[x] = buffer'[x] \/ Due(x)'
      BY <1>1, <2>1, <2>2
    <3>2. \A x \in Files : buffer'[x] # None =>
             Fresh(x, shown[x])' \/ (\E d \in Imports[x] \union {x} : Due(d)')
      BY <1>1, <2>1, <2>2, <2>4, <2>5
    <3> QED
      BY <1>3, <1>4, <3>1, <3>2 DEF OwnRight
  <2>7. ForeignRight(g)'
    <3>1. \A d \in Files : Wanted(d)' = Wanted(d)
      BY <1>1, <1>2, <2>4 DEF Wanted
    <3>2. Marked(g.lowered)' = {}
      BY <1>4 DEF Marked, NoMarkers, Cleared, NoText
    <3>3. \A x \in Files : buffer'[x] = None => Claimed(x)' \/ shown'[x] = Cleared'
      BY <1>1, <2>1 DEF Claimed, Cleared, NoText
    <3>4. \A x, d \in Files : buffer'[x] = None /\ x \in foreign_diags'[d] =>
             shown'[x].by # x /\ shown'[x].text = disk'[x]
      BY <1>1, <1>2, <2>1
    <3> QED
      BY <1>1, <1>3, <1>4, <2>1, <3>1, <3>2, <3>3, <3>4 DEF ForeignRight
  <2> QED
    BY <2>6, <2>7
<1>9. /\ Forms' /\ SteadyInv' /\ CalmInv' /\ handlers' \in Seq(Pending)
      /\ running' \in 0 .. Len(handlers')
  BY <1>1, <1>4, <1>5, <1>7, <1>8, <1>s, <1>c, Starting
<1>10. {steady', calm'} \subseteq BOOLEAN
  BY <1>1, Settled
<1>11. TypeOK'
  BY <1>1, <1>2, <1>9, <1>10 DEF IInv, TypeOK
<1> QED
  BY <1>9, <1>11 DEF IInv

LEMMA CloseKeeps ==
    ASSUME IInv, NEW f \in Files, Close(f) PROVE IInv'
<1> DEFINE m == [file |-> f, markers |-> Cleared]
<1> DEFINE new == [Handler(f, None, 0, AfterClose) EXCEPT !.out = <<m>>]
<1>1. /\ Begins /\ buffer[f] # None
      /\ buffer' = [buffer EXCEPT ![f] = None]
      /\ docs' = [docs EXCEPT ![f] = None]
      /\ changes' = [changes EXCEPT ![f] = [count |-> 0, text |-> None]]
      /\ Starts(new)
      /\ UNCHANGED <<foreign_diags, shown, disk, newest>>
      /\ sent' \in 0 .. MaxMessages
  BY ReceivesTyped DEF Close, Forget, Receives, IInv
<1>2. /\ buffer' \in [Files -> Texts] /\ docs' \in [Files -> Texts]
      /\ buffer'[f] = None /\ docs'[f] = None
      /\ \A x \in Files : x # f => buffer'[x] = buffer[x] /\ docs'[x] = docs[x]
  BY <1>1, MarkersTyped DEF IInv, TypeOK
<1>3. /\ changes' \in [Files -> [count : Nat, text : Texts]]
      /\ changes'[f].count = 0
      /\ \A x \in Files : x # f => changes'[x] = changes[x]
  BY <1>1, MarkersTyped DEF IInv, TypeOK
<1>4. /\ AfterClose \in ToOthers \cap Plans
      /\ AfterClose \notin AtAnalyze \union Analysed \union Looping /\ AfterClose # AfterOpen
  BY OtherStages
<1>5. m \in Publishes /\ m.file = f /\ m.markers = Cleared
  BY MarkersTyped
<1> HIDE DEF m
<1>6. PICK g \in Pending :
        /\ g = new
        /\ g.uri = f /\ g.of = f /\ g.at = "run" /\ g.todo = AfterClose
        /\ g.others = {} /\ g.lowered = NoMarkers /\ g.out = <<m>>
  <2>1. PICK h \in Pending :
          /\ h = Handler(f, None, 0, AfterClose)
          /\ h.uri = f /\ h.of = f /\ h.at = "run" /\ h.todo = AfterClose
          /\ h.others = {} /\ h.lowered = NoMarkers /\ h.out = <<>>
    BY <1>4, HandlerTyped, MarkersTyped
  <2>2. <<m>> \in Seq(Publishes)
    BY <1>5
  <2>3. new = [h EXCEPT !.out = <<m>>]
    BY <2>1
  <2> HIDE DEF new
  <2>4. /\ new \in Pending /\ new.uri = f /\ new.of = f /\ new.at = "run"
        /\ new.todo = AfterClose /\ new.others = {} /\ new.lowered = NoMarkers
        /\ new.out = <<m>>
    BY <2>1, <2>2, <2>3 DEF Pending
  <2> QED
    BY <2>4
<1>7. Starts(g)
  BY <1>1, <1>6
<1> HIDE DEF new
<1>8. Marked(g.lowered) = {}
  BY <1>6 DEF Marked, NoMarkers
<1>9. Form(g)
  BY <1>4, <1>6, <1>8 DEF Form
<1>10. \A x \in Files : changes'[x].count > 0 => changes'[x].text = buffer'[x] /\ buffer'[x] # None
  BY <1>2, <1>3 DEF IInv, Forms
<1>11. /\ Len(g.out) = 1
       /\ \A k \in 1 .. Len(g.out) : g.out[k].file = f /\ g.out[k].markers = Cleared
  BY <1>5, <1>6
<1>12. Queued(g, f) /\ Queued(g, f)'
  <2>1. 1 \in 1 .. Len(g.out)
    BY <1>11
  <2> QED
    BY <1>11, <2>1 DEF Queued
<1>13. Cleared.by = "none" /\ "none" \notin Files
  BY ServerAssumption DEF Cleared
<1>s. ASSUME steady' PROVE Agree(g)' /\ Answered(g)'
  <2>1. /\ \A x \in Files : docs[x] # None => Serves(x, docs[x])
        /\ \A x \in Files : docs[x] = None => buffer[x] = None
        /\ \A x \in Files : Foreign(x, shown[x]) => Claimed(x)
    BY <1>1, <1>s, Settled
  <2>2. Agree(g)'
    <3>1. \A x \in Files : docs'[x] # None => Serves(x, docs[x])'
      BY <1>2, <1>3, <2>1 DEF Serves
    <3>2. \A x \in Files : docs'[x] = None => buffer'[x] = None
      BY <1>2, <2>1
    <3> QED
      BY <1>4, <1>6, <3>1, <3>2 DEF Agree
  <2>3. \A k \in 1 .. Len(g.out) : ~ Foreign(g.out[k].file, g.out[k].markers)
    BY <1>11, <1>13 DEF Foreign
  <2>4. \A x \in Files : Foreign(x, shown[x])' => Claimed(x)'
    BY <1>1, <2>1 DEF Foreign, Claimed
  <2>5. Answered(g)'
    BY <2>3, <2>4 DEF Answered, Foreign
  <2> QED
    BY <2>2, <2>5
<1>c. ASSUME calm' PROVE OwnRight(g)' /\ ForeignRight(g)'
  <2>1. /\ \A x \in Files : docs[x] # None => docs[x] = buffer[x] \/ Due(x)
        /\ \A x \in Files : buffer[x] # None =>
              Fresh(x, shown[x]) \/ \E y \in Imports[x] \union {x} : Due(y)
        /\ \A d \in Files : foreign_diags[d] = Wanted(d)
        /\ \A x \in Files : buffer[x] = None => Claimed(x) \/ shown[x] = Cleared
        /\ \A x, d \in Files : buffer[x] = None /\ x \in foreign_diags[d] =>
              shown[x].by # x /\ shown[x].text = disk[x]
    BY <1>1, <1>c, Settled
  <2>2. \A x \in Files : x # f /\ Due(x) => Due(x)'
    BY <1>3, <1>7, DueStays DEF Starts, IInv
  <2>3. ASSUME NEW x \in Files, buffer'[x] # None, f \in Imports[x]
        PROVE  Analyses(g, x)'
    BY <1>4, <1>6, <2>3 DEF Analyses
  <2>4. ASSUME NEW x \in Files, f \notin Imports[x], x # f, Fresh(x, shown[x])
        PROVE  Fresh(x, shown[x])'
    <3>1. \A y \in Imports[x] : Current(y)' = Current(y)
      <4> SUFFICES ASSUME NEW y \in Imports[x] PROVE Current(y)' = Current(y)
        OBVIOUS
      <4>1. y \in Files /\ y # f
        BY <2>4, ServerAssumption
      <4> QED
        BY <1>1, <1>2, <4>1 DEF Current
    <3> QED
      BY <1>1, <1>2, <2>4, <3>1 DEF Fresh
  <2>5. OwnRight(g)'
    <3>1. \A x \in Files : docs'[x] # None => docs'[x] = buffer'[x] \/ Due(x)'
      BY <1>2, <2>1, <2>2
    <3>2. \A k \in 1 .. Len(g.out) : Fresh(g.out[k].file, g.out[k].markers)'
      BY <1>11, <1>13 DEF Fresh
    <3>3. ASSUME NEW x \in Files, buffer'[x] # None
          PROVE  \/ Fresh(x, shown[x])' \/ (\E d \in Imports[x] \union {x} : Due(d)')
                 \/ Analyses(g, x)'
      <4>1. CASE f \in Imports[x]
        BY <2>3, <3>3, <4>1
      <4>2. CASE f \notin Imports[x]
        <5>1. x # f
          BY <1>2, <3>3
        <5>2. Fresh(x, shown[x]) \/ \E y \in Imports[x] \union {x} : Due(y)
          BY <1>2, <2>1, <3>3, <5>1
        <5>3. \A y \in Imports[x] \union {x} : y \in Files /\ y # f
          BY <4>2, <5>1, ServerAssumption
        <5> QED
          BY <2>2, <2>4, <4>2, <5>1, <5>2, <5>3
      <4> QED
        BY <4>1, <4>2
    <3> QED
      BY <1>4, <1>6, <3>1, <3>2, <3>3 DEF OwnRight
  <2>6. ForeignRight(g)'
    <3>1. ASSUME NEW d \in Files PROVE foreign_diags'[d] = Wanted(d)' \/ Claims(g, d)'
      <4>1. CASE d = f
        BY <1>6, <4>1 DEF Claims
      <4>2. CASE d # f /\ buffer'[d] # None /\ f \in Imports[d]
        BY <2>3, <4>2 DEF Claims
      <4>3. CASE d # f /\ (buffer'[d] = None \/ f \notin Imports[d])
        <5>1. \A x \in Imports[d] : x \in Files
          BY ServerAssumption
        <5>2. Wanted(d)' = Wanted(d)
          BY <1>1, <1>2, <4>3, <5>1 DEF Wanted
        <5> QED
          BY <1>1, <2>1, <5>2
      <4> QED
        BY <4>1, <4>2, <4>3
    <3>2. Marked(g.lowered)' = {}
      BY <1>6 DEF Marked, NoMarkers, Cleared, NoText
    <3>3. ~ Claimed(f)'
      <4>1. \A d \in Files : f \notin Wanted(d)
        BY <1>1 DEF Wanted
      <4> QED
        BY <1>1, <2>1, <4>1 DEF Claimed
    <3>4. \A k \in 1 .. Len(g.out) : Dropped(g.out[k].file, g.out[k].markers)'
      BY <1>11, <3>3 DEF Dropped, Cleared, NoText
    <3>5. \A x \in Files : buffer'[x] = None => Claimed(x)' \/ shown'[x] = Cleared' \/ Queued(g, x)'
      <4> SUFFICES ASSUME NEW x \in Files, buffer'[x] = None, x # f
                   PROVE  Claimed(x)' \/ shown'[x] = Cleared'
        BY <1>12
      <4> QED
        BY <1>1, <1>2, <2>1 DEF Claimed, Cleared, NoText
    <3>6. \A x, d \in Files : buffer'[x] = None /\ x \in foreign_diags'[d] =>
             (shown'[x].by # x /\ shown'[x].text = disk'[x]) \/ Queued(g, x)'
      <4> SUFFICES ASSUME NEW x \in Files, NEW d \in Files, buffer'[x] = None,
                          x \in foreign_diags'[d], x # f
                   PROVE  shown'[x].by # x /\ shown'[x].text = disk'[x]
        BY <1>12
      <4> QED
        BY <1>1, <1>2, <2>1
    <3>7. g.todo \notin Analysed /\ buffer'[g.uri] = None
      BY <1>2, <1>4, <1>6
    <3> QED
      BY <3>1, <3>2, <3>4, <3>5, <3>6, <3>7 DEF ForeignRight
  <2> QED
    BY <2>5, <2>6
<1>14. /\ Forms' /\ SteadyInv' /\ CalmInv' /\ handlers' \in Seq(Pending)
       /\ running' \in 0 .. Len(handlers')
  BY <1>1, <1>3, <1>6, <1>7, <1>9, <1>10, <1>s, <1>c, Starting
<1>15. {steady', calm'} \subseteq BOOLEAN
  BY <1>1, Settled
<1>16. TypeOK'
  BY <1>1, <1>2, <1>3, <1>14, <1>15 DEF IInv, TypeOK
<1> QED
  BY <1>14, <1>16 DEF IInv

(* did_change only waits: what it leaves to do is due. *)
LEMMA ChangeKeeps ==
    ASSUME IInv, NEW f \in Files, Change(f) PROVE IInv'
<1> DEFINE new == [Handler(f, newest', Generation(f), AfterChange) EXCEPT !.at = "wait"]
<1>1. /\ Begins /\ buffer[f] # None /\ Writes /\ running = 0
      /\ buffer' = [buffer EXCEPT ![f] = newest']
      /\ changes' = [changes EXCEPT ![f] = [count |-> @.count + 1, text |-> newest']]
      /\ handlers' = Append(handlers, new)
      /\ UNCHANGED <<docs, foreign_diags, running, shown, disk>>
      /\ sent' \in 0 .. MaxMessages
  BY ReceivesTyped DEF Change, Receives, IInv
<1>2. PICK t \in Texts : t = newest' /\ t # None
  BY <1>1, WritesTyped DEF IInv
<1>3. changes[f].count \in Nat
  BY DEF IInv, TypeOK
<1>4. PICK c \in Nat : c = changes[f].count + 1 /\ c > 0
  BY <1>3
<1>5. /\ buffer' \in [Files -> Texts] /\ buffer'[f] = t
      /\ \A x \in Files : x # f => buffer'[x] = buffer[x]
  BY <1>1, <1>2 DEF IInv, TypeOK
<1>6. /\ changes' \in [Files -> [count : Nat, text : Texts]]
      /\ changes'[f].count = c /\ changes'[f].text = t
      /\ \A x \in Files : x # f => changes'[x] = changes[x]
  BY <1>1, <1>2, <1>4 DEF IInv, TypeOK
<1>7. /\ AfterOpen \in Plans /\ AfterOpen \notin Analysed /\ AfterChange = AfterOpen
  BY OtherStages DEF AfterChange, AfterOpen
<1>8. PICK g \in Pending :
        /\ g = new
        /\ g.uri = f /\ g.of = f /\ g.text = t /\ g.generation = c /\ g.at = "wait"
        /\ g.todo = AfterOpen /\ g.others = {} /\ g.lowered = NoMarkers /\ g.out = <<>>
  <2>1. PICK h \in Pending :
          /\ h = Handler(f, t, c, AfterOpen)
          /\ h.uri = f /\ h.of = f /\ h.text = t /\ h.generation = c
          /\ h.todo = AfterOpen /\ h.others = {} /\ h.lowered = NoMarkers /\ h.out = <<>>
    BY <1>7, HandlerTyped
  <2>2. new = [h EXCEPT !.at = "wait"]
    BY <1>2, <1>4, <1>7, <2>1 DEF Generation
  <2> HIDE DEF new
  <2>3. new \in Pending /\ new.uri = f /\ new.of = f /\ new.at = "wait"
    BY <2>1, <2>2 DEF Pending
  <2>4. /\ new.text = t /\ new.generation = c /\ new.todo = AfterOpen /\ new.others = {}
        /\ new.lowered = NoMarkers /\ new.out = <<>>
    BY <2>1, <2>2 DEF Pending
  <2> QED
    BY <2>3, <2>4
<1>9. handlers' = Append(handlers, g)
  BY <1>1, <1>8
<1> HIDE DEF new
<1>10. PICK n : n = Len(handlers) + 1
  OBVIOUS
<1>11. /\ handlers' \in Seq(Pending) /\ Len(handlers) \in Nat /\ Len(handlers') = n
       /\ handlers'[n] = g
       /\ \A i \in 1 .. Len(handlers) : handlers'[i] = handlers[i]
       /\ \A i \in 1 .. Len(handlers') : i \in 1 .. Len(handlers) \/ i = n
  BY <1>9, <1>10, Appended DEF IInv, TypeOK
<1>12. Holds(n, f)'
  BY <1>6, <1>8, <1>11 DEF Holds
<1>13. Form(g)
  <2>1. Marked(g.lowered) = {}
    BY <1>8 DEF Marked, NoMarkers
  <2> QED
    BY <1>2, <1>4, <1>7, <1>8, <2>1 DEF Form
<1>14. \A x \in Files : changes'[x].count > 0 => changes'[x].text = buffer'[x] /\ buffer'[x] # None
  BY <1>2, <1>5, <1>6 DEF IInv, Forms
<1>15. Forms'
  <2>1. \A x \in Files : \/ changes'[x] = changes[x] \/ changes'[x].count = 0 \/ Holds(n, x)'
    BY <1>6, <1>12
  <2>2. g.at = "wait" => Holds(n, g.uri)'
    BY <1>8, <1>12
  <2>3. running' = running \/ (running' = n /\ g.at = "run")
    BY <1>1
  <2> QED
    BY <1>9, <1>10, <1>13, <1>14, <2>1, <2>2, <2>3, FormsAppended
<1>16. Due(f)'
  <2>1. n \in 1 .. Len(handlers')
    BY <1>10, <1>11
  <2> QED
    BY <1>12, <2>1 DEF Due
<1>17. \A x \in Files : x # f /\ Due(x) => Due(x)'
  BY <1>6, <1>9, DueStays DEF IInv
<1>18. NoWork.todo = <<>> /\ NoWork.others = {} /\ NoWork.out = <<>> /\ Marked(NoWork.lowered) = {}
  BY DEF NoWork, Marked, NoMarkers
<1>19. <<>> \notin AtAnalyze \union Analysed \union ToOthers /\ <<>> # AfterClose /\ <<>> # AfterOpen
  BY LoopStages, Heads
<1>20. NoWork' = NoWork
  BY DEF NoWork, Cleared, NoMarkers
<1>21. PICK w : w = NoWork
  OBVIOUS
<1>s. ASSUME steady' PROVE SteadyInv'
  <2>1. /\ \A i : ~ Runs(i)
        /\ \A x \in Files : docs[x] # None => Serves(x, docs[x])
        /\ \A x \in Files : docs[x] = None => buffer[x] = None
        /\ \A x \in Files : Foreign(x, shown[x]) => Claimed(x)
    BY <1>1, <1>s, Settled
  <2>2. Agree(w)'
    <3>1. \A x \in Files : docs'[x] # None => Serves(x, docs[x])'
      BY <1>1, <1>2, <1>4, <1>5, <1>6, <2>1 DEF Serves
    <3>2. \A x \in Files : docs'[x] = None => buffer'[x] = None
      BY <1>1, <1>5, <2>1
    <3> QED
      BY <1>18, <1>19, <1>21, <3>1, <3>2 DEF Agree
  <2>3. Answered(w)'
    BY <1>1, <1>18, <1>21, <2>1 DEF Answered, Foreign, Claimed
  <2>4. \A i : ~ Runs(i)'
    BY <1>8, <1>11, <2>1 DEF Runs
  <2>5. Agree(NoWork)' /\ Answered(NoWork)'
    BY <1>20, <1>21, <2>2, <2>3
  <2> QED
    BY <2>4, <2>5 DEF SteadyInv, OneRuns
<1>c. ASSUME calm' PROVE CalmInv'
  <2>1. /\ steady' /\ \A i : ~ Works(i)
        /\ \A x \in Files : docs[x] # None => docs[x] = buffer[x] \/ Due(x)
        /\ \A x \in Files : buffer[x] # None =>
              Fresh(x, shown[x]) \/ \E y \in Imports[x] \union {x} : Due(y)
        /\ \A d \in Files : foreign_diags[d] = Wanted(d)
        /\ \A x \in Files : buffer[x] = None => Claimed(x) \/ shown[x] = Cleared
        /\ \A x, d \in Files : buffer[x] = None /\ x \in foreign_diags[d] =>
              shown[x].by # x /\ shown[x].text = disk[x]
    BY <1>1, <1>c, Settled
  <2>2. ASSUME NEW x \in Files, f \notin Imports[x], x # f, Fresh(x, shown[x])
        PROVE  Fresh(x, shown[x])'
    <3>1. \A y \in Imports[x] : Current(y)' = Current(y)
      <4> SUFFICES ASSUME NEW y \in Imports[x] PROVE Current(y)' = Current(y)
        OBVIOUS
      <4>1. y \in Files /\ y # f
        BY <2>2, ServerAssumption
      <4> QED
        BY <1>1, <1>5, <4>1 DEF Current
    <3> QED
      BY <1>1, <1>5, <2>2, <3>1 DEF Fresh
  <2>3. OwnRight(w)'
    <3>1. \A x \in Files : docs'[x] # None => docs'[x] = buffer'[x] \/ Due(x)'
      BY <1>1, <1>5, <1>16, <1>17, <2>1
    <3>2. ASSUME NEW x \in Files, buffer'[x] # None
          PROVE  Fresh(x, shown[x])' \/ (\E d \in Imports[x] \union {x} : Due(d)')
      <4>1. CASE f \in Imports[x] \union {x}
        BY <1>16, <4>1
      <4>2. CASE f \notin Imports[x] /\ x # f
        <5>1. Fresh(x, shown[x]) \/ \E y \in Imports[x] \union {x} : Due(y)
          BY <1>5, <2>1, <3>2, <4>2
        <5>2. \A y \in Imports[x] \union {x} : y \in Files /\ y # f
          BY <4>2, ServerAssumption
        <5> QED
          BY <1>17, <2>2, <4>2, <5>1, <5>2
      <4> QED
        BY <4>1, <4>2
    <3> QED
      BY <1>18, <1>19, <1>21, <3>1, <3>2 DEF OwnRight
  <2>4. ForeignRight(w)'
    <3>1. \A x \in Files : buffer'[x] = None <=> buffer[x] = None
      BY <1>1, <1>2, <1>5
    <3>2. \A d, x \in Files : x \in Imports[d] => x \in Files
      BY ServerAssumption
    <3>3. \A d \in Files : Wanted(d)' = Wanted(d)
      <4> SUFFICES ASSUME NEW d \in Files PROVE Wanted(d)' = Wanted(d)
        OBVIOUS
      <4>1. \A x \in Imports[d] : x \in Files
        BY ServerAssumption
      <4> QED
        BY <1>1, <3>1, <4>1 DEF Wanted
    <3>4. Marked(w.lowered)' = {}
      BY <1>18, <1>21 DEF Marked, Cleared, NoText
    <3>5. \A x \in Files : buffer'[x] = None => Claimed(x)' \/ shown'[x] = Cleared'
      BY <1>1, <2>1, <3>1 DEF Claimed, Cleared, NoText
    <3>6. \A x, d \in Files : buffer'[x] = None /\ x \in foreign_diags'[d] =>
             shown'[x].by # x /\ shown'[x].text = disk'[x]
      BY <1>1, <2>1, <3>1
    <3> QED
      BY <1>1, <1>18, <1>19, <1>21, <2>1, <3>3, <3>4, <3>5, <3>6 DEF ForeignRight
  <2>5. \A i : ~ Works(i)'
    BY <1>8, <1>11, <2>1 DEF Works
  <2>6. OwnRight(NoWork)' /\ ForeignRight(NoWork)'
    BY <1>20, <1>21, <2>3, <2>4
  <2> QED
    BY <2>1, <2>5, <2>6 DEF CalmInv, OneWorks
<1>22. SteadyInv' /\ CalmInv'
  BY <1>s, <1>c DEF SteadyInv, CalmInv
<1>23. {steady', calm'} \subseteq BOOLEAN
  BY <1>1, Settled
<1>24. running' \in 0 .. Len(handlers')
  BY <1>1, <1>10, <1>11
<1>25. newest' \in Texts
  BY <1>2
<1>26. TypeOK'
  BY <1>1, <1>5, <1>6, <1>11, <1>23, <1>24, <1>25 DEF IInv, TypeOK
<1> QED
  BY <1>15, <1>22, <1>26 DEF IInv

-----------------------------------------------------------------------------
(* The theorems. *)

LEMMA InitHolds == Init => IInv
<1> SUFFICES ASSUME Init PROVE IInv
  OBVIOUS
<1>1. /\ docs = [f \in Files |-> None] /\ buffer = [f \in Files |-> None]
      /\ changes = [f \in Files |-> [count |-> 0, text |-> None]]
      /\ foreign_diags = [f \in Files |-> {}] /\ handlers = <<>> /\ running = 0
      /\ shown = [f \in Files |-> Cleared] /\ disk = [f \in Files |-> 1]
      /\ newest = 1 /\ sent = 0 /\ steady = TRUE /\ calm = TRUE
  BY DEF Init
<1>2. TypeOK
  <2>1. 1 \in Texts \ {None} /\ 0 \in 0 .. MaxMessages
    BY ServerAssumption, MarkersTyped DEF None
  <2>2. handlers \in Seq(Pending) /\ running \in 0 .. Len(handlers)
    BY <1>1
  <2> QED
    BY <1>1, <2>1, <2>2, MarkersTyped DEF TypeOK
<1>3. Forms
  BY <1>1 DEF Forms
<1>4. NoWork.todo = <<>> /\ NoWork.others = {} /\ NoWork.out = <<>> /\ Marked(NoWork.lowered) = {}
  BY DEF NoWork, Marked, NoMarkers
<1>5. <<>> \notin AtAnalyze \union Analysed \union ToOthers /\ <<>> # AfterClose /\ <<>> # AfterOpen
  BY LoopStages, Heads
<1>6. \A i : ~ Runs(i) /\ ~ Works(i)
  BY <1>1 DEF Runs, Works
<1>7. \A f \in Files : docs[f] = None /\ buffer[f] = None /\ shown[f] = Cleared /\ foreign_diags[f] = {}
  BY <1>1
<1>8. Cleared.by = "none"
  BY DEF Cleared
<1>9. Agree(NoWork) /\ Answered(NoWork)
  BY <1>4, <1>5, <1>7, <1>8 DEF Agree, Answered, Foreign
<1>10. OwnRight(NoWork)
  BY <1>4, <1>5, <1>7 DEF OwnRight
<1>11. \A d \in Files : Wanted(d) = {}
  BY <1>7 DEF Wanted
<1>12. ForeignRight(NoWork)
  <2>1. \A d \in Files : foreign_diags[d] = Wanted(d)
    BY <1>7, <1>11
  <2>2. \A f \in Files : shown[f] = Cleared
    BY <1>7
  <2>3. \A f, d \in Files : f \notin foreign_diags[d]
    BY <1>7
  <2>4. NoWork.todo \notin Analysed /\ NoWork.todo # AfterClose
    BY <1>4, <1>5
  <2>5. \A k \in 1 .. Len(NoWork.out) : FALSE
    BY <1>4
  <2> QED
    BY <1>4, <2>1, <2>2, <2>3, <2>4, <2>5 DEF ForeignRight
<1> QED
  BY <1>1, <1>2, <1>3, <1>6, <1>9, <1>10, <1>12
     DEF IInv, SteadyInv, CalmInv, OneRuns, OneWorks

LEMMA StutterKeeps ==
    ASSUME IInv, UNCHANGED vars PROVE IInv'
<1>1. UNCHANGED <<docs, changes, foreign_diags, handlers, running, shown, buffer, disk, newest,
                  sent, steady, calm>>
  BY DEF vars, server, client, inputs
<1>2. TypeOK'
  BY <1>1 DEF IInv, TypeOK
<1>3. \A j, f : Holds(j, f)' <=> Holds(j, f)
  BY <1>1 DEF Holds
<1>4. Forms'
  BY <1>1, <1>3 DEF IInv, Forms, Followed, StillNewest
<1>5. \A f : Due(f)' <=> Due(f)
  BY <1>1, <1>3 DEF Due
<1>6. \A h : /\ Agree(h)' <=> Agree(h)
             /\ Answered(h)' <=> Answered(h)
             /\ OwnRight(h)' <=> OwnRight(h)
             /\ ForeignRight(h)' <=> ForeignRight(h)
  BY <1>1, <1>5, Unmoved
<1>7. \A j : (Runs(j)' <=> Runs(j)) /\ (Works(j)' <=> Works(j))
  BY <1>1 DEF Runs, Works
<1>8. \A j : /\ (Agree(handlers[j])' <=> Agree(handlers[j]))
             /\ (Answered(handlers[j])' <=> Answered(handlers[j]))
             /\ (OwnRight(handlers[j])' <=> OwnRight(handlers[j]))
             /\ (ForeignRight(handlers[j])' <=> ForeignRight(handlers[j]))
  <2> SUFFICES ASSUME NEW j
               PROVE  /\ (Agree(handlers[j])' <=> Agree(handlers[j]))
                      /\ (Answered(handlers[j])' <=> Answered(handlers[j]))
                      /\ (OwnRight(handlers[j])' <=> OwnRight(handlers[j]))
                      /\ (ForeignRight(handlers[j])' <=> ForeignRight(handlers[j]))
    OBVIOUS
  <2>1. PICK h : h = handlers[j] /\ h = handlers'[j]
    BY <1>1
  <2> QED
    BY <1>6, <2>1
<1>9. SteadyInv'
  BY <1>1, <1>6, <1>7, <1>8 DEF IInv, SteadyInv, OneRuns
<1>10. CalmInv'
  BY <1>1, <1>6, <1>7, <1>8 DEF IInv, CalmInv, OneWorks
<1> QED
  BY <1>2, <1>4, <1>9, <1>10 DEF IInv

LEMMA StepKeeps == IInv /\ [Next]_vars => IInv'
<1> SUFFICES ASSUME IInv, [Next]_vars PROVE IInv'
  OBVIOUS
<1>1. CASE Message
  BY <1>1, OpenKeeps, ChangeKeeps, SaveKeeps, CloseKeeps, DiskChangeKeeps DEF Message
<1>2. CASE OnTask
  BY <1>2, AnalyzeKeeps, ClaimKeeps, PublishKeeps, OthersKeeps, NextOtherKeeps, SourceKeeps,
     LowerKeeps, ReleaseKeeps, ReturnKeeps DEF OnTask
<1>3. CASE Suspended
  BY <1>3, ResumeKeeps, WakeKeeps, CompileKeeps, CompiledKeeps DEF Suspended
<1>4. CASE UNCHANGED vars
  BY <1>4, StutterKeeps
<1> QED
  BY <1>1, <1>2, <1>3, <1>4 DEF Next

LEMMA AlwaysHolds == Spec => []IInv
BY InitHolds, StepKeeps, PTL DEF Spec

LEMMA InvRight == IInv => MarkersRight /\ OwnFresh
<1> SUFFICES ASSUME IInv PROVE MarkersRight /\ OwnFresh
  OBVIOUS
<1>1. NoWork.todo = <<>> /\ NoWork.others = {} /\ NoWork.out = <<>>
  BY DEF NoWork
<1>2. <<>> \notin AtAnalyze \union Analysed \union ToOthers /\ <<>> # AfterClose /\ <<>> # AfterOpen
  BY LoopStages, Heads
<1>3. \A f \in Files : ~ Queued(NoWork, f) /\ ~ Analyses(NoWork, f) /\ ~ Claims(NoWork, f)
  BY <1>1, <1>2 DEF Queued, Analyses, Claims
<1>4. ASSUME Quiet, calm
      PROVE  OwnRight(NoWork) /\ ForeignRight(NoWork) /\ \A f : ~ Due(f)
  <2>1. \A i : ~ Works(i)
    BY <1>4 DEF Quiet, Works
  <2> QED
    BY <1>4, <2>1 DEF IInv, CalmInv, Quiet, Due
<1>5. OwnFresh
  <2> SUFFICES ASSUME Quiet, calm, NEW f \in Files, buffer[f] # None, shown[f].by = f
               PROVE  OpenShown(f)
    BY DEF OwnFresh
  <2>1. Fresh(f, shown[f])
    BY <1>3, <1>4 DEF OwnRight
  <2> QED
    BY <2>1 DEF Fresh, OpenShown
<1>6. ClosedRight
  <2> SUFFICES ASSUME Quiet, calm, NEW f \in Files, buffer[f] = None
               PROVE  ClosedShown(f)
    BY DEF ClosedRight
  <2>1. Claimed(f) <=> disk[f] \in BadTexts /\ \E d \in Files : Reports(d, f)
    <3>1. \A d \in Files : foreign_diags[d] = Wanted(d)
      BY <1>3, <1>4 DEF ForeignRight
    <3>2. \A d \in Files : f \in Wanted(d) <=> disk[f] \in BadTexts /\ Reports(d, f)
      BY DEF Wanted, Reports
    <3> QED
      BY <3>1, <3>2 DEF Claimed
  <2>2. Claimed(f) => shown[f].by # f /\ shown[f].text = disk[f]
    BY <1>3, <1>4 DEF ForeignRight, Claimed
  <2>3. ~ Claimed(f) => shown[f] = Cleared
    BY <1>3, <1>4 DEF ForeignRight
  <2> QED
    BY <2>1, <2>2, <2>3 DEF ClosedShown
<1>7. ForeignClaimed
  <2> SUFFICES ASSUME steady, running = 0, \A i \in DOMAIN handlers : handlers[i].at # "run",
                      NEW f \in Files, shown[f].by \notin {f, "none"}
               PROVE  \E d \in Files : f \in foreign_diags[d]
    BY DEF ForeignClaimed
  <2>1. \A i : ~ Runs(i)
    BY DEF Runs, IInv, TypeOK
  <2>2. Answered(NoWork)
    BY <2>1 DEF IInv, SteadyInv
  <2> QED
    BY <1>3, <2>2 DEF Answered, Foreign, Claimed
<1> QED
  BY <1>5, <1>6, <1>7 DEF IInv, MarkersRight

(* Once no handler is left, a file nobody has open shows exactly the problems
   of its text on disk, and only while an open file imports it; and whatever is
   shown in another file's name is claimed by a document that will retract it
   (publish_split, release_foreign_diags, did_close).  The first needs that
   nothing began between a handler's steps, the second only that nothing went
   on while a publish waited. *)
THEOREM MarkersAlwaysRight == Spec => []MarkersRight
BY AlwaysHolds, InvRight, PTL

(* Once no handler is left, an open file's own markers are of its newest text
   and of the newest texts it imports, whatever was opened, changed, saved,
   closed or written before (did_change, reanalyze_other_docs). *)
THEOREM OwnAlwaysFresh == Spec => []OwnFresh
BY AlwaysHolds, InvRight, PTL

(* An analysis reads the newest text of every import, open or on disk, even one
   whose change still waits for its debounce (analyze, newest_text). *)
THEOREM AnalysesReadNewest == Spec => ReadsNewest
<1>1. IInv /\ [Next]_vars => [AnalyzesNewest]_vars
  <2> SUFFICES ASSUME IInv, steady, Analyze, NEW i \in Imports[H.of]
               PROVE  handlers'[running].own.saw[i] = Current(i)
    BY DEF AnalyzesNewest
  <2> DEFINE saw == [f \in Files |-> IF f \in Imports[H.of] THEN Loaded(f) ELSE 0]
  <2>1. running # 0
    BY DEF Analyze, AtStage
  <2>2. PICK g \in Pending :
          handlers' = [handlers EXCEPT ![running] = g] /\ g.own = [by |-> H.of, text |-> H.text, saw |-> saw]
    BY AnalyzeDoes
  <2>3. running \in 1 .. Len(handlers) /\ handlers \in Seq(Pending)
    BY <2>1, OnTaskNow DEF IInv, TypeOK
  <2>4. handlers'[running] = g
    BY <2>2, <2>3
  <2>5. i \in Files /\ Loaded(i) = Current(i)
    BY <2>1, LoadsCurrent
  <2>6. saw[i] = Loaded(i)
    BY <2>5
  <2> QED
    BY <2>2, <2>4, <2>5, <2>6
<1> QED
  BY <1>1, AlwaysHolds, PTL DEF Spec, ReadsNewest

=============================================================================

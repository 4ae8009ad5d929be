-------------------------- MODULE CallablesProofs --------------------------
(***************************************************************************)
(* Proofs about Callables, for every set of functions, loops and Unions    *)
(* and every limit.  CapInv is inductive: the invocations count every body *)
(* that ran, and pass the cap when a callable is aborted and from then on. *)
(* CallsInv relates the frames, the Unions passed, the depth and the       *)
(* bodies of the tick; LostInv says that the frame outside keeps a lost    *)
(* Union.  BreaksKept maps the frames to the list of running loops: what   *)
(* each one saved of the one pending request is the promise of the loop    *)
(* around it.                                                              *)
(***************************************************************************)
EXTENDS Callables, FiniteSetTheorems, SequenceTheorems, WellFoundedInduction, TLAPS

CapInv ==
    /\ invocations \in Nat /\ ran \in Nat
    /\ ran <= invocations
    /\ ran <= MaxInvocations
    /\ aborted => invocations >= MaxInvocations + 1

LEMMA CapIsNat == MaxInvocations \in Nat
  BY CallableAssumption DEF CallableAssumption

LEMMA CapInit == Init => CapInv
  BY CapIsNat DEF Init, CapInv

(* Every step keeps CapInv, and none runs a body after an abort. *)
LEMMA CapNext ==
    ASSUME CapInv, [Next]_vars
    PROVE  CapInv' /\ (aborted /\ aborted' => ran' = ran)
<1> USE CapIsNat DEF CapInv
<1>1. CASE BeginTick
  BY <1>1 DEF BeginTick
<1>2. CASE BeginChain
  BY <1>2 DEF BeginChain, history
<1>3. CASE ChainStep
  <2>1. CASE Runaway
    BY <2>1 DEF Runaway, history
  <2>2. CASE EndChain
    BY <2>2 DEF EndChain, history
  <2>3. CASE Break
    BY <2>3 DEF Break, history
  <2>4. ASSUME NEW u \in Unions, Union(u)
        PROVE  CapInv' /\ (aborted /\ aborted' => ran' = ran)
    BY <2>4 DEF Union, history
  <2>5. ASSUME NEW u \in Unions, Leave(u)
        PROVE  CapInv' /\ (aborted /\ aborted' => ran' = ran)
    BY <2>5 DEF Leave
  <2>6. ASSUME NEW f \in Functions, FunctionCall(f)
        PROVE  CapInv' /\ (aborted /\ aborted' => ran' = ran)
    BY <2>6 DEF FunctionCall, Counted, WithinCap, RunBody, Abort, history
  <2>7. ASSUME NEW l \in Loops, BeginLoop(l)
        PROVE  CapInv' /\ (aborted /\ aborted' => ran' = ran)
    BY <2>7 DEF BeginLoop, history
  <2>8. CASE EndCall
    BY <2>8 DEF EndCall, history
  <2>9. CASE Iterate
    BY <2>9 DEF Iterate, Counted, WithinCap, RunBody, Abort, history
  <2>10. CASE NoMore
    BY <2>10 DEF NoMore, history
  <2>11. CASE EndIteration
    BY <2>11 DEF EndIteration, history
  <2>12. CASE EndLoop
    BY <2>12 DEF EndLoop, history
  <2> QED
    BY <1>3, <2>1, <2>2, <2>3, <2>4, <2>5, <2>6, <2>7, <2>8, <2>9, <2>10, <2>11, <2>12
       DEF ChainStep
<1>4. CASE UNCHANGED vars
  BY <1>4 DEF vars, history
<1> QED
  BY <1>1, <1>2, <1>3, <1>4 DEF Next

(* No tick runs more bodies than begin_invocation lets through, whatever   *)
(* calls what.                                                             *)
THEOREM WithinTheCap == Spec => []CapKept
<1>1. CapInv /\ [Next]_vars => CapInv'
  BY CapNext
<1>2. CapInv => CapKept
  BY DEF CapInv, CapKept
<1> QED
  BY CapInit, <1>1, <1>2, PTL DEF Spec

(* Once a callable was aborted, no body runs for the rest of the tick.     *)
THEOREM AbortedForTheTick == Spec => AbortSticks
<1>1. CapInv /\ [Next]_vars => CapInv'
  BY CapNext
<1>2. CapInv /\ [Next]_vars => [aborted /\ aborted' => ran' = ran]_vars
  BY CapNext
<1> QED
  BY CapInit, <1>1, <1>2, PTL DEF Spec, AbortSticks

-----------------------------------------------------------------------------
(* The stack of running callables. *)

Frame == [shell : Shells, at : {"test", "body", "left"}, saved_break : BOOLEAN]

(* What is pushed last is on top, and pops first. *)
LEMMA Pushed ==
    ASSUME NEW S, NEW s \in Seq(S), NEW e \in S
    PROVE  /\ Append(s, e) \in Seq(S)
           /\ Append(s, e) # <<>>
           /\ Len(Append(s, e)) = Len(s) + 1
           /\ Last(Append(s, e)) = e
           /\ Append(s, e)[Len(s) + 1] = e
           /\ \A i \in 1 .. Len(s) : Append(s, e)[i] = s[i]
  BY AppendProperties DEF Last

LEMMA Popped ==
    ASSUME NEW S, NEW s \in Seq(S), s # <<>>
    PROVE  /\ Front(s) \in Seq(S)
           /\ Last(s) \in S
           /\ Len(s) \in Nat \ {0}
           /\ Len(Front(s)) = Len(s) - 1
           /\ \A i \in 1 .. Len(s) - 1 : Front(s)[i] = s[i]
           /\ s = Append(Front(s), Last(s))
<1>1. Len(s) \in Nat \ {0} /\ DOMAIN s = 1 .. Len(s)
  BY EmptySeq, LenProperties
<1>2. /\ Front(s) \in Seq(S) /\ Len(Front(s)) = Len(s) - 1
      /\ \A i \in 1 .. Len(s) - 1 : Front(s)[i] = s[i]
  BY <1>1, SubSeqProperties DEF Front
<1>3. Last(s) \in S
  BY <1>1, ElementOfSeq DEF Last
<1>4. /\ Append(Front(s), Last(s)) \in Seq(S)
      /\ Len(Append(Front(s), Last(s))) = Len(s)
      /\ \A i \in 1 .. Len(s) - 1 : Append(Front(s), Last(s))[i] = s[i]
      /\ Append(Front(s), Last(s))[Len(s)] = s[Len(s)]
  <2> DEFINE f == Front(s)
             e == Last(s)
  <2>1. /\ f \in Seq(S) /\ e \in S /\ Len(f) + 1 = Len(s) /\ e = s[Len(s)]
        /\ \A i \in 1 .. Len(s) - 1 : i \in 1 .. Len(f) /\ f[i] = s[i]
    BY <1>1, <1>2, <1>3 DEF Last
  <2> HIDE DEF f, e
  <2>2. Append(f, e) \in Seq(S) /\ Len(Append(f, e)) = Len(s) /\ Append(f, e)[Len(s)] = e
        /\ \A i \in 1 .. Len(f) : Append(f, e)[i] = f[i]
    BY <2>1, Pushed
  <2>3. \A i \in 1 .. Len(s) - 1 : Append(f, e)[i] = s[i]
    BY <2>1, <2>2
  <2> QED
    BY <2>1, <2>2, <2>3 DEF f, e
<1>5. \A i \in 1 .. Len(s) : s[i] = Append(Front(s), Last(s))[i]
  BY <1>1, <1>4
<1>6. s = Append(Front(s), Last(s))
  BY <1>4, <1>5, SeqEqual
<1> QED
  BY <1>1, <1>2, <1>3, <1>6

(* Changing where the top stands is popping it and pushing it back. *)
LEMMA AtTopPushed ==
    ASSUME frames \in Seq(Frame), frames # <<>>, NEW at \in {"test", "body", "left"}
    PROVE  /\ [Top EXCEPT !.at = at] \in Frame
           /\ AtTop(at) = Append(Front(frames), [Top EXCEPT !.at = at])
<1> DEFINE top == [Top EXCEPT !.at = at]
<1>1. /\ Front(frames) \in Seq(Frame) /\ Top \in Frame /\ Len(frames) \in Nat \ {0}
      /\ Len(Front(frames)) = Len(frames) - 1
      /\ \A i \in 1 .. Len(frames) - 1 : Front(frames)[i] = frames[i]
  BY Popped DEF Top
<1>2. top \in Frame
  BY <1>1 DEF Frame
<1>3. AtTop(at) = [frames EXCEPT ![Len(frames)] = top]
  BY DEF AtTop, Top, Last
<1> HIDE DEF top
<1>4. /\ AtTop(at) \in Seq(Frame) /\ Len(AtTop(at)) = Len(frames)
      /\ \A i \in 1 .. Len(frames) : AtTop(at)[i] = IF i = Len(frames) THEN top ELSE frames[i]
  BY <1>1, <1>2, <1>3, ExceptSeq
<1>5. /\ Append(Front(frames), top) \in Seq(Frame)
      /\ Len(Append(Front(frames), top)) = Len(frames)
      /\ Append(Front(frames), top)[Len(frames)] = top
      /\ \A i \in 1 .. Len(frames) - 1 : Append(Front(frames), top)[i] = frames[i]
  BY <1>1, <1>2, Pushed
<1>6. AtTop(at) = Append(Front(frames), top)
  BY <1>1, <1>4, <1>5, SeqEqual
<1> QED
  BY <1>2, <1>6 DEF top

-----------------------------------------------------------------------------
(* Only the innermost callable may be outside its body, only a loop can be so, *)
(* and a loop asks for another item only when no Break is pending.             *)
StackInv ==
    /\ frames \in Seq(Frame)
    /\ break_requested \in BOOLEAN
    /\ \A k \in 1 .. Len(frames) : k < Len(frames) => frames[k].at = "body"
    /\ \A k \in 1 .. Len(frames) : frames[k].at # "body" => frames[k].shell \in Loops
    /\ frames # <<>> /\ Top.at = "test" => ~break_requested
    /\ phase \in {"idle", "chain", "failed"}
    /\ phase # "chain" => frames = <<>>

(* The bodies in progress. *)
BodiesOf(fs) == IF fs = <<>> \/ Last(fs).at = "body" THEN Len(fs) ELSE Len(fs) - 1

PassedInv ==
    /\ unions_passed \in Seq(SUBSET Unions)
    /\ Depth = BodiesOf(frames)
    /\ Depth <= MaxDepth
    /\ lost \subseteq Unions

CountInv ==
    /\ invocations \in Nat /\ ran \in Nat
    /\ steps \in 0 .. MaxSteps
    /\ aborted \in BOOLEAN

LEMMA PushKeeps ==
    ASSUME StackInv, NEW f \in Frame, InChain,
           frames' = Append(frames, f), phase' = phase, break_requested' \in BOOLEAN,
           f.at # "body" => f.shell \in Loops,
           f.at = "test" => ~break_requested'
    PROVE  StackInv' /\ Top' = f /\ Len(frames') = Len(frames) + 1
<1>1. /\ frames' \in Seq(Frame) /\ Len(frames') = Len(frames) + 1 /\ Len(frames) \in Nat
      /\ frames'[Len(frames) + 1] = f /\ \A i \in 1 .. Len(frames) : frames'[i] = frames[i]
  BY Pushed, LenProperties DEF StackInv
<1>2. Top' = f
  BY <1>1 DEF Top, Last
<1>3. \A k \in 1 .. Len(frames) : frames[k].at = "body"
  BY <1>1 DEF InChain, Is, StackInv, Top, Last
<1>4. phase = "chain"
  BY DEF InChain, Is
<1> QED
  BY <1>1, <1>2, <1>3, <1>4 DEF StackInv

LEMMA PopKeeps ==
    ASSUME StackInv, frames # <<>>,
           frames' = Front(frames), phase' = phase, break_requested' \in BOOLEAN
    PROVE  /\ StackInv'
           /\ frames' # <<>> => Top'.at = "body"
           /\ Len(frames') = Len(frames) - 1 /\ Len(frames) \in Nat \ {0}
<1>1. /\ frames' \in Seq(Frame) /\ Len(frames) \in Nat \ {0} /\ Len(frames') = Len(frames) - 1
      /\ \A i \in 1 .. Len(frames) - 1 : frames'[i] = frames[i]
  BY Popped DEF StackInv
<1>2. \A k \in 1 .. Len(frames') : frames'[k].at = "body"
  BY <1>1 DEF StackInv
<1>3. frames' # <<>> => Top'.at = "body"
  <2>1. frames' # <<>> => Len(frames') # 0
    BY <1>1, EmptySeq
  <2> QED
    BY <1>1, <1>2, <2>1 DEF Top, Last
<1>4. phase = "chain"
  BY DEF StackInv
<1> QED
  BY <1>1, <1>2, <1>3, <1>4 DEF StackInv

LEMMA MoveKeeps ==
    ASSUME StackInv, frames # <<>>, NEW at \in {"test", "body", "left"},
           frames' = AtTop(at), phase' = phase, break_requested' \in BOOLEAN,
           at # "body" => Top.shell \in Loops,
           at = "test" => ~break_requested'
    PROVE  /\ StackInv' /\ frames' # <<>>
           /\ Top' = [Top EXCEPT !.at = at] /\ Top'.at = at
           /\ Len(frames') = Len(frames)
<1> DEFINE f == [Top EXCEPT !.at = at]
<1>1. /\ f \in Frame /\ f.at = at /\ f.shell = Top.shell /\ frames' = Append(Front(frames), f)
      /\ Front(frames) \in Seq(Frame) /\ Len(frames) \in Nat \ {0}
      /\ Len(Front(frames)) + 1 = Len(frames)
      /\ \A i \in 1 .. Len(frames) - 1 : Front(frames)[i] = frames[i]
  <2>1. f \in Frame /\ frames' = Append(Front(frames), f)
    BY AtTopPushed DEF StackInv
  <2>2. /\ Front(frames) \in Seq(Frame) /\ Len(frames) \in Nat \ {0} /\ Top \in Frame
        /\ Len(Front(frames)) = Len(frames) - 1
        /\ \A i \in 1 .. Len(frames) - 1 : Front(frames)[i] = frames[i]
    BY Popped DEF StackInv, Top
  <2>3. f.at = at /\ f.shell = Top.shell
    BY <2>2 DEF Frame
  <2> HIDE DEF f
  <2> QED
    BY <2>1, <2>2, <2>3
<1> HIDE DEF f
<1>2. /\ frames' \in Seq(Frame) /\ frames' # <<>> /\ Len(frames') = Len(frames)
      /\ frames'[Len(frames)] = f
      /\ \A i \in 1 .. Len(frames) - 1 : frames'[i] = frames[i]
  BY <1>1, Pushed
<1>3. Top' = f
  BY <1>2 DEF Top, Last
<1>4. phase = "chain"
  BY DEF StackInv
<1>5. \A k \in 1 .. Len(frames') : k < Len(frames') => frames'[k].at = "body"
  BY <1>1, <1>2 DEF StackInv
<1>6. \A k \in 1 .. Len(frames') : frames'[k].at # "body" => frames'[k].shell \in Loops
  BY <1>1, <1>2, <1>5
<1> QED
  BY <1>1, <1>2, <1>3, <1>4, <1>5, <1>6 DEF StackInv, f

CallsInv == StackInv /\ PassedInv /\ CountInv

LEMMA CallsInit == Init => CallsInv
<1> SUFFICES ASSUME Init PROVE CallsInv
  OBVIOUS
<1>1. /\ frames = <<>> /\ <<>> \in Seq(Frame) /\ Len(frames) = 0
      /\ unions_passed \in Seq(SUBSET Unions) /\ Len(unions_passed) = 1
  BY EmptySeq DEF Init
<1>2. StackInv
  <2>1. phase = "idle" /\ break_requested = FALSE /\ ~(\E k \in 1 .. Len(frames) : TRUE)
    BY <1>1 DEF Init
  <2> QED
    BY <1>1, <2>1 DEF StackInv
<1>3. PassedInv
  BY <1>1, CallableAssumption DEF Init, PassedInv, BodiesOf, Depth
<1>4. CountInv
  <2>1. MaxSteps \in Nat
    BY CallableAssumption
  <2>2. invocations = 0 /\ steps = 0 /\ ran = 0 /\ aborted \in BOOLEAN
    BY DEF Init
  <2> QED
    BY <2>1, <2>2 DEF CountInv
<1> QED
  BY <1>2, <1>3, <1>4 DEF CallsInv

(* Between chains, and in one between bodies, every callable is in its body. *)
LEMMA InChainBodies ==
    ASSUME InChain
    PROVE  BodiesOf(frames) = Len(frames) /\ phase = "chain"
  BY DEF InChain, Is, BodiesOf, Top

(* Marking Unions changes no frame but one, and only adds to that. *)
LEMMA Marked ==
    ASSUME unions_passed \in Seq(SUBSET Unions), NEW n, NEW X \in SUBSET Unions,
           unions_passed' = [unions_passed EXCEPT ![n] = @ \union X]
    PROVE  /\ unions_passed' \in Seq(SUBSET Unions)
           /\ Len(unions_passed') = Len(unions_passed)
           /\ \A i \in 1 .. Len(unions_passed) : unions_passed[i] \subseteq unions_passed'[i]
           /\ n \in 1 .. Len(unions_passed) => X \subseteq unions_passed'[n]
<1>1. /\ unions_passed \in [1 .. Len(unions_passed) -> SUBSET Unions]
      /\ DOMAIN unions_passed = 1 .. Len(unions_passed)
  BY LenProperties
<1>2. CASE n \in 1 .. Len(unions_passed)
  <2>1. unions_passed[n] \union X \in SUBSET Unions
    BY <1>1, <1>2
  <2> QED
    BY <1>1, <1>2, <2>1, ExceptSeq
<1>3. CASE n \notin 1 .. Len(unions_passed)
  <2>1. unions_passed' = unions_passed
    BY <1>1, <1>3
  <2> QED
    BY <1>3, <2>1
<1> QED
  BY <1>2, <1>3

LEMMA ThroughNew ==
    ASSUME NEW u, NEW new
    PROVE  Through(u, new) \subseteq new
  BY DEF Through

(* An error leaves the tick's own frame of Unions. *)
LEMMA FailKeeps ==
    ASSUME CallsInv, Fail, UNCHANGED history, CountInv'
    PROVE  CallsInv'
<1>1. /\ Len(unions_passed) \in Nat /\ Len(unions_passed) >= 1
      /\ unions_passed[1] \in SUBSET Unions
  <2>1. Len(frames) \in Nat /\ Len(unions_passed) \in Nat /\ (frames # <<>> => Len(frames) # 0)
    BY EmptySeq, LenProperties DEF CallsInv, StackInv, PassedInv
  <2>2. Len(unions_passed) >= 1
    BY <2>1 DEF CallsInv, PassedInv, BodiesOf, Depth
  <2> QED
    BY <2>1, <2>2, ElementOfSeq DEF CallsInv, PassedInv
<1>2. /\ frames' = <<>> /\ frames' \in Seq(Frame) /\ Len(frames') = 0
      /\ unions_passed' \in Seq(SUBSET Unions) /\ Len(unions_passed') = 1
      /\ phase' = "failed" /\ break_requested' = break_requested
  BY <1>1, EmptySeq DEF Fail
<1>3. StackInv'
  BY <1>2 DEF CallsInv, StackInv
<1>4. PassedInv'
  BY <1>2, CallableAssumption DEF CallsInv, PassedInv, BodiesOf, Depth, history
<1> QED
  BY <1>3, <1>4 DEF CallsInv

(* run_body pushes a frame of Unions with the body it starts. *)
LEMMA BodyKeeps ==
    ASSUME CallsInv, CountInv', NEW running,
           phase' = "chain" /\ frames' = running => StackInv' /\ BodiesOf(running) = Depth + 1,
           phase = "chain", RunBody(running)
    PROVE  CallsInv'
<1>1. CASE Depth >= MaxDepth
  BY <1>1, FailKeeps DEF RunBody
<1>2. CASE ~(Depth >= MaxDepth)
  <2>1. /\ frames' = running /\ unions_passed' = Append(unions_passed, {})
        /\ phase' = phase /\ lost' = lost
    BY <1>2 DEF RunBody
  <2>2. /\ unions_passed' \in Seq(SUBSET Unions) /\ Len(unions_passed') = Len(unions_passed) + 1
        /\ Len(unions_passed) \in Nat
    BY <2>1, Pushed, LenProperties DEF CallsInv, PassedInv
  <2>3. PassedInv'
    BY <1>2, <2>1, <2>2, CallableAssumption DEF CallsInv, PassedInv, Depth
  <2> QED
    BY <2>1, <2>3 DEF CallsInv
<1> QED
  BY <1>1, <1>2

LEMMA CountKeeps ==
    ASSUME CountInv, steps' \in 0 .. MaxSteps,
           ran' = ran \/ ran' = ran + 1,
           invocations' = invocations \/ invocations' = invocations + 1,
           aborted' = aborted \/ aborted' = TRUE
    PROVE  CountInv'
<1>1. ran' \in Nat /\ invocations' \in Nat
  BY DEF CountInv
<1>2. aborted' \in BOOLEAN
  BY Zenon DEF CountInv
<1> QED
  BY <1>1, <1>2 DEF CountInv

LEMMA CallsNext ==
    ASSUME CallsInv, [Next]_vars
    PROVE  CallsInv'
<1>0. MaxSteps \in Nat /\ MaxDepth \in Nat
  BY CallableAssumption
<1>1. CASE frames' = frames /\ break_requested' = break_requested /\ phase' = phase
           /\ unions_passed' = unions_passed /\ lost' = lost /\ CountInv'
  BY <1>1 DEF CallsInv, StackInv, PassedInv, Depth, Top
<1>2. ASSUME Step
      PROVE  /\ steps' \in 0 .. MaxSteps /\ phase = "chain"
             /\ BodiesOf(frames) = Len(frames) /\ Depth = Len(frames)
  BY <1>0, <1>2, InChainBodies DEF Step, CallsInv, CountInv, PassedInv
<1>3. CASE BeginTick
  <2>1. /\ unions_passed' = <<{}>> /\ unions_passed' \in Seq(SUBSET Unions)
        /\ Len(unions_passed') = 1
    BY <1>3 DEF BeginTick
  <2>2. UNCHANGED <<frames, break_requested, phase>> /\ phase = "idle"
    BY <1>3 DEF BeginTick
  <2>3. frames = <<>> /\ Len(frames) = 0
    BY <2>2, EmptySeq DEF CallsInv, StackInv
  <2>4. PassedInv'
    BY <1>0, <1>3, <2>1, <2>2, <2>3 DEF BeginTick, PassedInv, BodiesOf, Depth
  <2>5. CountInv'
    <3>1. invocations' = 0 /\ steps' = 0 /\ ran' = 0 /\ aborted' \in BOOLEAN
      BY <1>3 DEF BeginTick
    <3> QED
      BY <1>0, <3>1 DEF CountInv
  <2>6. StackInv'
    BY <2>2 DEF CallsInv, StackInv, Top
  <2> QED
    BY <2>4, <2>5, <2>6 DEF CallsInv
<1>4. CASE BeginChain \/ EndChain
  <2>1. /\ UNCHANGED <<frames, break_requested, unions_passed, lost>>
        /\ phase' \in {"idle", "chain"}
        /\ frames = <<>>
    BY <1>4 DEF BeginChain, EndChain, CallsInv, StackInv, history
  <2>2. CountInv'
    BY <1>4 DEF BeginChain, EndChain, CallsInv, CountInv, history
  <2> QED
    BY <2>1, <2>2 DEF CallsInv, StackInv, PassedInv, Depth, Top
<1>5. CASE Runaway
  BY <1>5, FailKeeps DEF Runaway, CallsInv, CountInv, history
<1>6. CASE Break
  <2>1. CountInv'
    <3>1. Step /\ UNCHANGED <<invocations, ran, aborted>>
      BY <1>6 DEF Break, history
    <3> QED
      BY <1>2, <3>1, CountKeeps DEF CallsInv
  <2>2. /\ UNCHANGED <<frames, unions_passed, phase, lost>> /\ break_requested' = TRUE
        /\ frames # <<>> => Top.at = "body"
    BY <1>6 DEF Break, Step, InChain, Is, history
  <2> QED
    BY <2>1, <2>2 DEF CallsInv, StackInv, PassedInv, Depth, Top
<1>7. ASSUME NEW u \in Unions, Union(u) \/ Leave(u)
      PROVE  CallsInv'
  <2>1. /\ UNCHANGED <<frames, break_requested, phase>> /\ Step
        /\ UNCHANGED <<invocations, ran, aborted>>
    BY <1>7 DEF Union, Leave, history
  <2>2. CountInv'
    BY <1>2, <2>1 DEF CallsInv, CountInv
  <2>3. StackInv'
    BY <2>1 DEF CallsInv, StackInv, Top
  <2>4. unions_passed' \in Seq(SUBSET Unions) /\ Len(unions_passed') = Len(unions_passed)
    <3>1. CASE Union(u)
      <4>1. unions_passed' = [unions_passed EXCEPT ![Depth + 1] = @ \union {u}]
        BY <3>1 DEF Union
      <4> QED
        BY <4>1, {u} \in SUBSET Unions, Marked DEF CallsInv, PassedInv
    <3>2. CASE Leave(u)
      <4> DEFINE n == FrameOf(u) + 1
                 X == Through(u, Unions \ unions_passed[n])
      <4>1. unions_passed' = [unions_passed EXCEPT ![n] = @ \union X]
        BY <3>2 DEF Leave, Lose
      <4>2. X \in SUBSET Unions
        BY ThroughNew
      <4> HIDE DEF n, X
      <4> QED
        BY <4>1, <4>2, Marked DEF CallsInv, PassedInv
    <3> QED
      BY <1>7, <3>1, <3>2
  <2>5. lost' \subseteq Unions
    BY <1>7, ThroughNew DEF Union, Leave, history, CallsInv, PassedInv
  <2> QED
    BY <2>1, <2>2, <2>3, <2>4, <2>5 DEF CallsInv, PassedInv, Depth
<1>8. ASSUME NEW f \in Functions, FunctionCall(f)
      PROVE  CallsInv'
  <2> DEFINE new == [shell |-> f, at |-> "body", saved_break |-> FALSE]
             running == Append(frames, new)
  <2>1. /\ Step /\ invocations' = invocations + 1
        /\ IF WithinCap THEN RunBody(running) ELSE Abort(frames)
    BY <1>8 DEF FunctionCall, Counted
  <2>2. new \in Frame /\ new.at = "body"
    BY DEF Frame, Shells
  <2>3. CountInv'
    <3>1. (ran' = ran \/ ran' = ran + 1) /\ (aborted' = aborted \/ aborted' = TRUE)
      BY <2>1 DEF RunBody, Abort, history
    <3> QED
      BY <1>2, <2>1, <3>1, CountKeeps DEF CallsInv
  <2>4. Len(frames) \in Nat
    BY LenProperties DEF CallsInv, StackInv
  <2>5. CASE WithinCap
    <3>1. BodiesOf(running) = Depth + 1
      BY <1>2, <2>1, <2>2, <2>4, Pushed DEF CallsInv, StackInv, BodiesOf
    <3>2. ASSUME phase' = "chain", frames' = running PROVE StackInv'
      <4>1. break_requested' \in BOOLEAN
        BY <2>1, <2>5 DEF RunBody, Fail, CallsInv, StackInv
      <4> HIDE DEF new
      <4> QED
        BY <1>2, <2>1, <2>2, <3>2, <4>1, PushKeeps DEF CallsInv, Step
    <3> HIDE DEF running
    <3> QED
      BY <1>2, <2>1, <2>3, <2>5, <3>1, <3>2, BodyKeeps
  <2>6. CASE ~WithinCap
    BY <2>1, <2>3, <2>6, <1>1 DEF Abort
  <2> QED
    BY <2>5, <2>6
<1>9. ASSUME NEW l \in Loops, BeginLoop(l)
      PROVE  CallsInv'
  <2> DEFINE new == [shell |-> l, at |-> "test", saved_break |-> break_requested]
  <2>1. /\ Step /\ frames' = Append(frames, new) /\ break_requested' = FALSE
        /\ UNCHANGED <<unions_passed, invocations, phase, ran, aborted, lost>>
    BY <1>9 DEF BeginLoop, history
  <2>2. new \in Frame /\ new.at = "test" /\ new.shell \in Loops
    BY DEF Frame, Shells, CallsInv, StackInv
  <2> HIDE DEF new
  <2>3. StackInv' /\ Top' = new /\ Len(frames') = Len(frames) + 1
    BY <2>1, <2>2, PushKeeps DEF Step, CallsInv
  <2>4. Len(frames) \in Nat /\ Len(frames') # 0 /\ frames' # <<>>
    BY <2>1, <2>2, <2>3, Pushed, LenProperties DEF CallsInv, StackInv
  <2>5. BodiesOf(frames') = Len(frames)
    BY <2>2, <2>3, <2>4 DEF BodiesOf, Top
  <2>6. PassedInv'
    BY <1>2, <2>1, <2>5 DEF CallsInv, PassedInv, Depth, BodiesOf
  <2>7. CountInv'
    BY <1>2, <2>1 DEF CallsInv, CountInv
  <2> QED
    BY <2>3, <2>6, <2>7 DEF CallsInv
<1>10. CASE EndCall \/ EndIteration \/ EndLoop
  <2>1. CountInv' /\ frames # <<>> /\ phase' = phase /\ lost' = lost
    BY <1>10 DEF EndCall, EndIteration, EndLoop, Is, CallsInv, CountInv, history
  <2>2. Len(frames) \in Nat \ {0} /\ Top \in Frame /\ Len(unions_passed) \in Nat
    BY <2>1, Popped, LenProperties DEF CallsInv, StackInv, PassedInv, Top
  <2>3. ASSUME StackInv', unions_passed' = Front(unions_passed), Top.at = "body",
               BodiesOf(frames') = Len(frames) - 1
        PROVE  PassedInv'
    <3>1. Depth = Len(frames)
      BY <2>1, <2>3 DEF CallsInv, PassedInv, BodiesOf, Top
    <3>2. unions_passed # <<>> /\ Len(unions_passed) > 1
      BY <2>2, <3>1, EmptySeq DEF Depth
    <3>3. unions_passed' \in Seq(SUBSET Unions) /\ Len(unions_passed') = Len(unions_passed) - 1
      BY <2>3, <3>2, Popped DEF CallsInv, PassedInv
    <3> QED
      BY <1>0, <2>1, <2>2, <2>3, <3>1, <3>3 DEF CallsInv, PassedInv, Depth
  <2>4. CASE EndCall
    <3>1. /\ frames' = Front(frames) /\ break_requested' = break_requested
          /\ unions_passed' = Front(unions_passed) /\ Top.at = "body"
      BY <2>4 DEF EndCall, Is
    <3>2. StackInv' /\ (frames' # <<>> => Top'.at = "body") /\ Len(frames') = Len(frames) - 1
      BY <2>1, <3>1, PopKeeps DEF CallsInv, StackInv
    <3>3. BodiesOf(frames') = Len(frames) - 1
      BY <3>2 DEF BodiesOf, Top
    <3> QED
      BY <2>1, <2>3, <3>1, <3>2, <3>3 DEF CallsInv
  <2>5. CASE EndIteration
    <3>1. PICK at \in {"left", "test"} :
             /\ frames' = AtTop(at) /\ break_requested' = FALSE
             /\ unions_passed' = Front(unions_passed) /\ Top.at = "body" /\ Top.shell \in Loops
      BY <2>5 DEF EndIteration, Is
    <3>2. StackInv' /\ frames' # <<>> /\ Top'.at = at /\ Len(frames') = Len(frames)
      BY <2>1, <3>1, MoveKeeps DEF CallsInv
    <3>3. BodiesOf(frames') = Len(frames) - 1
      BY <3>1, <3>2 DEF BodiesOf, Top
    <3> QED
      BY <2>1, <2>3, <3>1, <3>2, <3>3 DEF CallsInv
  <2>6. CASE EndLoop
    <3>1. /\ frames' = Front(frames) /\ break_requested' = Top.saved_break
          /\ unions_passed' = unions_passed /\ Top.at = "left"
      BY <2>6 DEF EndLoop, Is
    <3>2. break_requested' \in BOOLEAN
      BY <2>2, <3>1 DEF Frame
    <3>3. StackInv' /\ (frames' # <<>> => Top'.at = "body") /\ Len(frames') = Len(frames) - 1
      BY <2>1, <3>1, <3>2, PopKeeps DEF CallsInv
    <3>4. BodiesOf(frames') = Len(frames) - 1 /\ BodiesOf(frames) = Len(frames) - 1
      BY <2>1, <3>1, <3>3 DEF BodiesOf, Top
    <3>5. PassedInv'
      BY <2>1, <3>1, <3>4 DEF CallsInv, PassedInv, Depth
    <3> QED
      BY <2>1, <3>3, <3>5 DEF CallsInv
  <2> QED
    BY <1>10, <2>4, <2>5, <2>6
<1>11. CASE Iterate \/ NoMore
  <2>1. frames # <<>> /\ Top.at = "test" /\ phase = "chain" /\ UNCHANGED steps
    BY <1>11 DEF Iterate, NoMore, Is
  <2>2. Len(frames) \in Nat \ {0} /\ Top.shell \in Loops
    BY <2>1, Popped DEF CallsInv, StackInv, Top, Last
  <2>3. BodiesOf(frames) = Len(frames) - 1
    BY <2>1 DEF BodiesOf, Top
  <2>4. CountInv'
    <3>1. /\ ran' = ran \/ ran' = ran + 1
          /\ aborted' = aborted \/ aborted' = TRUE
          /\ invocations' = invocations \/ invocations' = invocations + 1
      BY <1>11 DEF Iterate, NoMore, Counted, RunBody, Abort, history
    <3>2. steps' \in 0 .. MaxSteps
      BY <2>1 DEF CallsInv, CountInv
    <3> QED
      BY <3>1, <3>2, CountKeeps DEF CallsInv
  <2>5. ASSUME frames' = AtTop("left"), UNCHANGED <<break_requested, unions_passed, phase, lost>>
        PROVE  CallsInv'
    <3>1. StackInv' /\ frames' # <<>> /\ Top'.at = "left" /\ Len(frames') = Len(frames)
      BY <2>1, <2>2, <2>5, MoveKeeps DEF CallsInv, StackInv
    <3>2. BodiesOf(frames') = Len(frames) - 1
      BY <3>1 DEF BodiesOf, Top
    <3> QED
      BY <2>3, <2>4, <2>5, <3>1, <3>2 DEF CallsInv, PassedInv, Depth
  <2>6. ASSUME RunBody(AtTop("body"))
        PROVE  CallsInv'
    <3>1. break_requested' \in BOOLEAN
      BY <2>6 DEF RunBody, Fail, CallsInv, StackInv
    <3>2. AtTop("body") = Append(Front(frames), [Top EXCEPT !.at = "body"])
          /\ [Top EXCEPT !.at = "body"] \in Frame /\ [Top EXCEPT !.at = "body"].at = "body"
      BY <2>1, AtTopPushed, Popped DEF CallsInv, StackInv, Top, Frame
    <3>3. BodiesOf(AtTop("body")) = Depth + 1
      <4> DEFINE s == Front(frames)
                 e == [Top EXCEPT !.at = "body"]
      <4>1. s \in Seq(Frame) /\ Len(s) = Len(frames) - 1
        BY <2>1, Popped DEF CallsInv, StackInv
      <4> HIDE DEF s, e
      <4>2. Len(Append(s, e)) = Len(s) + 1 /\ Last(Append(s, e)) = e
        BY <3>2, <4>1, Pushed DEF s, e
      <4>3. BodiesOf(Append(s, e)) = Len(frames)
        <5>1. e.at = "body"
          BY <3>2 DEF e
        <5> QED
          BY <2>2, <4>1, <4>2, <5>1 DEF BodiesOf
      <4>4. AtTop("body") = Append(s, e)
        BY <3>2 DEF s, e
      <4>5. Depth = Len(frames) - 1
        BY <2>3 DEF CallsInv, PassedInv
      <4>6. BodiesOf(AtTop("body")) = Len(frames)
        BY <4>3, <4>4, Zenon
      <4> QED
        BY <2>2, <4>5, <4>6
    <3>4. ASSUME phase' = "chain", frames' = AtTop("body") PROVE StackInv'
      BY <2>1, <3>1, <3>4, MoveKeeps DEF CallsInv
    <3> QED
      BY <2>1, <2>4, <2>6, <3>3, <3>4, BodyKeeps
  <2> QED
    BY <1>11, <2>5, <2>6 DEF Iterate, NoMore, Abort, history
<1>12. CASE UNCHANGED vars
  BY <1>1, <1>12 DEF vars, history, CallsInv, CountInv
<1> QED
  BY <1>3, <1>4, <1>5, <1>6, <1>7, <1>8, <1>9, <1>10, <1>11, <1>12 DEF Next, ChainStep

LEMMA CallsTyped == CallsInv => TypeOK
<1> SUFFICES ASSUME CallsInv PROVE TypeOK
  OBVIOUS
<1>1. DOMAIN frames = 1 .. Len(frames)
  BY LenProperties DEF CallsInv, StackInv
<1>2. Depth = IF frames = <<>> \/ Top.at = "body" THEN Len(frames) ELSE Len(frames) - 1
  BY DEF CallsInv, PassedInv, BodiesOf, Top
<1> QED
  BY <1>1, <1>2 DEF CallsInv, StackInv, PassedInv, CountInv, TypeOK, Frame

LEMMA CallsHold == Spec => []CallsInv
  BY CallsInit, CallsNext, PTL DEF Spec

(* Calls and loops nest within the bounds of the code: one frame of Unions for *)
(* each body in progress, pushed and popped together through calls, loops,     *)
(* Breaks and errors, never more than MAX_DEPTH, and no more bodies in a tick  *)
(* than MAX_INVOCATIONS_PER_TICK.                                              *)
THEOREM NestingBounded == Spec => []CallsBounded
<1>1. CallsInv => TypeOK
  BY CallsTyped
<1>2. TypeOK /\ CapKept => CallsBounded
  BY DEF CallsBounded
<1> QED
  BY CallsHold, WithinTheCap, <1>1, <1>2, PTL

-----------------------------------------------------------------------------
(* Execs that are lost. *)

(* Unions feed Unions of their own plane. *)
SamePlane == \A u \in Unions : \A v \in Feeds[u] : Holders[v] = Holders[u]

(* A Union outside every callable that a lost exec reached has passed. *)
LostInv == \A u \in lost : Holders[u] = <<>> => u \in unions_passed[1]

LEMMA OutsideFrame ==
    ASSUME NEW u \in Unions, Holders[u] = <<>>
    PROVE  FrameOf(u) = 0
<1>1. DOMAIN Holders[u] = {}
  BY EmptySeq
<1> QED
  BY <1>1, Zenon DEF FrameOf

(* What an exec that starts outside goes through is all outside, where `lose`  *)
(* follows the Unions that have not passed, as the exec itself would.          *)
LEMMA ThroughPlane ==
    ASSUME SamePlane, NEW u \in Unions, NEW new \in SUBSET Unions,
           NEW v \in Through(u, new)
    PROVE  Holders[v] = Holders[u]
<1> DEFINE closed == {w \in new : Holders[w] = Holders[u]}
<1>1. \A t \in closed : Feeds[t] \intersect new \subseteq closed
  BY DEF SamePlane
<1>2. v \in closed
  BY <1>1 DEF Through
<1> QED
  BY <1>2

LEMMA ThroughOutside ==
    ASSUME SamePlane, NEW u \in Unions, Holders[u] = <<>>,
           NEW new \in SUBSET Unions, NEW other \in SUBSET Unions,
           \A w \in Unions : Holders[w] = <<>> => (w \in new <=> w \in other),
           NEW v \in Through(u, new)
    PROVE  v \in Through(u, other)
<1>1. Holders[v] = <<>> /\ v \in new
  BY ThroughPlane, ThroughNew
<1> SUFFICES ASSUME NEW closed \in SUBSET other,
                    {u} \intersect other \subseteq closed,
                    \A t \in closed : Feeds[t] \intersect other \subseteq closed
             PROVE  v \in closed
  BY <1>1 DEF Through
<1> DEFINE mine == {w \in closed : w \in new /\ Holders[w] = <<>>}
<1>2. {u} \intersect new \subseteq mine
  OBVIOUS
<1>3. ASSUME NEW t \in mine, NEW w \in Feeds[t] \intersect new PROVE w \in mine
  <2>1. Holders[w] = <<>> /\ w \in other
    BY DEF SamePlane
  <2> QED
    BY <2>1
<1>4. v \in mine
  BY <1>2, <1>3 DEF Through
<1> QED
  BY <1>4

LEMMA LostNext ==
    ASSUME SamePlane, CallsInv, LostInv, [Next]_vars
    PROVE  LostInv'
<1>0. Len(unions_passed) \in Nat /\ Len(unions_passed) >= 1
  <2>1. Len(frames) \in Nat /\ Len(unions_passed) \in Nat /\ (frames # <<>> => Len(frames) # 0)
    BY EmptySeq, LenProperties DEF CallsInv, StackInv, PassedInv
  <2> QED
    BY <2>1 DEF CallsInv, PassedInv, BodiesOf, Depth
<1>1. ASSUME lost' = lost, unions_passed[1] \subseteq unions_passed'[1]
      PROVE  LostInv'
  BY <1>1 DEF LostInv
<1>2. CASE BeginTick
  BY <1>2 DEF BeginTick, LostInv
<1>3. ASSUME NEW u \in Unions, Union(u)
      PROVE  LostInv'
  <2>1. unions_passed' = [unions_passed EXCEPT ![Depth + 1] = @ \union {u}] /\ lost' = lost
    BY <1>3 DEF Union, history
  <2>2. unions_passed[1] \subseteq unions_passed'[1]
    BY <1>0, <2>1, {u} \in SUBSET Unions, Marked DEF CallsInv, PassedInv
  <2> QED
    BY <1>1, <2>1, <2>2
<1>4. ASSUME NEW u \in Unions, Leave(u)
      PROVE  LostInv'
  <2> DEFINE n == FrameOf(u) + 1
             X == Through(u, Unions \ unions_passed[n])
             new == {v \in Unions : v \notin unions_passed[FrameOf(v) + 1]}
  <2>1. /\ unions_passed' = [unions_passed EXCEPT ![n] = @ \union X]
        /\ lost' = lost \union Through(u, new)
    BY <1>4 DEF Leave, Lose
  <2>2. X \in SUBSET Unions
    BY ThroughNew
  <2>3. /\ unions_passed[1] \subseteq unions_passed'[1]
        /\ n \in 1 .. Len(unions_passed) => X \subseteq unions_passed'[n]
    <3> HIDE DEF n, X
    <3> QED
      BY <1>0, <2>1, <2>2, Marked DEF CallsInv, PassedInv
  <2>4. ASSUME NEW v \in Through(u, new), Holders[v] = <<>> PROVE v \in unions_passed'[1]
    <3>1. Holders[u] = <<>>
      BY <2>4, ThroughPlane
    <3>2. n = 1
      BY <3>1, OutsideFrame
    <3>3. \A w \in Unions : Holders[w] = <<>> => (w \in new <=> w \in Unions \ unions_passed[1])
      BY OutsideFrame
    <3> HIDE DEF new
    <3>4. v \in Through(u, Unions \ unions_passed[1])
      BY <2>4, <3>1, <3>3, new \in SUBSET Unions, ThroughOutside DEF new
    <3>5. v \in X
      BY <3>2, <3>4, Zenon
    <3> HIDE DEF n, X
    <3>6. X \subseteq unions_passed'[1]
      BY <1>0, <2>3, <3>2
    <3> QED
      BY <3>5, <3>6
  <2> HIDE DEF new
  <2> QED
    BY <2>1, <2>3, <2>4 DEF LostInv
<1>5. ASSUME unions_passed' = Front(unions_passed), Top.at = "body", frames # <<>>, lost' = lost
      PROVE  LostInv'
  <2>1. Len(unions_passed) > 1 /\ unions_passed # <<>>
    <3>1. Len(frames) \in Nat \ {0} /\ Depth = Len(frames)
      BY <1>5, Popped DEF CallsInv, StackInv, PassedInv, BodiesOf, Top
    <3> QED
      BY <1>0, <3>1, EmptySeq DEF Depth
  <2>2. unions_passed'[1] = unions_passed[1]
    BY <1>0, <1>5, <2>1, Popped DEF CallsInv, PassedInv
  <2> QED
    BY <1>1, <1>5, <2>2
<1>6. ASSUME NEW running, RunBody(running)
      PROVE  LostInv'
  <2>1. lost' = lost /\ (unions_passed' = <<unions_passed[1]>> \/ unions_passed' = Append(unions_passed, {}))
    BY <1>6 DEF RunBody, Fail, history
  <2>2. unions_passed'[1] = unions_passed[1]
    BY <1>0, <2>1, Pushed DEF CallsInv, PassedInv
  <2> QED
    BY <1>1, <2>1, <2>2
<1>7. ASSUME unions_passed' = unions_passed, lost' = lost
      PROVE  LostInv'
  BY <1>1, <1>7
<1>8. CASE Runaway
  <2>1. lost' = lost /\ unions_passed'[1] = unions_passed[1]
    BY <1>8 DEF Runaway, Fail, history
  <2> QED
    BY <1>1, <2>1
<1>9. CASE BeginChain \/ EndChain \/ Break \/ NoMore \/ EndLoop \/ \E l \in Loops : BeginLoop(l)
  BY <1>7, <1>9 DEF BeginChain, EndChain, Break, NoMore, EndLoop, BeginLoop, history
<1>10. CASE EndCall \/ EndIteration
  BY <1>5, <1>10 DEF EndCall, EndIteration, Is, history
<1>11. CASE Iterate \/ \E f \in Functions : FunctionCall(f)
  BY <1>6, <1>7, <1>11 DEF Iterate, FunctionCall, Abort
<1>12. CASE UNCHANGED vars
  BY <1>7, <1>12 DEF vars, history
<1> QED
  BY <1>2, <1>3, <1>4, <1>8, <1>9, <1>10, <1>11, <1>12 DEF Next, ChainStep

(* A Union outside every callable that a lost exec reached lets no exec        *)
(* through for the rest of the tick, whatever calls, loops and other lost      *)
(* execs come between, as long as no Union feeds one of another plane: `lose`  *)
(* marks all it follows in the frame of the first.                             *)
THEOREM LostExecBlocks == SamePlane => (Spec => LostPassNothing)
<1> SUFFICES ASSUME SamePlane PROVE Spec => LostPassNothing
  OBVIOUS
<1>1. Init => LostInv
  BY DEF Init, LostInv
<1>2. CallsInv /\ LostInv /\ [Next]_vars => LostInv'
  BY LostNext
<1>3. LostInv /\ [Next]_vars =>
         [\A u \in lost : Depth = 0 /\ Depth' = 0 /\ Holders[u] = <<>>
             => u \notin unions_passed'[1] \ unions_passed[1]]_vars
  BY DEF LostInv
<1> QED
  BY CallsHold, <1>1, <1>2, <1>3, PTL DEF Spec, LostPassNothing

-----------------------------------------------------------------------------
(* The loops among the running callables. *)

LEMMA LeastLength ==
    ASSUME NEW S, S \subseteq Nat, S # {}
    PROVE  \E m \in S : \A n \in S : m <= n
<1>1. PICK m \in S : \A n \in S : ~ (<<n, m>> \in OpToRel(<, Nat))
  BY NatLessThanWellFounded, WFMin
<1>2. \A n \in S : ~ (n < m)
  BY <1>1 DEF OpToRel
<1> QED
  BY <1>2

LEMMA LoopsFinite ==
    ASSUME NEW fs \in Seq(Frame)
    PROVE  /\ LoopsAt(fs) \subseteq 1 .. Len(fs) /\ Len(fs) \in Nat
           /\ IsFiniteSet(LoopsAt(fs))
           /\ Cardinality(LoopsAt(fs)) \in Nat
           /\ \A k : Cardinality({j \in LoopsAt(fs) : j <= k}) <= Cardinality(LoopsAt(fs))
<1>1. LoopsAt(fs) \subseteq 1 .. Len(fs) /\ Len(fs) \in Nat
  BY LenProperties DEF LoopsAt
<1>2. IsFiniteSet(1 .. Len(fs))
  BY <1>1, FS_Interval
<1>3. IsFiniteSet(LoopsAt(fs))
  BY <1>1, <1>2, FS_Subset
<1>4. \A k : Cardinality({j \in LoopsAt(fs) : j <= k}) <= Cardinality(LoopsAt(fs))
  BY <1>3, FS_Subset
<1> QED
  BY <1>1, <1>3, <1>4, FS_CardinalityType

(* A frame pushed on top comes last and leaves the others where they are. *)
LEMMA NthAppend ==
    ASSUME NEW fs \in Seq(Frame), NEW f \in Frame
    PROVE  LET all == Append(fs, f)
               count == Cardinality(LoopsAt(fs))
           IN  /\ \A n \in 1 .. count : Nth(all, n) = Nth(fs, n)
               /\ f.shell \in Loops => /\ Cardinality(LoopsAt(all)) = count + 1
                                       /\ Nth(all, count + 1) = {Len(fs) + 1}
               /\ f.shell \notin Loops => Cardinality(LoopsAt(all)) = count
<1> DEFINE all == Append(fs, f)
           top == Len(fs) + 1
           count == Cardinality(LoopsAt(fs))
           upTo(k) == {j \in LoopsAt(fs) : j <= k}
<1>1. /\ LoopsAt(fs) \subseteq 1 .. Len(fs) /\ Len(fs) \in Nat
      /\ IsFiniteSet(LoopsAt(fs)) /\ count \in Nat
      /\ \A k : Cardinality(upTo(k)) <= count
  BY LoopsFinite
<1>2. /\ DOMAIN all = 1 .. top /\ DOMAIN fs = 1 .. Len(fs)
      /\ all[top] = f /\ \A i \in 1 .. Len(fs) : all[i] = fs[i]
  BY Pushed, LenProperties
<1> HIDE DEF all
<1>3. LoopsAt(all) = LoopsAt(fs) \union {k \in {top} : f.shell \in Loops}
  BY <1>1, <1>2 DEF LoopsAt
<1>4. \A k \in LoopsAt(fs) : {j \in LoopsAt(all) : j <= k} = upTo(k)
  BY <1>1, <1>3
<1>5. CASE f.shell \in Loops
  <2>1. LoopsAt(all) = LoopsAt(fs) \union {top} /\ top \notin LoopsAt(fs)
    BY <1>1, <1>3, <1>5
  <2>2. Cardinality(LoopsAt(all)) = count + 1
    BY <1>1, <2>1, FS_AddElement
  <2>3. {j \in LoopsAt(all) : j <= top} = LoopsAt(all)
    BY <1>1, <2>1
  <2>4. \A k \in LoopsAt(fs) :
           Cardinality({j \in LoopsAt(all) : j <= k}) = Cardinality(upTo(k))
    BY <1>4
  <2>5. \A k \in LoopsAt(fs) : Cardinality({j \in LoopsAt(all) : j <= k}) # count + 1
    <3> SUFFICES ASSUME NEW k \in LoopsAt(fs), Cardinality(upTo(k)) = count + 1 PROVE FALSE
      BY <2>4
    <3> HIDE DEF upTo, count
    <3> QED
      BY <1>1
  <2>6. Cardinality({j \in LoopsAt(all) : j <= top}) = count + 1
    BY <2>2, <2>3
  <2> HIDE DEF top, count
  <2>7. Nth(all, count + 1) = {top}
    BY <2>1, <2>5, <2>6 DEF Nth
  <2>8. ASSUME NEW n \in 1 .. count PROVE Nth(all, n) = Nth(fs, n)
    <3>1. n # count + 1
      BY <1>1
    <3> QED
      BY <2>1, <2>4, <2>6, <3>1 DEF Nth, upTo
  <2> QED
    BY <1>5, <2>2, <2>7, <2>8 DEF all, top, count
<1>6. CASE f.shell \notin Loops
  <2>1. LoopsAt(all) = LoopsAt(fs)
    BY <1>3, <1>6
  <2>2. \A n : Nth(all, n) = Nth(fs, n)
    BY <2>1 DEF Nth
  <2> QED
    BY <1>6, <2>1, <2>2 DEF all
<1> QED
  BY <1>5, <1>6

(* Every loop has its place: by minimal counterexample. *)
LEMMA NthExists ==
    ASSUME NEW fs \in Seq(Frame), NEW n \in 1 .. Cardinality(LoopsAt(fs))
    PROVE  Nth(fs, n) # {}
<1> DEFINE Full(s) == \A m \in 1 .. Cardinality(LoopsAt(s)) : Nth(s, m) # {}
           short == {k \in Nat : \E s \in Seq(Frame) : Len(s) = k /\ ~Full(s)}
<1>1. ASSUME short # {} PROVE FALSE
  <2>1. PICK k \in short : \A j \in short : k <= j
    BY <1>1, LeastLength
  <2>2. PICK s \in Seq(Frame) : Len(s) = k /\ ~Full(s)
    BY <2>1
  <2>3. PICK m \in 1 .. Cardinality(LoopsAt(s)) : Nth(s, m) = {}
    BY <2>2
  <2>4. s # <<>>
    <3>1. ASSUME s = <<>> PROVE FALSE
      <4>1. LoopsAt(s) = {}
        BY <3>1 DEF LoopsAt
      <4>2. Cardinality(LoopsAt(s)) = 0
        BY ONLY <4>1, FS_EmptySet
      <4> QED
        BY <2>3, <4>2
    <3> QED
      BY <3>1
  <2> DEFINE below == Front(s)
             f == Last(s)
  <2>5. /\ below \in Seq(Frame) /\ f \in Frame /\ s = Append(below, f)
        /\ Len(s) \in Nat \ {0} /\ Len(below) = Len(s) - 1
    BY <2>4, Popped
  <2> HIDE DEF below, f
  <2>6. Full(below)
    <3>1. Len(below) \in Nat /\ ~(k <= Len(below))
      BY <2>2, <2>5
    <3> HIDE DEF Full
    <3> QED
      BY <2>1, <2>5, <3>1
  <2>7. Cardinality(LoopsAt(below)) \in Nat /\ Len(below) + 1 \in Nat
    BY <2>5, LoopsFinite
  <2>8. /\ \A i \in 1 .. Cardinality(LoopsAt(below)) : Nth(s, i) = Nth(below, i)
        /\ f.shell \in Loops => /\ Cardinality(LoopsAt(s)) = Cardinality(LoopsAt(below)) + 1
                                /\ Nth(s, Cardinality(LoopsAt(below)) + 1) = {Len(below) + 1}
        /\ f.shell \notin Loops => Cardinality(LoopsAt(s)) = Cardinality(LoopsAt(below))
    BY <2>5, NthAppend
  <2>9. CASE m \in 1 .. Cardinality(LoopsAt(below))
    BY <2>3, <2>6, <2>8, <2>9
  <2>10. CASE m \notin 1 .. Cardinality(LoopsAt(below))
    <3>1. f.shell \in Loops
      BY <2>3, <2>8, <2>10
    <3>2. m = Cardinality(LoopsAt(below)) + 1
      BY <2>3, <2>7, <2>8, <2>10, <3>1
    <3>3. Nth(s, m) = {Len(below) + 1}
      BY <2>8, <3>1, <3>2
    <3> QED
      BY <2>3, <3>3
  <2> QED
    BY <2>9, <2>10
<1>2. Len(fs) \in Nat
  BY LenProperties
<1> HIDE DEF Full
<1>3. Full(fs)
  BY <1>1, <1>2
<1> QED
  BY <1>3 DEF Full

LEMMA LoopsTyped ==
    ASSUME NEW fs \in Seq(Frame)
    PROVE  /\ LoopsOf(fs) \in Seq(Frame)
           /\ Len(LoopsOf(fs)) = Cardinality(LoopsAt(fs))
           /\ \A n \in 1 .. Len(LoopsOf(fs)) :
                 \E k \in 1 .. Len(fs) : LoopsOf(fs)[n] = fs[k] /\ fs[k].shell \in Loops
<1> DEFINE count == Cardinality(LoopsAt(fs))
           place(n) == CHOOSE k \in Nth(fs, n) : TRUE
<1>1. LoopsAt(fs) \subseteq 1 .. Len(fs) /\ count \in Nat
  BY LoopsFinite
<1>2. \A n \in 1 .. count : place(n) \in LoopsAt(fs)
  BY NthExists DEF Nth
<1>3. \A k \in 1 .. Len(fs) : fs[k] \in Frame
  BY ElementOfSeq
<1>4. LoopsOf(fs) = [n \in 1 .. count |-> fs[place(n)]]
  BY DEF LoopsOf
<1> HIDE DEF place, count
<1>5. \A n \in 1 .. count : fs[place(n)] \in Frame
  BY <1>1, <1>2, <1>3
<1>6. LoopsOf(fs) \in Seq(Frame) /\ Len(LoopsOf(fs)) = count
  BY <1>1, <1>4, <1>5
<1>7. \A k \in LoopsAt(fs) : fs[k].shell \in Loops
  BY DEF LoopsAt
<1> QED
  BY <1>1, <1>2, <1>4, <1>6, <1>7 DEF count

LEMMA LoopsAppend ==
    ASSUME NEW fs \in Seq(Frame), NEW f \in Frame
    PROVE  LoopsOf(Append(fs, f)) =
              IF f.shell \in Loops THEN Append(LoopsOf(fs), f) ELSE LoopsOf(fs)
<1> DEFINE all == Append(fs, f)
           count == Cardinality(LoopsAt(fs))
           place(n) == CHOOSE k \in Nth(fs, n) : TRUE
<1>1. /\ LoopsAt(fs) \subseteq 1 .. Len(fs) /\ count \in Nat /\ Len(fs) \in Nat
  BY LoopsFinite
<1>2. \A n \in 1 .. count : place(n) \in 1 .. Len(fs)
  BY <1>1, NthExists DEF Nth
<1>3. /\ all \in Seq(Frame) /\ all[Len(fs) + 1] = f
      /\ \A i \in 1 .. Len(fs) : all[i] = fs[i]
  BY Pushed
<1>4. /\ \A n \in 1 .. count : Nth(all, n) = Nth(fs, n)
      /\ f.shell \in Loops => /\ Cardinality(LoopsAt(all)) = count + 1
                              /\ Nth(all, count + 1) = {Len(fs) + 1}
      /\ f.shell \notin Loops => Cardinality(LoopsAt(all)) = count
  BY NthAppend
<1>5. /\ LoopsOf(fs) \in Seq(Frame) /\ Len(LoopsOf(fs)) = count
      /\ \A n \in 1 .. count : LoopsOf(fs)[n] = fs[place(n)]
  BY LoopsTyped DEF LoopsOf
<1>6. /\ LoopsOf(all) \in Seq(Frame) /\ Len(LoopsOf(all)) = Cardinality(LoopsAt(all))
      /\ \A n \in 1 .. Len(LoopsOf(all)) :
            LoopsOf(all)[n] = all[CHOOSE k \in Nth(all, n) : TRUE]
  BY <1>3, LoopsTyped DEF LoopsOf
<1> HIDE DEF all, count
<1>7. ASSUME NEW n \in 1 .. count, n \in 1 .. Len(LoopsOf(all))
      PROVE  LoopsOf(all)[n] = LoopsOf(fs)[n]
  <2>1. LoopsOf(all)[n] = all[place(n)]
    BY <1>4, <1>6, <1>7
  <2> HIDE DEF place
  <2> QED
    BY <1>2, <1>3, <1>5, <2>1
<1>8. CASE f.shell \notin Loops
  <2>1. Len(LoopsOf(all)) = Len(LoopsOf(fs))
    BY <1>4, <1>5, <1>6, <1>8
  <2>2. \A n \in 1 .. Len(LoopsOf(all)) : LoopsOf(all)[n] = LoopsOf(fs)[n]
    BY <1>5, <1>7, <2>1
  <2>3. LoopsOf(all) = LoopsOf(fs)
    BY <1>5, <1>6, <2>1, <2>2, SeqEqual
  <2> QED
    BY <1>8, <2>3 DEF all
<1>9. CASE f.shell \in Loops
  <2> DEFINE t == Append(LoopsOf(fs), f)
  <2>1. /\ t \in Seq(Frame) /\ Len(t) = count + 1 /\ t[count + 1] = f
        /\ \A n \in 1 .. count : t[n] = LoopsOf(fs)[n]
    BY <1>5, Pushed
  <2>2. Len(LoopsOf(all)) = count + 1
    BY <1>4, <1>6, <1>9
  <2>3. LoopsOf(all)[count + 1] = f
    <3>1. (CHOOSE k \in Nth(all, count + 1) : TRUE) = Len(fs) + 1
      BY <1>4, <1>9
    <3>2. count + 1 \in 1 .. Len(LoopsOf(all))
      BY <1>1, <2>2
    <3> QED
      BY <1>3, <1>6, <3>1, <3>2
  <2> HIDE DEF t
  <2>4. \A n \in 1 .. Len(LoopsOf(all)) : LoopsOf(all)[n] = t[n]
    BY <1>1, <1>7, <2>1, <2>2, <2>3
  <2>5. LoopsOf(all) = t
    BY <1>6, <2>1, <2>2, <2>4, SeqEqual
  <2> QED
    BY <1>9, <2>5 DEF all, t
<1> QED
  BY <1>8, <1>9

(* What the loops `ls` promise when `br` is the request of the innermost. *)
Entry(f, br) == [inside |-> f.at = "body", last |-> f.at = "left" \/ br]
Loop == [inside : BOOLEAN, last : BOOLEAN]
Promised(ls, br) ==
    [k \in 1 .. Len(ls) |->
        Entry(ls[k], IF k = Len(ls) THEN br ELSE ls[k + 1].saved_break)]

LEMMA RunningNow ==
    /\ RunningLoops = Promised(LoopsOf(frames), break_requested)
    /\ RunningLoops' = Promised(LoopsOf(frames'), break_requested')
  BY DEF RunningLoops, Pending, Promised, Entry

LEMMA PromisedTyped ==
    ASSUME NEW ls \in Seq(Frame), NEW br \in BOOLEAN
    PROVE  /\ Promised(ls, br) \in Seq(Loop)
           /\ Len(Promised(ls, br)) = Len(ls)
<1>1. Len(ls) \in Nat /\ \A k \in 1 .. Len(ls) : ls[k] \in Frame
  BY LenProperties, ElementOfSeq
<1>2. ASSUME NEW k \in 1 .. Len(ls)
      PROVE  Entry(ls[k], IF k = Len(ls) THEN br ELSE ls[k + 1].saved_break) \in Loop
  BY DEF Entry, Loop
<1> HIDE DEF Loop, Entry
<1>3. Promised(ls, br) \in [1 .. Len(ls) -> Loop]
  BY <1>2 DEF Promised
<1> QED
  BY <1>1, <1>3

(* A loop on top has the pending request, and saved that of the loop below. *)
LEMMA PromisedAppend ==
    ASSUME NEW ls \in Seq(Frame), NEW f \in Frame, NEW br \in BOOLEAN
    PROVE  /\ Promised(Append(ls, f), br) = Append(Promised(ls, f.saved_break), Entry(f, br))
           /\ Entry(f, br) \in Loop
<1>1. /\ Append(ls, f) \in Seq(Frame) /\ Len(Append(ls, f)) = Len(ls) + 1
      /\ Append(ls, f)[Len(ls) + 1] = f /\ Len(ls) \in Nat
      /\ \A i \in 1 .. Len(ls) : Append(ls, f)[i] = ls[i]
  BY Pushed, LenProperties
<1>2. f.saved_break \in BOOLEAN /\ Entry(f, br) \in Loop
  BY DEF Frame, Entry, Loop
<1> DEFINE t == Append(ls, f)
           old == Promised(ls, f.saved_break)
           new == Append(old, Entry(f, br))
<1>3. /\ old \in Seq(Loop) /\ Len(old) = Len(ls)
      /\ \A k \in 1 .. Len(ls) :
            old[k] = Entry(ls[k], IF k = Len(ls) THEN f.saved_break ELSE ls[k + 1].saved_break)
  BY <1>2, PromisedTyped DEF Promised
<1>4. /\ Promised(t, br) \in Seq(Loop) /\ Len(Promised(t, br)) = Len(ls) + 1
      /\ \A k \in 1 .. Len(ls) + 1 :
            Promised(t, br)[k] = Entry(t[k], IF k = Len(ls) + 1 THEN br ELSE t[k + 1].saved_break)
  BY <1>1, PromisedTyped DEF Promised
<1> HIDE DEF old
<1>5. /\ new \in Seq(Loop) /\ Len(new) = Len(ls) + 1 /\ new[Len(ls) + 1] = Entry(f, br)
      /\ \A k \in 1 .. Len(ls) : new[k] = old[k]
  BY <1>2, <1>3, Pushed
<1> HIDE DEF t, new
<1>6. ASSUME NEW k \in 1 .. Len(ls) + 1 PROVE Promised(t, br)[k] = new[k]
  <2>1. CASE k = Len(ls) + 1
    BY <1>1, <1>4, <1>5, <2>1 DEF t
  <2>2. CASE k \in 1 .. Len(ls)
    <3>1. t[k] = ls[k] /\ k # Len(ls) + 1 /\ k + 1 \in 1 .. Len(ls) + 1
      BY <1>1, <2>2 DEF t
    <3>2. t[k + 1] = IF k = Len(ls) THEN f ELSE ls[k + 1]
      BY <1>1, <2>2 DEF t
    <3> QED
      BY <1>3, <1>4, <1>5, <2>2, <3>1, <3>2
  <2> QED
    BY <1>1, <2>1, <2>2
<1>7. Promised(t, br) = new
  BY <1>4, <1>5, <1>6, SeqEqual
<1> QED
  BY <1>2, <1>7 DEF t, new, old

LEMMA FrontAppend ==
    ASSUME NEW S, NEW s \in Seq(S), NEW e \in S
    PROVE  Front(Append(s, e)) = s
<1> DEFINE t == Append(s, e)
<1>1. /\ t \in Seq(S) /\ t # <<>> /\ Len(t) = Len(s) + 1 /\ Len(s) \in Nat
      /\ \A i \in 1 .. Len(s) : t[i] = s[i]
  BY Pushed, LenProperties
<1> HIDE DEF t
<1>2. /\ Front(t) \in Seq(S) /\ Len(Front(t)) = Len(s)
      /\ \A i \in 1 .. Len(s) : Front(t)[i] = t[i]
  BY <1>1, Popped
<1>3. Front(t) = s
  BY <1>1, <1>2, SeqEqual
<1> QED
  BY <1>3 DEF t

(* The innermost of the running loops, and those around it. *)
LEMMA InnerLoop ==
    ASSUME NEW outer \in Seq(Loop), NEW e \in Loop, RunningLoops = Append(outer, e)
    PROVE  Promise!Inner = e /\ Promise!Around = outer /\ RunningLoops # <<>>
<1>1. Len(RunningLoops) = Len(outer) + 1 /\ RunningLoops[Len(outer) + 1] = e /\ RunningLoops # <<>>
  BY Pushed
<1>2. Promise!Inner = e
  BY <1>1 DEF Promise!Inner
<1>3. Promise!Around = Front(RunningLoops)
  BY DEF Promise!Around, Front
<1>4. Front(RunningLoops) = outer
  BY FrontAppend
<1> QED
  BY <1>1, <1>2, <1>3, <1>4

(* The step of the promise for each way the innermost loop `f` can change.     *)
LEMMA InnerStep ==
    ASSUME NEW outer \in Seq(Frame), NEW f \in Frame, NEW g \in Frame,
           NEW br \in BOOLEAN, NEW newBr \in BOOLEAN, g.saved_break = f.saved_break,
           RunningLoops = Promised(Append(outer, f), br),
           RunningLoops' = Promised(Append(outer, g), newBr),
           \/ f.at = "test" /\ ~br /\ g.at = "body" /\ ~newBr
           \/ f.at = "body" /\ g.at = "body" /\ newBr
           \/ f.at = "body" /\ ((g.at = "test" /\ ~br) \/ (g.at = "left" /\ br)) /\ ~newBr
           \/ f.at = "test" /\ g.at = "left"
    PROVE  Promise!Next
<1> DEFINE rest == Promised(outer, f.saved_break)
<1>1. f.saved_break \in BOOLEAN
  BY DEF Frame
<1>2. /\ RunningLoops = Append(rest, Entry(f, br)) /\ Entry(f, br) \in Loop
      /\ RunningLoops' = Append(rest, Entry(g, newBr))
      /\ rest \in Seq(Loop)
  BY <1>1, PromisedAppend, PromisedTyped
<1> HIDE DEF rest
<1>3. Promise!Inner = Entry(f, br) /\ Promise!Around = rest /\ RunningLoops # <<>>
  BY <1>2, InnerLoop
<1>4. CASE f.at = "test" /\ ~br /\ g.at = "body" /\ ~newBr
  <2>1. /\ Entry(f, br) = [inside |-> FALSE, last |-> FALSE]
        /\ Entry(g, newBr) = [inside |-> TRUE, last |-> FALSE]
    BY <1>4 DEF Entry
  <2>2. Promise!Iterate
    BY <1>2, <1>3, <2>1 DEF Promise!Iterate, Promise!In
  <2> QED
    BY <2>2 DEF Promise!Next
<1>5. CASE f.at = "body" /\ g.at = "body" /\ newBr
  <2>1. Entry(f, br).inside = TRUE /\ Entry(g, newBr) = [inside |-> TRUE, last |-> TRUE]
    BY <1>5 DEF Entry
  <2>2. Promise!Break
    BY <1>2, <1>3, <2>1 DEF Promise!Break, Promise!In
  <2> QED
    BY <2>2 DEF Promise!Next
<1>6. CASE f.at = "body" /\ ((g.at = "test" /\ ~br) \/ (g.at = "left" /\ br)) /\ ~newBr
  <2>1. (f.at = "left" \/ br) = (g.at = "left" \/ newBr)
    BY <1>6
  <2>2. Entry(f, br).inside = TRUE /\ Entry(f, br).last = (f.at = "left" \/ br)
    BY <1>6 DEF Entry
  <2>3. Entry(g, newBr) = [inside |-> FALSE, last |-> (g.at = "left" \/ newBr)]
    BY <1>6 DEF Entry
  <2>4. Promise!EndIteration
    BY <1>2, <1>3, <2>1, <2>2, <2>3 DEF Promise!EndIteration, Promise!In
  <2> QED
    BY <2>4 DEF Promise!Next
<1>7. CASE f.at = "test" /\ g.at = "left"
  <2>1. Entry(f, br).inside = FALSE /\ Entry(g, newBr) = [inside |-> FALSE, last |-> TRUE]
    BY <1>7 DEF Entry
  <2>2. Promise!RunOut
    BY <1>2, <1>3, <2>1 DEF Promise!RunOut, Promise!In
  <2> QED
    BY <2>2 DEF Promise!Next
<1> QED
  BY <1>4, <1>5, <1>6, <1>7

LEMMA NoLoops ==
    ASSUME NEW br \in BOOLEAN
    PROVE  LoopsOf(<<>>) = <<>> /\ Promised(<<>>, br) = <<>>
<1>1. <<>> \in Seq(Frame) /\ Len(<<>>) = 0
  BY EmptySeq
<1>2. LoopsOf(<<>>) \in Seq(Frame) /\ Promised(<<>>, br) \in Seq(Loop) /\ Len(Promised(<<>>, br)) = 0
  BY <1>1, LoopsTyped, PromisedTyped
<1>3. Len(LoopsOf(<<>>)) = 0
  <2>1. \A n \in 1 .. Len(LoopsOf(<<>>)) : FALSE
    <3>1. \A n \in 1 .. Len(LoopsOf(<<>>)) : \E k \in 1 .. Len(<<>>) : TRUE
      BY <1>1, LoopsTyped
    <3>2. \A k \in 1 .. Len(<<>>) : FALSE
      BY <1>1
    <3> QED
      BY <3>1, <3>2
  <2> QED
    BY <1>2, <2>1, LenProperties
<1> QED
  BY <1>2, <1>3, EmptySeq

(* An error stops every loop. *)
LEMMA FailKept ==
    ASSUME CallsInv, Fail
    PROVE  Promise!Next
<1>1. frames' = <<>> /\ break_requested' \in BOOLEAN
  BY DEF Fail, CallsInv, StackInv
<1>2. RunningLoops' = <<>>
  BY <1>1, NoLoops, RunningNow
<1> QED
  BY <1>2 DEF Promise!Next, Promise!Fail

(* The loop on top goes to another place. *)
LEMMA MoveKept ==
    ASSUME CallsInv, frames # <<>>, Top.shell \in Loops, NEW at \in {"test", "body", "left"},
           frames' = AtTop(at), break_requested' \in BOOLEAN,
           \/ Top.at = "test" /\ ~break_requested /\ at = "body" /\ ~break_requested'
           \/ /\ Top.at = "body"
              /\ (at = "test" /\ ~break_requested) \/ (at = "left" /\ break_requested)
              /\ ~break_requested'
           \/ Top.at = "test" /\ at = "left"
    PROVE  Promise!Next
<1> DEFINE below == Front(frames)
           g == [Top EXCEPT !.at = at]
           outer == LoopsOf(below)
<1>1. /\ below \in Seq(Frame) /\ Top \in Frame /\ frames = Append(below, Top)
      /\ g \in Frame /\ frames' = Append(below, g)
  BY Popped, AtTopPushed DEF CallsInv, StackInv, Top
<1>2. g.at = at /\ g.shell = Top.shell /\ g.saved_break = Top.saved_break
  BY <1>1 DEF Frame
<1>3. break_requested \in BOOLEAN
  BY DEF CallsInv, StackInv
<1> HIDE DEF below, g
<1>4. /\ outer \in Seq(Frame)
      /\ LoopsOf(frames) = Append(outer, Top) /\ LoopsOf(frames') = Append(outer, g)
  BY <1>1, <1>2, LoopsTyped, LoopsAppend
<1>5. /\ RunningLoops = Promised(Append(outer, Top), break_requested)
      /\ RunningLoops' = Promised(Append(outer, g), break_requested')
  BY <1>4, RunningNow
<1> HIDE DEF outer
<1> QED
  BY <1>1, <1>2, <1>3, <1>4, <1>5, InnerStep

LEMMA PromiseNext ==
    ASSUME CallsInv, [Next]_vars
    PROVE  Promise!Next \/ UNCHANGED RunningLoops
<1> DEFINE ls == LoopsOf(frames)
<1>0. /\ frames \in Seq(Frame) /\ break_requested \in BOOLEAN
      /\ ls \in Seq(Frame)
      /\ \A n \in 1 .. Len(ls) : \E k \in 1 .. Len(frames) : ls[n] = frames[k]
  BY LoopsTyped DEF CallsInv, StackInv
<1>1. CASE UNCHANGED <<frames, break_requested>>
  BY <1>1 DEF RunningLoops, Pending
<1>2. ASSUME InChain
      PROVE  \A n \in 1 .. Len(ls) : ls[n].at = "body"
  <2>1. \A k \in 1 .. Len(frames) : frames[k].at = "body"
    BY <1>0, <1>2, LenProperties DEF InChain, Is, Top, Last, CallsInv, StackInv
  <2> QED
    BY <1>0, <2>1
<1>3. ASSUME InChain, ls # <<>>
      PROVE  Last(ls) \in Frame /\ Last(ls).at = "body" /\ Front(ls) \in Seq(Frame)
             /\ ls = Append(Front(ls), Last(ls))
  <2>1. /\ Last(ls) \in Frame /\ Front(ls) \in Seq(Frame) /\ Len(ls) \in Nat \ {0}
        /\ ls = Append(Front(ls), Last(ls))
    BY <1>0, <1>3, Popped
  <2>2. Last(ls).at = "body"
    BY <1>2, <1>3, <2>1 DEF Last
  <2> QED
    BY <2>1, <2>2
<1>4. CASE Break
  <2>1. frames' = frames /\ break_requested' = TRUE /\ InChain
    BY <1>4 DEF Break, Step
  <2>2. RunningLoops = Promised(ls, break_requested) /\ RunningLoops' = Promised(ls, TRUE)
    BY <2>1, RunningNow
  <2> HIDE DEF ls
  <2>3. CASE ls = <<>>
    BY <1>0, <2>2, <2>3, NoLoops
  <2>4. CASE ls # <<>>
    <3> DEFINE f == Last(ls)
               outer == Front(ls)
    <3>1. f \in Frame /\ f.at = "body" /\ outer \in Seq(Frame) /\ ls = Append(outer, f)
      BY <1>3, <2>1, <2>4
    <3> HIDE DEF f, outer
    <3>2. /\ RunningLoops = Promised(Append(outer, f), break_requested)
          /\ RunningLoops' = Promised(Append(outer, f), TRUE)
      BY <2>2, <3>1
    <3> QED
      BY <1>0, <3>1, <3>2, InnerStep
  <2> QED
    BY <2>3, <2>4
<1>5. ASSUME NEW running, RunBody(running)
      PROVE  \/ Promise!Next
             \/ frames' = running /\ break_requested' = break_requested
  BY <1>5, FailKept DEF RunBody
<1>6. ASSUME NEW f \in Functions, FunctionCall(f)
      PROVE  Promise!Next \/ UNCHANGED RunningLoops
  <2> DEFINE new == [shell |-> f, at |-> "body", saved_break |-> FALSE]
  <2>1. new \in Frame /\ new.shell \notin Loops
    BY CallableAssumption DEF Frame, Shells
  <2>2. \/ Promise!Next
        \/ frames' \in {frames, Append(frames, new)} /\ break_requested' = break_requested
    BY <1>5, <1>6 DEF FunctionCall, Abort
  <2> HIDE DEF new
  <2>3. LoopsOf(Append(frames, new)) = ls
    BY <1>0, <2>1, LoopsAppend
  <2>4. ASSUME frames' \in {frames, Append(frames, new)}, break_requested' = break_requested
        PROVE  UNCHANGED RunningLoops
    <3>1. LoopsOf(frames') = ls
      BY <2>3, <2>4
    <3> QED
      BY <2>4, <3>1, RunningNow
  <2> QED
    BY <2>2, <2>4
<1>7. ASSUME NEW l \in Loops, BeginLoop(l)
      PROVE  Promise!Next
  <2> DEFINE new == [shell |-> l, at |-> "test", saved_break |-> break_requested]
  <2>1. /\ InChain /\ frames' = Append(frames, new) /\ break_requested' = FALSE
    BY <1>7 DEF BeginLoop, Step
  <2>2. /\ new \in Frame /\ new.shell \in Loops /\ new.saved_break = break_requested
        /\ Entry(new, FALSE) = [inside |-> FALSE, last |-> FALSE]
    BY <1>0 DEF Frame, Shells, Entry
  <2> HIDE DEF new
  <2>3. LoopsOf(frames') = Append(ls, new)
    BY <1>0, <2>1, <2>2, LoopsAppend
  <2>4. RunningLoops = Promised(ls, break_requested)
    BY RunningNow
  <2>5. RunningLoops' = Promised(Append(ls, new), FALSE)
    BY <2>1, <2>3, RunningNow
  <2> HIDE DEF ls
  <2>6. Promised(Append(ls, new), FALSE) = Append(Promised(ls, break_requested), Entry(new, FALSE))
    BY <1>0, <2>2, PromisedAppend
  <2>7. RunningLoops' = Append(RunningLoops, [inside |-> FALSE, last |-> FALSE])
    BY <2>2, <2>4, <2>5, <2>6
  <2>8. RunningLoops = <<>> \/ Promise!In(TRUE)
    <3>1. CASE ls = <<>>
      BY <1>0, <2>4, <3>1, NoLoops
    <3>2. CASE ls # <<>>
      <4> DEFINE f == Last(ls)
                 outer == Front(ls)
      <4>1. f \in Frame /\ f.at = "body" /\ outer \in Seq(Frame) /\ ls = Append(outer, f)
        BY <1>3, <2>1, <3>2
      <4> HIDE DEF f, outer
      <4>2. f.saved_break \in BOOLEAN
        BY <4>1 DEF Frame
      <4>3. /\ RunningLoops = Append(Promised(outer, f.saved_break), Entry(f, break_requested))
            /\ Entry(f, break_requested) \in Loop
            /\ Promised(outer, f.saved_break) \in Seq(Loop)
        BY <1>0, <2>4, <4>1, <4>2, PromisedAppend, PromisedTyped
      <4>4. Promise!Inner = Entry(f, break_requested) /\ RunningLoops # <<>>
        BY <4>3, InnerLoop
      <4>5. Entry(f, break_requested).inside = TRUE
        BY <4>1 DEF Entry
      <4> QED
        BY <4>4, <4>5 DEF Promise!In
    <3> QED
      BY <3>1, <3>2
  <2> QED
    BY <2>7, <2>8 DEF Promise!Next, Promise!Begin
<1>8. CASE EndCall \/ EndLoop
  <2> DEFINE below == Front(frames)
             outer == LoopsOf(below)
  <2>1. frames # <<>> /\ frames' = below
    BY <1>8 DEF EndCall, EndLoop, Is
  <2>2. below \in Seq(Frame) /\ Top \in Frame /\ frames = Append(below, Top)
    BY <1>0, <2>1, Popped DEF Top
  <2> HIDE DEF below
  <2>3. ls = IF Top.shell \in Loops THEN Append(outer, Top) ELSE outer
    BY <2>2, LoopsAppend
  <2>4. LoopsOf(frames') = outer /\ outer \in Seq(Frame)
    BY <2>1, <2>2, LoopsTyped
  <2> HIDE DEF outer, ls
  <2>5. CASE EndCall
    <3>1. Top.shell \notin Loops /\ break_requested' = break_requested
      BY <2>5, CallableAssumption DEF EndCall
    <3>2. LoopsOf(frames') = LoopsOf(frames)
      BY <2>3, <2>4, <3>1 DEF ls
    <3> QED
      BY <3>1, <3>2, RunningNow
  <2>6. CASE EndLoop
    <3>1. Top.at = "left" /\ break_requested' = Top.saved_break
      BY <2>6 DEF EndLoop, Is
    <3>2. Top.shell \in Loops
      <4>1. Len(frames) \in Nat \ {0} /\ Top = frames[Len(frames)]
        BY <1>0, <2>1, Popped DEF Top, Last
      <4> QED
        BY <3>1, <4>1 DEF CallsInv, StackInv
    <3>3. Top.saved_break \in BOOLEAN
      BY <2>2 DEF Frame
    <3>4. /\ RunningLoops = Promised(Append(outer, Top), break_requested)
          /\ RunningLoops' = Promised(outer, Top.saved_break)
      BY <2>3, <2>4, <3>1, <3>2, RunningNow DEF ls
    <3>5. /\ RunningLoops = Append(Promised(outer, Top.saved_break), Entry(Top, break_requested))
          /\ Entry(Top, break_requested) \in Loop
          /\ Promised(outer, Top.saved_break) \in Seq(Loop)
      BY <1>0, <2>2, <2>4, <3>3, <3>4, PromisedAppend, PromisedTyped
    <3>6. /\ Promise!Inner = Entry(Top, break_requested) /\ RunningLoops # <<>>
          /\ Promise!Around = RunningLoops'
      BY <3>4, <3>5, InnerLoop
    <3>7. Entry(Top, break_requested).inside = FALSE /\ Entry(Top, break_requested).last
      BY <3>1 DEF Entry
    <3> QED
      BY <3>6, <3>7 DEF Promise!Next, Promise!End, Promise!In
  <2> QED
    BY <1>8, <2>5, <2>6
<1>9. ASSUME frames # <<>>, Top.at # "body"
      PROVE  Top.shell \in Loops
  <2>1. Len(frames) \in Nat \ {0} /\ Top = frames[Len(frames)]
    BY <1>0, <1>9, Popped DEF Top, Last
  <2> QED
    BY <1>9, <2>1 DEF CallsInv, StackInv
<1>10. CASE Iterate \/ NoMore
  <2>1. frames # <<>> /\ Top.at = "test" /\ Top.shell \in Loops /\ ~break_requested
    BY <1>9, <1>10 DEF Iterate, NoMore, Is, CallsInv, StackInv
  <2>2. \/ Promise!Next
        \/ /\ frames' \in {AtTop("body"), AtTop("left")} /\ break_requested' = break_requested
    BY <1>5, <1>10 DEF Iterate, NoMore, Abort
  <2>3. CASE frames' = AtTop("body") /\ break_requested' = break_requested
    BY <1>0, <2>1, <2>3, MoveKept
  <2>4. CASE frames' = AtTop("left") /\ break_requested' = break_requested
    BY <1>0, <2>1, <2>4, MoveKept
  <2> QED
    BY <2>2, <2>3, <2>4
<1>11. CASE EndIteration
  <2>1. /\ frames # <<>> /\ Top.at = "body" /\ Top.shell \in Loops
        /\ frames' = AtTop(IF break_requested THEN "left" ELSE "test")
        /\ break_requested' \in BOOLEAN /\ ~break_requested'
    BY <1>11 DEF EndIteration, Is
  <2>2. CASE break_requested
    <3>1. frames' = AtTop("left")
      BY <2>1, <2>2
    <3>2. Promise!Next
      BY <2>1, <2>2, <3>1, MoveKept
    <3> QED
      BY <3>2
  <2>3. CASE ~break_requested
    <3>1. frames' = AtTop("test")
      BY <2>1, <2>3
    <3>2. Promise!Next
      BY <2>1, <2>3, <3>1, MoveKept
    <3> QED
      BY <3>2
  <2> QED
    BY <2>2, <2>3
<1>12. CASE Runaway
  BY <1>12, FailKept DEF Runaway
<1>13. CASE BeginTick \/ BeginChain \/ EndChain \/ \E u \in Unions : Union(u) \/ Leave(u)
  BY <1>1, <1>13 DEF BeginTick, BeginChain, EndChain, Union, Leave
<1>14. CASE UNCHANGED vars
  BY <1>1, <1>14 DEF vars
<1> QED
  BY <1>4, <1>6, <1>7, <1>8, <1>10, <1>11, <1>12, <1>13, <1>14 DEF Next, ChainStep

(* Breaks are kept: the calls and loops of the simulator, with one pending     *)
(* request and what each loop saved of it, implement LoopBreaks, in which a    *)
(* Break ends the loop around it after its iteration and no other loop.        *)
THEOREM BreaksKept == Spec => BreakKept
<1>1. Init => Promise!Init
  <2> SUFFICES ASSUME Init PROVE RunningLoops = <<>>
    BY DEF Promise!Init
  <2>1. frames = <<>> /\ break_requested \in BOOLEAN
    BY DEF Init
  <2> QED
    BY <2>1, NoLoops, RunningNow
<1>2. CallsInv /\ [Next]_vars => [Promise!Next]_RunningLoops
  BY PromiseNext
<1> QED
  BY CallsHold, <1>1, <1>2, PTL DEF Spec, BreakKept, Promise!Spec
=============================================================================

---------------------------- MODULE RecordAssign ------------------------------
(***************************************************************************)
(* How the compiler lowers a whole-record assignment                       *)
(*     h = { ...h2, n: bump(), xs: [...ys, m], r: { p: n } }               *)
(* to a chain of gates, crates/wirescript/src/lower/record_assign.rs, with *)
(* the sources kept in source order by lower/ordered.rs: the sources that  *)
(* run code are lowered one by one, an earlier one that a later one's code *)
(* may change is held just before it, and then the fields are written in   *)
(* an order that copies each container before anything replaces it.        *)
(*                                                                         *)
(* The chain is a sequence of gates; splicing a hold in at a mark is       *)
(* inserting it there.  What a gate computes from a value is left out: a   *)
(* value is the storage it came from or the code that made it.  Left out   *)
(* are maps and arrays of records, values with a record of their own, refs *)
(* as sources, chips and signals.                                          *)
(***************************************************************************)
EXTENDS Integers, Sequences, FiniteSets, SequencesExt

CONSTANTS
    Scalars,   \* the storage that holds one value
    Arrays,    \* the storage that holds a sequence of them
    Fields,    \* the leaf fields of the record, as their gates were made
    Nested,    \* per field that is a record, its fields
    Literals   \* the literals that may be assigned

ConstantAssumption ==
    /\ ToSet(Fields) \subseteq Scalars \union Arrays
    /\ \A r \in DOMAIN Nested : Nested[r] \subseteq ToSet(Fields)

VARIABLES
    literal,  \* the literal: its fields in source order
    at,       \* the field that is planned next
    ctx,      \* the gates lowered, the reads that can be reused, the sources
              \* (the slots of Ordered) and the errors reported
    todo      \* the writes left, <<>> before they are known

vars == <<literal, at, ctx, todo>>

(* A field is a "src", which gives values to one key or, as a spread, to
   several; a "rebuild" of an array from its elements; or a "nested" literal.
   A source runs code that writes `writes`; unless `known` the compiler only
   sees that something of that kind is written. *)
Storage == Scalars \union Arrays

Keys(f) == IF f.kind = "src" THEN DOMAIN f.gives ELSE {f.key}

(* The field or element at a place: a field's index, in a nested literal the
   indices of both, and below a rebuild the element's. *)
At(i) ==
    LET f == literal[i[1]]
    IN  CASE Len(i) = 1        -> f
          [] f.kind # "nested" -> f.elems[i[2]]
          [] Len(i) = 2        -> f.fields[i[2]]
          [] OTHER             -> f.fields[i[2]].elems[i[3]]

FieldsAt(i) == IF literal[i].kind = "nested" THEN literal[i].fields ELSE <<>>

(* A key given the storage that it is. *)
IsOwn(leaf, k) == leaf.by = "name" /\ leaf.of = k

(* Evaluating it only reads. *)
RunsNothing(src) == src.writes = {} /\ \A k \in DOMAIN src.gives : src.gives[k].by # "call"

(* A binding: a storage gate, the output of a gate, or a pure value that reads
   a storage gate, or the var `id` a value is held in, whenever it is used. *)
Var(s)     == [by |-> "var", of |-> s, id |-> 0]
Output(id) == [by |-> "gate", of |-> "", id |-> id]
Live(s)    == [by |-> "live", of |-> s, id |-> 0]
HeldIn(id) == [by |-> "held", of |-> "", id |-> id]

-----------------------------------------------------------------------------
(* Gates. *)

Emit(c, gate) ==
    [c EXCEPT !.made = @ + 1, !.code = Append(@, [id |-> c.made + 1, gate |-> gate])]

Get(v)      == [op |-> "get", of |-> v]
Set(v, b)   == [op |-> "set", of |-> v, value |-> b]
Hold(b)     == [op |-> "hold", value |-> b]
Call(i, ws) == [op |-> "call", at |-> i, writes |-> ws]
Copy(a, b)  == [op |-> "copy", of |-> a, from |-> b]
Clear(a)    == [op |-> "clear", of |-> a]
Push(a, b)  == [op |-> "push", of |-> a, value |-> b]
Extend(a, b) == [op |-> "append", of |-> a, from |-> b]

(* A read of a var in an expression reuses one that nothing wrote since. *)
ReadVar(c, v) ==
    IF v \in DOMAIN c.gets THEN [c |-> c, b |-> Output(c.gets[v])]
    ELSE LET d == Emit(c, Get(v))
         IN  [c |-> [d EXCEPT !.gets = [u \in DOMAIN @ \union {v} |->
                                            IF u = v THEN d.made ELSE @[u]]],
              b |-> Output(d.made)]

(* What lowering one value gives. *)
Lower(c, leaf) ==
    CASE leaf.by = "name" -> [c |-> c, b |-> Var(leaf.of)]
      [] leaf.by = "read" -> ReadVar(c, leaf.of)
      [] leaf.by = "live" -> [c |-> c, b |-> Live(leaf.of)]
      [] leaf.by = "call" -> [c |-> c, b |-> Output(c.made)]

KeyOrder == Fields \o <<"item">>

LowerAll(c, gives) ==
    FoldLeft(LAMBDA r, k : LET l == Lower(r.c, gives[k])
                           IN  [c |-> l.c, gives |-> [j \in DOMAIN r.gives \union {k} |->
                                                        IF j = k THEN l.b ELSE r.gives[j]]],
             [c |-> c, gives |-> <<>>],
             SelectSeq(KeyOrder, LAMBDA k : k \in DOMAIN gives))

(* One source at a place: its code, after which no read is reused, then what
   it gives. *)
LowerSource(c, i) ==
    LET src == At(i)
    IN  LowerAll(IF RunsNothing(src) THEN c
                 ELSE [Emit(c, Call(i, src.writes)) EXCEPT !.gets = <<>>],
                 src.gives)

-----------------------------------------------------------------------------
(* Ordered. *)

Slot(i, k, state, gives, reads, copies) ==
    [at |-> i, key |-> k, state |-> state, gives |-> gives, reads |-> reads, copies |-> copies]

AddSlot(c, slot) == [c EXCEPT !.slots = Append(@, slot)]

(* Every slot as F makes it. *)
EachSlot(c, F(_)) ==
    [c EXCEPT !.slots = FoldLeft(LAMBDA ss, s : Append(ss, F(s)), <<>>, @)]

(* The vars a binding reads when it is used, and the arrays writing it copies. *)
BindingReads(b) == IF b.by \in {"var", "live"} THEN {b.of} \intersect Scalars ELSE {}
ReadsOf(gives)  == UNION {BindingReads(gives[k]) : k \in DOMAIN gives}

(* What code that writes `ws` may change: any storage of a kind if unknown. *)
Mayhap(ws, known) ==
    IF known THEN ws
    ELSE UNION {kind \in {Scalars, Arrays} : kind \intersect ws # {}}

(* Mutant: a value is held where it is written. *)
HoldLate(c, b) == [c |-> c, b |-> b]

(* A value fixed as it is now: a var is read, and a pure value that reads one
   goes to a var of its own. *)
HoldNow(c, b) ==
    CASE b.by = "var" /\ b.of \in Scalars ->
            LET d == Emit(c, Get(b.of)) IN [c |-> d, b |-> Output(d.made)]
      [] b.by = "live" ->
            LET d == Emit(c, Hold(b)) IN [c |-> d, b |-> HeldIn(d.made)]
      [] OTHER -> [c |-> c, b |-> b]

(* Fix one slot, lowering it first if it waited; what `held` has is reused. *)
Fix(f, n) ==
    LET slot == f.c.slots[n]
        low  == IF slot.state = "later" THEN LowerSource(f.c, slot.at)
                ELSE [c |-> f.c, gives |-> slot.gives]
        One(r, k) ==
            LET b == low.gives[k]
                h == HoldNow(r.c, b)
            IN  IF b \in DOMAIN r.held
                THEN [r EXCEPT !.gives = [@ EXCEPT ![k] = r.held[b]]]
                ELSE [c     |-> h.c,
                      gives |-> [r.gives EXCEPT ![k] = h.b],
                      held  |-> [d \in DOMAIN r.held \union {b} |->
                                    IF d = b THEN h.b ELSE r.held[d]]]
        all  == FoldLeft(One, [c |-> low.c, gives |-> low.gives, held |-> f.held],
                         SelectSeq(KeyOrder, LAMBDA k : k \in DOMAIN low.gives))
    IN  [c |-> [all.c EXCEPT !.slots[n].state = "fixed", !.slots[n].gives = all.gives],
         held |-> all.held]

FixAll(c, ns) == FoldLeft(Fix, [c |-> c, held |-> <<>>], ns).c

Waits(slot) == slot.state \in {"live", "later"}

Hit(c, changed) ==
    SelectSeq([n \in DOMAIN c.slots |-> n],
              LAMBDA n : Waits(c.slots[n]) /\ c.slots[n].reads \intersect changed # {})

(* F done where the chain stood at the mark; no read made since is reused. *)
AtMark(c, m, F(_)) ==
    LET d == F([c EXCEPT !.code = SubSeq(@, 1, m), !.gets = <<>>])
    IN  [d EXCEPT !.code = @ \o SubSeq(c.code, m + 1, Len(c.code)), !.gets = c.gets]

(* After the source lowered since the mark `m`: what its code may change is
   held before it, and an array it may change that is copied later is an
   error. *)
Settle(c, m, changed) ==
    LET Risky(s) == s.state = "copied" /\ s.copies \intersect changed # {}
        seen  == [EachSlot(c, LAMBDA s : IF Risky(s) THEN [s EXCEPT !.state = "gone"] ELSE s)
                    EXCEPT !.errors = @ \union {[why |-> "WS089", at |-> s.at] :
                                                  s \in {r \in ToSet(c.slots) : Risky(r)}}]
    IN  IF Hit(c, changed) = <<>> THEN seen
        ELSE AtMark(seen, m, LAMBDA d : FixAll(d, Hit(c, changed)))

-----------------------------------------------------------------------------
(* The plan of the literal. *)

Inert(f) ==
    CASE f.kind = "src"     -> RunsNothing(f)
      [] f.kind = "rebuild" -> \A e \in ToSet(f.elems) : e.kind = "spread" \/ RunsNothing(e)

(* Mutant: an element waits whatever it runs. *)
WaitsAlways(el) == TRUE

(* An element that waits for the rebuild. *)
WaitsForRebuild(el) == RunsNothing(el)

(* The last field of `fs` that supplies the key. *)
Latest(fs, k) == LET is == {i \in DOMAIN fs : k \in Keys(fs[i])}
                 IN  IF is = {} THEN 0 ELSE CHOOSE i \in is : \A j \in is : j <= i

SuppliedAfter(fs, i) == UNION {Keys(fs[j]) : j \in i + 1 .. Len(fs)}

Restricted(f, S) == [k \in DOMAIN f \intersect S |-> f[k]]

(* The vars that a source which waits reads. *)
LeafReads(gives) ==
    {gives[k].of : k \in {j \in DOMAIN gives : gives[j].by # "call" /\ ~IsOwn(gives[j], j)}}
        \intersect Scalars

(* A later field supplies a key: the earlier one's value and watch of it go. *)
Forget(c, fs, i, at0) ==
    LET ks      == Keys(fs[i])
        Prev(k) == LET js == {j \in 1 .. i - 1 : k \in Keys(fs[j])}
                   IN  IF js = {} THEN <<>> ELSE at0 \o <<CHOOSE j \in js : \A l \in js : l <= j>>
        Left(s) == Restricted(s.gives, DOMAIN s.gives \ {k \in ks : s.at = Prev(k)})
    IN  EachSlot(c, LAMBDA s :
            CASE s.state = "copied" /\ s.key \in ks /\ s.at = Prev(s.key) ->
                    [s EXCEPT !.state = "gone"]
              [] s.state = "live"  -> [s EXCEPT !.gives = Left(s), !.reads = ReadsOf(Left(s))]
              [] s.state = "fixed" -> [s EXCEPT !.gives = Left(s)]
              [] OTHER -> s)

(* One field that is no array literal: lowered now, unless it waits for the
   field its literal is nested in; a watch for each array it copies. *)
PlanSource(c, fs, i, at0, deferred) ==
    LET f      == fs[i]
        here   == at0 \o <<i>>
        low    == LowerSource(c, here)
        given  == {k \in DOMAIN f.gives : ~IsOwn(f.gives[k], k)}
        read   == Restricted(low.gives, given \ SuppliedAfter(fs, i))
        copied == SelectSeq(Fields, LAMBDA k : /\ k \in given
                                               /\ f.gives[k].by = "name"
                                               /\ f.gives[k].of \in Arrays)
        src    == IF deferred
                  THEN AddSlot(c, Slot(here, "", "later", <<>>, LeafReads(f.gives), {}))
                  ELSE AddSlot(Settle(low.c, Len(c.code), Mayhap(f.writes, f.known)),
                               Slot(here, "", "live", read, ReadsOf(read), {}))
    IN  FoldLeft(LAMBDA d, k : AddSlot(d, Slot(here, k, "copied", <<>>, {}, {f.gives[k].of})),
                 src, copied)

(* An array literal: an element that runs nothing waits for the rebuild. *)
PlanRebuild(c, fs, i, at0, deferred) ==
    LET f == fs[i]
        One(d, e) ==
            LET here == at0 \o <<i, e>>
                el   == f.elems[e]
                low  == LowerSource(d, here)
            IN  CASE el.kind = "spread" /\ el.of = f.key -> d
                  [] el.kind = "spread" /\ el.of # f.key ->
                        AddSlot(d, Slot(here, f.key, "copied", <<>>, {}, {el.of}))
                  [] el.kind # "spread" /\ (deferred \/ WaitsForRebuild(el)) ->
                        AddSlot(d, Slot(here, "", "later", <<>>, LeafReads(el.gives), {}))
                  [] OTHER ->
                        AddSlot(Settle(low.c, Len(d.code), Mayhap(el.writes, el.known)),
                                Slot(here, "", "live", low.gives, ReadsOf(low.gives), {}))
    IN  FoldLeft(One, c, [e \in DOMAIN f.elems |-> e])

PlanFlat(c, fs, i, at0, deferred) ==
    Forget(IF fs[i].kind = "src" THEN PlanSource(c, fs, i, at0, deferred)
                                 ELSE PlanRebuild(c, fs, i, at0, deferred), fs, i, at0)

(* A nested literal that runs nothing waits as a whole. *)
PlanField(c, i) ==
    LET f == literal[i]
    IN  IF f.kind # "nested" THEN PlanFlat(c, literal, i, <<>>, FALSE)
        ELSE Forget(FoldLeft(LAMBDA d, j : PlanFlat(d, f.fields, j, <<i>>,
                                                    \A g \in ToSet(f.fields) : Inert(g)),
                             c, [j \in DOMAIN f.fields |-> j]), literal, i, <<>>)

-----------------------------------------------------------------------------
(* The writes. *)

SlotAt(c, i) == LET ns == {n \in DOMAIN c.slots : c.slots[n].at = i /\ c.slots[n].key = ""}
                IN  IF ns = {} THEN 0 ELSE CHOOSE n \in ns : TRUE

(* A write sets a field from what a slot gives or rebuilds an array; "lower"
   lowers a source that waited. *)
Write(do, k, i) == [do |-> do, key |-> k, at |-> i]

(* The rebuilds of a literal that supply their field last, in source order,
   and the fields, in the order of their gates; a field on its own storage is
   not written. *)
RebuildsOf(fs, at0) ==
    LET is == SelectSeq([i \in DOMAIN fs |-> i],
                        LAMBDA i : fs[i].kind = "rebuild" /\ Latest(fs, fs[i].key) = i)
    IN  [n \in DOMAIN is |-> Write("rebuild", fs[is[n]].key, at0 \o <<is[n]>>)]

SetsOf(fs, at0) ==
    LET Given(k) == LET i == Latest(fs, k)
                    IN  /\ i # 0
                        /\ fs[i].kind = "src"
                        /\ ~IsOwn(fs[i].gives[k], k)
        ks == SelectSeq(Fields, Given)
    IN  [n \in DOMAIN ks |-> Write("set", ks[n], at0 \o <<Latest(fs, ks[n])>>)]

(* All of them: a nested literal's in its place among the rebuilds. *)
NestedWrites(i) ==
    RebuildsOf(FieldsAt(i), <<i>>) \o SetsOf(FieldsAt(i), <<i>>)

Listed(Inner(_)) ==
    FoldLeft(LAMBDA ws, i :
                IF Latest(literal, literal[i].key) # i THEN ws
                ELSE IF literal[i].kind = "nested" THEN ws \o Inner(i)
                ELSE Append(ws, Write("rebuild", literal[i].key, <<i>>)),
             <<>>, SelectSeq([i \in DOMAIN literal |-> i], LAMBDA i : literal[i].kind # "src"))
        \o SetsOf(literal, <<>>)

Flat == Listed(NestedWrites)

(* The arrays a write copies or spreads when it runs, and the one it replaces. *)
Copies(c, w) ==
    IF w.do = "rebuild"
    THEN {e.of : e \in {d \in ToSet(At(w.at).elems) : d.kind = "spread"}} \ {w.key}
    ELSE {At(w.at).gives[w.key].of} \intersect
             (IF At(w.at).gives[w.key].by = "name" THEN Arrays ELSE {})

Replaces(w) == {w.key} \intersect Arrays

(* Each array is copied before a write replaces it; those that copy each other
   in a circle come last. *)
WriteOrder(c, ws) ==
    LET Ready(left, w) == \A v \in ToSet(left) \ {w} : Copies(c, v) \intersect Replaces(w) = {}
        Next1(r) == LET n == SelectInSeq(r.left, LAMBDA w : Ready(r.left, w))
                    IN  IF n = 0 THEN r
                        ELSE [done |-> Append(r.done, r.left[n]), left |-> RemoveAt(r.left, n)]
        end == FoldLeft(LAMBDA r, n : Next1(r), [done |-> <<>>, left |-> ws], ws)
    IN  [order |-> end.done \o end.left, stuck |-> end.left]

(* The storage the assignment writes. *)
Written == {w.key : w \in ToSet(Flat)}

(* Hold each source that reads what the assignment writes. *)
FixChanged(c) == FixAll(c, Hit(c, Written))

-----------------------------------------------------------------------------
(* One write. *)

(* The binding a slot gives, lowered now if it waited. *)
ValueOf(c, n) ==
    IF n # 0 /\ c.slots[n].state = "later"
    THEN LET low == LowerSource(c, c.slots[n].at)
         IN  [low.c EXCEPT !.slots[n].state = "live", !.slots[n].gives = low.gives]
    ELSE c

(* Its port: a var is read now. *)
Port(c, b) ==
    IF b.by = "var" THEN LET d == Emit(c, Get(b.of)) IN [c |-> d, b |-> Output(d.made)]
    ELSE [c |-> c, b |-> b]

Forgotten(gets, v) == Restricted(gets, DOMAIN gets \ {v})

SetField(c, w) ==
    LET b == c.slots[SlotAt(c, w.at)].gives[w.key]
        p == Port(c, b)
    IN  IF w.key \in Arrays THEN Emit(c, Copy(w.key, b.of))
        ELSE [Emit(p.c, Set(w.key, p.b)) EXCEPT !.gets = Forgotten(@, w.key)]

(* A leading spread of the array itself keeps what is there; any other is an
   error. *)
Keeps(f) == f.elems # <<>> /\ f.elems[1].kind = "spread" /\ f.elems[1].of = f.key

RebuildArray(c, w) ==
    LET f == At(w.at)
        cleared == IF Keeps(f) THEN c ELSE Emit(c, Clear(w.key))
        One(d, e) ==
            IF f.elems[e].kind = "spread"
            THEN IF f.elems[e].of # f.key THEN Emit(d, Extend(w.key, f.elems[e].of))
                 ELSE IF e = 1 THEN d
                 ELSE [Emit(d, Extend(w.key, w.key)) EXCEPT
                         !.errors = @ \union {[why |-> "WS088", at |-> w.at]}]
            ELSE LET n == SlotAt(d, w.at \o <<e>>)
                     v == ValueOf(d, n)
                     p == Port(v, v.slots[n].gives["item"])
                 IN  Emit(p.c, Push(w.key, p.b))
    IN  FoldLeft(One, cleared, [e \in DOMAIN f.elems |-> e])

-----------------------------------------------------------------------------
Init ==
    /\ literal \in Literals
    /\ at = 1
    /\ ctx = [made |-> 0, code |-> <<>>, gets |-> <<>>, slots |-> <<>>, errors |-> {}]
    /\ todo = <<>>

(* plan, one field. *)
Plan ==
    /\ at <= Len(literal)
    /\ ctx' = PlanField(ctx, at)
    /\ at' = at + 1
    /\ UNCHANGED <<literal, todo>>

Planned == at = Len(literal) + 1

(* The same, the sources of a nested literal that waits lowered where it is
   written. *)
InPlace ==
    LET Lowers(i) == [j \in DOMAIN FieldsAt(i) |-> Write("lower", "", <<i, j>>)]
    IN  Listed(LAMBDA i : Lowers(i) \o NestedWrites(i))

(* assign_literal, once all is planned: the fields are written as listed, or,
   when a copy must come first, every source is read and the writes are put in
   order. *)
Arrange ==
    /\ Planned
    /\ at' = at + 1
    /\ LET c == FixChanged(ctx)
           o == WriteOrder(ctx, Flat)
       IN  IF o.stuck = <<>> /\ o.order = Flat
           THEN todo' = InPlace /\ ctx' = c
           ELSE /\ todo' = o.order
                /\ ctx' = [FixAll(c, SelectSeq([n \in DOMAIN c.slots |-> n],
                                               LAMBDA n : c.slots[n].state = "later"))
                             EXCEPT !.errors = @ \union (IF o.stuck = <<>> THEN {}
                                                         ELSE {[why |-> "WS087", at |-> <<>>]})]
    /\ UNCHANGED literal

WriteNext ==
    /\ todo # <<>>
    /\ todo' = Tail(todo)
    /\ LET w == Head(todo)
       IN  ctx' = CASE w.do = "lower"   -> ValueOf(ctx, SlotAt(ctx, w.at))
                    [] w.do = "rebuild" -> RebuildArray(ctx, w)
                    [] w.do = "set"     -> SetField(ctx, w)
    /\ UNCHANGED <<literal, at>>

Lowered == at > Len(literal) + 1 /\ todo = <<>>

Next == Plan \/ Arrange \/ WriteNext \/ (Lowered /\ UNCHANGED vars)

Spec == Init /\ [][Next]_vars

-----------------------------------------------------------------------------
(* What the chain does, and what the assignment means. *)

Old(s)     == [from |-> s, by |-> <<>>]
Made(w, i) == [from |-> w, by |-> i]

(* The contents of all storage before the assignment, and after code that
   writes `ws` ran. *)
Before     == [s \in Storage |-> IF s \in Arrays THEN <<Old(s)>> ELSE Old(s)]
After(st, ws, i) ==
    [s \in Storage |-> IF s \notin ws THEN st[s]
                       ELSE IF s \in Arrays THEN <<Made("code", i)>> ELSE Made("code", i)]

(* One gate; `out` is what the gates so far computed. *)
Execute(m, g) ==
    LET gate == g.gate
        Read(b) == CASE b.by \in {"gate", "held"} -> IF b.id \in DOMAIN m.out THEN m.out[b.id]
                                                    ELSE Old("unset")
                     [] b.by = "live" -> m.st[b.of]
        Puts(x) == [m EXCEPT !.out = [i \in DOMAIN @ \union {g.id} |-> IF i = g.id THEN x ELSE @[i]]]
    IN  CASE gate.op = "get"    -> Puts(m.st[gate.of])
          [] gate.op = "hold"   -> Puts(Read(gate.value))
          [] gate.op = "call"   -> [Puts(Made("result", gate.at))
                                      EXCEPT !.st = After(@, gate.writes, gate.at)]
          [] gate.op = "set"    -> [m EXCEPT !.st[gate.of] = Read(gate.value)]
          [] gate.op = "copy"   -> [m EXCEPT !.st[gate.of] = m.st[gate.from]]
          [] gate.op = "clear"  -> [m EXCEPT !.st[gate.of] = <<>>]
          [] gate.op = "push"   -> [m EXCEPT !.st[gate.of] = Append(@, Read(gate.value))]
          [] gate.op = "append" -> [m EXCEPT !.st[gate.of] = @ \o m.st[gate.from]]

Effect == FoldLeft(Execute, [st |-> Before, out |-> <<>>], ctx.code).st

(* A source: its code runs, then its values are read. *)
Evaluate(m, i, src) ==
    LET st == After(m.st, src.writes, i)
        Value(leaf) == IF leaf.by = "call" THEN Made("result", i) ELSE st[leaf.of]
    IN  [st |-> st, values |-> m.values @@ (i :> [k \in DOMAIN src.gives |-> Value(src.gives[k])])]

EvaluateFlat(m, f, i) ==
    IF f.kind = "src" THEN Evaluate(m, i, f)
    ELSE FoldLeft(LAMBDA n, e :
                    IF f.elems[e].kind = "spread"
                    THEN [n EXCEPT !.values = @ @@ (i \o <<e>> :> [all |-> n.st[f.elems[e].of]])]
                    ELSE Evaluate(n, i \o <<e>>, f.elems[e]),
                  m, [e \in DOMAIN f.elems |-> e])

(* The assignment as it reads: every source in source order, then every field
   the last source that supplies it gives. *)
Meaning ==
    LET m == FoldLeft(LAMBDA n, i :
                        IF literal[i].kind # "nested" THEN EvaluateFlat(n, literal[i], <<i>>)
                        ELSE FoldLeft(LAMBDA o, j : EvaluateFlat(o, literal[i].fields[j], <<i, j>>),
                                      n, [j \in DOMAIN literal[i].fields |-> j]),
                      [st |-> Before, values |-> <<>>], [i \in DOMAIN literal |-> i])
        Given(f, i, k) ==
            IF f.kind = "src" THEN m.values[i][k]
            ELSE FoldLeft(LAMBDA xs, e : IF f.elems[e].kind = "spread"
                                         THEN xs \o m.values[i \o <<e>>].all
                                         ELSE Append(xs, m.values[i \o <<e>>]["item"]),
                          <<>>, [e \in DOMAIN f.elems |-> e])
        Owner(k) == {r \in DOMAIN Nested : k \in Nested[r]}
        Sources(k) ==
            IF Owner(k) = {} THEN {<<Latest(literal, k)>>} \ {<<0>>}
            ELSE LET i == Latest(literal, CHOOSE r \in Owner(k) : TRUE)
                 IN  IF i = 0 THEN {} ELSE {<<i, Latest(literal[i].fields, k)>>} \ {<<i, 0>>}
    IN  [s \in Storage |-> IF s \notin ToSet(Fields) \/ Sources(s) = {} THEN m.st[s]
                           ELSE LET i == CHOOSE p \in Sources(s) : TRUE
                                IN  Given(At(i), i, s)]

-----------------------------------------------------------------------------
(* Properties. *)

TypeOK ==
    /\ at \in 1 .. Len(literal) + 2
    /\ \A i \in DOMAIN ctx.code : ctx.code[i].id \in 1 .. ctx.made
    /\ \A n \in DOMAIN ctx.slots :
          /\ ctx.slots[n].state \in {"live", "fixed", "later", "copied", "gone"}
          /\ ctx.slots[n].reads \subseteq Scalars
          /\ ctx.slots[n].copies \subseteq Arrays
    /\ \A e \in ctx.errors : e.why \in {"WS087", "WS088", "WS089"}

Places ==
    {<<i>> : i \in DOMAIN literal} \union UNION {{<<i, j>> : j \in DOMAIN FieldsAt(i)} : i \in DOMAIN literal}

(* The sources that run code. *)
Runs ==
    LET Rebuilt  == {p \in Places : At(p).kind = "rebuild"}
        Elements == UNION {{p \o <<e>> : e \in DOMAIN At(p).elems} : p \in Rebuilt}
    IN  {p \in Places \union Elements : At(p).kind \in {"src", "item"} /\ ~RunsNothing(At(p))}

(* The code of p comes after the place q. *)
Follows(p, q) ==
    \/ IsStrictPrefix(q, p)
    \/ \E n \in DOMAIN p \intersect DOMAIN q : SubSeq(p, 1, n - 1) = SubSeq(q, 1, n - 1) /\ p[n] > q[n]

(* The storage that a field at the place p names though it is its own. *)
OwnAt(p) ==
    CASE At(p).kind = "src"     -> {k \in DOMAIN At(p).gives : IsOwn(At(p).gives[k], k)}
      [] At(p).kind = "rebuild" -> IF Keeps(At(p)) THEN {At(p).key} ELSE {}
      [] At(p).kind = "nested"  -> {}

OwnChanged ==
    \E p \in Places, r \in Runs : Follows(r, p) /\ OwnAt(p) \intersect At(r).writes # {}

(* "A record assignment is a parallel assignment.  Its sources are evaluated in
   source order and every field sees the values from before the assignment",
   and "each keeps its value" whatever the code of a later one does: the chain
   leaves in all storage what the assignment means.  But where a field names its
   own storage and the code of a later source writes that. *)
Parallel == Lowered /\ ctx.errors = {} /\ ~OwnChanged => Effect = Meaning

(* The code of every source runs once and in source order, that of a source
   whose fields a later one supplies too. *)
CodeInOrder ==
    LET calls == SelectSeq(ctx.code, LAMBDA g : g.gate.op = "call")
    IN  /\ \A i \in 1 .. Len(calls) - 1 : Follows(calls[i + 1].gate.at, calls[i].gate.at)
        /\ Lowered => {g.gate.at : g \in ToSet(calls)} = Runs

(* The lowering of a record assignment: its code and its effect. *)
AssignRight == TypeOK /\ CodeInOrder /\ Parallel
=============================================================================

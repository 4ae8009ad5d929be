----------------------------- MODULE MCCompiler ------------------------------
(***************************************************************************)
(* Four parts of the compiler for TLC, in one run: `part` says which of    *)
(* them a behaviour is about, the others rest.  CycleCheck and Imports are  *)
(* extended and keep their names, the other two are instances.             *)
(***************************************************************************)
EXTENDS CycleCheck, Imports, MCMatches, TLC

CONSTANTS
    Checked,                                            \* the parts to check
    Scalars, Arrays, Fields, Nested, Literals,          \* RecordAssign
    Defs, PlainValues, Matches                          \* MatchArms

VARIABLES
    part,
    literal, at, ctx, todo,
    match, verdict, tree

Record == INSTANCE RecordAssign
Match  == INSTANCE MatchArms WITH Scalars <- PlainValues

recordVars == <<literal, at, ctx, todo>>
matchVars  == <<match, verdict, tree>>

SomeProgram == CHOOSE p \in Programs : p[Entry] # <<>>
SomeLiteral == CHOOSE l \in Literals : TRUE
SomeMatch   == CHOOSE m \in Matches : TRUE

(* The part that varies comes last. *)
PartsInit ==
    /\ part \in Checked
    /\ part = "match" \/ match = SomeMatch
    /\ part = "imports" \/ imports = SomeProgram
    /\ part = "record" \/ literal = SomeLiteral
    /\ part = "cycles" \/ (wires = {} /\ barriers = {})
    /\ \/ part = "cycles" /\ Match!Init /\ ImportsInit /\ Record!Init /\ Init
       \/ part = "imports" /\ Match!Init /\ Record!Init /\ Init /\ ImportsInit
       \/ part = "record" /\ Match!Init /\ ImportsInit /\ Init /\ Record!Init
       \/ part = "match" /\ Record!Init /\ ImportsInit /\ Init /\ Match!Init

CyclesOnly  == part = "cycles" /\ UNCHANGED <<part, importVars, recordVars, matchVars>>
ImportsOnly == part = "imports" /\ UNCHANGED <<part, vars, recordVars, matchVars>>
RecordOnly  == part = "record" /\ UNCHANGED <<part, vars, importVars, matchVars>>
MatchOnly   == part = "match" /\ UNCHANGED <<part, vars, importVars, recordVars>>

PartsNext ==
    \/ CyclesOnly /\ Next
    \/ ImportsOnly /\ ImportsNext
    \/ RecordOnly /\ Record!Next
    \/ MatchOnly /\ Match!Next

PartsSpec == PartsInit /\ [][PartsNext]_<<part, vars, importVars, recordVars, matchVars>>

ASSUME Record!ConstantAssumption

(* The programs: `main` imports `a`, `b` and `c`, and these one another. *)
D(k, n, u) == [kind |-> k, name |-> n, uses |-> u]
MCDecls ==
    [main |-> <<D("mod", "m", {"p", "h", "f"}), D("handler", "", {"m"})>>,
     a    |-> <<D("mod", "p", {"h", "B"}), D("mod", "q", {"p"}), D("handler", "", {"q"})>>,
     b    |-> <<D("var", "w", {}), D("test", "t", {"h"}), D("mod", "h", {"f", "w"})>>,
     c    |-> <<D("var", "k", {}), D("mod", "g", {"k"}), D("mod", "f", {"g", "k"}), D("handler", "", {"g"})>>]
All(f) == [file |-> f, kind |-> "all", binds |-> <<>>]
Ns(f, n) == [file |-> f, kind |-> "namespace", binds |-> n]
N(f, bs) == [file |-> f, kind |-> "named", binds |-> bs]
B(n, m) == [name |-> n, as |-> m]
ImportsOf == [a |-> {All("a"), Ns("a", "B"), N("a", <<B("q","q")>>), N("a", <<B("h", "x")>>)},
              b |-> {All("b"), Ns("b", "B"), N("b", <<B("h", "h")>>), N("b", <<B("h", "x"), B("t", "t")>>)},
              c |-> {All("c"), Ns("c", "B"), N("c", <<B("f", "f")>>), N("c", <<B("k", "x"), B("f", "f")>>)}]
UpTo(S, n) == UNION {[1 .. i -> S] : i \in 0 .. n}
MCPrograms ==
    {[main |-> p[1], a |-> p[2], b |-> p[3], c |-> p[4]] :
       p \in UpTo(ImportsOf.a \union ImportsOf.b \union ImportsOf.c, 2) \X UpTo(ImportsOf.b \union ImportsOf.c, 1)
             \X UpTo(ImportsOf.c \union {All("a")}, 1) \X UpTo({All("a"), All("main"), All("lost")}, 1)}

(* The literals: three fields or spreads of h, whose fields are n, xs, m, ys
   and the record r of p and ws; v and zs are storage of their own. *)
MCFields == <<"n", "xs", "m", "ys", "p", "ws">>
MCNested == [r |-> {"p", "ws"}]
L(b, s) == [by |-> b, of |-> s]
Src(g, w, kn) == [kind |-> "src", key |-> "", gives |-> g, writes |-> w, known |-> kn]
Plain(k, l) == Src(k :> l, {}, TRUE)
Calls(k, w, kn) == Src(k :> L("call", ""), w, kn)
Reb(k, es) == [kind |-> "rebuild", key |-> k, elems |-> es]
Item(l, w, kn) == [kind |-> "item", gives |-> [item |-> l], writes |-> w, known |-> kn]
Spr(a) == [kind |-> "spread", of |-> a, gives |-> <<>>, writes |-> {}, known |-> TRUE]
Nest(fs) == [kind |-> "nested", key |-> "r", fields |-> fs]

Plains(k) == {Plain(k, L(b, s)) : b \in {"name", "read", "live"}, s \in {"n", "v"}}
CallsOf(k) == {Calls(k, w, TRUE) : w \in {{}, {"n"}, {"v"}, {"zs"}, {"xs"}}}
                \union {Calls(k, w, FALSE) : w \in {{"v"}, {"zs"}}}

ReadN   == Item(L("read", "n"), {}, TRUE)
LiveV   == Item(L("live", "v"), {}, TRUE)
CallV   == Item(L("call", ""), {"v"}, TRUE)
CallZs  == Item(L("call", ""), {"zs"}, TRUE)
SetsN   == Item(L("read", "n"), {"n"}, TRUE)
Rebuilt == {<<e>> : e \in {ReadN, LiveV, CallV, CallZs, Spr("xs"), Spr("zs")}} \union
           {<<Spr("xs"), CallV>>, <<ReadN, CallV>>, <<ReadN, SetsN>>, <<CallZs, Spr("zs")>>,
            <<Spr("zs"), LiveV>>, <<LiveV, CallZs>>, <<ReadN, Spr("xs")>>}
Rebuilds(k) == {Reb(k, es) : es \in Rebuilt}
Arrayed(k)  == Rebuilds(k) \union {Plain(k, L("name", s)) : s \in {"xs", "ys", "zs"}}
Spreads ==
    {Src([n |-> L("name", "v"), xs |-> L("name", "zs")], {}, TRUE),
     Src([n |-> L("name", "n"), xs |-> L("name", "xs")], {}, TRUE)}
Nests ==
    {Nest(<<Plain("p", L("read", "n")), Reb("ws", <<Spr("xs")>>)>>),
     Nest(<<Reb("ws", <<Item(L("read", "p"), {}, TRUE)>>), Plain("p", L("live", "v"))>>),
     Nest(<<Plain("p", L("name", "v")), Calls("p", {"v"}, TRUE)>>)}
MCLiterals ==
    {<<f, g, h>> : f \in Plains("n") \union CallsOf("n") \union Arrayed("xs") \union Spreads \union Nests,
                   g \in Plains("m") \union CallsOf("n") \union Arrayed("ys") \union Nests,
                   h \in Plains("n") \union CallsOf("m") \union Rebuilds("ys")}

(* The properties of the instances, where each is commented. *)
AssignRight == Record!AssignRight

MatchRight       == Match!MatchRight
LetElseContinues == Match!LetElseContinues
SimulatedRight   == Match!SimulatedRight
=============================================================================

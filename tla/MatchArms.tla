------------------------------ MODULE MatchArms ------------------------------
(***************************************************************************)
(* `match` and `let ... else`: what the type checker says of the arms      *)
(* (typecheck/patterns.rs: which values none covers, which arm never       *)
(* runs), the decision tree the lowering builds of them                    *)
(* (lower/matchtree.rs), and the walks over that tree that make gates      *)
(* (lower/expr.rs, stmt.rs, pattern_test.rs) or run at compile time.       *)
(*                                                                         *)
(* A value has a tag, a slot per payload field and, for a string, its      *)
(* characters; the tag "stray" names no variant, as one read off a pin     *)
(* may.  A pattern is "wild", a "variant" with a sub-pattern per field (_  *)
(* for the fields it leaves out), a "test" of a single value (`on` are the *)
(* tags that pass, `parts` what a string pattern is made of, `key` how the *)
(* test is spelled), or an "or".  Programs are well typed: an enum is      *)
(* tested by its variants, any other value by a test.  No string pattern   *)
(* has two holes side by side (an error, WS122) or an empty literal.       *)
(***************************************************************************)
EXTENDS Naturals, SequencesExt

CONSTANTS
    Defs,     \* per enum, its variants as declared: name and types of the slots
    Scalars,  \* per type that is no enum and no bool, some values of it
    Matches   \* the programs: the type matched, and the arms, each a pattern
              \* and whether it has a guard

VARIABLES
    match,    \* the program
    verdict,  \* what the type checker says of it, once it has
    tree      \* its decision tree, once built

vars == <<match, verdict, tree>>

-----------------------------------------------------------------------------
(* Patterns. *)

Wild == [kind |-> "wild"]

RECURSIVE Alternatives(_)
Alternatives(p) ==
    IF p.kind = "or" THEN FlattenSeq([i \in DOMAIN p.alts |-> Alternatives(p.alts[i])])
    ELSE <<p>>

IsValueTest(p) == \A a \in Range(Alternatives(p)) : a.kind = "test"

IsEnum(ty) == ty \in DOMAIN Defs

(* The type checker treats true and false as constructors too. *)
Constructors(ty) ==
    CASE IsEnum(ty)  -> Defs[ty]
      [] ty = "bool" -> <<[name |-> "false", slots |-> <<>>], [name |-> "true", slots |-> <<>>]>>
      [] OTHER       -> <<>>

HeadOf(p, ty) ==
    CASE p.kind = "variant"               -> p.name
      [] p.kind = "test" /\ ty = "bool" -> p.key
      [] OTHER                            -> "none"

Expand(p, con) ==
    IF p.kind = "variant" THEN p.subs ELSE [i \in DOMAIN con.slots |-> Wild]

-----------------------------------------------------------------------------
(* What the type checker says.  A matrix is a set of rows, one sub-pattern *)
(* per column.                                                             *)

OrsApart(matrix) ==
    UNION {{<<a>> \o Tail(r) : a \in Range(Alternatives(Head(r)))} : r \in matrix}

(* Mutant: a test covers every test of the same column. *)
CoversByKind(m, q) == m.kind \in {"wild", q.kind}

(* Only a catch-all or the same test is known to cover a test. *)
OpaqueCovers(m, q) == m.kind = "wild" \/ (q.kind = "test" /\ m = q)

Used(matrix, ty) == {HeadOf(Head(r), ty) : r \in matrix} \ {"none"}

Specialize(matrix, ty, con) ==
    {Expand(Head(r), con) \o Tail(r) :
        r \in {r \in matrix : HeadOf(Head(r), ty) \in {con.name, "none"}}}

DefaultMatrix(matrix, ty) == {Tail(r) : r \in {r \in matrix : HeadOf(Head(r), ty) = "none"}}

RECURSIVE Useful(_, _, _)
Useful(matrix, row, types) ==
    IF types = <<>> THEN matrix = {}
    ELSE LET ty   == Head(types)
             rest == Tail(types)
             m    == OrsApart(matrix)
             cons == Range(Constructors(ty))
             By(p, con) == Useful(Specialize(m, ty, con), Expand(p, con) \o Tail(row), con.slots \o rest)
             One(p) ==
                CASE cons = {} ->
                        Useful({Tail(r) : r \in {r \in m : OpaqueCovers(Head(r), p)}}, Tail(row), rest)
                  [] cons # {} /\ HeadOf(p, ty) # "none" ->
                        \E con \in cons : con.name = HeadOf(p, ty) /\ By(p, con)
                  [] OTHER ->
                        IF \A con \in cons : con.name \in Used(m, ty) THEN \E con \in cons : By(p, con)
                        ELSE Useful(DefaultMatrix(m, ty), Tail(row), rest)
         IN \E p \in Range(Alternatives(Head(row))) : One(p)

(* A witness: one sub-pattern per column that no row of the matrix covers. *)
RECURSIVE Witnesses(_, _)
Witnesses(matrix, types) ==
    IF types = <<>> THEN IF matrix = {} THEN {<<>>} ELSE {}
    ELSE LET ty      == Head(types)
             rest    == Tail(types)
             m       == OrsApart(matrix)
             cons    == Range(Constructors(ty))
             missing == {con \in cons : con.name \notin Used(m, ty)}
             Built(con, subs) == [kind |-> "variant", name |-> con.name, subs |-> subs]
             Under(con) ==
                {<<Built(con, SubSeq(w, 1, Len(con.slots)))>> \o SubSeq(w, Len(con.slots) + 1, Len(w)) :
                    w \in Witnesses(Specialize(m, ty, con), con.slots \o rest)}
         IN CASE cons = {} ->
                    {<<Wild>> \o w : w \in
                        Witnesses({Tail(r) : r \in {r \in m : Head(r) = Wild}}, rest)}
              [] cons # {} /\ missing = {} -> UNION {Under(con) : con \in cons}
              [] OTHER ->
                    {<<Built(con, Expand(Wild, con))>> \o w :
                        con \in missing, w \in Witnesses(DefaultMatrix(m, ty), rest)}

(* Mutant: an arm with a guard covers what its pattern matches. *)
CoversGuarded(arm) == TRUE

(* A guard may be false, so an arm that has one covers nothing. *)
Covers(arm) == ~arm.guarded

(* The alternatives an enum's arms have covered before alternative j of    *)
(* arm i, in the order of the source.                                      *)
Before(arms, i, j) ==
    UNION {Range(Alternatives(arms[k].pat)) : k \in {k \in 1 .. i - 1 : Covers(arms[k])}}
      \union {Alternatives(arms[i].pat)[k] : k \in {k \in 1 .. j - 1 : Covers(arms[i])}}

(* An enum: the rows of each variant are kept apart, and the first         *)
(* catch-all is always of use, since a stray tag matches nothing before it.*)
EnumReachable(ty, arms, i) ==
    LET alts == Alternatives(arms[i].pat)
    IN \E j \in DOMAIN alts :
        LET seen == Before(arms, i, j)
        IN /\ Wild \notin seen
           /\ \/ alts[j] = Wild
              \/ \E con \in Range(Defs[ty]) :
                    /\ con.name = HeadOf(alts[j], ty)
                    /\ Useful({Expand(a, con) : a \in {a \in seen : HeadOf(a, ty) = con.name}},
                              Expand(alts[j], con), con.slots)

ValueReachable(ty, arms, i) ==
    Useful({<<arms[k].pat>> : k \in {k \in 1 .. i - 1 : Covers(arms[k])}}, <<arms[i].pat>>, <<ty>>)

Reachable(ty, arms, i) ==
    IF IsEnum(ty) THEN EnumReachable(ty, arms, i) ELSE ValueReachable(ty, arms, i)

Verdict(m) ==
    [missing     |-> {w[1] : w \in Witnesses(
                        {<<m.arms[i].pat>> : i \in {i \in DOMAIN m.arms : Covers(m.arms[i])}}, <<m.ty>>)},
     unreachable |-> {i \in DOMAIN m.arms : ~Reachable(m.ty, m.arms, i)}]

-----------------------------------------------------------------------------
(* String patterns: a part is a hole or the characters of a literal.       *)

Hole == <<>>

LitAt(s, at, lit) == at + Len(lit) <= Len(s) /\ SubSeq(s, at + 1, at + Len(lit)) = lit

FoundAt(s, from, lit) == {i \in from .. Len(s) : LitAt(s, i, lit)}

NoMatch == [ok |-> FALSE, holes |-> <<>>]

After(hole, m) == [m EXCEPT !.holes = <<hole>> \o @]

(* At compile time: the parts against s from `pos` on, and what each hole  *)
(* holds.  A literal after a hole is taken where it is found first, the    *)
(* last one where it ends the string.                                      *)
RECURSIVE MatchFrom(_, _, _)
MatchFrom(parts, s, pos) ==
    CASE parts = <<>> -> [ok |-> pos = Len(s), holes |-> <<>>]
      [] parts # <<>> /\ Head(parts) # Hole ->
            IF LitAt(s, pos, Head(parts)) THEN MatchFrom(Tail(parts), s, pos + Len(Head(parts)))
            ELSE NoMatch
      [] parts = <<Hole>> -> [ok |-> TRUE, holes |-> <<SubSeq(s, pos + 1, Len(s))>>]
      [] OTHER ->
            LET lit   == parts[2]
                at    == {i \in FoundAt(s, pos, lit) : Len(parts) = 2 => i = Len(s) - Len(lit)}
            IN IF at = {} THEN NoMatch
               ELSE After(SubSeq(s, pos + 1, Min(at)),
                          MatchFrom(SubSeq(parts, 3, Len(parts)), s, Min(at) + Len(lit)))

MatchConcat(parts, s) == MatchFrom(parts, s, 0)

(* The Find gate: the game looks from `start`, the simulator's law drops   *)
(* that input and looks from the beginning.  -1 when there is none.        *)
Find(s, lit, start, sim) ==
    LET at == FoundAt(s, IF sim THEN 0 ELSE start, lit) IN IF at = {} THEN 0 - 1 ELSE Min(at)

(* Mutant: the last literal may overlap what was matched before it. *)
EndFree(start, pos) == TRUE

(* The last literal begins where the one before it has ended. *)
EndsAfter(start, pos) == pos = 0 \/ start >= pos

(* The gates: every test is made and their conjunction is the condition. *)
RECURSIVE GatesFrom(_, _, _, _)
GatesFrom(parts, s, pos, sim) ==
    CASE parts = <<>> -> [ok |-> TRUE, holes |-> <<>>]
      [] parts # <<>> /\ Head(parts) # Hole ->
            LET m == GatesFrom(Tail(parts), s, pos + Len(Head(parts)), sim)
            IN [m EXCEPT !.ok = @ /\ LitAt(s, 0, Head(parts))]
      [] parts = <<Hole>> -> [ok |-> TRUE, holes |-> <<SubSeq(s, pos + 1, Len(s))>>]
      [] Len(parts) = 2 /\ Head(parts) = Hole ->
            LET start == Len(s) - Len(parts[2])
            IN [ok    |-> start >= 0 /\ LitAt(s, start, parts[2]) /\ EndsAfter(start, pos),
                holes |-> <<SubSeq(s, pos + 1, start)>>]
      [] OTHER ->
            LET at == Find(s, parts[2], pos, sim)
                m  == GatesFrom(SubSeq(parts, 3, Len(parts)), s, at + Len(parts[2]), sim)
            IN After(SubSeq(s, pos + 1, at), [m EXCEPT !.ok = @ /\ at >= 0])

GateConcat(parts, s, sim) ==
    IF \A i \in DOMAIN parts : parts[i] # Hole THEN [ok |-> s = FlattenSeq(parts), holes |-> <<>>]
    ELSE GatesFrom(parts, s, 0, sim)

-----------------------------------------------------------------------------
(* The decision tree.  A column has the path from the value matched to the *)
(* slot it stands for, each step a variant and a field, and its type; a    *)
(* row has its arm, whether that has a guard, and a cell per column.       *)

Fail == [node |-> "fail"]

RECURSIVE SplitRow(_, _)
SplitRow(cols, row) ==
    LET ors == {i \in DOMAIN cols : IsEnum(cols[i].ty) /\ row.cells[i].kind = "or"}
    IN IF ors = {} THEN <<row>>
       ELSE LET i    == Min(ors)
                alts == Alternatives(row.cells[i])
            IN FlattenSeq([a \in DOMAIN alts |-> SplitRow(cols, [row EXCEPT !.cells[i] = alts[a]])])

ExpandEnumOrs(cols, rows) == FlattenSeq([r \in DOMAIN rows |-> SplitRow(cols, rows[r])])

(* The tests a row makes of the columns that are no enum. *)
RECURSIVE TestsOf(_, _)
TestsOf(cols, cells) ==
    IF cols = <<>> THEN <<>>
    ELSE (IF IsValueTest(Head(cells)) THEN <<[path |-> Head(cols).path, test |-> Head(cells)]>> ELSE <<>>)
         \o TestsOf(Tail(cols), Tail(cells))

(* The columns, or cells, around column i. *)
Ahead(s, i) == SubSeq(s, 1, i - 1)
Behind(s, i) == SubSeq(s, i + 1, Len(s))

PayloadColumns(col, con) ==
    [f \in DOMAIN con.slots |-> [path |-> Append(col.path, <<con.name, f>>), ty |-> con.slots[f]]]

SpecializeCols(cols, i, con) == Ahead(cols, i) \o PayloadColumns(cols[i], con) \o Behind(cols, i)

(* Mutant: the rows that name the variant, then the rest. *)
MatchingFirst(rows, i, name) ==
    SelectSeq(rows, LAMBDA r : r.cells[i] # Wild /\ r.cells[i].name = name)
      \o SelectSeq(rows, LAMBDA r : r.cells[i] = Wild)

(* The rows a case is made of, in the order of the source. *)
RowsOf(rows, i, name) ==
    SelectSeq(rows, LAMBDA r : r.cells[i] = Wild \/ r.cells[i].name = name)

SpecializeRows(rows, i, con) ==
    LET own == RowsOf(rows, i, con.name)
    IN [r \in DOMAIN own |->
          [own[r] EXCEPT !.cells = Ahead(@, i) \o Expand(@[i], con) \o Behind(@, i)]]

DefaultRows(rows, i) ==
    LET wilds == SelectSeq(rows, LAMBDA r : r.cells[i] = Wild)
    IN [r \in DOMAIN wilds |-> [wilds[r] EXCEPT !.cells = Ahead(@, i) \o Behind(@, i)]]

(* Variants that lead to the same decision share a case. *)
AddCase(cases, name, sub) ==
    LET same == {c \in DOMAIN cases : cases[c].sub = sub}
    IN IF same = {} THEN Append(cases, [keys |-> {name}, sub |-> sub])
       ELSE [cases EXCEPT ![Min(same)].keys = @ \union {name}]

(* Mutant: no default once every variant is named, whatever is left. *)
NoDefaultIfComplete(complete, wilds) == ~complete

(* A row that names no variant still catches a stray tag. *)
NeedsDefault(complete, wilds) == ~complete \/ wilds # <<>>

RECURSIVE Compile(_, _), Cases(_, _, _, _)
(* The cases of the variants `cons` that some row names, in their order. *)
Cases(cols, rows, i, cons) ==
    IF cons = <<>> THEN <<>>
    ELSE LET con  == cons[Len(cons)]
             rest == Cases(cols, rows, i, SubSeq(cons, 1, Len(cons) - 1))
         IN IF \A r \in Range(rows) : r.cells[i] = Wild \/ r.cells[i].name # con.name THEN rest
            ELSE AddCase(rest, con.name,
                         Compile(SpecializeCols(cols, i, con), SpecializeRows(rows, i, con)))

(* The first enum column the first row constrains decides; without one the *)
(* row is a leaf, or a check with the later rows as its other branch.      *)
Compile(cols, allRows) ==
    LET rows   == ExpandEnumOrs(cols, allRows)
        first  == Head(rows)
        picked == {i \in DOMAIN cols : IsEnum(cols[i].ty) /\ first.cells[i] # Wild}
        tests  == TestsOf(cols, first.cells)
    IN CASE rows = <<>> -> Fail
         [] rows # <<>> /\ picked = {} ->
              IF tests = <<>> /\ ~first.guarded THEN [node |-> "leaf", arm |-> first.arm]
              ELSE [node |-> "check", tests |-> tests, arm |-> first.arm, guarded |-> first.guarded,
                    otherwise |-> Compile(cols, Tail(rows))]
         [] OTHER ->
              LET i     == Min(picked)
                  named == {r.cells[i].name : r \in {r \in Range(rows) : r.cells[i] # Wild}}
                  wilds == DefaultRows(rows, i)
                  all   == \A con \in Range(Defs[cols[i].ty]) : con.name \in named
              IN [node    |-> "switch",
                  path    |-> cols[i].path,
                  cases   |-> Cases(cols, rows, i, Defs[cols[i].ty]),
                  default |-> IF NeedsDefault(all, wilds)
                              THEN Compile(Ahead(cols, i) \o Behind(cols, i), wilds) ELSE Fail]

TreeOf(m) ==
    Compile(<<[path |-> <<>>, ty |-> m.ty]>>,
            [i \in DOMAIN m.arms |->
                [arm |-> i, guarded |-> m.arms[i].guarded, cells |-> <<m.arms[i].pat>>]])

-----------------------------------------------------------------------------
(* The walks.  A value is followed from branch to branch of the tree.      *)

RECURSIVE ValueAt(_, _)
ValueAt(v, path) ==
    IF path = <<>> THEN v ELSE ValueAt(v.slots[path[1][2]], Tail(path))

(* `how` a string pattern is tested: at compile time, by the game's gates, *)
(* or by the gates as the simulator runs them.                             *)
Passes(p, v, how) ==
    \E a \in Range(Alternatives(p)) :
        IF a.parts = <<>> THEN v.tag \in a.on
        ELSE IF how = "const" THEN MatchConcat(a.parts, v.text).ok
        ELSE GateConcat(a.parts, v.text, how = "sim").ok

Branches(d) ==
    CASE d.node = "check"  -> <<[node |-> "leaf", arm |-> d.arm], d.otherwise>>
      [] d.node = "switch" -> Append([c \in DOMAIN d.cases |-> d.cases[c].sub], d.default)
      [] OTHER             -> <<>>

(* The branch a value takes, where the guards of the arms `held` hold. *)
BranchOf(d, v, held, how) ==
    IF d.node = "check"
    THEN IF /\ \A t \in Range(d.tests) : Passes(t.test, ValueAt(v, t.path), how)
            /\ d.guarded => d.arm \in held
         THEN 1 ELSE 2
    ELSE LET hit == {c \in DOMAIN d.cases : ValueAt(v, d.path).tag \in d.cases[c].keys}
         IN IF hit = {} THEN Len(d.cases) + 1 ELSE Min(hit)

(* The arm whose value or statements a value gets, 0 for none: the Selects *)
(* of a match that is a value, the branches of one that is a statement,    *)
(* and the walk over a value known at compile time.                        *)
RECURSIVE Take(_, _, _, _)
Take(d, v, held, how) ==
    CASE d.node = "leaf" -> d.arm
      [] d.node = "fail" -> 0
      [] OTHER           -> Take(Branches(d)[BranchOf(d, v, held, how)], v, held, how)

(* A match whose value is a record has no value to fall back on: what      *)
(* fails gives no fields, the last case of a switch then needs no test and *)
(* so does an arm no other follows.                                        *)
RECURSIVE HasFields(_)
HasFields(d) ==
    CASE d.node = "fail"   -> FALSE
      [] d.node = "switch" -> \A c \in DOMAIN d.cases : HasFields(d.cases[c].sub)
      [] OTHER             -> TRUE

RECURSIVE TakeFields(_, _, _)
TakeFields(d, v, held) ==
    IF d.node = "leaf" THEN d.arm
    ELSE LET to  == BranchOf(d, v, held, "gates")
             n   == Len(Branches(d))
             got == IF to = n /\ ~HasFields(Branches(d)[n]) THEN n - 1 ELSE to
         IN TakeFields(Branches(d)[got], v, held)

None == <<0>>

(* let ... else: the leaf the code after it continues from, as the branches*)
(* that lead there.  Each `else` diverges; of the leaves of two branches   *)
(* that both match, only the first is kept.                                *)
RECURSIVE Continues(_)
Continues(d) ==
    LET ways == {i \in DOMAIN Branches(d) : Continues(Branches(d)[i]) # None}
    IN CASE d.node = "leaf" -> <<>>
         [] d.node # "leaf" /\ ways = {} -> None
         [] OTHER -> <<Min(ways)>> \o Continues(Branches(d)[Min(ways)])

RECURSIVE LeafOf(_, _)
LeafOf(d, v) ==
    CASE d.node = "leaf" -> <<>>
      [] d.node = "fail" -> None
      [] OTHER -> LET i == BranchOf(d, v, {}, "gates") IN <<i>> \o LeafOf(Branches(d)[i], v)

-----------------------------------------------------------------------------
(* The behaviour: a program is checked, then lowered. *)

Unset == [missing |-> {Wild}, unreachable |-> {}]

Init ==
    /\ match \in Matches
    /\ verdict = Unset
    /\ tree = Fail

Analyze ==
    /\ verdict = Unset
    /\ verdict' = Verdict(match)
    /\ UNCHANGED <<match, tree>>

Build ==
    /\ verdict # Unset
    /\ tree = Fail
    /\ tree' = TreeOf(match)
    /\ UNCHANGED <<match, verdict>>

Done == tree # Fail /\ UNCHANGED vars

Next == Analyze \/ Build \/ Done

Spec == Init /\ [][Next]_vars

-----------------------------------------------------------------------------
(* The values a program can meet: declared ones, and those with a stray    *)
(* tag anywhere.                                                           *)

RECURSIVE ValuesOf(_, _), RowsOfValues(_, _)
RowsOfValues(types, stray) ==
    IF types = <<>> THEN {<<>>}
    ELSE {<<v>> \o r : v \in ValuesOf(Head(types), stray), r \in RowsOfValues(Tail(types), stray)}

ValuesOf(ty, stray) ==
    IF ty \in DOMAIN Scalars THEN Scalars[ty]
    ELSE UNION {{[tag |-> con.name, slots |-> r, text |-> <<>>] : r \in RowsOfValues(con.slots, stray)} :
                   con \in Range(Constructors(ty))}
         \union (IF stray /\ IsEnum(ty) THEN {[tag |-> "stray", slots |-> <<>>, text |-> <<>>]} ELSE {})

Types == DOMAIN Defs \union DOMAIN Scalars \union {"bool"}

Declared == [ty \in Types |-> ValuesOf(ty, FALSE)]
AtRuntime == [ty \in Types |-> ValuesOf(ty, TRUE)]

(* A string is made of the parts if it can be cut into them. *)
RECURSIVE MadeOf(_, _)
MadeOf(parts, s) ==
    CASE parts = <<>> -> s = <<>>
      [] parts # <<>> /\ Head(parts) = Hole ->
            \E n \in 0 .. Len(s) : MadeOf(Tail(parts), SubSeq(s, n + 1, Len(s)))
      [] OTHER -> /\ LitAt(s, 0, Head(parts))
                  /\ MadeOf(Tail(parts), SubSeq(s, Len(Head(parts)) + 1, Len(s)))

RECURSIVE Fits(_, _)
Fits(p, v) ==
    CASE p.kind = "wild"    -> TRUE
      [] p.kind = "variant" -> v.tag = p.name /\ \A i \in DOMAIN p.subs : Fits(p.subs[i], v.slots[i])
      [] p.kind = "or"      -> \E a \in Range(p.alts) : Fits(a, v)
      [] OTHER              -> IF p.parts = <<>> THEN v.tag \in p.on ELSE MadeOf(p.parts, v.text)

(* The first arm that fits and whose guard, if it has one, holds. *)
FirstMatch(v, held) ==
    LET fit == {i \in DOMAIN match.arms : /\ Fits(match.arms[i].pat, v)
                                          /\ match.arms[i].guarded => i \in held}
    IN IF fit = {} THEN 0 ELSE Min(fit)

Guards == SUBSET {i \in DOMAIN match.arms : match.arms[i].guarded}

-----------------------------------------------------------------------------
(* Properties. *)

Exhaustive == verdict.missing = {}

(* Every walk over the decision tree takes the first arm that fits: the    *)
(* gates and the walk at compile time for any value, stray tags among      *)
(* them, and any guards; a match that is a record, which has nothing to    *)
(* fall back on, for every declared value if the arms are exhaustive       *)
(* (sharing cases, dropping tests and defaults must lose none of this).    *)
WalksRight ==
    \A held \in Guards :
        /\ \A v \in AtRuntime[match.ty], how \in {"const", "gates"} :
              Take(tree, v, held, how) = FirstMatch(v, held)
        /\ Exhaustive =>
              /\ HasFields(tree)
              /\ \A v \in Declared[match.ty] : TakeFields(tree, v, held) = FirstMatch(v, held)

LetElse == Len(match.arms) = 1 /\ ~match.arms[1].guarded

RECURSIVE HasOr(_)
HasOr(p) == p.kind = "or" \/ (p.kind = "variant" /\ \E q \in Range(p.subs) : HasOr(q))

(* After a let ... else the code goes on for the values the pattern fits.  *)
LetElseContinues ==
    tree # Fail /\ LetElse =>
        \A v \in AtRuntime[match.ty] :
            Fits(match.arms[1].pat, v) <=> LeafOf(tree, v) = Continues(tree)

RECURSIVE StringTests(_)
StringTests(p) ==
    CASE p.kind = "variant" -> UNION {StringTests(q) : q \in Range(p.subs)}
      [] p.kind = "or"      -> UNION {StringTests(q) : q \in Range(p.alts)}
      [] p.kind = "test"    -> {p.parts} \ {<<>>}
      [] OTHER              -> {}

RECURSIVE Rebuilt(_, _)
Rebuilt(parts, holes) ==
    CASE parts = <<>>        -> <<>>
      [] parts # <<>> /\ Head(parts) = Hole -> Head(holes) \o Rebuilt(Tail(parts), Tail(holes))
      [] OTHER               -> Head(parts) \o Rebuilt(Tail(parts), holes)

(* A string pattern passes where the string can be cut into its parts, at  *)
(* compile time as in the gates; the holes are then the same, and put back *)
(* between the literals they give the string.                              *)
StringsRight ==
    \A i \in DOMAIN match.arms : \A parts \in StringTests(match.arms[i].pat) :
        \A v \in Scalars["string"] :
            LET folded == MatchConcat(parts, v.text)
                gates  == GateConcat(parts, v.text, FALSE)
            IN /\ folded.ok <=> MadeOf(parts, v.text)
               /\ gates.ok <=> folded.ok
               /\ folded.ok => /\ gates.holes = folded.holes
                              /\ Rebuilt(parts, folded.holes) = v.text

(* The arm that runs is the one the source says: see the parts. *)
ArmsRight ==
    tree # Fail =>
        /\ WalksRight
        /\ StringsRight
        /\ HasOr(match.arms[1].pat) \/ LetElseContinues

(* In the simulator too, a string pattern passes where the string can be   *)
(* cut into its parts.                                                     *)
SimulatedRight ==
    tree # Fail =>
        \A v \in AtRuntime[match.ty], held \in Guards :
            Take(tree, v, held, "sim") = Take(tree, v, held, "const")

Covered(v) == \E i \in DOMAIN match.arms : ~match.arms[i].guarded /\ Fits(match.arms[i].pat, v)

RECURSIVE Tests(_, _)
(* Whether the pattern tests a value with more than a bool's two choices. *)
Tests(p, ty) ==
    CASE p.kind = "variant" ->
            \E con \in Range(Defs[ty]) :
                con.name = p.name /\ \E f \in DOMAIN p.subs : Tests(p.subs[f], con.slots[f])
      [] p.kind = "or"   -> \E a \in Range(p.alts) : Tests(a, ty)
      [] p.kind = "test" -> ty # "bool"
      [] OTHER           -> FALSE

(* What the type checker reports is true: no pattern is missing exactly    *)
(* when an arm without a guard fits every declared value; each pattern it  *)
(* would add fits a value no arm covers; an arm it calls unreachable is    *)
(* the first that fits for no declared value; and one it calls reachable,  *)
(* where only tags decide, does run for some value.                        *)
CoverageRight ==
    verdict # Unset =>
        /\ verdict.missing = {} <=> \A v \in Declared[match.ty] : Covered(v)
        /\ \A w \in verdict.missing : \E v \in Declared[match.ty] : Fits(w, v) /\ ~Covered(v)
        /\ \A i \in verdict.unreachable : \A v \in Declared[match.ty] : FirstMatch(v, {i}) # i
        /\ \/ \E i \in DOMAIN match.arms : Tests(match.arms[i].pat, match.ty)
           \/ \A i \in DOMAIN match.arms \ verdict.unreachable :
                 \E v \in AtRuntime[match.ty] : FirstMatch(v, {i}) = i

(* What is reported of the arms is true, and the arm that runs is the one the
   source says. *)
MatchRight == CoverageRight /\ ArmsRight
=============================================================================

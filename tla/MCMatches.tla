------------------------------ MODULE MCMatches ------------------------------
(***************************************************************************)
(* The programs MatchArms is checked on: up to three arms over enums,      *)
(* bools, ints and strings, at most one of the first two with a guard.     *)
(***************************************************************************)
EXTENDS Naturals, Sequences

(* A variant without fields, one whose fields are tested by tags and tests,
   two that may share a case, and enums in enums. *)
Con(n, ts) == [name |-> n, slots |-> ts]
MCDefs ==
    [Side |-> <<Con("L", <<>>), Con("R", <<>>)>>,
     Duo  |-> <<Con("One", <<>>), Con("Two", <<"Side", "bool">>)>>,
     Pair |-> <<Con("Of", <<"Duo", "Side">>)>>,
     Cmd  |-> <<Con("Quit", <<>>), Con("Move", <<"int">>), Con("Both", <<"Side", "Side">>),
                Con("Say", <<"string">>)>>]

Texts == UNION {[1 .. n -> {"a", "b"}] : n \in 0 .. 3} \union {<<"c">>, <<"a", "b", "a", "b">>}
Of(t, s) == [tag |-> t, slots |-> <<>>, text |-> s]
MCPlainValues ==
    [int    |-> {Of(t, <<>>) : t \in {"0", "1", "2"}},
     string |-> {Of("text", s) : s \in Texts}]

Blank == [kind |-> "wild"]
Var(n, ps) == [kind |-> "variant", name |-> n, subs |-> ps]
Test(k, on) == [kind |-> "test", key |-> k, on |-> on, parts |-> <<>>]
Str(ps) == [kind |-> "test", key |-> "text", on |-> {}, parts |-> ps]
Or(p, q) == [kind |-> "or", alts |-> <<p, q>>]

Left   == Var("L", <<>>)
Right  == Var("R", <<>>)
Yes    == Test("true", {"true"})
No     == Test("false", {"false"})
Lit1   == Test("1", {"1"})
Lit2   == Test("2", {"2"})
Range1 == Test("1..3", {"1", "2"})

Duos ==
    {Blank, Var("One", <<>>), Or(Var("Two", <<Left, Yes>>), Var("Two", <<Right, No>>)),
     Or(Var("One", <<>>), Var("Two", <<Blank, Yes>>))}
    \union {Var("Two", <<a, b>>) : a \in {Blank, Left, Right}, b \in {Blank, Yes, No}}
Pairs ==
    {Blank} \union
    {Var("Of", <<d, s>>) : d \in {Var("One", <<>>), Var("Two", <<Left, Blank>>), Var("Two", <<Blank, Yes>>)},
                           s \in {Blank, Left, Or(Right, Left)}}
Cmds ==
    {Blank, Var("Quit", <<>>), Var("Move", <<Blank>>), Var("Move", <<Lit1>>), Var("Move", <<Range1>>),
     Var("Both", <<Left, Blank>>), Var("Both", <<Blank, Right>>), Var("Both", <<Or(Left, Right), Blank>>),
     Var("Say", <<Blank>>), Var("Say", <<Str(<<<<"a">>, <<>>>>)>>),
     Or(Var("Quit", <<>>), Var("Move", <<Lit2>>)), Or(Var("Move", <<Lit1>>), Var("Move", <<Lit2>>))}
Ints  == {Blank, Lit1, Lit2, Range1, Or(Lit1, Lit2), Or(Lit1, Blank)}
Bools == {Blank, Yes, No, Or(Yes, No)}

(* A hole is empty, as no literal is. *)
Strings ==
    LET A == <<"a">>
        B == <<"b">>
        O == <<>>
    IN {Blank, Or(Str(<<A, O>>), Str(<<B, O>>))} \union
       {Str(ps) : ps \in {<<A, O>>, <<O, A>>, <<O, A, O>>, <<A, O, A>>, <<A, O, B, O>>, <<A \o B>>,
                          <<O, A \o B>>, <<A, O, A, O>>, <<A, O, A, O, B>>, <<O, A, O, B>>}}

MatchesOf(ty, ps, n) ==
    {[ty |-> ty, arms |-> [i \in DOMAIN q |-> [pat |-> q[i], guarded |-> i = g]]] :
        q \in UNION {[1 .. k -> ps] : k \in 1 .. n}, g \in 0 .. 2}
MatchPrograms ==
    MatchesOf("Duo", Duos, 3) \union MatchesOf("Pair", Pairs, 3) \union MatchesOf("Cmd", Cmds, 3)
      \union MatchesOf("int", Ints, 3) \union MatchesOf("bool", Bools, 3)
      \union MatchesOf("string", Strings, 2)
=============================================================================

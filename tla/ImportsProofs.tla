---------------------------- MODULE ImportsProofs ----------------------------
(***************************************************************************)
(* Proofs about Imports, for all files, whatever they declare and import,  *)
(* in circles too: each file is parsed once, the cache ends as what the    *)
(* entry file reaches, circles are reported, no declaration is merged      *)
(* twice under one name, and every step leaves less to do.                 *)
(*                                                                         *)
(* The folds of the merges are taken step by step (Counting): what the     *)
(* start has and each step keeps, the result has.  That the resolver's     *)
(* stack finds what is reached is shown as in CycleCheckProofs, by sets    *)
(* that no import leads out of.                                            *)
(***************************************************************************)
EXTENDS Imports, FiniteSetTheorems, SequenceTheorems, WellFoundedInduction, TLAPS

(* Sets of naturals have least elements. *)
LEMMA LeastNatural ==
    ASSUME NEW ns, ns \subseteq Nat, ns # {}
    PROVE  \E n \in ns : \A m \in ns : n <= m
<1>1. PICK n \in ns : \A m \in ns : ~ (<<m, n>> \in OpToRel(<, Nat))
  BY NatLessThanWellFounded, WFMin
<1>2. \A m \in ns : ~ (m < n)
  BY <1>1 DEF OpToRel
<1> QED
  BY <1>2

(* What holds of 0 and goes on from each number to the next holds up to `n`. *)
LEMMA Counting ==
    ASSUME NEW n \in Nat, NEW ks, 0 \in ks,
           \A k \in 0 .. n - 1 : k \in ks => k + 1 \in ks
    PROVE  0 .. n \subseteq ks
<1> SUFFICES ASSUME NEW m \in 0 .. n, m \notin ks PROVE FALSE
  OBVIOUS
<1> DEFINE out == (0 .. n) \ ks
<1>1. out \subseteq Nat /\ out # {}
  OBVIOUS
<1>2. PICK least \in out : \A k \in out : least <= k
  BY <1>1, LeastNatural
<1>3. least - 1 \in 0 .. n - 1 /\ least - 1 \in ks
  BY <1>2
<1> QED
  BY <1>2, <1>3

(* The greatest of some numbers up to `n`. *)
LEMMA Greatest ==
    ASSUME NEW n \in Nat, NEW ks, ks \subseteq 0 .. n, ks # {}
    PROVE  Max(ks) \in ks /\ \A k \in ks : k <= Max(ks)
<1> DEFINE below == {n - k : k \in ks}
<1>1. below \subseteq Nat /\ below # {}
  <2>1. \A k \in ks : n - k \in Nat
    OBVIOUS
  <2> QED
    BY <2>1
<1>2. PICK least \in below : \A m \in below : least <= m
  BY <1>1, LeastNatural
<1>3. PICK most \in ks : least = n - most
  BY <1>2
<1>4. \A k \in ks : most >= k
  BY <1>2, <1>3
<1> QED
  BY <1>4 DEF Max

-----------------------------------------------------------------------------
(* Folds.  A step on the values of a set stays in it. *)

(* `g` has the values of a fold over `n` elements, taken one after the other. *)
FoldsOver(g, n, values, base, step) ==
    /\ g \in [SUBSET (1 .. n) -> values]
    /\ \A s \in SUBSET (1 .. n) :
          g[s] = IF s = {} THEN base ELSE step[<<g[s \ {Max(s)}], Max(s)>>]

(* `g` has the values of a step that is repeated `n` times. *)
Repeats(g, n, values, base, step) ==
    /\ g \in [0 .. n -> values]
    /\ \A k \in 0 .. n : g[k] = IF k = 0 THEN base ELSE step[g[k - 1]]

(* The recursion of a fold has a solution. *)
LEMMA FoldExists ==
    ASSUME NEW n \in Nat, NEW values, NEW base \in values,
           NEW step \in [values \X (1 .. n) -> values]
    PROVE  \E g : FoldsOver(g, n, values, base, step)
<1> USE DEF FoldsOver
<1> DEFINE Solves(g, k) == FoldsOver(g, k, values, base, step)
    ks == {k \in 0 .. n : \E g : Solves(g, k)}
<1>1. 0 \in ks
  <2> DEFINE g == [s \in SUBSET (1 .. 0) |-> base]
  <2>1. \A s \in SUBSET (1 .. 0) : s = {}
    OBVIOUS
  <2>2. Solves(g, 0)
    BY <2>1
  <2> HIDE DEF g, Solves
  <2> QED
    BY <2>2
<1>2. ASSUME NEW k \in 0 .. n - 1, k \in ks
      PROVE  k + 1 \in ks
  <2>1. PICK g : Solves(g, k)
    BY <1>2
  <2> DEFINE h == [s \in SUBSET (1 .. k + 1) |->
                      IF k + 1 \in s THEN step[<<g[s \ {k + 1}], k + 1>>] ELSE g[s]]
  <2>2. ASSUME NEW s \in SUBSET (1 .. k + 1)
        PROVE  /\ h[s] \in values
               /\ h[s] = IF s = {} THEN base ELSE step[<<h[s \ {Max(s)}], Max(s)>>]
    <3>1. CASE k + 1 \in s
      <4>1. Max(s) \in s /\ \A j \in s : j <= Max(s)
        <5>1. s \subseteq 0 .. k + 1 /\ s # {} /\ k + 1 \in Nat
          BY <3>1
        <5> QED
          BY <5>1, Greatest
      <4>2. Max(s) = k + 1
        <5>1. Max(s) \in 1 .. k + 1 /\ k + 1 <= Max(s)
          BY <3>1, <4>1
        <5> QED
          BY <5>1
      <4>3. s \ {k + 1} \in SUBSET (1 .. k) /\ s \ {k + 1} \in SUBSET (1 .. k + 1)
        OBVIOUS
      <4>4. h[s \ {k + 1}] = g[s \ {k + 1}] /\ g[s \ {k + 1}] \in values
        BY <2>1, <4>3
      <4>5. h[s] = step[<<g[s \ {k + 1}], k + 1>>]
        BY <3>1
      <4>6. <<g[s \ {k + 1}], k + 1>> \in values \X (1 .. n)
        BY <4>4
      <4> QED
        BY <3>1, <4>2, <4>4, <4>5, <4>6
    <3>2. CASE k + 1 \notin s
      <4>1. s \in SUBSET (1 .. k) /\ h[s] = g[s]
        BY <3>2
      <4>2. CASE s = {}
        BY <2>1, <4>1, <4>2
      <4>3. CASE s # {}
        <5>1. s \subseteq 0 .. k /\ k \in Nat
          BY <4>1
        <5>2. Max(s) \in s
          BY <5>1, <4>3, Greatest
        <5>4. s \ {Max(s)} \in SUBSET (1 .. k)
          BY <4>1
        <5>5. k + 1 \notin s \ {Max(s)} /\ s \ {Max(s)} \in SUBSET (1 .. k + 1)
          BY <4>1, <3>2
        <5>3. h[s \ {Max(s)}] = g[s \ {Max(s)}]
          BY <5>5
        <5> QED
          BY <2>1, <4>1, <4>3, <5>3
      <4> QED
        BY <4>2, <4>3
    <3> QED
      BY <3>1, <3>2
  <2>3. Solves(h, k + 1)
    BY <2>2
  <2> HIDE DEF h, Solves
  <2> QED
    BY <2>3
<1> HIDE DEF ks
<1>3. n \in ks
  BY <1>1, <1>2, Counting
<1> USE DEF ks
<1> HIDE DEF Solves
<1>4. PICK g : Solves(g, n)
  BY <1>3
<1> QED
  BY <1>4 DEF Solves

(* What a step keeps in a set is there after all of them. *)
LEMMA FoldStays ==
    ASSUME NEW n \in Nat, NEW values, NEW g, g[{}] \in values,
           \A k \in 1 .. n : g[1 .. k - 1] \in values => g[1 .. k] \in values
    PROVE  g[1 .. n] \in values
<1> DEFINE ks == {k \in 0 .. n : g[1 .. k] \in values}
<1>1. 0 \in ks
  <2>1. 1 .. 0 = {}
    OBVIOUS
  <2> QED
    BY <2>1
<1>2. \A k \in 0 .. n - 1 : k \in ks => k + 1 \in ks
  OBVIOUS
<1>3. 0 .. n \subseteq ks
  BY <1>1, <1>2, Counting
<1> QED
  BY <1>3

(* The same where a step is repeated. *)
LEMMA RepeatExists ==
    ASSUME NEW n \in Nat, NEW values, NEW base \in values,
           NEW step \in [values -> values]
    PROVE  \E g : Repeats(g, n, values, base, step)
<1> USE DEF Repeats
<1> DEFINE Solves(g, k) == Repeats(g, k, values, base, step)
    ks == {k \in 0 .. n : \E g : Solves(g, k)}
<1>1. 0 \in ks
  <2> DEFINE g == [m \in 0 .. 0 |-> base]
  <2>1. Solves(g, 0)
    OBVIOUS
  <2> HIDE DEF g, Solves
  <2> QED
    BY <2>1
<1>2. ASSUME NEW k \in 0 .. n - 1, k \in ks
      PROVE  k + 1 \in ks
  <2>1. PICK g : Solves(g, k)
    BY <1>2
  <2> DEFINE h == [m \in 0 .. k + 1 |-> IF m = k + 1 THEN step[g[k]] ELSE g[m]]
  <2>2. Solves(h, k + 1)
    BY <2>1
  <2> HIDE DEF h, Solves
  <2> QED
    BY <2>2
<1> HIDE DEF ks
<1>3. n \in ks
  BY <1>1, <1>2, Counting
<1> USE DEF ks
<1> HIDE DEF Solves
<1>4. PICK g : Solves(g, n)
  BY <1>3
<1> QED
  BY <1>4 DEF Solves

(* Whatever solves it stays in the set. *)
LEMMA RepeatStays ==
    ASSUME NEW n \in Nat, NEW values, NEW g, g[0] \in values,
           \A k \in 1 .. n : g[k - 1] \in values => g[k] \in values
    PROVE  \A k \in 0 .. n : g[k] \in values
<1> DEFINE ks == {k \in 0 .. n : g[k] \in values}
<1>1. 0 \in ks
  OBVIOUS
<1>2. \A k \in 0 .. n - 1 : k \in ks => k + 1 \in ks
  OBVIOUS
<1>3. 0 .. n \subseteq ks
  BY <1>1, <1>2, Counting
<1> QED
  BY <1>3

LEMMA UpTo ==
    ASSUME NEW k \in Nat, k # 0
    PROVE  Max(1 .. k) = k /\ 1 .. k # {} /\ (1 .. k) \ {k} = 1 .. k - 1
<1>1. 1 .. k \subseteq 0 .. k /\ 1 .. k # {}
  OBVIOUS
<1>2. Max(1 .. k) \in 1 .. k /\ \A j \in 1 .. k : j <= Max(1 .. k)
  BY <1>1, Greatest
<1> QED
  BY <1>2

-----------------------------------------------------------------------------
(* The merges keep what each of their steps keeps. *)

LEMMA MergeAllStays ==
    ASSUME NEW values, NEW target \in values, NEW module,
           Len(module) \in Nat, DOMAIN module = 1 .. Len(module),
           \A t \in values : \A i \in DOMAIN module : MergeOne(t, module[i], module) \in values
    PROVE  MergeAll(target, module) \in values
<1> DEFINE n == Len(module)
           step == [p \in values \X (1 .. n) |-> MergeOne(p[1], module[p[2]], module)]
           Solves(g) == g = [s \in SUBSET (DOMAIN module) |->
                                IF s = {} THEN target
                                ELSE MergeOne(g[s \ {Max(s)}], module[Max(s)], module)]
           g == CHOOSE g : Solves(g)
<1>1. step \in [values \X (1 .. n) -> values]
  OBVIOUS
<1>2. PICK h : FoldsOver(h, n, values, target, step)
  <2> HIDE DEF step, n, Solves, g
  <2>1. n \in Nat
    BY DEF n
  <2> QED
    BY <1>1, <2>1, FoldExists
<1>3. Solves(h)
  <2> SUFFICES ASSUME NEW s \in SUBSET (DOMAIN module), s # {}
               PROVE  h[s] = MergeOne(h[s \ {Max(s)}], module[Max(s)], module)
    BY <1>2 DEF FoldsOver
  <2>1. Max(s) \in 1 .. n
    <3>1. s \subseteq 0 .. n
      OBVIOUS
    <3> QED
      BY <3>1, Greatest
  <2>2. s \ {Max(s)} \in SUBSET (1 .. n)
    OBVIOUS
  <2>3. h[s] = step[<<h[s \ {Max(s)}], Max(s)>>]
    BY <1>2 DEF FoldsOver
  <2>4. h[s \ {Max(s)}] \in values
    BY <1>2, <2>2 DEF FoldsOver
  <2> QED
    BY <2>1, <2>3, <2>4
<1>4. Solves(g)
  <2> HIDE DEF Solves
  <2> QED
    BY <1>3
<1>5. MergeAll(target, module) = g[1 .. n]
  BY DEF MergeAll, FoldLeft, MapThenFoldSet
<1> HIDE DEF g
<1>6. g[{}] \in values
  BY <1>4
<1>7. ASSUME NEW k \in 1 .. n, g[1 .. k - 1] \in values
      PROVE  g[1 .. k] \in values
  <2>1. Max(1 .. k) = k /\ 1 .. k # {} /\ (1 .. k) \ {k} = 1 .. k - 1
    BY UpTo
  <2>2. 1 .. k \in SUBSET (DOMAIN module)
    OBVIOUS
  <2>3. g[1 .. k] = MergeOne(g[1 .. k - 1], module[k], module)
    BY <1>4, <2>1, <2>2
  <2> QED
    BY <1>7, <2>3
<1> QED
  BY <1>5, <1>6, <1>7, FoldStays

LEMMA BoundStays ==
    ASSUME NEW values, NEW target \in values, NEW module, NEW binds,
           Len(binds) \in Nat, DOMAIN binds = 1 .. Len(binds),
           \A t \in values : \A i \in DOMAIN binds : BindOne(t, binds[i], module) \in values
    PROVE  Bound(target, module, binds) \in values
<1> DEFINE n == Len(binds)
           step == [p \in values \X (1 .. n) |-> BindOne(p[1], binds[p[2]], module)]
           Solves(g) == g = [s \in SUBSET (DOMAIN binds) |->
                                IF s = {} THEN target
                                ELSE BindOne(g[s \ {Max(s)}], binds[Max(s)], module)]
           g == CHOOSE g : Solves(g)
<1>1. step \in [values \X (1 .. n) -> values]
  OBVIOUS
<1>2. PICK h : FoldsOver(h, n, values, target, step)
  <2> HIDE DEF step, n, Solves, g
  <2>1. n \in Nat
    BY DEF n
  <2> QED
    BY <1>1, <2>1, FoldExists
<1>3. Solves(h)
  <2> SUFFICES ASSUME NEW s \in SUBSET (DOMAIN binds), s # {}
               PROVE  h[s] = BindOne(h[s \ {Max(s)}], binds[Max(s)], module)
    BY <1>2 DEF FoldsOver
  <2>1. Max(s) \in 1 .. n
    <3>1. s \subseteq 0 .. n
      OBVIOUS
    <3> QED
      BY <3>1, Greatest
  <2>2. s \ {Max(s)} \in SUBSET (1 .. n)
    OBVIOUS
  <2>3. h[s] = step[<<h[s \ {Max(s)}], Max(s)>>]
    BY <1>2 DEF FoldsOver
  <2>4. h[s \ {Max(s)}] \in values
    BY <1>2, <2>2 DEF FoldsOver
  <2> QED
    BY <2>1, <2>3, <2>4
<1>4. Solves(g)
  <2> HIDE DEF Solves
  <2> QED
    BY <1>3
<1>5. Bound(target, module, binds) = g[1 .. n]
  BY DEF Bound, FoldLeft, MapThenFoldSet
<1> HIDE DEF g
<1>6. g[{}] \in values
  BY <1>4
<1>7. ASSUME NEW k \in 1 .. n, g[1 .. k - 1] \in values
      PROVE  g[1 .. k] \in values
  <2>1. Max(1 .. k) = k /\ 1 .. k # {} /\ (1 .. k) \ {k} = 1 .. k - 1
    BY UpTo
  <2>2. 1 .. k \in SUBSET (DOMAIN binds)
    OBVIOUS
  <2>3. g[1 .. k] = BindOne(g[1 .. k - 1], binds[k], module)
    BY <1>4, <2>1, <2>2
  <2> QED
    BY <1>7, <2>3
<1> QED
  BY <1>5, <1>6, <1>7, FoldStays

LEMMA SweepStays ==
    ASSUME NEW values, NEW r \in values, NEW module,
           Len(module) \in Nat, DOMAIN module = 1 .. Len(module),
           \A t \in values : \A i \in DOMAIN module : CarryOne(t, module[i]) \in values
    PROVE  Sweep(r, module) \in values
<1> DEFINE n == Len(module)
           step == [p \in values \X (1 .. n) |-> CarryOne(p[1], module[p[2]])]
           Solves(g) == g = [s \in SUBSET (DOMAIN module) |->
                                IF s = {} THEN r
                                ELSE CarryOne(g[s \ {Max(s)}], module[Max(s)])]
           g == CHOOSE g : Solves(g)
<1>1. step \in [values \X (1 .. n) -> values]
  OBVIOUS
<1>2. PICK h : FoldsOver(h, n, values, r, step)
  <2> HIDE DEF step, n, Solves, g
  <2>1. n \in Nat
    BY DEF n
  <2> QED
    BY <1>1, <2>1, FoldExists
<1>3. Solves(h)
  <2> SUFFICES ASSUME NEW s \in SUBSET (DOMAIN module), s # {}
               PROVE  h[s] = CarryOne(h[s \ {Max(s)}], module[Max(s)])
    BY <1>2 DEF FoldsOver
  <2>1. Max(s) \in 1 .. n
    <3>1. s \subseteq 0 .. n
      OBVIOUS
    <3> QED
      BY <3>1, Greatest
  <2>2. s \ {Max(s)} \in SUBSET (1 .. n)
    OBVIOUS
  <2>3. h[s] = step[<<h[s \ {Max(s)}], Max(s)>>]
    BY <1>2 DEF FoldsOver
  <2>4. h[s \ {Max(s)}] \in values
    BY <1>2, <2>2 DEF FoldsOver
  <2> QED
    BY <2>1, <2>3, <2>4
<1>4. Solves(g)
  <2> HIDE DEF Solves
  <2> QED
    BY <1>3
<1>5. Sweep(r, module) = g[1 .. n]
  BY DEF Sweep, FoldLeft, MapThenFoldSet
<1> HIDE DEF g
<1>6. g[{}] \in values
  BY <1>4
<1>7. ASSUME NEW k \in 1 .. n, g[1 .. k - 1] \in values
      PROVE  g[1 .. k] \in values
  <2>1. Max(1 .. k) = k /\ 1 .. k # {} /\ (1 .. k) \ {k} = 1 .. k - 1
    BY UpTo
  <2>2. 1 .. k \in SUBSET (DOMAIN module)
    OBVIOUS
  <2>3. g[1 .. k] = CarryOne(g[1 .. k - 1], module[k])
    BY <1>4, <2>1, <2>2
  <2> QED
    BY <1>7, <2>3
<1> QED
  BY <1>5, <1>6, <1>7, FoldStays

(* However many sweeps it takes. *)
LEMMA CarriedStays ==
    ASSUME NEW values, NEW target, NEW module, Len(module) \in Nat,
           DOMAIN module = 1 .. Len(module),
           [target |-> target, clash |-> FALSE] \in values,
           \A r \in values : Sweep(r, module) \in values
    PROVE  Carried(target, module) \in values
<1> DEFINE n == Len(module)
           base == [target |-> target, clash |-> FALSE]
           step == [r \in values |-> Sweep(r, module)]
           Solves(g) == g = [k \in 0 .. Len(module) |->
                                IF k = 0 THEN [target |-> target, clash |-> FALSE]
                                ELSE Sweep(g[k - 1], module)]
           g == CHOOSE g : Solves(g)
           times == Cardinality({i \in DOMAIN module : ~Importable(module[i])})
<1>1. step \in [values -> values]
  OBVIOUS
<1>2. PICK h : Repeats(h, n, values, base, step)
  <2>1. n \in Nat /\ base \in values
    OBVIOUS
  <2> HIDE DEF step, n, Solves, g, base
  <2> QED
    BY <1>1, <2>1, RepeatExists
<1>3. Solves(h)
  <2> SUFFICES ASSUME NEW k \in 0 .. n, k # 0
               PROVE  h[k] = Sweep(h[k - 1], module)
    BY <1>2 DEF Repeats
  <2>1. h[k] = step[h[k - 1]] /\ h[k - 1] \in values
    BY <1>2 DEF Repeats
  <2> QED
    BY <2>1
<1>4. Solves(g)
  <2> HIDE DEF Solves
  <2> QED
    BY <1>3
<1>5. Carried(target, module) = g[times]
  BY DEF Carried
<1> HIDE DEF g
<1>6. g[0] \in values
  BY <1>4
<1>7. ASSUME NEW k \in 1 .. n, g[k - 1] \in values
      PROVE  g[k] \in values
  <2>1. k \in 0 .. Len(module) /\ k # 0
    OBVIOUS
  <2>2. g[k] = Sweep(g[k - 1], module)
    BY <1>4, <2>1
  <2> QED
    BY <1>7, <2>2
<1>8. times \in 0 .. n
  <2>1. IsFiniteSet(1 .. n) /\ Cardinality(1 .. n) = n
    <3>1. IsFiniteSet(1 .. n) /\ Cardinality(1 .. n) = IF 1 > n THEN 0 ELSE n - 1 + 1
      BY FS_Interval
    <3> QED
      BY <3>1
  <2>2. {i \in DOMAIN module : ~Importable(module[i])} \in SUBSET (1 .. n)
    OBVIOUS
  <2> HIDE DEF n
  <2>3. times <= n /\ times \in Nat
    BY <2>1, <2>2, FS_Subset, FS_CardinalityType
  <2> QED
    BY <2>3 DEF n
<1> HIDE DEF times
<1> QED
  BY <1>5, <1>6, <1>7, <1>8, RepeatStays

(* What is pulled along could be named and is not there under its name. *)
LEMMA ClosurePullable ==
    ASSUME NEW target, NEW module, NEW aliases, Len(module) \in Nat
    PROVE  Closure(target, module, aliases) \subseteq
              {i \in DOMAIN module : Importable(module[i]) /\ ~MergedAs(target, module[i])}
<1> DEFINE Pullable == {i \in DOMAIN module : /\ Importable(module[i]) /\ module[i].name # ""
                                              /\ module[i].name \notin aliases
                                              /\ ~MergedAs(target, module[i])}
           values == SUBSET Pullable
           n == Len(module)
           ReadBy(pulled) == Used(target) \union UNION {module[i].uses : i \in pulled}
           Next1(pulled) == {i \in Pullable : module[i].name \in ReadBy(pulled)}
           step == [pulled \in values |-> Next1(pulled)]
           Solves(g) == g = [k \in 0 .. Len(module) |->
                                IF k = 0 THEN {}
                                ELSE LET read == ReadBy(g[k - 1])
                                     IN  {i \in Pullable : module[i].name \in read}]
           g == CHOOSE g : Solves(g)
<1>1. step \in [values -> values]
  OBVIOUS
<1>2. PICK h : Repeats(h, n, values, {}, step)
  <2>1. n \in Nat /\ {} \in values
    OBVIOUS
  <2> HIDE DEF step, n, Solves, g, values
  <2> QED
    BY <1>1, <2>1, RepeatExists
<1>3. Solves(h)
  <2> HIDE DEF Pullable, ReadBy
  <2> SUFFICES ASSUME NEW k \in 0 .. n, k # 0
               PROVE  h[k] = Next1(h[k - 1])
    BY <1>2 DEF Repeats
  <2>1. k - 1 \in 0 .. n
    OBVIOUS
  <2>2. h[k] = step[h[k - 1]] /\ h[k - 1] \in values
    <3> HIDE DEF step, values, n
    <3> QED
      BY <1>2, <2>1 DEF Repeats
  <2> QED
    BY <2>2
<1>4. Solves(g)
  <2> HIDE DEF Solves
  <2> QED
    BY <1>3
<1>5. Closure(target, module, aliases) = g[Len(module)]
  BY DEF Closure
<1> HIDE DEF g, Pullable, ReadBy
<1>6. g[0] \in values
  <2>1. 0 \in 0 .. Len(module)
    OBVIOUS
  <2>2. g[0] = {}
    BY <1>4, <2>1
  <2> QED
    BY <2>2
<1>7. ASSUME NEW k \in 1 .. n, g[k - 1] \in values
      PROVE  g[k] \in values
  <2>1. k \in 0 .. Len(module) /\ k # 0
    OBVIOUS
  <2>2. g[k] = Next1(g[k - 1])
    BY <1>4, <2>1
  <2> QED
    BY <2>2
<1>8. g[n] \in values
  <2> HIDE DEF values, n
  <2>1. n \in Nat /\ n \in 0 .. n
    BY DEF n
  <2>2. \A k \in 0 .. n : g[k] \in values
    BY <1>6, <1>7, <2>1, RepeatStays
  <2> QED
    BY <2>1, <2>2
<1> QED
  BY <1>5, <1>8 DEF Pullable

-----------------------------------------------------------------------------
(* What a file has gathered. *)

IsSeq(s) == s \in Seq(ToSet(s))

Fields == {"kind", "name", "file", "at", "uses", "module", "members"}

(* A declaration of a file that exists, written there or a namespace. *)
Declared(d) ==
    /\ DOMAIN d = Fields
    /\ d.file \in Files
    /\ d.at \in Int
    /\ Importable(d) => d.at \in DOMAIN Decls[d.file]

Distinct(ds) ==
    \A i, j \in DOMAIN ds : Id(ds[i]) = Id(ds[j]) /\ ds[i].name = ds[j].name => i = j

(* All declarations of a resolved file, of the files resolved. *)
Whole(ds, files) ==
    /\ IsSeq(ds) /\ Distinct(ds)
    /\ \A i \in DOMAIN ds : Declared(ds[i]) /\ ds[i].file \in files

(* What `f` has while `n` of its imports are left: of itself only namespaces,
   numbered by the imports that were left. *)
Comes(d, files, f, n) ==
    /\ Declared(d)
    /\ \/ d.file \in files
       \/ d.file = f /\ d.at < -n

Partial(ds, files, f, n) ==
    /\ IsSeq(ds) /\ Distinct(ds)
    /\ \A i \in DOMAIN ds : Comes(ds[i], files, f, n)

LEMMA SeqShape ==
    ASSUME NEW s, IsSeq(s)
    PROVE  /\ Len(s) \in Nat
           /\ DOMAIN s = 1 .. Len(s)
           /\ s = [i \in 1 .. Len(s) |-> s[i]]
BY DEF IsSeq

LEMMA SeqOver ==
    ASSUME NEW es, NEW s \in Seq(es)
    PROVE  IsSeq(s)
<1>1. \A i \in 1 .. Len(s) : s[i] \in ToSet(s)
  BY DEF ToSet
<1> QED
  BY <1>1 DEF IsSeq

LEMMA SeqMade ==
    ASSUME NEW n \in Nat, NEW s, DOMAIN s = 1 .. n, s = [i \in 1 .. n |-> s[i]]
    PROVE  IsSeq(s) /\ Len(s) = n
<1>1. s \in [1 .. n -> ToSet(s)]
  BY DEF ToSet
<1> QED
  BY <1>1 DEF IsSeq

LEMMA AppendShape ==
    ASSUME NEW s, IsSeq(s), NEW e
    PROVE  /\ IsSeq(Append(s, e))
           /\ Len(Append(s, e)) = Len(s) + 1
           /\ DOMAIN Append(s, e) = 1 .. Len(s) + 1
           /\ \A i \in 1 .. Len(s) : Append(s, e)[i] = s[i]
           /\ Append(s, e)[Len(s) + 1] = e
<1> DEFINE es == ToSet(s) \union {e}
<1>1. s \in Seq(es)
  BY SeqShape DEF IsSeq
<1>2. Append(s, e) \in Seq(es)
  BY <1>1
<1>3. IsSeq(Append(s, e))
  BY <1>2, SeqOver
<1> QED
  BY <1>1, <1>3

LEMMA PrependShape ==
    ASSUME NEW s, IsSeq(s), NEW e
    PROVE  /\ IsSeq(<<e>> \o s)
           /\ DOMAIN (<<e>> \o s) = 1 .. 1 + Len(s)
           /\ (<<e>> \o s)[1] = e
           /\ \A i \in 1 .. Len(s) : (<<e>> \o s)[1 + i] = s[i]
<1> DEFINE es == ToSet(s) \union {e}
<1>1. s \in Seq(es) /\ <<e>> \in Seq(es) /\ Len(<<e>>) = 1 /\ <<e>>[1] = e
  BY SeqShape DEF IsSeq
<1>2. <<e>> \o s \in Seq(es)
  BY <1>1
<1>3. IsSeq(<<e>> \o s)
  BY <1>2, SeqOver
<1> QED
  BY <1>1, <1>3

LEMMA ConcatShape ==
    ASSUME NEW s, IsSeq(s), NEW t, IsSeq(t)
    PROVE  /\ IsSeq(s \o t)
           /\ Len(s \o t) = Len(s) + Len(t)
           /\ DOMAIN (s \o t) = 1 .. Len(s) + Len(t)
           /\ \A i \in 1 .. Len(s) : (s \o t)[i] = s[i]
           /\ \A i \in 1 .. Len(t) : (s \o t)[Len(s) + i] = t[i]
<1> DEFINE es == ToSet(s) \union ToSet(t)
<1>1. s \in Seq(es) /\ t \in Seq(es)
  BY SeqShape DEF IsSeq
<1>2. s \o t \in Seq(es)
  BY <1>1
<1>3. IsSeq(s \o t)
  BY <1>2, SeqOver
<1> QED
  BY <1>1, <1>3

LEMMA SubSeqShape ==
    ASSUME NEW s, IsSeq(s), NEW m \in 1 .. Len(s) + 1, NEW n \in m - 1 .. Len(s)
    PROVE  /\ IsSeq(SubSeq(s, m, n))
           /\ Len(SubSeq(s, m, n)) = n - m + 1
           /\ DOMAIN SubSeq(s, m, n) = 1 .. n - m + 1
           /\ \A i \in 1 .. n - m + 1 : SubSeq(s, m, n)[i] = s[m + i - 1]
<1>1. s \in Seq(ToSet(s)) /\ Len(s) \in Nat
  BY SeqShape DEF IsSeq
<1>2. SubSeq(s, m, n) = [i \in 1 .. n - m + 1 |-> s[m + i - 1]]
  BY <1>1 DEF SubSeq
<1>3. n - m + 1 \in Nat
  BY <1>1
<1>4. IsSeq(SubSeq(s, m, n)) /\ Len(SubSeq(s, m, n)) = n - m + 1
  BY <1>2, <1>3, SeqMade
<1> QED
  BY <1>2, <1>4

(* One more at the end, or in front, that is not there yet. *)
LEMMA AppendPartial ==
    ASSUME NEW files, NEW f, NEW n, NEW ds, Partial(ds, files, f, n),
           NEW d, Comes(d, files, f, n), ~MergedAs(ds, d)
    PROVE  Partial(Append(ds, d), files, f, n)
<1> DEFINE all == Append(ds, d)
<1>1. IsSeq(ds) /\ Distinct(ds) /\ \A i \in DOMAIN ds : Comes(ds[i], files, f, n)
  BY DEF Partial
<1>2. Len(ds) \in Nat /\ DOMAIN ds = 1 .. Len(ds)
  BY <1>1, SeqShape
<1>3. /\ IsSeq(all) /\ DOMAIN all = 1 .. Len(ds) + 1
      /\ \A i \in 1 .. Len(ds) : all[i] = ds[i]
      /\ all[Len(ds) + 1] = d
  BY <1>1, AppendShape
<1> HIDE DEF all
<1>4. \A i \in DOMAIN all : Comes(all[i], files, f, n)
  BY <1>1, <1>2, <1>3
<1>5. \A i \in DOMAIN ds : ~(Id(ds[i]) = Id(d) /\ ds[i].name = d.name)
  BY DEF MergedAs, ToSet
<1>6. Distinct(all)
  BY <1>1, <1>2, <1>3, <1>5 DEF Distinct
<1> QED
  BY <1>3, <1>4, <1>6 DEF Partial, all

LEMMA PrependPartial ==
    ASSUME NEW files, NEW f, NEW n, NEW ds, Partial(ds, files, f, n),
           NEW d, Comes(d, files, f, n), ~MergedAs(ds, d)
    PROVE  Partial(<<d>> \o ds, files, f, n)
<1> DEFINE all == <<d>> \o ds
<1>1. IsSeq(ds) /\ Distinct(ds) /\ \A i \in DOMAIN ds : Comes(ds[i], files, f, n)
  BY DEF Partial
<1>2. Len(ds) \in Nat /\ DOMAIN ds = 1 .. Len(ds)
  BY <1>1, SeqShape
<1>4. /\ IsSeq(all) /\ DOMAIN all = 1 .. 1 + Len(ds)
      /\ all[1] = d
      /\ \A i \in 1 .. Len(ds) : all[1 + i] = ds[i]
  BY <1>1, PrependShape
<1> HIDE DEF all
<1>5. \A i \in 2 .. 1 + Len(ds) : i - 1 \in DOMAIN ds /\ all[i] = ds[i - 1]
  <2> SUFFICES ASSUME NEW i \in 2 .. 1 + Len(ds)
               PROVE  i - 1 \in DOMAIN ds /\ all[i] = ds[i - 1]
    OBVIOUS
  <2>1. i - 1 \in 1 .. Len(ds) /\ 1 + (i - 1) = i
    BY <1>2
  <2> QED
    BY <1>2, <1>4, <2>1
<1>6. \A i \in DOMAIN all : i = 1 \/ i \in 2 .. 1 + Len(ds)
  BY <1>2, <1>4
<1>7. \A i \in DOMAIN all : Comes(all[i], files, f, n)
  BY <1>1, <1>4, <1>5, <1>6
<1>8. \A i \in DOMAIN ds : ~(Id(ds[i]) = Id(d) /\ ds[i].name = d.name)
  BY DEF MergedAs, ToSet
<1>9. Distinct(all)
  <2> SUFFICES ASSUME NEW i \in DOMAIN all, NEW j \in DOMAIN all,
                      Id(all[i]) = Id(all[j]), all[i].name = all[j].name
               PROVE  i = j
    BY DEF Distinct
  <2>1. CASE i = 1 /\ j = 1
    BY <2>1
  <2>2. CASE i = 1 /\ j # 1
    BY <1>4, <1>5, <1>6, <1>8, <2>2
  <2>3. CASE i # 1 /\ j = 1
    BY <1>4, <1>5, <1>6, <1>8, <2>3
  <2>4. CASE i # 1 /\ j # 1
    <3>1. i \in 2 .. 1 + Len(ds) /\ j \in 2 .. 1 + Len(ds)
      BY <1>6, <2>4
    <3>2. i - 1 = j - 1
      BY <1>1, <1>5, <3>1 DEF Distinct
    <3> QED
      BY <3>1, <3>2
  <2> QED
    BY <2>1, <2>2, <2>3, <2>4
<1> QED
  BY <1>4, <1>7, <1>9 DEF Partial, all

(* What is said of a file's declarations is said one by one. *)
LEMMA SamePartial ==
    ASSUME NEW files, NEW f, NEW n, NEW ds, Partial(ds, files, f, n),
           NEW es, IsSeq(es), Len(es) = Len(ds), \A i \in 1 .. Len(ds) : es[i] = ds[i]
    PROVE  Partial(es, files, f, n)
<1>1. DOMAIN ds = 1 .. Len(ds) /\ DOMAIN es = 1 .. Len(ds)
  BY SeqShape DEF Partial
<1> QED
  BY <1>1 DEF Partial, Distinct

(* Two that have nothing in common make one. *)
LEMMA ConcatPartial ==
    ASSUME NEW files, NEW f, NEW n, NEW ds, Partial(ds, files, f, n),
           NEW es, Partial(es, files, f, n), \A i \in DOMAIN es : ~MergedAs(ds, es[i])
    PROVE  Partial(ds \o es, files, f, n)
<1> DEFINE all == ds \o es
<1>1. /\ IsSeq(ds) /\ Distinct(ds) /\ \A i \in DOMAIN ds : Comes(ds[i], files, f, n)
      /\ IsSeq(es) /\ Distinct(es) /\ \A i \in DOMAIN es : Comes(es[i], files, f, n)
  BY DEF Partial
<1>2. /\ Len(ds) \in Nat /\ DOMAIN ds = 1 .. Len(ds)
      /\ Len(es) \in Nat /\ DOMAIN es = 1 .. Len(es)
  BY <1>1, SeqShape
<1>3. /\ IsSeq(all) /\ DOMAIN all = 1 .. Len(ds) + Len(es)
      /\ \A i \in 1 .. Len(ds) : all[i] = ds[i]
      /\ \A i \in 1 .. Len(es) : all[Len(ds) + i] = es[i]
  BY <1>1, ConcatShape
<1> HIDE DEF all
<1> DEFINE front(i) == i \in DOMAIN ds /\ all[i] = ds[i]
           back(i) == i - Len(ds) \in DOMAIN es /\ all[i] = es[i - Len(ds)]
<1>4. ASSUME NEW i \in DOMAIN all
      PROVE  front(i) \/ back(i)
  <2>1. CASE i <= Len(ds)
    BY <1>2, <1>3, <2>1
  <2>2. CASE i > Len(ds)
    <3>1. i - Len(ds) \in 1 .. Len(es) /\ Len(ds) + (i - Len(ds)) = i
      BY <1>2, <1>3, <2>2
    <3> QED
      BY <1>2, <1>3, <3>1
  <2> QED
    BY <1>2, <1>3, <2>1, <2>2
<1>5. \A i \in DOMAIN all : Comes(all[i], files, f, n)
  BY <1>1, <1>4
<1>6. \A i \in DOMAIN ds, j \in DOMAIN es : ~(Id(ds[i]) = Id(es[j]) /\ ds[i].name = es[j].name)
  BY DEF MergedAs, ToSet
<1>7. Distinct(all)
  <2> SUFFICES ASSUME NEW i \in DOMAIN all, NEW j \in DOMAIN all,
                      Id(all[i]) = Id(all[j]), all[i].name = all[j].name
               PROVE  i = j
    BY DEF Distinct
  <2>1. CASE front(i) /\ front(j)
    BY <1>1, <2>1 DEF Distinct
  <2>2. CASE front(i) /\ back(j)
    BY <1>6, <2>2
  <2>3. CASE back(i) /\ front(j)
    BY <1>6, <2>3
  <2>4. CASE back(i) /\ back(j)
    <3>1. i - Len(ds) = j - Len(ds)
      BY <1>1, <2>4 DEF Distinct
    <3> QED
      BY <1>2, <1>3, <3>1
  <2> QED
    BY <1>4, <2>1, <2>2, <2>3, <2>4
<1> QED
  BY <1>3, <1>5, <1>7 DEF Partial, all

-----------------------------------------------------------------------------
(* What each kind of import adds.  `files` are the ones resolved. *)

LEMMA WholeComes ==
    ASSUME NEW files, NEW module, Whole(module, files), NEW f, NEW n, NEW i \in DOMAIN module
    PROVE  Comes(module[i], files, f, n)
BY DEF Whole, Comes

LEMMA MergeAllPartial ==
    ASSUME NEW files, NEW f, NEW n, NEW target, Partial(target, files, f, n),
           NEW module, Whole(module, files)
    PROVE  Partial(MergeAll(target, module), files, f, n)
<1> DEFINE all == ToSet(target) \union ToSet(module)
           values == {t \in Seq(all) : Partial(t, files, f, n)}
<1>1. Len(module) \in Nat /\ DOMAIN module = 1 .. Len(module)
  BY SeqShape DEF Whole
<1>2. target \in values
  BY SeqShape DEF Partial, IsSeq
<1>3. ASSUME NEW t \in values, NEW i \in DOMAIN module
      PROVE  MergeOne(t, module[i], module) \in values
  <2>1. CASE ~Importable(module[i]) \/ StaysBehind(module[i], module) \/ Diamond(t, module[i])
    BY <2>1 DEF MergeOne
  <2>2. CASE ~(~Importable(module[i]) \/ StaysBehind(module[i], module) \/ Diamond(t, module[i]))
    <3>1. MergeOne(t, module[i], module) = Append(t, module[i])
      BY <2>2 DEF MergeOne
    <3>2. ~MergedAs(t, module[i])
      BY <2>2 DEF Diamond, MergedAs, Installed
    <3>3. Append(t, module[i]) \in Seq(all)
      BY DEF ToSet
    <3>4. Partial(Append(t, module[i]), files, f, n)
      BY <3>2, WholeComes, AppendPartial
    <3> QED
      BY <3>1, <3>3, <3>4
  <2> QED
    BY <2>1, <2>2
<1> HIDE DEF values
<1>4. MergeAll(target, module) \in values
  BY <1>1, <1>2, <1>3, MergeAllStays
<1> QED
  BY <1>4 DEF values

(* A name that is bound is that of a declaration of the module. *)
LEMMA BindingIn ==
    ASSUME NEW module, IsSeq(module), NEW name, Binding(module, name) # 0
    PROVE  /\ Binding(module, name) \in DOMAIN module
           /\ Importable(module[Binding(module, name)])
           /\ module[Binding(module, name)].name = name
<1> DEFINE at == {i \in DOMAIN module : Importable(module[i]) /\ module[i].name = name}
<1>1. at # {} /\ Binding(module, name) = CHOOSE i \in at : \A j \in at : j <= i
  BY DEF Binding
<1>2. Len(module) \in Nat /\ DOMAIN module = 1 .. Len(module)
  BY SeqShape
<1>3. at \subseteq 0 .. Len(module)
  BY <1>2
<1> HIDE DEF at
<1>4. Max(at) \in at /\ \A j \in at : j <= Max(at)
  BY <1>1, <1>2, <1>3, Greatest
<1>5. Binding(module, name) \in at
  BY <1>1, <1>4
<1> QED
  BY <1>5 DEF at

(* It is added under the name it has here. *)
LEMMA RenamedComes ==
    ASSUME NEW files, NEW f, NEW n, NEW d, Comes(d, files, f, n), NEW name
    PROVE  /\ Comes([d EXCEPT !.name = name], files, f, n)
           /\ [d EXCEPT !.name = name].name = name
           /\ [d EXCEPT !.name = name].file = d.file
           /\ Id([d EXCEPT !.name = name]) = Id(d)
<1> DEFINE e == [d EXCEPT !.name = name]
<1>1. DOMAIN d = Fields
  BY DEF Comes, Declared
<1>2. /\ DOMAIN e = Fields /\ e.name = name
      /\ e.file = d.file /\ e.at = d.at /\ e.kind = d.kind
  BY <1>1 DEF Fields
<1> HIDE DEF e
<1>3. Declared(e)
  BY <1>2 DEF Comes, Declared, Importable
<1>4. Comes(e, files, f, n) /\ Id(e) = Id(d)
  BY <1>2, <1>3 DEF Comes, Id
<1> QED
  BY <1>2, <1>4 DEF e

(* What was there stays at its place. *)
Begins(ds, es) == Len(ds) <= Len(es) /\ \A i \in 1 .. Len(ds) : es[i] = ds[i]

LEMMA BoundPartial ==
    ASSUME NEW files, NEW f, NEW n, NEW target, Partial(target, files, f, n),
           NEW module, Whole(module, files), NEW binds, IsSeq(binds)
    PROVE  /\ Partial(Bound(target, module, binds), files, f, n)
           /\ Begins(target, Bound(target, module, binds))
<1> DEFINE renamed == {[module[i] EXCEPT !.name = b.as] : i \in DOMAIN module, b \in ToSet(binds)}
           all == ToSet(target) \union renamed
           values == {t \in Seq(all) : Partial(t, files, f, n) /\ Begins(target, t)}
<1>1. Len(binds) \in Nat /\ DOMAIN binds = 1 .. Len(binds)
  BY SeqShape
<1>2. target \in values
  <2>1. target \in Seq(ToSet(target)) /\ Len(target) \in Nat
    BY SeqShape DEF Partial, IsSeq
  <2> QED
    BY <2>1 DEF Begins
<1>3. ASSUME NEW t \in values, NEW k \in DOMAIN binds
      PROVE  BindOne(t, binds[k], module) \in values
  <2> DEFINE b == binds[k]
             i == Binding(module, b.name)
             d == [module[i] EXCEPT !.name = b.as]
  <2>1. CASE i = 0 \/ BindsInFile(t, b.as, module[i].file)
    BY <2>1 DEF BindOne
  <2>2. CASE ~(i = 0 \/ BindsInFile(t, b.as, module[i].file))
    <3>1. BindOne(t, b, module) = Append(t, d)
      BY <2>2 DEF BindOne
    <3>2. i \in DOMAIN module
      BY <2>2, BindingIn DEF Whole
    <3> HIDE DEF i
    <3>3. Comes(d, files, f, n) /\ d.name = b.as /\ d.file = module[i].file
      <4>1. Comes(module[i], files, f, n)
        BY <3>2, WholeComes
      <4> HIDE DEF b
      <4> QED
        BY <4>1, RenamedComes
    <3>4. d \in all
      <4>1. b \in ToSet(binds)
        BY DEF ToSet
      <4> HIDE DEF b
      <4> QED
        BY <3>2, <4>1
    <3> HIDE DEF d, b, all
    <3>5. ~MergedAs(t, d)
      <4>1. \A e \in ToSet(t) : ~(e.name = d.name /\ e.file = d.file)
        BY <2>2, <3>3 DEF BindsInFile
      <4>2. \A e : Id(e) = Id(d) => e.file = d.file
        BY DEF Id
      <4> QED
        BY <4>1, <4>2 DEF MergedAs
    <3>6. Partial(Append(t, d), files, f, n)
      BY <3>3, <3>5, AppendPartial
    <3>7. Append(t, d) \in Seq(all) /\ Len(Append(t, d)) = Len(t) + 1
          /\ \A j \in 1 .. Len(t) : Append(t, d)[j] = t[j]
      BY <3>4
    <3>8. Begins(target, Append(t, d))
      <4>1. Len(target) \in Nat /\ Len(t) \in Nat
        BY SeqShape DEF Partial
      <4> QED
        BY <3>7, <4>1 DEF Begins
    <3> QED
      BY <3>1, <3>6, <3>7, <3>8 DEF b
  <2> QED
    BY <2>1, <2>2
<1> HIDE DEF values
<1>4. Bound(target, module, binds) \in values
  BY <1>1, <1>2, <1>3, BoundStays
<1> QED
  BY <1>4 DEF values

(* One after the other, and no two at one place. *)
LEMMA RankBijective ==
    ASSUME NEW n \in Nat, NEW places \in [1 .. n -> Nat]
    PROVE  /\ \A j \in 1 .. n : Rank(places, j) \in 1 .. n
           /\ \A k \in 1 .. n : \E j \in 1 .. n : Rank(places, j) = k
<1> DEFINE ahead(j) == {i \in 1 .. n : Before(places, i, j)}
           rank == [j \in 1 .. n |-> Rank(places, j)]
<1>1. IsFiniteSet(1 .. n) /\ Cardinality(1 .. n) = n
  <2>1. IsFiniteSet(1 .. n) /\ Cardinality(1 .. n) = IF 1 > n THEN 0 ELSE n - 1 + 1
    BY FS_Interval
  <2> QED
    BY <2>1
<1>2. ASSUME NEW j \in 1 .. n
      PROVE  /\ IsFiniteSet(ahead(j)) /\ Cardinality(ahead(j)) \in 0 .. n - 1
             /\ Rank(places, j) = Cardinality(ahead(j)) + 1
  <2>1. ahead(j) \in SUBSET (1 .. n) /\ j \notin ahead(j)
    BY DEF Before
  <2> HIDE DEF ahead
  <2>2. IsFiniteSet(ahead(j)) /\ Cardinality(ahead(j)) <= n /\ Cardinality(ahead(j)) \in Nat
    BY <1>1, <2>1, FS_Subset, FS_CardinalityType
  <2>3. Cardinality(ahead(j)) # n
    BY <1>1, <2>1, FS_Subset
  <2>4. Rank(places, j) = Cardinality(ahead(j)) + 1
    BY DEF Rank, ahead
  <2> QED
    BY <2>2, <2>3, <2>4
<1>3. ASSUME NEW i \in 1 .. n, NEW j \in 1 .. n, Before(places, i, j)
      PROVE  Rank(places, i) # Rank(places, j)
  <2>1. ahead(i) \in SUBSET ahead(j) /\ i \in ahead(j) /\ i \notin ahead(i)
    BY <1>3 DEF Before
  <2> HIDE DEF ahead
  <2>2. Cardinality(ahead(i)) # Cardinality(ahead(j))
    BY <1>2, <2>1, FS_Subset
  <2> QED
    BY <1>2, <2>2
<1>4. ASSUME NEW i \in 1 .. n, NEW j \in 1 .. n, i # j
      PROVE  Rank(places, i) # Rank(places, j)
  <2>1. Before(places, i, j) \/ Before(places, j, i)
    BY <1>4 DEF Before
  <2> QED
    BY <1>3, <2>1
<1>5. ASSUME NEW j \in 1 .. n
      PROVE  Rank(places, j) \in 1 .. n
  <2> HIDE DEF ahead
  <2>1. Cardinality(ahead(j)) \in 0 .. n - 1 /\ Rank(places, j) = Cardinality(ahead(j)) + 1
    BY <1>2
  <2> QED
    BY <2>1
<1>6. rank \in Injection(1 .. n, 1 .. n)
  BY <1>4, <1>5 DEF Injection, IsInjective
<1>7. rank \in Surjection(1 .. n, 1 .. n)
  <2> HIDE DEF rank
  <2> QED
    BY <1>1, <1>6, FS_Injection
<1> QED
  BY <1>5, <1>7 DEF Surjection

(* `es` has what `ds` has, each once. *)
Shuffles(es, ds) ==
    /\ IsSeq(es) /\ Len(es) = Len(ds)
    /\ \E from \in [1 .. Len(ds) -> 1 .. Len(ds)] :
          /\ \A i \in 1 .. Len(ds) : es[i] = ds[from[i]]
          /\ \A i, j \in 1 .. Len(ds) : from[i] = from[j] => i = j

LEMMA InModuleOrderShuffles ==
    ASSUME NEW ds, IsSeq(ds), NEW module, IsSeq(module)
    PROVE  Shuffles(InModuleOrder(ds, module), ds)
<1> DEFINE n == Len(ds)
           places == [i \in DOMAIN ds |-> Place(ds[i], module)]
           from == [k \in 1 .. n |-> CHOOSE j \in 1 .. n : Rank(places, j) = k]
           es == InModuleOrder(ds, module)
<1>1. n \in Nat /\ DOMAIN ds = 1 .. n /\ Len(module) \in Nat /\ DOMAIN module = 1 .. Len(module)
  BY SeqShape
<1>2. \A d : Place(d, module) \in Nat
  <2> SUFFICES ASSUME NEW d PROVE Place(d, module) \in Nat
    OBVIOUS
  <2> DEFINE ks == {0} \union {i \in DOMAIN module : Id(module[i]) = Id(d)}
  <2>1. ks \subseteq 0 .. Len(module) /\ ks # {}
    BY <1>1
  <2> HIDE DEF ks
  <2>2. Max(ks) \in ks
    BY <1>1, <2>1, Greatest
  <2> QED
    BY <1>1, <2>1, <2>2 DEF Place, ks
<1>3. places \in [1 .. n -> Nat]
  BY <1>1, <1>2
<1>4. es = [k \in 1 .. n |-> ds[CHOOSE j \in 1 .. n : Rank(places, j) = k]]
  BY <1>1 DEF InModuleOrder
<1> HIDE DEF places, es, n
<1>5. \A k \in 1 .. n : from[k] \in 1 .. n /\ Rank(places, from[k]) = k
  BY <1>1, <1>3, RankBijective
<1>6. DOMAIN es = 1 .. n /\ \A k \in 1 .. n : es[k] = ds[from[k]]
  BY <1>4
<1>7. IsSeq(es) /\ Len(es) = n
  <2>1. es = [k \in 1 .. n |-> es[k]]
    BY <1>4
  <2> QED
    BY <1>1, <1>6, <2>1, SeqMade
<1>8. from \in [1 .. n -> 1 .. n]
  BY <1>5
<1> HIDE DEF from
<1>9. \A i, j \in 1 .. n : from[i] = from[j] => i = j
  BY <1>5
<1> QED
  BY <1>6, <1>7, <1>8, <1>9 DEF Shuffles, n, es

(* The order of what an import brings does not matter here. *)
LEMMA ShufflePartial ==
    ASSUME NEW files, NEW f, NEW n, NEW ds, IsSeq(ds), NEW es, IsSeq(es),
           Partial(ds \o es, files, f, n), NEW fs, Shuffles(fs, es)
    PROVE  Partial(ds \o fs, files, f, n)
<1> DEFINE before == ds \o es
           after  == ds \o fs
<1>1. PICK from \in [1 .. Len(es) -> 1 .. Len(es)] :
          /\ \A i \in 1 .. Len(es) : fs[i] = es[from[i]]
          /\ \A i, j \in 1 .. Len(es) : from[i] = from[j] => i = j
  BY DEF Shuffles
<1>2. IsSeq(fs) /\ Len(fs) = Len(es) /\ Len(es) \in Nat /\ Len(ds) \in Nat
  BY SeqShape DEF Shuffles
<1>3. /\ DOMAIN before = 1 .. Len(ds) + Len(es)
      /\ \A i \in 1 .. Len(ds) : before[i] = ds[i]
      /\ \A i \in 1 .. Len(es) : before[Len(ds) + i] = es[i]
  BY ConcatShape
<1>4. /\ IsSeq(after)
      /\ DOMAIN after = 1 .. Len(ds) + Len(es)
      /\ \A i \in 1 .. Len(ds) : after[i] = ds[i]
      /\ \A i \in 1 .. Len(es) : after[Len(ds) + i] = fs[i]
  <2>1. /\ IsSeq(after)
        /\ DOMAIN after = 1 .. Len(ds) + Len(fs)
        /\ \A i \in 1 .. Len(ds) : after[i] = ds[i]
        /\ \A i \in 1 .. Len(fs) : after[Len(ds) + i] = fs[i]
    <3>1. IsSeq(fs)
      BY <1>2
    <3> QED
      BY <3>1, ConcatShape
  <2> QED
    BY <1>2, <2>1
<1>5. Distinct(before) /\ \A i \in DOMAIN before : Comes(before[i], files, f, n)
  BY DEF Partial
<1> HIDE DEF before, after
<1> DEFINE was == [i \in 1 .. Len(ds) + Len(es) |->
                      IF i <= Len(ds) THEN i ELSE Len(ds) + from[i - Len(ds)]]
<1>6. ASSUME NEW i \in DOMAIN after
      PROVE  was[i] \in DOMAIN before /\ after[i] = before[was[i]]
  <2>1. CASE i <= Len(ds)
    <3>1. was[i] = i /\ i \in 1 .. Len(ds)
      BY <1>2, <1>4, <2>1
    <3> QED
      BY <1>2, <1>3, <1>4, <3>1
  <2>2. CASE i > Len(ds)
    <3>1. was[i] = Len(ds) + from[i - Len(ds)] /\ i - Len(ds) \in 1 .. Len(es)
      BY <1>2, <1>4, <2>2
    <3>2. Len(ds) + (i - Len(ds)) = i
      BY <1>2, <1>4
    <3> HIDE DEF was
    <3>3. from[i - Len(ds)] \in 1 .. Len(es)
      BY <3>1
    <3>4. after[i] = es[from[i - Len(ds)]]
      BY <1>1, <1>4, <3>1, <3>2
    <3>5. before[was[i]] = es[from[i - Len(ds)]]
      BY <1>3, <3>1, <3>3
    <3>6. was[i] \in 1 .. Len(ds) + Len(es)
      BY <1>2, <3>1, <3>3
    <3> QED
      BY <1>3, <3>4, <3>5, <3>6
  <2> QED
    BY <1>2, <1>4, <2>1, <2>2
<1>7. ASSUME NEW i \in DOMAIN after, NEW j \in DOMAIN after, was[i] = was[j]
      PROVE  i = j
  <2>1. i \in 1 .. Len(ds) + Len(es) /\ j \in 1 .. Len(ds) + Len(es)
    BY <1>4
  <2>2. CASE i <= Len(ds) /\ j <= Len(ds)
    BY <1>2, <1>7, <2>1, <2>2
  <2>3. CASE i <= Len(ds) /\ j > Len(ds)
    <3>1. j - Len(ds) \in 1 .. Len(es)
      BY <1>2, <2>1, <2>3
    <3>2. from[j - Len(ds)] \in 1 .. Len(es)
      BY <3>1
    <3> QED
      BY <1>2, <1>7, <2>1, <2>3, <3>2
  <2>4. CASE i > Len(ds) /\ j <= Len(ds)
    <3>1. i - Len(ds) \in 1 .. Len(es)
      BY <1>2, <2>1, <2>4
    <3>2. from[i - Len(ds)] \in 1 .. Len(es)
      BY <3>1
    <3> QED
      BY <1>2, <1>7, <2>1, <2>4, <3>2
  <2>5. CASE i > Len(ds) /\ j > Len(ds)
    <3>1. i - Len(ds) \in 1 .. Len(es) /\ j - Len(ds) \in 1 .. Len(es)
      BY <1>2, <2>1, <2>5
    <3>2. from[i - Len(ds)] \in 1 .. Len(es) /\ from[j - Len(ds)] \in 1 .. Len(es)
      BY <3>1
    <3>3. from[i - Len(ds)] = from[j - Len(ds)]
      BY <1>2, <1>7, <2>1, <2>5, <3>2
    <3>4. i - Len(ds) = j - Len(ds)
      BY <1>1, <3>1, <3>3
    <3> QED
      BY <1>2, <2>1, <3>4
  <2> QED
    BY <1>2, <2>1, <2>2, <2>3, <2>4, <2>5
<1> HIDE DEF was
<1>8. \A i \in DOMAIN after : Comes(after[i], files, f, n)
  BY <1>5, <1>6
<1>9. Distinct(after)
  BY <1>5, <1>6, <1>7 DEF Distinct
<1> QED
  BY <1>4, <1>8, <1>9 DEF Partial, after

(* The declarations picked are the module's, each once. *)
LEMMA PickedPartial ==
    ASSUME NEW files, NEW f, NEW n, NEW module, Whole(module, files),
           NEW places, places \subseteq DOMAIN module
    PROVE  /\ Partial(Picked(module, places), files, f, n)
           /\ \A k \in DOMAIN Picked(module, places) :
                 \E i \in places : Picked(module, places)[k] = module[i]
<1> DEFINE count == Cardinality(places)
           order == SetToSeq(places)
           picked == Picked(module, places)
<1>1. IsSeq(module) /\ Distinct(module) /\ Len(module) \in Nat /\ DOMAIN module = 1 .. Len(module)
  BY SeqShape DEF Whole
<1>2. IsFiniteSet(places)
  <2>1. IsFiniteSet(1 .. Len(module)) /\ places \in SUBSET (1 .. Len(module))
    BY <1>1, FS_Interval
  <2> QED
    BY <2>1, FS_Subset
<1>3. count \in Nat /\ ExistsBijection(1 .. count, places)
  BY <1>2, FS_CardinalityType
<1>4. order \in [1 .. count -> places] /\ IsInjective(order)
  <2> HIDE DEF count
  <2>1. \E g \in [1 .. count -> places] : IsInjective(g)
    BY <1>3 DEF ExistsBijection, Bijection, Injection, IsInjective
  <2>2. order = CHOOSE g \in [1 .. count -> places] : IsInjective(g)
    BY DEF SetToSeq, count
  <2> HIDE DEF order
  <2> QED
    BY <2>1, <2>2
<1>5. picked = [k \in DOMAIN order |-> module[order[k]]]
  BY DEF Picked
<1> HIDE DEF count, order, picked
<1>6. DOMAIN picked = 1 .. count /\ \A k \in 1 .. count : picked[k] = module[order[k]]
  BY <1>4, <1>5
<1>7. IsSeq(picked)
  <2>1. picked = [k \in 1 .. count |-> picked[k]]
    BY <1>4, <1>5
  <2> QED
    BY <1>3, <1>6, <2>1, SeqMade
<1>8. \A k \in DOMAIN picked : order[k] \in places /\ picked[k] = module[order[k]]
  BY <1>4, <1>6
<1>9. \A k \in DOMAIN picked : Comes(picked[k], files, f, n)
  <2> SUFFICES ASSUME NEW k \in DOMAIN picked PROVE Comes(picked[k], files, f, n)
    OBVIOUS
  <2>1. order[k] \in DOMAIN module /\ picked[k] = module[order[k]]
    BY <1>8
  <2> QED
    BY <2>1, WholeComes
<1>10. Distinct(picked)
  <2> SUFFICES ASSUME NEW i \in DOMAIN picked, NEW j \in DOMAIN picked,
                      Id(picked[i]) = Id(picked[j]), picked[i].name = picked[j].name
               PROVE  i = j
    BY DEF Distinct
  <2>1. order[i] = order[j]
    BY <1>1, <1>8 DEF Distinct
  <2> QED
    BY <1>4, <1>6, <2>1 DEF IsInjective
<1> QED
  BY <1>7, <1>8, <1>9, <1>10 DEF Partial, picked

LEMMA MergeNamedPartial ==
    ASSUME NEW files, NEW f, NEW n, NEW target, Partial(target, files, f, n),
           NEW module, Whole(module, files), NEW binds, IsSeq(binds)
    PROVE  Partial(MergeNamed(target, module, binds), files, f, n)
<1> DEFINE bound  == Bound(target, module, binds)
           pulled == Closure(bound, module, Aliases(binds))
           front  == SubSeq(bound, Len(target) + 1, Len(bound))
           picked == Picked(module, pulled)
           added  == front \o picked
<1>1. Partial(bound, files, f, n) /\ Begins(target, bound)
  BY BoundPartial
<1>2. IsSeq(target) /\ IsSeq(bound) /\ IsSeq(module)
  BY <1>1 DEF Partial, Whole
<1>3. /\ Len(target) \in Nat /\ Len(bound) \in Nat /\ Len(module) \in Nat
      /\ DOMAIN bound = 1 .. Len(bound)
  BY <1>2, SeqShape
<1>4. pulled \subseteq {i \in DOMAIN module : Importable(module[i]) /\ ~MergedAs(bound, module[i])}
  <2> HIDE DEF bound
  <2> QED
    BY <1>3, ClosurePullable
<1> HIDE DEF pulled, bound
<1>5. /\ Partial(picked, files, f, n)
      /\ \A k \in DOMAIN picked : \E i \in pulled : picked[k] = module[i]
  BY <1>4, PickedPartial
<1>6. IsSeq(picked) /\ Len(picked) \in Nat
  BY <1>5, SeqShape DEF Partial
<1> HIDE DEF picked
<1>7. Partial(bound \o picked, files, f, n)
  BY <1>1, <1>4, <1>5, ConcatPartial
<1>8. Len(target) + 1 \in 1 .. Len(bound) + 1 /\ Len(bound) \in (Len(target) + 1) - 1 .. Len(bound)
  BY <1>1, <1>3 DEF Begins
<1>9. /\ IsSeq(front) /\ Len(front) = Len(bound) - Len(target)
      /\ \A i \in 1 .. Len(bound) - Len(target) : front[i] = bound[Len(target) + i]
  <2> DEFINE m == Len(target) + 1
  <2>1. m \in 1 .. Len(bound) + 1 /\ Len(bound) \in m - 1 .. Len(bound)
    BY <1>8
  <2>2. Len(bound) - m + 1 = Len(bound) - Len(target) /\ \A i \in Nat : m + i - 1 = Len(target) + i
    BY <1>3
  <2> HIDE DEF m
  <2>3. /\ IsSeq(SubSeq(bound, m, Len(bound)))
        /\ Len(SubSeq(bound, m, Len(bound))) = Len(bound) - m + 1
        /\ \A i \in 1 .. Len(bound) - m + 1 : SubSeq(bound, m, Len(bound))[i] = bound[m + i - 1]
    BY <1>2, <2>1, SubSeqShape
  <2>4. \A i \in 1 .. Len(bound) - Len(target) : i \in Nat
    OBVIOUS
  <2> QED
    BY <2>2, <2>3, <2>4 DEF m
<1> HIDE DEF front
<1>10. /\ IsSeq(added) /\ Len(added) = Len(front) + Len(picked)
       /\ \A i \in 1 .. Len(front) : added[i] = front[i]
       /\ \A i \in 1 .. Len(picked) : added[Len(front) + i] = picked[i]
  <2>1. IsSeq(front) /\ IsSeq(picked)
    BY <1>6, <1>9
  <2> QED
    BY <2>1, ConcatShape
<1>11. /\ Len(bound \o picked) = Len(bound) + Len(picked)
       /\ \A i \in 1 .. Len(bound) : (bound \o picked)[i] = bound[i]
       /\ \A i \in 1 .. Len(picked) : (bound \o picked)[Len(bound) + i] = picked[i]
  BY <1>2, <1>6, ConcatShape
<1> HIDE DEF added
<1>12. /\ IsSeq(target \o added) /\ Len(target \o added) = Len(target) + Len(added)
       /\ \A i \in 1 .. Len(target) : (target \o added)[i] = target[i]
       /\ \A i \in 1 .. Len(added) : (target \o added)[Len(target) + i] = added[i]
  <2>1. IsSeq(target) /\ IsSeq(added)
    BY <1>2, <1>10
  <2> QED
    BY <2>1, ConcatShape
<1>13. Len(target \o added) = Len(bound \o picked)
  BY <1>3, <1>6, <1>9, <1>10, <1>11, <1>12
<1>14. ASSUME NEW i \in 1 .. Len(bound \o picked)
       PROVE  (target \o added)[i] = (bound \o picked)[i]
  <2>0. i \in 1 .. Len(bound) + Len(picked)
    BY <1>11
  <2>1. CASE i <= Len(target)
    <3>1. i \in 1 .. Len(target) /\ i \in 1 .. Len(bound) /\ bound[i] = target[i]
      BY <1>1, <1>3, <2>0, <2>1 DEF Begins
    <3> QED
      BY <1>11, <1>12, <3>1
  <2>2. CASE i > Len(target) /\ i <= Len(bound)
    <3> DEFINE k == i - Len(target)
    <3>1. /\ k \in 1 .. Len(front) /\ k \in 1 .. Len(added)
          /\ Len(target) + k = i /\ i \in 1 .. Len(bound)
      BY <1>3, <1>6, <1>9, <1>10, <2>0, <2>2
    <3> HIDE DEF k
    <3>2. (target \o added)[i] = front[k]
      BY <1>10, <1>12, <3>1
    <3>3. front[k] = bound[i]
      BY <1>9, <3>1
    <3> QED
      BY <1>11, <3>1, <3>2, <3>3
  <2>3. CASE i > Len(bound)
    <3> DEFINE k == i - Len(bound)
    <3>1. /\ k \in 1 .. Len(picked) /\ Len(bound) + k = i
          /\ Len(front) + k \in 1 .. Len(added) /\ Len(target) + (Len(front) + k) = i
      BY <1>1, <1>3, <1>6, <1>9, <1>10, <2>0, <2>3 DEF Begins
    <3> HIDE DEF k
    <3>2. (target \o added)[i] = added[Len(front) + k]
      BY <1>12, <3>1
    <3>3. added[Len(front) + k] = picked[k]
      BY <1>10, <3>1
    <3>4. (bound \o picked)[i] = picked[k]
      BY <1>11, <3>1
    <3> QED
      BY <3>2, <3>3, <3>4
  <2> QED
    <3>1. i \in Nat
      BY <1>3, <1>6, <2>0
    <3>2. i <= Len(target) \/ (i > Len(target) /\ i <= Len(bound)) \/ i > Len(bound)
      BY ONLY <1>3, <3>1
    <3> QED
      BY ONLY <3>2, <2>1, <2>2, <2>3, Zenon
<1>15. Partial(target \o added, files, f, n)
  BY <1>7, <1>12, <1>13, <1>14, SamePartial
<1>16. Partial(target \o InModuleOrder(added, module), files, f, n)
  BY <1>2, <1>10, <1>15, InModuleOrderShuffles, ShufflePartial
<1> QED
  BY <1>16 DEF MergeNamed, added, front, picked, pulled, bound

(* With one import less to go, what was there is as well placed. *)
LEMMA FewerLeft ==
    ASSUME NEW files, NEW f, NEW n \in Nat, n # 0, NEW ds, Partial(ds, files, f, n)
    PROVE  Partial(ds, files, f, n - 1)
<1>1. ASSUME NEW d, Comes(d, files, f, n)
      PROVE  Comes(d, files, f, n - 1)
  <2>1. d.at \in Int
    BY <1>1 DEF Comes, Declared
  <2> QED
    BY <1>1, <2>1 DEF Comes
<1> QED
  BY <1>1 DEF Partial

(* A namespace is numbered by the imports that are left, as no other one is. *)
LEMMA MergeNamespacePartial ==
    ASSUME NEW files, NEW target, Top.file \in Files \ files, Len(Top.left) \in Nat \ {0},
           Partial(target, files, Top.file, Len(Top.left)),
           NEW module, NEW imp
    PROVE  Partial(MergeNamespace(target, module, imp), files, Top.file, Len(Top.left) - 1)
<1> DEFINE f == Top.file
           n == Len(Top.left)
           d == [kind |-> "namespace", name |-> imp.binds, file |-> Top.file,
                 at |-> -Len(Top.left), uses |-> {}, module |-> imp.file,
                 members |-> SelectSeq(module, Importable)]
<1>1. f \in Files \ files /\ n \in Nat /\ n # 0
  OBVIOUS
<1>2. /\ DOMAIN d = Fields /\ d.file = f /\ d.at = -n /\ d.kind = "namespace"
  BY DEF Fields
<1>3. MergeNamespace(target, module, imp) = IF Taken(target, imp.binds, Top.file) THEN target
                                            ELSE Append(target, d)
  BY DEF MergeNamespace
<1>4. Partial(target, files, f, n)
  OBVIOUS
<1> HIDE DEF d, f, n
<1>5. Comes(d, files, f, n - 1)
  <2>1. -n \in Int /\ -n < -(n - 1)
    BY <1>1
  <2>2. Declared(d)
    BY <1>1, <1>2, <2>1 DEF Declared, Importable
  <2> QED
    BY <1>2, <2>1, <2>2 DEF Comes
<1>6. ~MergedAs(target, d)
  <2> SUFFICES ASSUME NEW i \in DOMAIN target, Id(target[i]) = Id(d) PROVE FALSE
    BY DEF MergedAs, ToSet
  <2>1. target[i].file = f /\ target[i].at = -n
    BY <1>2 DEF Id
  <2>2. Comes(target[i], files, f, n)
    BY <1>4 DEF Partial
  <2>3. -n < -n
    BY <1>1, <2>1, <2>2 DEF Comes
  <2> QED
    BY <1>1, <2>3
<1>7. Partial(target, files, f, n - 1)
  BY <1>1, <1>4, FewerLeft
<1>8. Partial(Append(target, d), files, f, n - 1)
  BY <1>5, <1>6, <1>7, AppendPartial
<1> QED
  BY <1>3, <1>7, <1>8 DEF f, n

LEMMA CarriedPartial ==
    ASSUME NEW files, NEW f, NEW n, NEW target, Partial(target, files, f, n),
           NEW module, Whole(module, files)
    PROVE  Partial(Carried(target, module).target, files, f, n)
<1> DEFINE all == ToSet(target) \union ToSet(module)
           values == [target : {t \in Seq(all) : Partial(t, files, f, n)}, clash : BOOLEAN]
<1>1. Len(module) \in Nat /\ DOMAIN module = 1 .. Len(module)
  BY SeqShape DEF Whole
<1>2. [target |-> target, clash |-> FALSE] \in values
  <2>1. target \in Seq(all)
    BY SeqShape DEF Partial, IsSeq
  <2> QED
    BY <2>1
<1>3. ASSUME NEW r \in values, NEW i \in DOMAIN module
      PROVE  CarryOne(r, module[i]) \in values
  <2> DEFINE d == module[i]
  <2>1. CASE Importable(d) \/ ~Travels(r.target, d)
    BY <2>1 DEF CarryOne
  <2>2. CASE ~(Importable(d) \/ ~Travels(r.target, d))
    <3>1. CarryOne(r, d) = [target |-> <<d>> \o r.target,
                            clash |-> r.clash \/ Clashes(r.target, d.name, d.module)]
      BY <2>2 DEF CarryOne
    <3>2. ~BindsInFile(r.target, d.name, d.file)
      BY <2>2 DEF Travels
    <3>3. d \in all
      BY DEF ToSet
    <3>4. Comes(d, files, f, n)
      BY WholeComes
    <3> HIDE DEF d, all
    <3>5. ~MergedAs(r.target, d)
      <4>1. \A e : Id(e) = Id(d) => e.file = d.file
        BY DEF Id
      <4> QED
        BY <3>2, <4>1 DEF MergedAs, BindsInFile
    <3>6. Partial(<<d>> \o r.target, files, f, n)
      BY <3>4, <3>5, PrependPartial
    <3>7. <<d>> \o r.target \in Seq(all)
      BY <3>3
    <3> QED
      BY <3>1, <3>6, <3>7 DEF d
  <2> QED
    BY <2>1, <2>2
<1> HIDE DEF values
<1>4. \A r \in values : Sweep(r, module) \in values
  BY <1>1, <1>3, SweepStays
<1>5. Carried(target, module) \in values
  BY <1>1, <1>2, <1>4, CarriedStays
<1> QED
  BY <1>5 DEF values

(* Whatever is imported: every declaration is merged once, under a name. *)
LEMMA MergedPartial ==
    ASSUME NEW files, NEW target, Top.file \in Files \ files, Len(Top.left) \in Nat \ {0},
           Partial(target, files, Top.file, Len(Top.left)),
           NEW module, Whole(module, files), NEW imp,
           imp.kind \in {"all", "named", "namespace"}, imp.kind = "named" => IsSeq(imp.binds)
    PROVE  Partial(Merged(target, imp, module).target, files, Top.file, Len(Top.left) - 1)
<1> DEFINE f == Top.file
           n == Len(Top.left) - 1
<1>1. Partial(target, files, f, n)
  BY FewerLeft
<1>2. CASE imp.kind = "all"
  <2>1. Merged(target, imp, module) = Carried(MergeAll(target, module), module)
    BY <1>2 DEF Merged
  <2> HIDE DEF f, n
  <2>2. Partial(Carried(MergeAll(target, module), module).target, files, f, n)
    BY <1>1, MergeAllPartial, CarriedPartial
  <2> QED
    BY <2>1, <2>2 DEF f, n
<1>3. CASE imp.kind = "named"
  <2>1. Merged(target, imp, module) = Carried(MergeNamed(target, module, imp.binds), module)
    BY <1>3 DEF Merged
  <2> HIDE DEF f, n
  <2>2. Partial(Carried(MergeNamed(target, module, imp.binds), module).target, files, f, n)
    BY <1>1, <1>3, MergeNamedPartial, CarriedPartial
  <2> QED
    BY <2>1, <2>2 DEF f, n
<1>4. CASE imp.kind = "namespace"
  <2>1. Merged(target, imp, module) =
            IF Taken(target, imp.binds, Top.file) THEN [target |-> target, clash |-> FALSE]
            ELSE Carried(MergeNamespace(target, module, imp), module)
    BY <1>4 DEF Merged
  <2>2. Partial(MergeNamespace(target, module, imp), files, f, n)
    BY MergeNamespacePartial
  <2> HIDE DEF f, n
  <2>3. Partial(Carried(MergeNamespace(target, module, imp), module).target, files, f, n)
    BY <2>2, CarriedPartial
  <2>4. [target |-> target, clash |-> FALSE].target = target
    OBVIOUS
  <2> QED
    BY <1>1, <2>1, <2>3, <2>4 DEF f, n
<1> QED
  BY <1>2, <1>3, <1>4

(* What an import names was declared. *)
LEMMA NamedHereDeclared ==
    ASSUME ConstantAssumption, NEW files, NEW module, Whole(module, files), NEW imp,
           imp.kind \in {"all", "named", "namespace"}
    PROVE  /\ NamedHere(imp, module) \subseteq Files \X Nat
           /\ \A id \in NamedHere(imp, module) : id[2] \in DOMAIN Decls[id[1]]
<1> DEFINE Good(id) == id \in Files \X Nat /\ id[2] \in DOMAIN Decls[id[1]]
<1>1. ASSUME NEW i \in DOMAIN module, Importable(module[i])
      PROVE  Good(Id(module[i]))
  <2> DEFINE d == module[i]
  <2>1. d.file \in Files /\ d.at \in DOMAIN Decls[d.file]
    BY <1>1 DEF Whole, Declared
  <2>2. Id(d) = <<d.file, d.at>>
    BY DEF Id
  <2> HIDE DEF d
  <2>3. Decls[d.file] \in Seq(Declarations)
    BY <2>1 DEF ConstantAssumption
  <2>4. d.at \in Nat
    BY <2>1, <2>3
  <2> QED
    BY <2>1, <2>2, <2>4 DEF d
<1> SUFFICES ASSUME NEW id \in NamedHere(imp, module)
             PROVE  Good(id)
  OBVIOUS
<1>2. CASE imp.kind = "all"
  <2>1. PICK i \in DOMAIN module : Importable(module[i]) /\ id = Id(module[i])
    BY <1>2 DEF NamedHere, ToSet
  <2> QED
    BY <1>1, <2>1
<1>3. CASE imp.kind = "named"
  <2>1. PICK b \in ToSet(imp.binds) :
            Binding(module, b.name) # 0 /\ id = Id(module[Binding(module, b.name)])
    BY <1>3 DEF NamedHere
  <2>2. Binding(module, b.name) \in DOMAIN module /\ Importable(module[Binding(module, b.name)])
    BY <2>1, BindingIn DEF Whole
  <2> QED
    BY <1>1, <2>1, <2>2
<1>4. CASE imp.kind = "namespace"
  BY <1>4 DEF NamedHere
<1> QED
  BY <1>2, <1>3, <1>4

(* A resolved file: what it imports, each once, and then its own. *)
LEMMA WithOwnWhole ==
    ASSUME ConstantAssumption, NEW files, NEW f \in Files \ files, NEW target,
           Partial(target, files, f, 0)
    PROVE  Whole(target \o Written(f), files \union {f})
<1> DEFINE own == Written(f)
           all == target \o own
           n   == Len(Decls[f])
<1>1. IsSeq(target) /\ Distinct(target) /\ \A i \in DOMAIN target : Comes(target[i], files, f, 0)
  BY DEF Partial
<1>2. Len(target) \in Nat /\ DOMAIN target = 1 .. Len(target)
  BY <1>1, SeqShape
<1>3. n \in Nat /\ DOMAIN Decls[f] = 1 .. n
  <2>1. Decls[f] \in Seq(Declarations)
    BY DEF ConstantAssumption
  <2> QED
    BY <2>1
<1>4. /\ DOMAIN own = 1 .. n
      /\ own = [i \in 1 .. n |-> own[i]]
      /\ \A i \in 1 .. n : DOMAIN own[i] = Fields /\ own[i].file = f /\ own[i].at = i
  BY <1>3 DEF Written, Fields
<1>5. IsSeq(own) /\ Len(own) = n
  BY <1>3, <1>4, SeqMade
<1>6. \A i \in 1 .. n : Declared(own[i])
  BY <1>3, <1>4 DEF Declared
<1> HIDE DEF own, n
<1>7. /\ IsSeq(all) /\ DOMAIN all = 1 .. Len(target) + n
      /\ \A i \in 1 .. Len(target) : all[i] = target[i]
      /\ \A i \in 1 .. n : all[Len(target) + i] = own[i]
  <2>1. IsSeq(target) /\ IsSeq(own)
    BY <1>1, <1>5
  <2>2. /\ IsSeq(all) /\ DOMAIN all = 1 .. Len(target) + Len(own)
        /\ \A i \in 1 .. Len(target) : all[i] = target[i]
        /\ \A i \in 1 .. Len(own) : all[Len(target) + i] = own[i]
    BY <2>1, ConcatShape
  <2> QED
    BY <1>5, <2>2
<1> HIDE DEF all
<1> DEFINE front(i) == i \in DOMAIN target /\ all[i] = target[i]
           back(i) == i - Len(target) \in 1 .. n /\ all[i] = own[i - Len(target)]
<1>8. ASSUME NEW i \in DOMAIN all
      PROVE  front(i) \/ back(i)
  <2>1. CASE i <= Len(target)
    BY <1>2, <1>3, <1>7, <2>1
  <2>2. CASE i > Len(target)
    <3>1. i - Len(target) \in 1 .. n /\ Len(target) + (i - Len(target)) = i
      BY <1>2, <1>3, <1>7, <2>2
    <3> QED
      BY <1>7, <3>1
  <2> QED
    BY <1>2, <1>3, <1>7, <2>1, <2>2
<1>9. \A i \in DOMAIN all : Declared(all[i]) /\ all[i].file \in files \union {f}
  BY <1>1, <1>4, <1>6, <1>8 DEF Comes
<1>10. ASSUME NEW i \in DOMAIN target, NEW j \in 1 .. n
       PROVE  Id(target[i]) # Id(own[j])
  <2>1. own[j].file = f /\ own[j].at = j
    BY <1>4
  <2>2. ASSUME Id(target[i]) = Id(own[j]) PROVE FALSE
    <3>1. target[i].file = f /\ target[i].at = j
      BY <2>1, <2>2 DEF Id
    <3>2. j < -0
      BY <1>1, <3>1 DEF Comes
    <3> QED
      BY <3>2
  <2> QED
    BY <2>2
<1>11. Distinct(all)
  <2> SUFFICES ASSUME NEW i \in DOMAIN all, NEW j \in DOMAIN all,
                      Id(all[i]) = Id(all[j]), all[i].name = all[j].name
               PROVE  i = j
    BY DEF Distinct
  <2>1. CASE front(i) /\ front(j)
    BY <1>1, <2>1 DEF Distinct
  <2>2. CASE front(i) /\ back(j)
    BY <1>10, <2>2
  <2>3. CASE back(i) /\ front(j)
    BY <1>10, <2>3
  <2>4. CASE back(i) /\ back(j)
    <3>1. Id(own[i - Len(target)]) = Id(own[j - Len(target)])
      BY <2>4
    <3>2. i - Len(target) = j - Len(target)
      BY <1>4, <2>4, <3>1 DEF Id
    <3> QED
      BY <1>2, <1>3, <1>7, <3>2
  <2> QED
    BY <1>8, <2>1, <2>2, <2>3, <2>4
<1> QED
  BY <1>7, <1>9, <1>11 DEF Whole, all, own

-----------------------------------------------------------------------------
(* What a file reaches: the least set its imports do not lead out of. *)

LEMMA ReachesFiles ==
    ASSUME NEW f
    PROVE  Reaches(f) \subseteq Files /\ Direct(f) \subseteq Reaches(f)
BY DEF Reaches, Direct

LEMMA ReachesOn ==
    ASSUME NEW f, NEW g \in Reaches(f)
    PROVE  Direct(g) \subseteq Reaches(f)
BY DEF Reaches, Direct

LEMMA ReachesWithin ==
    ASSUME NEW f, NEW fs \in SUBSET Files, Direct(f) \subseteq fs,
           \A g \in fs : Direct(g) \subseteq fs
    PROVE  Reaches(f) \subseteq fs
BY DEF Reaches

LEMMA ReachesTrans ==
    ASSUME NEW f, NEW g \in Reaches(f)
    PROVE  Reaches(g) \subseteq Reaches(f)
<1>1. Reaches(f) \in SUBSET Files
  BY ReachesFiles
<1>2. Direct(g) \subseteq Reaches(f) /\ \A h \in Reaches(f) : Direct(h) \subseteq Reaches(f)
  BY ReachesOn
<1> QED
  BY <1>1, <1>2, ReachesWithin

-----------------------------------------------------------------------------
(* The invariant. *)

File(i) == opened[i].file
Left(i) == opened[i].left

(* How many imports of a file on the way are over, and where they led. *)
Past(i) == Len(imports[File(i)]) - Len(Left(i))
Gone(i) == {imports[File(i)][k].file : k \in 1 .. Past(i)}

(* What is left of a file's imports is the end of them. *)
FrameOK(i) ==
    /\ opened[i] = [file |-> File(i), left |-> Left(i), target |-> opened[i].target]
    /\ File(i) \in Files
    /\ IsSeq(Left(i))
    /\ Past(i) \in Nat
    /\ \A k \in 1 .. Len(Left(i)) : Left(i)[k] = imports[File(i)][Past(i) + k]

Shapes ==
    /\ imports \in Programs
    /\ IsSeq(opened) /\ Len(opened) # 0
    /\ \A i \in DOMAIN opened : FrameOK(i)
    /\ Known \subseteq Files

(* The entry file is at the bottom, and what is on the way is not resolved. *)
Stacked ==
    /\ File(1) = Entry
    /\ \A i, j \in DOMAIN opened : File(i) = File(j) => i = j
    /\ \A i \in DOMAIN opened : File(i) \notin Known

ParsedOthers ==
    /\ IsSeq(parsed)
    /\ IsInjective(parsed)
    /\ ToSet(parsed) = (Known \union Open) \ {Entry}

(* The imports that are over led to files resolved or on the way. *)
Explored ==
    /\ \A i \in DOMAIN opened : Gone(i) \intersect Files \subseteq Known \union Open
    /\ \A f \in Known : Direct(f) \subseteq Known \union Open

(* A file on the way is reached by those before it. *)
Reached ==
    /\ (Known \union Open) \ {Entry} \subseteq Reaches(Entry)
    /\ \A i, j \in DOMAIN opened : i < j => File(j) \in Reaches(File(i))

Circled == \E e \in faults : e.why = "circular"

(* As long as nothing is circular, what is resolved leads only to what is. *)
Circles ==
    /\ Circled => \E f \in {Entry} \union Reaches(Entry) : f \in Reaches(f)
    /\ ~Circled => /\ \A i \in DOMAIN opened : Gone(i) \intersect Files \subseteq Known
                   /\ \A f \in Known : Direct(f) \subseteq Known /\ f \notin Reaches(f)

(* What the files have gathered. *)
Contents ==
    /\ \A i \in DOMAIN opened : Partial(opened[i].target, Known, File(i), Len(Left(i)))
    /\ \A f \in Known : Whole(cache[f], Known)

Named ==
    /\ named \in [Files -> SUBSET (Files \X Nat)]
    /\ \A f \in Files : \A id \in named[f] : id[2] \in DOMAIN Decls[id[1]]

Whys == \A e \in faults : e.why \in {"circular", "missing", "unknown", "alias"}

IInv ==
    /\ Shapes /\ Stacked /\ ParsedOthers /\ Explored /\ Reached /\ Circles
    /\ Contents /\ Named /\ Whys

LEMMA ImportsSeq ==
    ASSUME ConstantAssumption, imports \in Programs, NEW f \in Files
    PROVE  /\ Len(imports[f]) \in Nat
           /\ DOMAIN imports[f] = 1 .. Len(imports[f])
           /\ IsSeq(imports[f])
           /\ \A k \in DOMAIN imports[f] : imports[f][k] \in Requests
           /\ Direct(f) = {imports[f][k].file : k \in 1 .. Len(imports[f])} \intersect Files
<1>1. imports[f] \in Seq(Requests)
  BY DEF ConstantAssumption
<1>2. IsSeq(imports[f])
  BY <1>1, SeqOver
<1>3. Len(imports[f]) \in Nat /\ DOMAIN imports[f] = 1 .. Len(imports[f])
  BY <1>1
<1>4. Direct(f) = {imports[f][k].file : k \in 1 .. Len(imports[f])} \intersect Files
  BY <1>3 DEF Direct, ToSet
<1> QED
  BY <1>1, <1>2, <1>3, <1>4

(* Before anything is imported. *)
LEMMA InitInv ==
    ASSUME ConstantAssumption, ImportsInit
    PROVE  IInv
<1> DEFINE one == [file |-> Entry, left |-> imports[Entry], target |-> <<>>]
<1>1. Entry \in Files /\ imports \in Programs
  BY DEF ImportsInit, ConstantAssumption
<1>2. Len(imports[Entry]) \in Nat /\ IsSeq(imports[Entry])
  BY <1>1, ImportsSeq
<1>3. /\ opened = <<one>> /\ opened \in Seq({one})
      /\ Len(opened) = 1 /\ DOMAIN opened = {1} /\ opened[1] = one
  BY DEF ImportsInit
<1>4. IsSeq(opened)
  BY <1>3, SeqOver
<1>5. \A i \in DOMAIN opened :
          i = 1 /\ File(i) = Entry /\ Left(i) = imports[Entry] /\ opened[i].target = <<>>
  BY <1>3 DEF File, Left
<1> HIDE DEF one
<1>6. /\ Known = {} /\ Open = {Entry} /\ faults = {}
  <2>1. DOMAIN cache = {} /\ faults = {}
    BY DEF ImportsInit
  <2>2. Open = {Entry}
    BY <1>3, <1>5 DEF Open, File
  <2> QED
    BY <2>1, <2>2 DEF Known
<1>7. \A i \in DOMAIN opened : Past(i) = 0 /\ Gone(i) = {}
  BY <1>2, <1>5 DEF Past, Gone
<1>8. Shapes
  <2>1. \A i \in DOMAIN opened : FrameOK(i)
    <3> SUFFICES ASSUME NEW i \in DOMAIN opened PROVE FrameOK(i)
      OBVIOUS
    <3>1. opened[i] = [file |-> File(i), left |-> Left(i), target |-> opened[i].target]
      BY <1>3, <1>5 DEF one
    <3>2. \A k \in 1 .. Len(Left(i)) : Left(i)[k] = imports[File(i)][Past(i) + k]
      BY <1>2, <1>5, <1>7
    <3> QED
      BY <1>1, <1>2, <1>5, <1>7, <3>1, <3>2 DEF FrameOK
  <2> QED
    BY <1>1, <1>3, <1>4, <1>6, <2>1 DEF Shapes
<1>9. Stacked
  BY <1>3, <1>5, <1>6 DEF Stacked
<1>10. ParsedOthers
  <2>1. parsed = <<>> /\ parsed \in Seq({}) /\ DOMAIN parsed = {}
    BY DEF ImportsInit
  <2>2. IsSeq(parsed)
    BY <2>1, SeqOver
  <2> QED
    BY <1>6, <2>1, <2>2 DEF ParsedOthers, IsInjective, ToSet
<1>11. Explored /\ Reached /\ Circles
  BY <1>5, <1>6, <1>7 DEF Explored, Reached, Circles, Circled
<1>12. Contents
  <2>1. <<>> \in Seq({}) /\ DOMAIN <<>> = {}
    OBVIOUS
  <2>2. IsSeq(<<>>)
    BY <2>1, SeqOver
  <2>3. \A f, n : Partial(<<>>, Known, f, n)
    BY <2>1, <2>2 DEF Partial, Distinct
  <2> QED
    BY <1>5, <1>6, <2>3 DEF Contents
<1>13. Named /\ Whys
  BY <1>6 DEF ImportsInit, Named, Whys
<1> QED
  BY <1>8, <1>9, <1>10, <1>11, <1>12, <1>13 DEF IInv

(* The file on top and its current import. *)
LEMMA OnTop ==
    ASSUME Shapes
    PROVE  /\ Len(opened) \in Nat \ {0} /\ Len(opened) \in DOMAIN opened
           /\ DOMAIN opened = 1 .. Len(opened)
           /\ Top = opened[Len(opened)]
           /\ Top.file = File(Len(opened)) /\ Top.left = Left(Len(opened))
           /\ FrameOK(Len(opened))
           /\ Top.file \in Files /\ Len(Top.left) \in Nat
<1>1. Len(opened) \in Nat /\ DOMAIN opened = 1 .. Len(opened) /\ Len(opened) # 0
  BY SeqShape DEF Shapes
<1>2. FrameOK(Len(opened))
  BY <1>1 DEF Shapes
<1>3. Top = opened[Len(opened)]
  BY DEF Top, Last
<1>4. Len(Left(Len(opened))) \in Nat
  BY <1>2, SeqShape DEF FrameOK
<1> QED
  BY <1>1, <1>2, <1>3, <1>4 DEF FrameOK, File, Left

LEMMA OnImport ==
    ASSUME ConstantAssumption, Shapes, HasImport
    PROVE  LET n == Len(opened)
           IN  /\ Len(Top.left) # 0
               /\ Current = Left(n)[1]
               /\ Past(n) + 1 \in 1 .. Len(imports[Top.file])
               /\ Current = imports[Top.file][Past(n) + 1]
               /\ Current \in Requests
               /\ Current.file \in Files => Current.file \in Direct(Top.file)
<1> DEFINE n == Len(opened)
<1>1. /\ Top.file = File(n) /\ Top.left = Left(n) /\ FrameOK(n)
      /\ Top.file \in Files /\ Len(Top.left) \in Nat
  BY OnTop
<1> HIDE DEF n
<1>2. IsSeq(Top.left) /\ Top.left # <<>>
  BY <1>1 DEF FrameOK, HasImport
<1>3. Len(Top.left) # 0
  <2>1. Top.left \in Seq(ToSet(Top.left))
    BY <1>2 DEF IsSeq
  <2> QED
    BY <1>2, <2>1
<1>4. Current = Left(n)[1]
  BY <1>1 DEF Current, Head
<1>5. Len(imports[Top.file]) \in Nat
  BY <1>1, ImportsSeq DEF Shapes
<1>6. Past(n) \in Nat /\ Past(n) = Len(imports[Top.file]) - Len(Top.left)
  BY <1>1 DEF FrameOK, Past
<1>7. Past(n) + 1 \in 1 .. Len(imports[Top.file])
  BY <1>1, <1>3, <1>5, <1>6
<1>8. Current = imports[Top.file][Past(n) + 1]
  <2>1. 1 \in 1 .. Len(Left(n))
    BY <1>1, <1>3
  <2> QED
    BY <1>1, <1>4, <2>1 DEF FrameOK
<1>9. Current \in Requests /\ (Current.file \in Files => Current.file \in Direct(Top.file))
  BY <1>1, <1>7, <1>8, ImportsSeq DEF Shapes
<1> QED
  BY <1>3, <1>4, <1>7, <1>8, <1>9 DEF n

(* What another program reaches is nothing to this one. *)
LEMMA ReachesSame ==
    ASSUME imports' = imports
    PROVE  \A f : Direct(f)' = Direct(f) /\ Reaches(f)' = Reaches(f)
BY DEF Direct, Reaches

LEMMA FrontShape ==
    ASSUME NEW s, IsSeq(s), NEW n, n = Len(s), n # 0
    PROVE  /\ IsSeq(Front(s)) /\ Len(Front(s)) = n - 1 /\ DOMAIN Front(s) = 1 .. n - 1
           /\ \A i \in 1 .. n - 1 : Front(s)[i] = s[i]
<1> DEFINE front == Front(s)
<1>1. n \in Nat /\ s \in Seq(ToSet(s))
  BY SeqShape DEF IsSeq
<1>2. front = [i \in 1 .. n - 1 |-> s[i]]
  BY <1>1 DEF Front
<1>3. n - 1 \in Nat /\ DOMAIN front = 1 .. n - 1 /\ front = [i \in 1 .. n - 1 |-> front[i]]
  BY <1>1, <1>2
<1> HIDE DEF front
<1>4. IsSeq(front) /\ Len(front) = n - 1
  BY <1>3, SeqMade
<1> QED
  BY <1>2, <1>3, <1>4 DEF front

(* An import is over: one less is left of the file on top, the rest stays. *)
LEMMA ImportedShape ==
    ASSUME ConstantAssumption, Shapes, HasImport, NEW t, Imported(t),
           NEW n, n = Len(opened)
    PROVE  /\ IsSeq(opened') /\ Len(opened') = n /\ DOMAIN opened' = 1 .. n
           /\ \A i \in 1 .. n : i # n => opened'[i] = opened[i]
           /\ opened'[n] = [file |-> File(n), left |-> opened'[n].left, target |-> t]
           /\ opened'[n].file = File(n) /\ opened'[n].target = t
           /\ IsSeq(opened'[n].left)
           /\ Len(opened'[n].left) = Len(Left(n)) - 1
           /\ \A k \in 1 .. Len(Left(n)) - 1 : opened'[n].left[k] = Left(n)[k + 1]
<1> DEFINE front == Front(opened)
           new == [file |-> Top.file, left |-> Tail(Top.left), target |-> t]
<1>1. n \in Nat \ {0} /\ DOMAIN opened = 1 .. n /\ Top = opened[n] /\ FrameOK(n)
      /\ Top.file = File(n) /\ Top.left = Left(n)
  BY OnTop
<1>2. IsSeq(opened) /\ n \in 1 .. n
  BY <1>1 DEF Shapes
<1>3. /\ IsSeq(front) /\ Len(front) = n - 1
      /\ \A i \in 1 .. n - 1 : front[i] = opened[i]
  BY <1>1, <1>2, FrontShape
<1>4. opened' = Append(front, new)
  BY DEF Imported
<1>5. IsSeq(Left(n))
  BY <1>1 DEF FrameOK
<1>6. new = [file |-> File(n), left |-> Tail(Left(n)), target |-> t]
  BY <1>1
<1> HIDE DEF new, front
<1>7. /\ IsSeq(opened') /\ Len(opened') = n /\ DOMAIN opened' = 1 .. n
      /\ \A i \in 1 .. n - 1 : opened'[i] = front[i]
      /\ opened'[n] = new
  <2>1. /\ IsSeq(Append(front, new))
        /\ Len(Append(front, new)) = Len(front) + 1
        /\ DOMAIN Append(front, new) = 1 .. Len(front) + 1
        /\ \A i \in 1 .. Len(front) : Append(front, new)[i] = front[i]
        /\ Append(front, new)[Len(front) + 1] = new
    BY <1>3, AppendShape
  <2>2. Len(front) + 1 = n
    BY <1>1, <1>3
  <2> QED
    BY <1>3, <1>4, <2>1, <2>2
<1>8. \A i \in 1 .. n : i # n => opened'[i] = opened[i]
  <2> SUFFICES ASSUME NEW i \in 1 .. n, i # n PROVE opened'[i] = opened[i]
    OBVIOUS
  <2>1. i \in 1 .. n - 1
    BY <1>1
  <2> QED
    BY <1>3, <1>7, <2>1
<1>9. Len(Left(n)) \in Nat \ {0}
  <2>1. Len(Left(n)) \in Nat
    BY <1>5, SeqShape
  <2>2. Len(Left(n)) # 0
    BY OnImport, OnTop
  <2> QED
    BY <2>1, <2>2
<1>10. /\ IsSeq(Tail(Left(n)))
       /\ Len(Tail(Left(n))) = Len(Left(n)) - 1
       /\ \A k \in 1 .. Len(Left(n)) - 1 : Tail(Left(n))[k] = Left(n)[k + 1]
  <2>1. Left(n) \in Seq(ToSet(Left(n)))
    BY <1>5 DEF IsSeq
  <2>2. Left(n) # <<>>
    BY <1>9
  <2>3. Tail(Left(n)) \in Seq(ToSet(Left(n)))
    BY <2>1, <2>2
  <2>4. IsSeq(Tail(Left(n)))
    BY <2>3, SeqOver
  <2> QED
    BY <1>9, <2>1, <2>2, <2>4
<1>11. /\ opened'[n] = [file |-> File(n), left |-> opened'[n].left, target |-> t]
       /\ opened'[n].file = File(n) /\ opened'[n].target = t
       /\ opened'[n].left = Tail(Left(n))
  BY <1>6, <1>7
<1> QED
  BY <1>7, <1>8, <1>10, <1>11

(* Whatever the import was, the files stay what they are. *)
LEMMA ImportedKeeps ==
    ASSUME ConstantAssumption, IInv, HasImport, NEW t, Imported(t),
           UNCHANGED <<imports, cache, parsed>>,
           Current.file \in Files => Current.file \in Known \union Open,
           Partial(t, Known, Top.file, Len(Top.left) - 1)
    PROVE  /\ Shapes' /\ Stacked' /\ ParsedOthers' /\ Explored' /\ Reached' /\ Contents'
           /\ \A i \in DOMAIN opened' :
                  i \in DOMAIN opened /\ Gone(i)' \subseteq Gone(i) \union {Current.file}
<1>0. PICK n : n = Len(opened)
  OBVIOUS
<1>p. PICK past : past = Past(n)
  OBVIOUS
<1> DEFINE Tops == opened'[n]
<1>1. /\ n \in Nat \ {0} /\ DOMAIN opened = 1 .. n
      /\ Top.file = File(n) /\ Top.left = Left(n) /\ FrameOK(n)
      /\ Top.file \in Files
  BY <1>0, OnTop DEF IInv
<1>2. /\ past + 1 \in 1 .. Len(imports[File(n)])
      /\ Current = imports[File(n)][past + 1]
  BY <1>0, <1>p, <1>1, OnImport DEF IInv
<1>3. /\ IsSeq(opened') /\ Len(opened') = n /\ DOMAIN opened' = 1 .. n
      /\ \A i \in 1 .. n : i # n => opened'[i] = opened[i]
      /\ Tops = [file |-> File(n), left |-> Tops.left, target |-> t]
      /\ Tops.file = File(n) /\ Tops.target = t
      /\ IsSeq(Tops.left)
      /\ Len(Tops.left) = Len(Left(n)) - 1
      /\ \A k \in 1 .. Len(Left(n)) - 1 : Tops.left[k] = Left(n)[k + 1]
  BY <1>0, ImportedShape DEF IInv
<1>4. Known' = Known /\ imports' = imports /\ parsed' = parsed /\ cache' = cache
  BY DEF Known
<1>5. \A i \in 1 .. n : File(i)' = File(i)
  <2> SUFFICES ASSUME NEW i \in 1 .. n PROVE opened'[i].file = opened[i].file
    BY DEF File
  <2>1. CASE i = n
    BY <1>3, <2>1 DEF File
  <2>2. CASE i # n
    BY <1>3, <2>2
  <2> QED
    BY <2>1, <2>2
<1>6. Open' = Open
  <2>1. Open = {File(i) : i \in 1 .. n}
    BY <1>1 DEF Open, File
  <2>2. Open' = {File(i)' : i \in 1 .. n}
    BY <1>3 DEF Open, File
  <2> QED
    BY <1>5, <2>1, <2>2
<1>7. /\ Len(imports[File(n)]) \in Nat /\ Len(Left(n)) \in Nat
      /\ past = Len(imports[File(n)]) - Len(Left(n)) /\ past \in Nat
  <2>1. Len(imports[File(n)]) \in Nat
    BY <1>1, ImportsSeq DEF IInv, Shapes
  <2>2. Len(Left(n)) \in Nat
    BY <1>1, SeqShape DEF FrameOK
  <2> QED
    BY <1>p, <1>1, <2>1, <2>2 DEF FrameOK, Past
<1>8. \A i \in 1 .. n : i # n => Left(i)' = Left(i) /\ Past(i)' = Past(i) /\ Gone(i)' = Gone(i)
  BY <1>3, <1>4 DEF Left, Past, File, Gone
<1>9. Left(n)' = Tops.left /\ Past(n)' = past + 1
  <2>1. Left(n)' = Tops.left
    BY DEF Left
  <2>0. File(n)' = File(n) /\ Len(Tops.left) = Len(Left(n)) - 1
    BY <1>1, <1>3, <1>5
  <2>2. Past(n)' = Len(imports[File(n)]) - (Len(Left(n)) - 1)
    BY <1>4, <2>0, <2>1 DEF Past
  <2> QED
    BY <1>7, <2>1, <2>2
<1>10. Gone(n)' = Gone(n) \union {Current.file}
  <2>1. Gone(n)' = {imports[File(n)][k].file : k \in 1 .. past + 1}
    BY <1>1, <1>4, <1>5, <1>9 DEF Gone
  <2>2. Gone(n) = {imports[File(n)][k].file : k \in 1 .. past}
    BY <1>p DEF Gone
  <2>3. 1 .. past + 1 = (1 .. past) \union {past + 1}
    BY <1>7
  <2> QED
    BY <1>2, <2>1, <2>2, <2>3
<1> HIDE DEF Tops
<1>11. Shapes'
  <2>1. ASSUME NEW i \in 1 .. n
        PROVE  FrameOK(i)'
    <3>1. CASE i = n
      <4>1. opened'[n] = [file |-> File(n)', left |-> Left(n)', target |-> opened'[n].target]
        BY <1>1, <1>3, <1>5, <1>9 DEF Tops
      <4>2. IsSeq(Left(n)') /\ Past(n)' \in Nat
        BY <1>3, <1>7, <1>9
      <4>3. \A k \in 1 .. Len(Left(n)') : Left(n)'[k] = imports'[File(n)'][Past(n)' + k]
        <5>0. PICK m \in Nat : m = Len(Left(n))
          BY <1>7
        <5>4. /\ Left(n)' = Tops.left /\ Len(Tops.left) = m - 1
              /\ File(n)' = File(n) /\ Past(n)' = past + 1
          BY <1>1, <1>3, <1>5, <1>9, <5>0
        <5> SUFFICES ASSUME NEW k \in 1 .. m - 1
                     PROVE  Tops.left[k] = imports[File(n)][past + 1 + k]
          BY <1>4, <5>4
        <5>5. m \in Nat /\ past \in Nat
          BY <1>7, <5>0
        <5>6. k \in 1 .. m - 1
          OBVIOUS
        <5>1. k + 1 \in 1 .. m /\ past + (k + 1) = past + 1 + k
          BY <5>5, <5>6
        <5>2. Left(n)[k + 1] = imports[File(n)][past + (k + 1)]
          BY <1>p, <1>1, <5>0, <5>1 DEF FrameOK
        <5> QED
          BY <1>3, <5>0, <5>1, <5>2
      <4> QED
        BY <1>1, <1>5, <3>1, <4>1, <4>2, <4>3 DEF FrameOK
    <3>2. CASE i # n
      <4>1. FrameOK(i)
        BY <1>1 DEF IInv, Shapes
      <4> QED
        BY <1>3, <1>4, <1>5, <1>8, <3>2, <4>1 DEF FrameOK
    <3> QED
      BY <3>1, <3>2
  <2> QED
    BY <1>1, <1>3, <1>4, <2>1 DEF IInv, Shapes
<1>12. Stacked'
  <2>1. Stacked /\ 1 \in 1 .. n
    BY <1>1 DEF IInv
  <2> QED
    BY <1>1, <1>3, <1>4, <1>5, <2>1 DEF Stacked
<1>13. ParsedOthers'
  BY <1>4, <1>6 DEF IInv, ParsedOthers
<1>14. Explored'
  <2>1. \A f : Direct(f)' = Direct(f)
    BY <1>4, ReachesSame
  <2>2. \A i \in 1 .. n : Gone(i)' \intersect Files \subseteq Known \union Open
    BY <1>1, <1>8, <1>10 DEF IInv, Explored
  <2> QED
    BY <1>3, <1>4, <1>6, <2>1, <2>2 DEF IInv, Explored
<1>15. Reached'
  <2>1. \A f : Reaches(f)' = Reaches(f)
    BY <1>4, ReachesSame
  <2> QED
    BY <1>1, <1>3, <1>4, <1>5, <1>6, <2>1 DEF IInv, Reached
<1>16. Contents'
  <2>1. ASSUME NEW i \in 1 .. n
        PROVE  Partial(opened'[i].target, Known, File(i)', Len(Left(i)'))
    <3>1. CASE i = n
      <4>1. opened'[n].target = t /\ Len(Left(n)') = Len(Left(n)) - 1 /\ File(n)' = Top.file
        BY <1>1, <1>3, <1>5, <1>9 DEF Tops
      <4> QED
        BY <1>1, <3>1, <4>1
    <3>2. CASE i # n
      BY <1>1, <1>3, <1>5, <1>8, <3>2 DEF IInv, Contents
    <3> QED
      BY <3>1, <3>2
  <2> QED
    BY <1>3, <1>4, <2>1 DEF IInv, Contents
<1>17. \A i \in DOMAIN opened' :
           i \in DOMAIN opened /\ Gone(i)' \subseteq Gone(i) \union {Current.file}
  BY <1>1, <1>3, <1>8, <1>10
<1> QED
  BY <1>11, <1>12, <1>13, <1>14, <1>15, <1>16, <1>17


(* Circular: the file leads back to one that leads to it. *)
LEMMA CircularKeeps ==
    ASSUME ConstantAssumption, IInv, Circular
    PROVE  IInv'
<1>0. PICK n : n = Len(opened)
  OBVIOUS
<1>1. /\ n \in Nat \ {0} /\ DOMAIN opened = 1 .. n /\ Top = opened[n]
      /\ Top.file = File(n) /\ Top.left = Left(n)
      /\ Top.file \in Files /\ Len(Top.left) \in Nat
  BY <1>0, OnTop DEF IInv
<1>2. HasImport /\ Imported(Top.target) /\ Current.file \in Open
  BY DEF Circular, IsOpen
<1>3. UNCHANGED <<imports, cache, named, parsed>> /\ Known' = Known
  BY DEF Circular, Known
<1>4. PICK i \in 1 .. n : Current.file = File(i)
  BY <1>1, <1>2 DEF Open, File
<1>5. FrameOK(i) /\ File(i) \in Files
  BY <1>1 DEF IInv, Shapes, FrameOK
<1>6. Current.file \in Direct(Top.file) /\ Len(Top.left) # 0
  BY <1>2, <1>4, <1>5, OnImport DEF IInv
<1>7. Partial(Top.target, Known, Top.file, Len(Top.left) - 1)
  <2>1. Partial(Top.target, Known, Top.file, Len(Top.left))
    BY <1>1 DEF IInv, Contents
  <2> QED
    BY <1>1, <1>6, <2>1, FewerLeft
<1>8. Shapes' /\ Stacked' /\ ParsedOthers' /\ Explored' /\ Reached' /\ Contents'
  BY <1>2, <1>3, <1>7, ImportedKeeps
<1>9. File(i) \in Reaches(File(i))
  <2>1. CASE i = n
    BY <1>1, <1>4, <1>6, <2>1, ReachesFiles
  <2>2. CASE i # n
    <3>1. File(n) \in Reaches(File(i))
      BY <1>1, <2>2 DEF IInv, Reached
    <3> QED
      BY <1>1, <1>4, <1>6, <3>1, ReachesOn
  <2> QED
    BY <2>1, <2>2
<1>10. File(i) \in {Entry} \union Reaches(Entry)
  BY <1>2, <1>4 DEF IInv, Reached
<1>11. faults' = faults \union
                    {[file |-> Top.file, of |-> Current.file, why |-> w] : w \in {"circular"}}
  BY DEF Circular, Report, CircularReported
<1>12. Circles'
  <2>1. Circled'
    <3> DEFINE e == [file |-> Top.file, of |-> Current.file, why |-> "circular"]
    <3>1. e \in faults' /\ e.why = "circular"
      BY <1>11
    <3> QED
      BY <3>1 DEF Circled
  <2>2. \A f : Reaches(f)' = Reaches(f)
    BY <1>3, ReachesSame
  <2> QED
    BY <1>9, <1>10, <2>1, <2>2 DEF Circles
<1>13. Named' /\ Whys'
  BY <1>3, <1>11 DEF IInv, Named, Whys
<1> QED
  BY <1>8, <1>12, <1>13 DEF IInv

(* An import of a file that is resolved, or of none: nothing goes round. *)
LEMMA NothingCircular ==
    ASSUME IInv, imports' = imports, Known' = Known,
           \A i \in DOMAIN opened' :
               i \in DOMAIN opened /\ Gone(i)' \subseteq Gone(i) \union {Current.file},
           Current.file \in Files => Current.file \in Known,
           NEW whys, whys \subseteq {"missing", "unknown", "alias"}, Report(whys)
    PROVE  Circles' /\ Whys'
<1>1. faults' = faults \union {[file |-> Top.file, of |-> Current.file, why |-> w] : w \in whys}
  BY DEF Report
<1>2. Circled' <=> Circled
  BY <1>1 DEF Circled
<1>3. \A f : Direct(f)' = Direct(f) /\ Reaches(f)' = Reaches(f)
  BY ReachesSame
<1>4. ASSUME ~Circled, NEW i \in DOMAIN opened'
      PROVE  Gone(i)' \intersect Files \subseteq Known
  BY <1>4 DEF IInv, Circles
<1>5. Circles'
  BY <1>2, <1>3, <1>4 DEF IInv, Circles
<1>6. Whys'
  BY <1>1 DEF IInv, Whys
<1> QED
  BY <1>5, <1>6

(* Missing: the file does not exist. *)
LEMMA MissingKeeps ==
    ASSUME ConstantAssumption, IInv, Missing
    PROVE  IInv'
<1>1. /\ Top = opened[Len(opened)] /\ Len(opened) \in DOMAIN opened
      /\ Top.file = File(Len(opened)) /\ Top.left = Left(Len(opened))
      /\ Len(Top.left) \in Nat
  BY OnTop DEF IInv
<1>2. HasImport /\ Imported(Top.target) /\ Current.file \notin Files /\ Report({"missing"})
  BY DEF Missing
<1>3. UNCHANGED <<imports, cache, named, parsed>> /\ Known' = Known
  BY DEF Missing, Known
<1>4. Partial(Top.target, Known, Top.file, Len(Top.left) - 1)
  <2>1. Partial(Top.target, Known, Top.file, Len(Top.left))
    BY <1>1 DEF IInv, Contents
  <2>2. Len(Top.left) # 0
    BY <1>2, OnImport DEF IInv
  <2> QED
    BY <1>1, <2>1, <2>2, FewerLeft
<1>5. /\ Shapes' /\ Stacked' /\ ParsedOthers' /\ Explored' /\ Reached' /\ Contents'
      /\ \A i \in DOMAIN opened' :
             i \in DOMAIN opened /\ Gone(i)' \subseteq Gone(i) \union {Current.file}
  BY <1>2, <1>3, <1>4, ImportedKeeps
<1>6. Circles' /\ Whys'
  BY <1>2, <1>3, <1>5, NothingCircular
<1>7. Named'
  BY <1>3 DEF IInv, Named
<1> QED
  BY <1>5, <1>6, <1>7 DEF IInv

(* Merge: what the file declares is merged, each declaration once. *)
LEMMA MergeKeeps ==
    ASSUME ConstantAssumption, IInv, Merge
    PROVE  IInv'
<1> DEFINE module == cache[Current.file]
           target == Merged(Top.target, Current, module).target
<1>1. /\ Top = opened[Len(opened)] /\ Len(opened) \in DOMAIN opened
      /\ Top.file = File(Len(opened)) /\ Top.left = Left(Len(opened))
      /\ Top.file \in Files /\ Len(Top.left) \in Nat
  BY OnTop DEF IInv
<1>2. HasImport /\ Imported(target) /\ Current.file \in Known
  BY DEF Merge, NotResolved
<1>3. UNCHANGED <<imports, cache, parsed>> /\ Known' = Known
  BY DEF Merge, Known
<1>4. Len(Top.left) # 0 /\ Current \in Requests
  BY <1>2, OnImport DEF IInv
<1>5. /\ Current.kind \in {"all", "named", "namespace"}
      /\ Current.kind = "named" => IsSeq(Current.binds)
  BY <1>4 DEF ConstantAssumption, IsSeq
<1>6. Whole(module, Known)
  BY <1>2 DEF IInv, Contents
<1>7. Partial(target, Known, Top.file, Len(Top.left) - 1)
  <2>1. Partial(Top.target, Known, Top.file, Len(Top.left))
    BY <1>1 DEF IInv, Contents
  <2>2. Top.file \in Files \ Known
    BY <1>1 DEF IInv, Stacked
  <2> HIDE DEF module
  <2> QED
    BY <1>1, <1>4, <1>5, <1>6, <2>1, <2>2, MergedPartial
<1> HIDE DEF target
<1>8. /\ Shapes' /\ Stacked' /\ ParsedOthers' /\ Explored' /\ Reached' /\ Contents'
      /\ \A i \in DOMAIN opened' :
             i \in DOMAIN opened /\ Gone(i)' \subseteq Gone(i) \union {Current.file}
  BY <1>2, <1>3, <1>7, ImportedKeeps
<1>9. Circles' /\ Whys'
  <2>1. Complaints(Top.target, Current, module) \subseteq {"unknown", "alias"}
    BY DEF Complaints
  <2>2. Report(Complaints(Top.target, Current, module))
    BY DEF Merge
  <2> QED
    BY <1>2, <1>3, <1>8, <2>1, <2>2, NothingCircular
<1>10. Named'
  <2>1. named' = [named EXCEPT ![Top.file] = @ \union NamedHere(Current, module)]
    BY DEF Merge
  <2> HIDE DEF module
  <2>2. /\ NamedHere(Current, module) \subseteq Files \X Nat
        /\ \A id \in NamedHere(Current, module) : id[2] \in DOMAIN Decls[id[1]]
    BY <1>5, <1>6, NamedHereDeclared
  <2>3. Named
    BY DEF IInv
  <2> QED
    BY <1>1, <2>1, <2>2, <2>3 DEF Named
<1> QED
  BY <1>8, <1>9, <1>10 DEF IInv


(* Load: the file is parsed, once, and its imports are next. *)
LEMMA LoadKeeps ==
    ASSUME ConstantAssumption, IInv, Load
    PROVE  IInv'
<1>0. PICK n : n = Len(opened)
  OBVIOUS
<1>f. PICK f : f = Current.file
  OBVIOUS
<1> DEFINE new == [file |-> f, left |-> imports[f], target |-> <<>>]
<1>1. /\ n \in Nat \ {0} /\ DOMAIN opened = 1 .. n /\ IsSeq(opened)
      /\ Top.file = File(n) /\ Top.file \in Files
  BY <1>0, OnTop DEF IInv, Shapes
<1>2. /\ HasImport /\ f \in Files /\ f \notin Open /\ f \notin Known
      /\ opened' = Append(opened, new) /\ parsed' = Append(parsed, f)
  BY <1>f DEF Load, IsOpen, NotResolved
<1>3. UNCHANGED <<imports, cache, named, faults>> /\ Known' = Known
  BY DEF Load, Known
<1>4. f \in Direct(Top.file) /\ imports \in Programs
  BY <1>f, <1>2, OnImport DEF IInv, Shapes
<1>5. IsSeq(imports[f]) /\ Len(imports[f]) \in Nat
  BY <1>2, <1>4, ImportsSeq
<1>6. /\ IsSeq(opened') /\ Len(opened') = n + 1 /\ DOMAIN opened' = 1 .. n + 1
      /\ \A i \in 1 .. n : opened'[i] = opened[i]
      /\ opened'[n + 1] = new
  <2> HIDE DEF new
  <2> QED
    BY <1>0, <1>1, <1>2, AppendShape
<1>7. \A i \in 1 .. n :
          /\ File(i)' = File(i) /\ Left(i)' = Left(i)
          /\ Past(i)' = Past(i) /\ Gone(i)' = Gone(i)
  BY <1>3, <1>6 DEF File, Left, Past, Gone
<1>m. PICK m : m = n + 1
  OBVIOUS
<1>8. /\ File(m)' = f /\ Left(m)' = imports[f] /\ opened'[m].target = <<>>
      /\ Past(m)' = 0 /\ Gone(m)' = {}
  <2>1. File(m)' = f /\ Left(m)' = imports[f] /\ opened'[m].target = <<>>
    BY <1>m, <1>6 DEF File, Left
  <2>2. Past(m)' = 0
    BY <1>3, <1>5, <2>1 DEF Past
  <2> QED
    BY <2>1, <2>2 DEF Gone
<1>9. \A i \in DOMAIN opened' : i \in 1 .. n \/ i = m
  BY <1>1, <1>m, <1>6
<1>10. m \in DOMAIN opened' /\ m \notin 1 .. n /\ 1 .. n \subseteq DOMAIN opened'
  BY <1>1, <1>m, <1>6
<1>11. Open' = Open \union {f}
  <2>1. Open = {File(i) : i \in 1 .. n}
    BY <1>1 DEF Open, File
  <2>2. Open' = {File(i)' : i \in DOMAIN opened'}
    BY DEF Open, File
  <2> QED
    BY <1>7, <1>8, <1>9, <1>10, <2>1, <2>2
<1>12. f # Entry /\ \A i \in 1 .. n : File(i) # f
  <2>1. \A i \in 1 .. n : File(i) \in Open
    BY <1>1 DEF Open, File
  <2>2. File(1) = Entry
    BY DEF IInv, Stacked
  <2> QED
    BY <1>1, <1>2, <2>1, <2>2
<1>13. Shapes'
  <2>1. FrameOK(m)'
    <3>1. opened'[m] = [file |-> File(m)', left |-> Left(m)', target |-> opened'[m].target]
      BY <1>m, <1>6, <1>8
    <3>2. \A k \in 1 .. Len(Left(m)') : Left(m)'[k] = imports'[File(m)'][Past(m)' + k]
      BY <1>3, <1>5, <1>8
    <3>3. File(m)' \in Files /\ IsSeq(Left(m)') /\ Past(m)' \in Nat
      BY <1>2, <1>5, <1>8
    <3> QED
      BY <3>1, <3>2, <3>3 DEF FrameOK
  <2>2. ASSUME NEW i \in 1 .. n
        PROVE  FrameOK(i)'
    <3>1. FrameOK(i)
      BY <1>1 DEF IInv, Shapes
    <3> QED
      BY <1>3, <1>6, <1>7, <3>1 DEF FrameOK
  <2>3. Known \subseteq Files /\ Len(opened') # 0
    BY <1>1, <1>6 DEF IInv, Shapes
  <2> QED
    BY <1>3, <1>4, <1>6, <1>9, <2>1, <2>2, <2>3 DEF Shapes
<1>14. Stacked'
  <2>1. Stacked /\ 1 \in 1 .. n
    BY <1>1 DEF IInv
  <2>2. File(1)' = Entry
    BY <1>7, <2>1 DEF Stacked
  <2>3. \A i, j \in DOMAIN opened' : File(i)' = File(j)' => i = j
    BY <1>1, <1>7, <1>8, <1>9, <1>12, <2>1 DEF Stacked
  <2>4. \A i \in DOMAIN opened' : File(i)' \notin Known'
    BY <1>1, <1>2, <1>3, <1>7, <1>8, <1>9, <2>1 DEF Stacked
  <2> QED
    BY <2>2, <2>3, <2>4 DEF Stacked
<1>15. ParsedOthers'
  <2>1. IsSeq(parsed) /\ IsInjective(parsed) /\ ToSet(parsed) = (Known \union Open) \ {Entry}
    BY DEF IInv, ParsedOthers
  <2>2. Len(parsed) \in Nat /\ DOMAIN parsed = 1 .. Len(parsed)
    BY <2>1, SeqShape
  <2>3. /\ IsSeq(parsed') /\ DOMAIN parsed' = 1 .. Len(parsed) + 1
        /\ \A i \in 1 .. Len(parsed) : parsed'[i] = parsed[i]
        /\ parsed'[Len(parsed) + 1] = f
    BY <1>2, <2>1, AppendShape
  <2>4. \A i \in 1 .. Len(parsed) : parsed[i] # f
    <3>1. f \notin ToSet(parsed)
      BY <1>2, <2>1
    <3> QED
      BY <2>2, <3>1 DEF ToSet
  <2>5. IsInjective(parsed')
    BY <2>1, <2>2, <2>3, <2>4 DEF IsInjective
  <2>6. ToSet(parsed') = ToSet(parsed) \union {f}
    <3>1. ToSet(parsed) = {parsed[i] : i \in 1 .. Len(parsed)}
      BY <2>2 DEF ToSet
    <3>2. ToSet(parsed') = {parsed'[i] : i \in 1 .. Len(parsed) + 1}
      BY <2>3 DEF ToSet
    <3>3. 1 .. Len(parsed) + 1 = (1 .. Len(parsed)) \union {Len(parsed) + 1}
      BY <2>2
    <3> QED
      BY <2>3, <3>1, <3>2, <3>3
  <2>7. ToSet(parsed') = (Known' \union Open') \ {Entry}
    BY <1>3, <1>11, <1>12, <2>1, <2>6
  <2> QED
    BY <2>3, <2>5, <2>7 DEF ParsedOthers
<1>16. \A g : Direct(g)' = Direct(g) /\ Reaches(g)' = Reaches(g)
  BY <1>3, ReachesSame
<1>17. Explored'
  <2>1. \A i \in DOMAIN opened' : Gone(i)' \intersect Files \subseteq Known \union Open
    BY <1>1, <1>7, <1>8, <1>9 DEF IInv, Explored
  <2>2. \A g \in Known : Direct(g) \subseteq Known \union Open
    BY DEF IInv, Explored
  <2> QED
    BY <1>3, <1>11, <1>16, <2>1, <2>2 DEF Explored
<1>18. Reached'
  <2>1. ASSUME NEW i \in 1 .. n
        PROVE  f \in Reaches(File(i))
    <3>1. CASE i = n
      BY <1>1, <1>4, <3>1, ReachesFiles
    <3>2. CASE i # n
      <4>1. File(n) \in Reaches(File(i))
        BY <1>1, <3>2 DEF IInv, Reached
      <4> QED
        BY <1>1, <1>4, <4>1, ReachesOn
    <3> QED
      BY <3>1, <3>2
  <2>2. f \in Reaches(Entry)
    <3>1. File(1) = Entry /\ 1 \in 1 .. n
      BY <1>1 DEF IInv, Stacked
    <3> QED
      BY <2>1, <3>1
  <2>3. (Known' \union Open') \ {Entry} \subseteq Reaches(Entry)
    BY <1>3, <1>11, <2>2 DEF IInv, Reached
  <2>4. \A i, j \in DOMAIN opened' : i < j => File(j)' \in Reaches(File(i)')
    <3> SUFFICES ASSUME NEW i \in DOMAIN opened', NEW j \in DOMAIN opened', i < j
                 PROVE  File(j)' \in Reaches(File(i)')
      OBVIOUS
    <3>1. i \in 1 .. n
      BY <1>1, <1>m, <1>6
    <3>2. CASE j = m
      BY <1>7, <1>8, <2>1, <3>1, <3>2
    <3>3. CASE j \in 1 .. n
      BY <1>1, <1>7, <3>1, <3>3 DEF IInv, Reached
    <3> QED
      BY <1>9, <3>2, <3>3
  <2> QED
    BY <1>16, <2>3, <2>4 DEF Reached
<1>19. Circles'
  <2>1. Circled' <=> Circled
    BY <1>3 DEF Circled
  <2>2. ASSUME ~Circled, NEW i \in DOMAIN opened'
        PROVE  Gone(i)' \intersect Files \subseteq Known
    BY <1>1, <1>7, <1>8, <1>9, <2>2 DEF IInv, Circles
  <2> QED
    BY <1>3, <1>16, <2>1, <2>2 DEF IInv, Circles
<1>20. Contents'
  <2>1. <<>> \in Seq({}) /\ DOMAIN <<>> = {}
    OBVIOUS
  <2>2. IsSeq(<<>>)
    BY <2>1, SeqOver
  <2>3. \A g, k : Partial(<<>>, Known, g, k)
    BY <2>1, <2>2 DEF Partial, Distinct
  <2>4. \A i \in DOMAIN opened' : Partial(opened'[i].target, Known, File(i)', Len(Left(i)'))
    BY <1>1, <1>6, <1>7, <1>8, <1>9, <2>3 DEF IInv, Contents
  <2> QED
    BY <1>3, <2>4 DEF IInv, Contents
<1>21. Named' /\ Whys'
  BY <1>3 DEF IInv, Named, Whys
<1> QED
  BY <1>13, <1>14, <1>15, <1>17, <1>18, <1>19, <1>20, <1>21 DEF IInv


(* Store: the file is resolved, and what it reaches is resolved or on the way. *)
LEMMA StoreKeeps ==
    ASSUME ConstantAssumption, IInv, Store
    PROVE  IInv'
<1>0. PICK n : n = Len(opened)
  OBVIOUS
<1>f. PICK f : f = Top.file
  OBVIOUS
<1>1. /\ n \in Nat \ {0} /\ DOMAIN opened = 1 .. n /\ IsSeq(opened)
      /\ Top = opened[n] /\ Top.left = Left(n) /\ FrameOK(n)
      /\ f = File(n) /\ f \in Files
  BY <1>0, <1>f, OnTop DEF IInv, Shapes
<1>2. /\ n > 1 /\ Left(n) = <<>> /\ opened' = Front(opened)
      /\ UNCHANGED <<imports, named, parsed, faults>>
  BY <1>0, <1>1 DEF Store
<1>3. /\ Known' = Known \union {f}
      /\ cache'[f] = WithOwn(Top.target, f)
      /\ \A g \in Known : g # f => cache'[g] = cache[g]
  <2>1. cache' = [g \in Known \union {f} |-> IF g = f THEN WithOwn(Top.target, f) ELSE cache[g]]
    BY <1>f DEF Store
  <2> QED
    BY <2>1 DEF Known
<1>4. IsSeq(opened') /\ DOMAIN opened' = 1 .. n - 1 /\ \A i \in 1 .. n - 1 : opened'[i] = opened[i]
  BY <1>0, <1>1, <1>2, FrontShape
<1>m. PICK m : m = n - 1
  OBVIOUS
<1>d. m \in Nat /\ 1 \in 1 .. m
  BY <1>1, <1>2, <1>m
<1>5. /\ DOMAIN opened' = 1 .. m
      /\ \A i \in 1 .. m :
            /\ i \in 1 .. n /\ i # n /\ opened'[i] = opened[i]
            /\ File(i)' = File(i) /\ Left(i)' = Left(i)
            /\ Past(i)' = Past(i) /\ Gone(i)' = Gone(i)
  <2>1. DOMAIN opened' = 1 .. m /\ \A i \in 1 .. m : opened'[i] = opened[i]
    BY <1>m, <1>4
  <2>2. \A i \in 1 .. m : i \in 1 .. n /\ i # n
    BY <1>1, <1>m
  <2> QED
    BY <1>2, <2>1, <2>2 DEF File, Left, Past, Gone
<1>6. \A i \in 1 .. n : i \in 1 .. m \/ i = n
  BY <1>1, <1>m
<1>7. \A i \in 1 .. m : File(i) # f
  BY <1>1, <1>5 DEF IInv, Stacked
<1>8. f \notin Known
  BY <1>1 DEF IInv, Stacked
<1>9. f # Entry
  <2>1. 1 \in 1 .. m
    BY <1>d
  <2> QED
    BY <1>7, <2>1 DEF IInv, Stacked
<1>10. Open = Open' \union {f}
  <2>1. Open = {File(i) : i \in 1 .. n}
    BY <1>1 DEF Open, File
  <2>2. Open' = {File(i)' : i \in 1 .. m}
    BY <1>5 DEF Open, File
  <2> QED
    BY <1>1, <1>5, <1>6, <2>1, <2>2
<1>11. Known' \union Open' = Known \union Open
  BY <1>3, <1>10
<1>12. \A g : Direct(g)' = Direct(g) /\ Reaches(g)' = Reaches(g)
  BY <1>2, ReachesSame
<1>13. Direct(f) = Gone(n) \intersect Files
  <2>1. /\ Direct(f) = {imports[f][k].file : k \in 1 .. Len(imports[f])} \intersect Files
        /\ Len(imports[f]) \in Nat
    BY <1>1, ImportsSeq DEF IInv, Shapes
  <2>2. Len(Left(n)) = 0
    BY <1>2
  <2>3. Past(n) = Len(imports[f])
    BY <1>1, <2>1, <2>2 DEF Past
  <2> QED
    BY <1>1, <2>1, <2>3 DEF Gone
<1>14. Shapes'
  <2>1. \A i \in 1 .. m : FrameOK(i)'
    <3> SUFFICES ASSUME NEW i \in 1 .. m PROVE FrameOK(i)'
      OBVIOUS
    <3>1. FrameOK(i)
      BY <1>1, <1>5 DEF IInv, Shapes
    <3> QED
      BY <1>2, <1>5, <3>1 DEF FrameOK
  <2>2. Len(opened') # 0
    <3>1. DOMAIN opened' = 1 .. Len(opened')
      BY <1>4, SeqShape
    <3>2. 1 \in DOMAIN opened'
      BY <1>5, <1>d
    <3> QED
      BY <3>1, <3>2
  <2>3. Known' \subseteq Files
    BY <1>1, <1>3 DEF IInv, Shapes
  <2> QED
    BY <1>2, <1>4, <1>5, <2>1, <2>2, <2>3 DEF IInv, Shapes
<1>15. Stacked'
  <2>1. 1 \in 1 .. m /\ Stacked
    BY <1>d DEF IInv
  <2> QED
    BY <1>1, <1>3, <1>5, <1>7, <2>1 DEF Stacked
<1>16. ParsedOthers'
  BY <1>2, <1>11 DEF IInv, ParsedOthers
<1>17. Explored'
  <2>1. \A i \in 1 .. n : Gone(i) \intersect Files \subseteq Known \union Open
    BY <1>1 DEF IInv, Explored
  <2>2. \A g \in Known' : Direct(g) \subseteq Known \union Open
    BY <1>1, <1>3, <1>13, <2>1 DEF IInv, Explored
  <2> QED
    BY <1>5, <1>11, <1>12, <2>1, <2>2 DEF Explored
<1>18. Reached'
  BY <1>1, <1>5, <1>11, <1>12 DEF IInv, Reached
<1>19. Circles'
  <2>1. Circled' <=> Circled
    BY <1>2 DEF Circled
  <2>2. ASSUME ~Circled
        PROVE  /\ \A i \in DOMAIN opened' : Gone(i)' \intersect Files \subseteq Known'
               /\ \A g \in Known' : Direct(g) \subseteq Known' /\ g \notin Reaches(g)
    <3>1. /\ \A i \in 1 .. n : Gone(i) \intersect Files \subseteq Known
          /\ \A g \in Known : Direct(g) \subseteq Known /\ g \notin Reaches(g)
      BY <1>1, <2>2 DEF IInv, Circles
    <3>2. Direct(f) \subseteq Known
      BY <1>1, <1>13, <3>1
    <3>3. Reaches(f) \subseteq Known
      <4>1. Known \in SUBSET Files
        BY DEF IInv, Shapes
      <4> QED
        BY <3>1, <3>2, <4>1, ReachesWithin
    <3> QED
      BY <1>3, <1>5, <1>8, <3>1, <3>2, <3>3
  <2> QED
    BY <1>12, <2>1, <2>2 DEF IInv, Circles
<1>20. Contents'
  <2>1. Whole(cache'[f], Known')
    <3>1. Partial(Top.target, Known, f, 0)
      <4>1. Partial(Top.target, Known, f, Len(Left(n)))
        BY <1>1 DEF IInv, Contents
      <4>2. Len(Left(n)) = 0
        BY <1>2
      <4> QED
        BY <4>1, <4>2
    <3>2. Whole(Top.target \o Written(f), Known \union {f})
      BY <1>1, <1>8, <3>1, WithOwnWhole
    <3> QED
      BY <1>3, <3>2 DEF WithOwn
  <2>2. ASSUME NEW g \in Known
        PROVE  Whole(cache'[g], Known')
    <3>1. Whole(cache[g], Known)
      BY DEF IInv, Contents
    <3> QED
      BY <1>3, <1>8, <3>1 DEF Whole
  <2>3. ASSUME NEW i \in 1 .. m
        PROVE  Partial(opened'[i].target, Known', File(i)', Len(Left(i)'))
    <3>1. Partial(opened[i].target, Known, File(i), Len(Left(i)))
      BY <1>1, <1>5 DEF IInv, Contents
    <3>2. Partial(opened[i].target, Known', File(i), Len(Left(i)))
      BY <1>3, <3>1 DEF Partial, Comes
    <3> QED
      BY <1>5, <3>2
  <2> QED
    BY <1>3, <1>5, <2>1, <2>2, <2>3 DEF Contents
<1>21. Named' /\ Whys'
  BY <1>2 DEF IInv, Named, Whys
<1> QED
  BY <1>14, <1>15, <1>16, <1>17, <1>18, <1>19, <1>20, <1>21 DEF IInv

(* The resolver goes from states of the invariant to such states. *)
LEMMA NextKeeps ==
    ASSUME ConstantAssumption, IInv, [ImportsNext]_importVars
    PROVE  IInv'
<1>1. ASSUME UNCHANGED importVars
      PROVE  IInv'
  <2>1. UNCHANGED <<imports, opened, cache, named, parsed, faults>>
    BY <1>1 DEF importVars
  <2>2. Known' = Known /\ Open' = Open /\ Circled' = Circled
    BY <2>1 DEF Known, Open, Circled
  <2>3. \A f : Direct(f)' = Direct(f) /\ Reaches(f)' = Reaches(f)
    BY <2>1, ReachesSame
  <2>4. \A i : /\ File(i)' = File(i) /\ Left(i)' = Left(i) /\ Past(i)' = Past(i)
               /\ Gone(i)' = Gone(i) /\ FrameOK(i)' = FrameOK(i)
    BY <2>1 DEF File, Left, Past, Gone, FrameOK
  <2>5. Shapes' /\ Stacked' /\ ParsedOthers'
    BY <2>1, <2>2, <2>4 DEF IInv, Shapes, Stacked, ParsedOthers
  <2>6. Explored' /\ Reached' /\ Circles'
    BY <2>1, <2>2, <2>3, <2>4 DEF IInv, Explored, Reached, Circles
  <2>7. Contents' /\ Named' /\ Whys'
    BY <2>1, <2>2, <2>4 DEF IInv, Contents, Named, Whys
  <2> QED
    BY <2>5, <2>6, <2>7 DEF IInv
<1>2. CASE Circular
  BY <1>2, CircularKeeps
<1>3. CASE Missing
  BY <1>3, MissingKeeps
<1>4. CASE Load
  BY <1>4, LoadKeeps
<1>5. CASE Store
  BY <1>5, StoreKeeps
<1>6. CASE Merge
  BY <1>6, MergeKeeps
<1> QED
  BY <1>1, <1>2, <1>3, <1>4, <1>5, <1>6 DEF ImportsNext


-----------------------------------------------------------------------------
(* What the invariant says. *)

(* What is parsed and gathered, and once all is resolved what is reached, what
   goes round and what the program declares. *)
LEMMA InvRight ==
    ASSUME ConstantAssumption, IInv
    PROVE  ImportsRight
<1>1. ImportsTypeOK
  <2>1. Open \union Known \subseteq Files
    BY DEF IInv, Shapes, FrameOK, Open, File
  <2>2. \A f \in Known : \A i \in DOMAIN cache[f] : cache[f][i].file \in Files
    BY DEF IInv, Shapes, Contents, Whole
  <2> QED
    BY <2>1, <2>2 DEF IInv, Named, Whys, ImportsTypeOK
<1>2. ParsedOnce
  BY DEF IInv, ParsedOthers, ParsedOnce
<1> SUFFICES ASSUME Resolved
             PROVE  CacheIsReached /\ CirclesReported /\ MergedOnce
  BY <1>1, <1>2 DEF ImportsRight, CacheIsReached, CirclesReported, MergedOnce
<1>3. /\ DOMAIN opened = {1} /\ Top = opened[1] /\ File(1) = Entry /\ Left(1) = <<>>
      /\ Top.file = Entry /\ Entry \in Files
  <2>1. Len(opened) = 1 /\ Top.left = <<>>
    BY DEF Resolved
  <2>2. /\ DOMAIN opened = 1 .. 1 /\ Top = opened[1]
        /\ Top.file = File(1) /\ Top.left = Left(1) /\ Top.file \in Files
    BY <2>1, OnTop DEF IInv
  <2> QED
    BY <2>1, <2>2 DEF IInv, Stacked
<1>4. Open = {Entry} /\ Entry \notin Known /\ Known \subseteq Files
  BY <1>3 DEF Open, File, IInv, Stacked, Shapes
<1>5. Direct(Entry) = Gone(1) \intersect Files
  <2>1. /\ Direct(Entry) =
               {imports[Entry][k].file : k \in 1 .. Len(imports[Entry])} \intersect Files
        /\ Len(imports[Entry]) \in Nat
    BY <1>3, ImportsSeq DEF IInv, Shapes
  <2>2. Len(Left(1)) = 0
    BY <1>3
  <2>3. Past(1) = Len(imports[Entry])
    BY <1>3, <2>1, <2>2 DEF Past
  <2> QED
    BY <1>3, <2>1, <2>3 DEF Gone
<1>6. Known \subseteq Reaches(Entry)
  BY <1>4 DEF IInv, Reached
<1>7. CacheIsReached
  <2>1. Direct(Entry) \subseteq Known \union {Entry}
    BY <1>3, <1>4, <1>5 DEF IInv, Explored
  <2>2. \A f \in Known \union {Entry} : Direct(f) \subseteq Known \union {Entry}
    BY <1>4, <2>1 DEF IInv, Explored
  <2>3. Known \union {Entry} \in SUBSET Files
    BY <1>3, <1>4
  <2>4. Reaches(Entry) \subseteq Known \union {Entry}
    BY <2>1, <2>2, <2>3, ReachesWithin
  <2> QED
    BY <1>4, <1>6, <2>4 DEF CacheIsReached
<1>8. CirclesReported
  <2>1. Circled => \E f \in {Entry} \union Reaches(Entry) : f \in Reaches(f)
    BY DEF IInv, Circles
  <2>2. ASSUME ~Circled, NEW f \in {Entry} \union Reaches(Entry)
        PROVE  f \notin Reaches(f)
    <3>1. /\ Direct(Entry) \subseteq Known
          /\ \A g \in Known : Direct(g) \subseteq Known /\ g \notin Reaches(g)
      BY <1>3, <1>5, <2>2 DEF IInv, Circles
    <3>2. Known \in SUBSET Files
      BY <1>4
    <3>3. Reaches(Entry) \subseteq Known
      BY <3>1, <3>2, ReachesWithin
    <3> QED
      BY <1>4, <3>1, <3>3
  <2> QED
    BY <2>1, <2>2 DEF CirclesReported, Circled
<1>9. MergedOnce
  <2>1. Partial(Top.target, Known, Entry, 0)
    <3>1. Len(Left(1)) = 0
      BY <1>3
    <3> QED
      BY <1>3, <3>1 DEF IInv, Contents
  <2>2. Whole(Top.target \o Written(Entry), Known \union {Entry})
    BY <1>3, <1>4, <2>1, WithOwnWhole
  <2>3. Distinct(Program)
    BY <2>2 DEF Whole, Program
  <2> QED
    BY <2>3 DEF MergedOnce, Distinct
<1> QED
  BY <1>7, <1>8, <1>9

(* Whatever the files import of one another and declare: every file is parsed
   at most once, the cache ends as exactly the files the entry file reaches, an
   import is reported as circular if and only if one of them reaches itself,
   and no declaration is merged twice under one name. *)
THEOREM ImportsAreRight == ImportsSpec => []ImportsRight
<1>1. ImportsInit => IInv
  BY ImportsAssumption, InitInv
<1>2. IInv /\ [ImportsNext]_importVars => IInv'
  BY ImportsAssumption, NextKeeps
<1>3. IInv => ImportsRight
  BY ImportsAssumption, InvRight
<1> QED
  BY <1>1, <1>2, <1>3, PTL DEF ImportsSpec

-----------------------------------------------------------------------------
(* The resolver ends. *)

(* Every step but the stutter once all is resolved leaves less to do. *)
LEMMA StepShrinks ==
    ASSUME ConstantAssumption, IInv, ImportsNext
    PROVE  Less(Work', Work) \/ UNCHANGED importVars
<1>0. PICK n : n = Len(opened)
  OBVIOUS
<1>1. /\ n \in Nat \ {0} /\ DOMAIN opened = 1 .. n /\ IsSeq(opened)
      /\ Top.file = File(n) /\ Top.left = Left(n) /\ Len(Top.left) \in Nat
  BY <1>0, OnTop DEF IInv, Shapes
<1>2. ASSUME HasImport, NEW t, Imported(t), parsed' = parsed
      PROVE  Less(Work', Work)
  <2>1. Len(opened') = n /\ Len(opened'[n].left) = Len(Top.left) - 1
    BY <1>0, <1>1, <1>2, ImportedShape DEF IInv
  <2>2. Top' = opened'[n]
    BY <2>1 DEF Top, Last
  <2>3. Work' = <<Work[1], Work[2], Work[3] - 1>>
    BY <1>0, <1>2, <2>1, <2>2 DEF Work
  <2>4. Work[3] = Len(Top.left)
    BY DEF Work
  <2> QED
    BY <1>1, <2>3, <2>4 DEF Less
<1>3. CASE Circular
  BY <1>2, <1>3 DEF Circular
<1>4. CASE Missing
  BY <1>2, <1>4 DEF Missing
<1>5. CASE Merge
  BY <1>2, <1>5 DEF Merge
<1>6. CASE Load
  <2> DEFINE todo == Files \ ToSet(parsed)
             f    == Current.file
  <2>1. f \in Files /\ f \notin Open /\ f \notin Known /\ parsed' = Append(parsed, f)
    BY <1>6 DEF Load, IsOpen, NotResolved
  <2> HIDE DEF f
  <2>2. IsSeq(parsed) /\ ToSet(parsed) = (Known \union Open) \ {Entry}
    BY DEF IInv, ParsedOthers
  <2>3. Len(parsed) \in Nat /\ DOMAIN parsed = 1 .. Len(parsed)
    BY <2>2, SeqShape
  <2>4. ToSet(parsed') = ToSet(parsed) \union {f}
    <3>1. /\ DOMAIN parsed' = 1 .. Len(parsed) + 1
          /\ \A i \in 1 .. Len(parsed) : parsed'[i] = parsed[i]
          /\ parsed'[Len(parsed) + 1] = f
      BY <2>1, <2>2, AppendShape
    <3>2. ToSet(parsed) = {parsed[i] : i \in 1 .. Len(parsed)}
      BY <2>3 DEF ToSet
    <3>3. ToSet(parsed') = {parsed'[i] : i \in 1 .. Len(parsed) + 1}
      BY <3>1 DEF ToSet
    <3>4. 1 .. Len(parsed) + 1 = (1 .. Len(parsed)) \union {Len(parsed) + 1}
      BY <2>3
    <3> QED
      BY <3>1, <3>2, <3>3, <3>4
  <2>5. f \in todo /\ todo' = todo \ {f}
    BY <2>1, <2>2, <2>4
  <2>6. IsFiniteSet(todo)
    BY FS_Difference DEF ConstantAssumption
  <2> HIDE DEF todo
  <2>7. Cardinality(todo \ {f}) = Cardinality(todo) - 1 /\ Cardinality(todo) \in Nat
    BY <2>5, <2>6, FS_RemoveElement, FS_CardinalityType
  <2>8. Work[1] = Cardinality(todo) /\ Work'[1] = Cardinality(todo')
    BY DEF Work, todo
  <2>9. Work'[1] < Work[1]
    BY <2>5, <2>7, <2>8
  <2> QED
    BY <2>9 DEF Less
<1>7. CASE Store
  <2>1. opened' = Front(opened) /\ parsed' = parsed /\ n > 1
    BY <1>0, <1>7 DEF Store
  <2>2. Len(opened') = n - 1
    BY <1>0, <1>1, <2>1, FrontShape
  <2>3. Work'[1] = Work[1] /\ Work[2] = n /\ Work'[2] = n - 1
    BY <1>0, <2>1, <2>2 DEF Work
  <2>4. Work'[2] < Work[2]
    BY <1>1, <2>3
  <2> QED
    BY <2>3, <2>4 DEF Less
<1> QED
  BY <1>3, <1>4, <1>5, <1>6, <1>7 DEF ImportsNext

(* Whatever the files import of one another, circles included: every step
   parses a file, finishes one or finishes an import, so resolving ends. *)
THEOREM WorkAlwaysShrinks == ImportsSpec => WorkShrinks
<1>1. ImportsInit => IInv
  BY ImportsAssumption, InitInv
<1>2. IInv /\ [ImportsNext]_importVars => IInv'
  BY ImportsAssumption, NextKeeps
<1>3. IInv /\ [ImportsNext]_importVars => [Less(Work', Work)]_importVars
  BY ImportsAssumption, StepShrinks
<1> QED
  BY <1>1, <1>2, <1>3, PTL DEF ImportsSpec, WorkShrinks
=============================================================================

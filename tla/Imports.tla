------------------------------ MODULE Imports --------------------------------
(***************************************************************************)
(* The compiler's import resolver, crates/wirescript/src/resolve.rs: files *)
(* are loaded depth first, each parsed once, and the declarations of every *)
(* import are merged into the file that imports it, up to the entry file.  *)
(*                                                                         *)
(* The recursion of resolve_file and resolve_import is the stack `opened`. *)
(* A declaration is what the merge tells apart: its kind, its name, where  *)
(* it is written and the names its code reads.  Left out: type aliases,    *)
(* which are inlined where they are used, declarations that bind several   *)
(* names, method calls, names only a trigger mentions, documentation,      *)
(* warnings, suppressions and the rewriting of testing statements.         *)
(***************************************************************************)
EXTENDS Integers, Sequences, FiniteSets, SequencesExt

CONSTANTS
    Files,     \* the files that exist
    Entry,     \* the one that is compiled
    Decls,     \* per file, its declarations in order
    Programs   \* the imports of the files: per program and file, in order

Declarations == UNION {ToSet(Decls[f]) : f \in Files}
Requests     == UNION {ToSet(p[f]) : p \in Programs, f \in Files}

(* An import is [file, kind, binds]: a whole module ("all"), a "namespace",
   whose binds is its alias, or "named", whose binds are the names taken and
   what each is called here. *)
ConstantAssumption ==
    /\ IsFiniteSet(Files) /\ Entry \in Files
    /\ Decls \in [Files -> Seq(Declarations)]
    /\ Programs \subseteq [Files -> Seq(Requests)]
    /\ \A r \in Requests :
          /\ r.kind \in {"all", "named", "namespace"}
          /\ r.kind = "named" => r.binds \in Seq(ToSet(r.binds))

ASSUME ImportsAssumption == ConstantAssumption

VARIABLES
    imports,   \* the program that is resolved: per file, its imports
    opened,    \* the files being resolved: each its imports left and what
               \* those before them brought
    cache,     \* per file resolved, all its declarations
    named,     \* per file, the declarations its imports name
    parsed,    \* the files parsed, in order (history)
    faults     \* imports reported as circular, missing, unknown or clashing

importVars == <<imports, opened, cache, named, parsed, faults>>

Id(d) == <<d.file, d.at>>

Written(f) == [i \in DOMAIN Decls[f] |->
                  [kind |-> Decls[f][i].kind, name |-> Decls[f][i].name, file |-> f,
                   at |-> i, uses |-> Decls[f][i].uses, module |-> "", members |-> <<>>]]

Top     == Last(opened)
Current == Head(Top.left)

(* Mutant: the entry file is not among them. *)
OpenBelow == {opened[i].file : i \in DOMAIN opened \ {1}}

(* The files being resolved, which an import must not lead back to. *)
Open == {opened[i].file : i \in DOMAIN opened}

Known == DOMAIN cache

ImportsTypeOK ==
    /\ Open \union Known \subseteq Files
    /\ named \in [Files -> SUBSET (Files \X Nat)]
    /\ \A f \in Files : \A id \in named[f] : id[2] \in DOMAIN Decls[id[1]]
    /\ \A f \in Known : \A i \in DOMAIN cache[f] : cache[f][i].file \in Files
    /\ \A e \in faults : e.why \in {"circular", "missing", "unknown", "alias"}

ImportsInit ==
    /\ imports \in Programs
    /\ opened = <<[file |-> Entry, left |-> imports[Entry], target |-> <<>>]>>
    /\ cache = <<>>
    /\ named = [f \in Files |-> {}]
    /\ parsed = <<>>
    /\ faults = {}

-----------------------------------------------------------------------------
(* Merging a module into the declarations a file has so far. *)

Importable(d)        == d.kind # "namespace"
InstallsBehaviour(d) == d.kind = "handler"

(* The names the code of `ds` reads, that of a namespace's members included. *)
Used(ds) == UNION {d.uses \union UNION {m.uses : m \in ToSet(d.members)} : d \in ToSet(ds)}

(* The declaration is in `target` under its own name. *)
MergedAs(target, d) == \E e \in ToSet(target) : Id(e) = Id(d) /\ e.name = d.name

Installed(target, d) == \E e \in ToSet(target) : Id(e) = Id(d)

BindsInFile(target, name, file) ==
    \E e \in ToSet(target) : e.name = name /\ e.file = file

(* Mutant: what has no name is merged every time. *)
DiamondByName(target, d) == ~InstallsBehaviour(d) /\ MergedAs(target, d)

(* The declaration came by another import already. *)
Diamond(target, d) ==
    IF InstallsBehaviour(d) THEN Installed(target, d) ELSE MergedAs(target, d)

(* A module's tests stay with it, but for those its other declarations use. *)
StaysBehind(d, module) ==
    /\ d.kind = "test"
    /\ d.name \notin Used(SelectSeq(module, LAMBDA e : Importable(e) /\ e.kind # "test"))

MergeOne(t, d, module) ==
    IF ~Importable(d) \/ StaysBehind(d, module) \/ Diamond(t, d) THEN t ELSE Append(t, d)

(* `import "lib"` *)
MergeAll(target, module) ==
    FoldLeft(LAMBDA t, d : MergeOne(t, d, module), target, module)

(* The last declaration of a name, 0 if there is none. *)
Binding(module, name) ==
    LET at == {i \in DOMAIN module : Importable(module[i]) /\ module[i].name = name}
    IN  IF at = {} THEN 0 ELSE CHOOSE i \in at : \A j \in at : j <= i

BindOne(t, b, module) ==
    LET i == Binding(module, b.name)
    IN  IF i = 0 \/ BindsInFile(t, b.as, module[i].file) THEN t
        ELSE Append(t, [module[i] EXCEPT !.name = b.as])

(* The names of `import { a as b }`, each as it is called here. *)
Bound(target, module, binds) ==
    FoldLeft(LAMBDA t, b : BindOne(t, b, module), target, binds)

Aliases(binds) == {b.as : b \in {c \in ToSet(binds) : c.as # c.name}}

(* Mutant: what a declaration that is pulled in reads is left behind. *)
ClosureOnce(target, module, aliases) ==
    {i \in DOMAIN module : module[i].name \in Used(target)
                           /\ Importable(module[i]) /\ ~MergedAs(target, module[i])}

(* The declarations of the module that those so far read, and that these read
   in turn; a name this import gives to another one is not looked for. *)
Closure(target, module, aliases) ==
    LET Pullable == {i \in DOMAIN module : /\ Importable(module[i]) /\ module[i].name # ""
                                           /\ module[i].name \notin aliases
                                           /\ ~MergedAs(target, module[i])}
        ReadBy(pulled) == Used(target) \union UNION {module[i].uses : i \in pulled}
        Pulled[n \in 0 .. Len(module)] ==
            IF n = 0 THEN {}
            ELSE LET read == ReadBy(Pulled[n - 1])
                 IN  {i \in Pullable : module[i].name \in read}
    IN  Pulled[Len(module)]

(* Mutant: what an import brings stays in the order it was found. *)
InFoundOrder(added, module) == added

(* Where the module has the declaration, at last. *)
Place(d, module) == Max({0} \union {i \in DOMAIN module : Id(module[i]) = Id(d)})

(* One goes before another: as in the module, or else as they were found. *)
Before(places, i, j) == places[i] < places[j] \/ (places[i] = places[j] /\ i < j)

Rank(places, j) == Cardinality({i \in DOMAIN places : Before(places, i, j)}) + 1

(* What an import brings goes in the order of the module. *)
InModuleOrder(added, module) ==
    LET places == [n \in DOMAIN added |-> Place(added[n], module)]
    IN  [n \in DOMAIN added |-> added[CHOOSE j \in DOMAIN added : Rank(places, j) = n]]

(* The declarations at some places of the module, one after the other. *)
Picked(module, places) ==
    LET order == SetToSeq(places) IN [n \in DOMAIN order |-> module[order[n]]]

(* `import { a, b as c } from "lib"` *)
MergeNamed(target, module, binds) ==
    LET bound  == Bound(target, module, binds)
        pulled == Closure(bound, module, Aliases(binds))
        added  == SubSeq(bound, Len(target) + 1, Len(bound))
                  \o Picked(module, pulled)
    IN  target \o InModuleOrder(added, module)

(* The namespaces of that alias, the first one first. *)
Prior(target, alias) == SelectSeq(target, LAMBDA d : d.kind = "namespace" /\ d.name = alias)

(* The alias is bound in this file already. *)
Taken(target, alias, file) ==
    Prior(target, alias) # <<>> /\ Prior(target, alias)[1].file = file

(* The alias stands for another module already, wherever it was written. *)
Clashes(target, alias, module) ==
    Prior(target, alias) # <<>> /\ Prior(target, alias)[1].module # module

(* `import * as ns from "lib"` *)
MergeNamespace(target, module, imp) ==
    IF Taken(target, imp.binds, Top.file) THEN target
    ELSE Append(target, [kind |-> "namespace", name |-> imp.binds, file |-> Top.file,
                         at |-> -Len(Top.left), uses |-> {}, module |-> imp.file,
                         members |-> SelectSeq(module, Importable)])

(* Mutant: a namespace the declarations read is left behind. *)
TravelsNot(target, d) == FALSE

(* A namespace goes along with the declarations that read it. *)
Travels(target, d) ==
    /\ d.name \in Used(target)
    /\ ~BindsInFile(target, d.name, d.file)

CarryOne(r, d) ==
    IF Importable(d) \/ ~Travels(r.target, d) THEN r
    ELSE [target |-> <<d>> \o r.target,
          clash  |-> r.clash \/ Clashes(r.target, d.name, d.module)]

Sweep(r, module) == FoldLeft(CarryOne, r, module)

(* The namespaces of the module go in front of what they are read by, until no
   more is read; `clash` is set when one of them is another one here. *)
Carried(target, module) ==
    LET Sweeps[n \in 0 .. Len(module)] ==
            IF n = 0 THEN [target |-> target, clash |-> FALSE] ELSE Sweep(Sweeps[n - 1], module)
    IN  Sweeps[Cardinality({i \in DOMAIN module : ~Importable(module[i])})]

(* The same, but an alias that is taken in this file brings nothing at all. *)
Merged(target, imp, module) ==
    CASE imp.kind = "all"       -> Carried(MergeAll(target, module), module)
      [] imp.kind = "named"     -> Carried(MergeNamed(target, module, imp.binds), module)
      [] imp.kind = "namespace" ->
            IF Taken(target, imp.binds, Top.file) THEN [target |-> target, clash |-> FALSE]
            ELSE Carried(MergeNamespace(target, module, imp), module)

(* Mutant: all that is in a module can be named by who imports it whole. *)
NameableAll(d, module) == TRUE

(* A module names its own declarations and those its imports name. *)
Nameable(d, module) == d.file = module \/ Id(d) \in named[module]

(* What a file that imports the module so can name from now on. *)
NamedHere(imp, module) ==
    CASE imp.kind = "all" ->
            {Id(d) : d \in {e \in ToSet(module) :
                               Importable(e) /\ Nameable(e, imp.file)}}
      [] imp.kind = "named" ->
            {Id(module[Binding(module, b.name)]) :
                b \in {c \in ToSet(imp.binds) : Binding(module, c.name) # 0}}
      [] imp.kind = "namespace" -> {}

Complaints(target, imp, module) ==
    {"unknown" : b \in IF imp.kind # "named" THEN {}
                       ELSE {c \in ToSet(imp.binds) : Binding(module, c.name) = 0}}
    \union {"alias" : b \in IF \/ /\ imp.kind = "namespace"
                                  /\ Clashes(target, imp.binds, imp.file)
                               \/ /\ imp.kind # "namespace"
                                  /\ Merged(target, imp, module).clash
                            THEN {1} ELSE {}}

-----------------------------------------------------------------------------
(* Resolving. *)

HasImport == opened # <<>> /\ Top.left # <<>>

Report(whys) ==
    faults' = faults \union {[file |-> Top.file, of |-> Current.file, why |-> w] : w \in whys}

(* The import is over; `target` is what its file has now. *)
Imported(target) ==
    opened' = Append(Front(opened), [file |-> Top.file, left |-> Tail(Top.left),
                                     target |-> target])

(* Mutant: only a file that imports itself is noticed. *)
IsOpenAlone(f) == f = Top.file

(* The file is being resolved further down. *)
IsOpen(f) == f \in Open

(* Mutant: an import that goes round is skipped without a word. *)
CircularSilent == {}

CircularReported == {"circular"}

Circular ==
    /\ HasImport
    /\ IsOpen(Current.file)
    /\ Report(CircularReported)
    /\ Imported(Top.target)
    /\ UNCHANGED <<imports, cache, named, parsed>>

Missing ==
    /\ HasImport
    /\ ~IsOpen(Current.file)
    /\ Current.file \notin Files
    /\ Report({"missing"})
    /\ Imported(Top.target)
    /\ UNCHANGED <<imports, cache, named, parsed>>

(* Mutant: a file is resolved again for every import of it. *)
NotResolvedAgain(f) == f \notin {Top.file}

(* The file has not been resolved yet. *)
NotResolved(f) == f \notin Known

(* resolve_file parses the file and starts on its imports. *)
Load ==
    /\ HasImport
    /\ ~IsOpen(Current.file)
    /\ Current.file \in Files
    /\ NotResolved(Current.file)
    /\ opened' = Append(opened, [file |-> Current.file, left |-> imports[Current.file],
                                 target |-> <<>>])
    /\ parsed' = Append(parsed, Current.file)
    /\ UNCHANGED <<imports, cache, named, faults>>

(* Mutant: a file's own declarations go before those it imports. *)
OwnFirst(target, f) == Written(f) \o target

(* All declarations of a file, those it imports first. *)
WithOwn(target, f) == target \o Written(f)

(* Its imports are resolved: the file goes to the cache. *)
Store ==
    /\ Len(opened) > 1
    /\ Top.left = <<>>
    /\ cache' = [f \in Known \union {Top.file} |->
                    IF f = Top.file THEN WithOwn(Top.target, f) ELSE cache[f]]
    /\ opened' = Front(opened)
    /\ UNCHANGED <<imports, named, parsed, faults>>

(* resolve_import merges a resolved file. *)
Merge ==
    /\ HasImport
    /\ ~IsOpen(Current.file)
    /\ ~NotResolved(Current.file)
    /\ LET module == cache[Current.file]
       IN  /\ Imported(Merged(Top.target, Current, module).target)
           /\ named' = [named EXCEPT ![Top.file] = @ \union NamedHere(Current, module)]
           /\ Report(Complaints(Top.target, Current, module))
    /\ UNCHANGED <<imports, cache, parsed>>

Resolved == Len(opened) = 1 /\ Top.left = <<>>

(* The program: what the entry file imports, then its own declarations. *)
Program == Top.target \o Written(Entry)

ImportsNext == Circular \/ Missing \/ Load \/ Store \/ Merge \/ (Resolved /\ UNCHANGED importVars)

ImportsSpec == ImportsInit /\ [][ImportsNext]_importVars

-----------------------------------------------------------------------------
(* Properties. *)

Clean == \A e \in faults : e.why \notin {"circular", "missing"}

(* "Each file is parsed once", however many imports reach it and whatever goes
   round. *)
ParsedOnce == IsInjective(parsed) /\ Entry \notin ToSet(parsed)

(* The files that exist among a file's imports. *)
Direct(f) == {i.file : i \in ToSet(imports[f])} \intersect Files

(* The files that `f` imports, and they in turn: those in every set that holds
   what `f` imports, and what its own files do. *)
Reaches(f) ==
    {g \in Files : \A fs \in SUBSET Files :
        Direct(f) \subseteq fs /\ (\A h \in fs : Direct(h) \subseteq fs) => g \in fs}

(* "its keys are exactly the transitive import set", which tells the language
   server whom a change concerns. *)
CacheIsReached == Resolved => Known = Reaches(Entry) \ {Entry}

(* "Circular imports are an error", from wherever the loop is entered. *)
CirclesReported ==
    Resolved => ((\E e \in faults : e.why = "circular")
                    <=> \E f \in {Entry} \union Reaches(Entry) : f \in Reaches(f))

(* No declaration is merged twice under one name, so none runs twice. *)
MergedOnce ==
    LET ds == Program
    IN  Resolved => \A i, j \in DOMAIN ds :
            Id(ds[i]) = Id(ds[j]) /\ ds[i].name = ds[j].name => i = j

(* Whatever imports what: the files that are parsed, each once, the circles
   that are reported, and the declarations that are merged, each once. *)
ImportsRight == ImportsTypeOK /\ ParsedOnce /\ CacheIsReached /\ CirclesReported /\ MergedOnce

(* What a merged declaration reads of its own file is there, under the name it
   reads: no import drops what another declaration needs. *)
NeedsKept ==
    LET ds == ToSet(Program)
    IN  Resolved => \A d \in ds : \A i \in DOMAIN Decls[d.file] :
            d.kind # "namespace" /\ Decls[d.file][i].name \in d.uses /\ d.name # ""
                => \E e \in ds : Id(e) = <<d.file, i>> /\ e.name = Decls[d.file][i].name

(* So is a module that its file calls by an alias. *)
AliasesKept ==
    LET ds == ToSet(Program)
    IN  Resolved /\ Clean => \A d \in ds : \A imp \in ToSet(imports[d.file]) :
            imp.kind = "namespace" /\ imp.binds \in d.uses /\ imp.file \in Known
                => \E e \in ds :
                      e.kind = "namespace" /\ e.name = imp.binds /\ e.file = d.file

(* "appending would make every call into an imported module a
   use-before-declaration": whatever the order of the imports, a declaration
   stays behind what it reads of its own file that is written before it, and
   behind all it reads of what its file imports. *)
KeepsOrder ==
    LET ds == Program
    IN  Resolved /\ Clean => \A i, j \in DOMAIN ds :
            /\ ds[i].name \in ds[j].uses
            /\ \/ ds[i].file = ds[j].file /\ ds[i].at \in 1 .. ds[j].at - 1
               \/ ds[i].file # ds[j].file /\ Id(ds[i]) \in named[ds[j].file]
            => i < j

(* "present but not nameable": what a file can name of another one it reaches
   by imports that name it, all of a module that is imported whole, and what
   that module itself can name. *)
NamedByImports ==
    Resolved /\ Clean => \A f \in Known \union {Entry} : \A id \in named[f] :
        \E i \in ToSet(imports[f]) :
            \/ i.kind = "all" /\ (id[1] = i.file \/ id \in named[i.file])
            \/ i.kind = "named" /\ \E b \in ToSet(i.binds) : b.name = Decls[id[1]][id[2]].name

(* The merged program is whole: nothing in it missing, moved ahead of what it
   uses or nameable that was not imported. *)
ProgramWhole == NeedsKept /\ AliasesKept /\ KeepsOrder /\ NamedByImports

(* The work left, what counts more first: files that are not parsed, files on
   the way, and imports of the one on top. *)
Work == <<Cardinality(Files \ ToSet(parsed)), Len(opened), Len(Top.left)>>

Less(a, b) ==
    \/ a[1] < b[1]
    \/ a[1] = b[1] /\ a[2] < b[2]
    \/ a[1] = b[1] /\ a[2] = b[2] /\ a[3] < b[3]

(* Every step leaves less to do, so the resolver ends whatever imports what. *)
WorkShrinks == [][Less(Work', Work)]_importVars
=============================================================================

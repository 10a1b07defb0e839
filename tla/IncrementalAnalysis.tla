-------------------------- MODULE IncrementalAnalysis --------------------------
(***************************************************************************)
(* The analyzer that a long-lived client keeps for its project:            *)
(* internal/compiler's analyzer.go, incremental.go and compiler.go.  When  *)
(* exactly one source has changed since the last analysis that succeeded,  *)
(* what was found about the modules that the change cannot affect is used  *)
(* again; otherwise the project is analyzed from nothing.                  *)
(*                                                                         *)
(* A text has, besides its imports, constants, class and parent,           *)
(*   parses      whether it can be parsed                                  *)
(*   offers      what its exports say, the places they are at included     *)
(*   needs       pairs <<n, what>>: what must be among the exports of n    *)
(*   activates   whether it imports the package with the declaration file  *)
(*   declares    the names of the types it declares                        *)
(*   rejects     the declared names with which it does not check           *)
(*   unused      whether it imports something that it does not use         *)
(*   main        whether it declares main                                  *)
(*   route       what it contributes to the program's integrations, or None*)
(***************************************************************************)
EXTENDS InitializationPlan

CONSTANTS
    Texts,      \* Texts[m]: the texts that module m can have
    Projects,   \* the projects that the analyzer is first given
    Files,      \* the contents of the declaration file: sets of names and remarks, or Unreadable
    Remarks,    \* what a declaration file can contain without declaring anything
    MaxChanges  \* bound: sources that differ from the last analysis that succeeded

Unreadable == {"unreadable"}

(* A text reads constants that it has declared before, or those of modules *)
(* it imports, and the members that it needs are those of imported modules *)
(* (the resolver ends with an error when an imported name is not exported, *)
(* the checker when a name is not declared at all).  What is written, or   *)
(* found for an initializer that reads nothing, is a type.                 *)
ASSUME TextsAssumption ==
    /\ \A m \in Modules : \A text \in Texts[m] :
           /\ text.imports \in Seq(Modules)
           /\ text.constants \in Seq(ToSet(text.constants))
           /\ \A i \in DOMAIN text.constants :
                  LET constant == text.constants[i]
                      c == constant.reads
                  IN  /\ c # << >> => \/ c \in ToSet(text.imports) \X (Nat \ {0})
                                      \/ c \in {m} \X (1 .. i - 1)
                      /\ constant.type # Unknown /\ constant.value \notin {Unknown, Inferred}
                      /\ constant.value = Same => c # << >>
           /\ text.class \in BOOLEAN
           /\ \A need \in text.needs : need[1] \in ToSet(text.imports)
    /\ \A p \in Projects : DOMAIN p = Modules /\ \A m \in Modules : p[m] \in Texts[m]

\* A file that declares nothing cannot be loaded and counts as unreadable.
ASSUME FilesAssumption ==
    \A content \in Files \ {Unreadable} : ~ (content \subseteq Remarks)

VARIABLES
    sources,    \* the texts given to the analyzer
    strict,     \* whether its options reject unused imports
    file,       \* the content of the declaration file
    state,      \* Analyzer.state: the last analysis that succeeded, or Fresh
    answer      \* what AnalyzeProject has returned for the inputs, or Unasked

vars == <<sources, strict, file, state, answer>>

Fresh   == [analyzed |-> FALSE]
Unasked == [stage |-> "unasked", modules |-> {}]

-----------------------------------------------------------------------------
(* What a module shows to others: resolver.NewCatalog *)

\* The modules from whose classes that of m inherits, itself included
Line(project, m) ==
    {m} \cup {n \in Modules :
                 Reaches([p \in Modules |-> IF project[p].parent = None THEN << >>
                                            ELSE <<project[p].parent>>], m, n)}

\* A constant without a written type is exported as Any; a class has the
\* members of the classes that it extends.
Exports(project) ==
    [m \in Modules |->
        [offers  |-> project[m].offers,
         types   |-> [i \in DOMAIN project[m].constants |-> project[m].constants[i].type],
         parent  |-> project[m].parent,
         members |-> {<<n, project[n].offers>> : n \in Line(project, m)}]]

Offered(exports, n) == UNION {members[2] : members \in exports[n].members}

InheritanceCycles(project) ==
    {m \in Modules : project[m].parent # None /\ m \in Line(project, project[m].parent)}

\* An import names something that its module does not export.
Unresolvable(project, among) ==
    {m \in among : \E i \in DOMAIN project[m].constants :
        LET c == project[m].constants[i].reads
        IN  c # << >> /\ c \notin AllConstants(project)}

-----------------------------------------------------------------------------
(* Declarations: typeprovider.CaptureInputs, CanReuse and Load *)

Activating(project) == {m \in Modules : project[m].activates}

\* The digest of the file, when a module makes the provider active
Captured(project, content) == IF Activating(project) = {} THEN {} ELSE content

\* What a file declares
Catalog(content) == content \ Remarks

Conflicts(project, content) ==
    (UNION {project[m].declares : m \in Modules}) \cap Catalog(content) # {}

\* The modules with an error from loading the declarations
LoadErrors(project, content) ==
    IF content = Unreadable \/ Conflicts(project, content) THEN Activating(project) ELSE {}

-----------------------------------------------------------------------------
(* The parts of an analysis that do not depend on the order of the modules *)

SyntaxErrors(project, among) == {m \in among : ~project[m].parses}

SecondMains(project) ==
    LET mains == Sorted({m \in Modules : project[m].main})
    IN  ToSet(Tail(IF mains = << >> THEN <<"">> ELSE mains))

\* What checking m says beside its constants
Misused(project, exports, declared, optionStrict, m) ==
    \/ \E need \in project[m].needs : need[2] \notin Offered(exports, need[1])
    \/ project[m].activates /\ Catalog(declared) \in project[m].rejects
    \/ optionStrict /\ project[m].unused

RouteConflicts(project) ==
    {m \in Modules : project[m].route # None
        /\ \E n \in Modules \ {m} : project[n].route = project[m].route}

Routes(project) == {project[m].route : m \in Modules} \ {None}

Owner(project) == {m \in Modules : project[m].main}

\* The error of the first stage that has one, or none at all
FirstError(stages) ==
    LET failing == {i \in DOMAIN stages : stages[i].modules # {}}
    IN  IF failing = {} THEN [stage |-> "success", modules |-> {}] ELSE stages[Min(failing)]

Stage(name, modules) == [stage |-> name, modules |-> modules]

\* The artifact of m: all that its checked and lowered program is made from
Artifact(project, exports, declared, types, m) ==
    [text     |-> project[m],
     saw      |-> [n \in ToSet(project[m].imports) |-> exports[n]],
     types    |-> types[m],
     read     |-> [i \in DOMAIN project[m].constants |->
                      LET c == project[m].constants[i].reads
                      IN  IF c = << >> THEN Unknown ELSE types[c[1]][c[2]]],
     declared |-> IF project[m].activates THEN Catalog(declared) ELSE {},
     routes   |-> IF project[m].main THEN Routes(project) ELSE {},
     actions  |-> IF OnCycle(Imports(project), m) THEN "split" ELSE "whole"]

Success(project, optionStrict, declared, types, artifacts) ==
    [analyzed |-> TRUE, sources |-> project, strict |-> optionStrict, declared |-> declared,
     types |-> types, artifacts |-> artifacts]

\* An error leaves nothing to remember.
Ended(error, analysis) ==
    [outcome |-> error, analysis |-> IF error.stage = "success" THEN analysis ELSE Fresh]

-----------------------------------------------------------------------------
(* analyzeProjectFull *)

FullError(project, optionStrict, declared, exports, checked) ==
    FirstError(<<
        Stage("syntax",         SyntaxErrors(project, Modules)),
        Stage("catalog",        InheritanceCycles(project)),
        Stage("declarations",   LoadErrors(project, declared)),
        Stage("resolution",     Unresolvable(project, Modules)),
        Stage("main",           SecondMains(project)),
        Stage("types",          Rejected(checked) \cup
            {m \in Modules : Misused(project, exports, declared, optionStrict, m)}),
        Stage("integrations",   RouteConflicts(project)),
        Stage("initialization", CircularValues(project)) >>)

FullSuccess(project, optionStrict, declared, exports, types) ==
    Success(project, optionStrict, declared, types,
            [m \in Modules |-> Artifact(project, exports, declared, types, m)])

\* The catalog and the types that checking finds are made once.
FullFrom(project, optionStrict, declared, exports, checked) ==
    Ended(FullError(project, optionStrict, declared, exports, checked),
          FullSuccess(project, optionStrict, declared, exports,
                      [m \in Modules |-> checked.checked[m].types]))

Full(project, optionStrict, content) ==
    FullFrom(project, optionStrict, Captured(project, content), Exports(project),
             CheckProjectComponents(project))

-----------------------------------------------------------------------------
(* checkedModuleOrder of constant_types.go *)

\* Mutated: modules are checked in the order of their paths.
CheckedOrderByPath(graph) == Paths

\* What is left to do: to visit a module, or to end the visit of one
Visits(modules) == [i \in DOMAIN modules |-> [module |-> modules[i], visited |-> FALSE]]

\* The dependencies of a module are visited first, in the order of their paths.
Visit(walk, graph) ==
    LET m == Head(walk.left).module
        rest == Tail(walk.left)
    IN  IF Head(walk.left).visited THEN [walk EXCEPT !.ordered = Append(@, m), !.left = rest]
        ELSE IF m \in walk.seen THEN [walk EXCEPT !.left = rest]
        ELSE [walk EXCEPT !.seen = @ \cup {m},
                          !.left = Visits(Sorted(ToSet(graph[m])))
                                       \o <<[module |-> m, visited |-> TRUE]>> \o rest]

\* Dependencies before the modules that import them
CheckedOrder(graph) ==
    LET Walk[n \in 0 .. Steps(Paths, graph)] ==
            IF n = 0 THEN [seen |-> {}, ordered |-> << >>, left |-> Visits(Paths)]
            ELSE LET walk == Walk[n - 1]
                 IN  IF walk.left = << >> THEN walk ELSE Visit(walk, graph)
    IN  Walk[Steps(Paths, graph)].ordered

-----------------------------------------------------------------------------
(* analyzeChangedProject *)

ChangedSources == {m \in Modules : state.analyzed /\ sources[m] # state.sources[m]}

\* singleSourceChange
SingleChange == state.analyzed /\ strict = state.strict /\ Cardinality(ChangedSources) = 1

\* The modules that show something else than before, when m is among them
Moved(before, now, m) ==
    IF before[m] = now[m] THEN {} ELSE {n \in Modules : before[n] # now[n]}

\* Mutated: an inferred type is not a reason to check those who read the constant.
AffectedByExports(before, now, m, redeclared) ==
    IF redeclared THEN Modules
    ELSE {m} \cup Dependents(Imports(before), Moved(Exports(before), Exports(now), m))

\* Mutated: only the changed module's own importers are checked again.
AffectedImporters(before, now, m, redeclared) ==
    IF redeclared THEN Modules
    ELSE {m} \cup {n \in Modules : m \in ToSet(before[n].imports)}

\* affectedProjectModules: the changed module, and all that import it,
\* directly or not, when what it shows may have changed
Affected(before, now, m, redeclared) ==
    IF redeclared THEN Modules
    ELSE {m} \cup Dependents(Imports(before),
                  Moved(Exports(before), Exports(now), m)
                      \cup (IF HasInferred(before[m]) \/ HasInferred(now[m]) THEN {m} ELSE {}))

\* InputSnapshot.CanReuse compares the digests of the declaration file.
CanReuse(declared) == declared = state.declared

\* The declarations themselves are compared where they may have been loaded again.
Redeclared(declared) == Catalog(declared) # Catalog(state.declared)

\* The types of the constants of the modules that are not affected
Retained(affected) ==
    [c \in AllConstants(sources) |->
        IF c[1] \in affected THEN Unknown ELSE state.types[c[1]][c[2]]]

CheckAffected(affected) ==
    CheckInOrder(sources, [Unseen(sources) EXCEPT !.known = Retained(affected)],
                 Among(CheckedOrder(Imports(sources)), affected)).checked

\* integrations.CanReuseLoweredPrograms, for the same entrypoint
SameLowering == Owner(sources) = Owner(state.sources) /\ Routes(sources) = Routes(state.sources)

\* Up to the resolution of names, which needs no types
EarlyError(m, declared, affected) ==
    FirstError(<<
        Stage("syntax",       SyntaxErrors(sources, {m})),
        Stage("catalog",      InheritanceCycles(sources)),
        Stage("declarations", IF CanReuse(declared) THEN {} ELSE LoadErrors(sources, declared)),
        Stage("resolution",   Unresolvable(sources, affected)) >>)

LateError(declared, exports, affected, checked) ==
    FirstError(<<
        Stage("main",         SecondMains(sources)),
        Stage("types",        {n \in affected : checked[n].rejected
                                   \/ Misused(sources, exports, declared, strict, n)}),
        Stage("integrations", RouteConflicts(sources)) >>)

Again(declared, exports, affected, types) ==
    Success(sources, strict, declared, types,
        [n \in Modules |->
            IF n \notin affected /\ SameLowering THEN state.artifacts[n]
            ELSE [Artifact(sources, exports, declared, types, n) EXCEPT !.actions = "whole"]])

\* A project with a cycle of imports is analyzed in full.
ChangedFrom(m, declared, exports, affected, checked) ==
    LET early == EarlyError(m, declared, affected)
    IN  IF early.stage # "success" THEN Ended(early, Fresh)
        ELSE IF CyclicComponents(sources) # {} THEN Full(sources, strict, file)
        ELSE Ended(LateError(declared, exports, affected, checked),
                   Again(declared, exports, affected,
                         [n \in Modules |-> IF n \in affected THEN checked[n].types
                                            ELSE state.types[n]]))

ChangedWith(m, declared, affected) ==
    ChangedFrom(m, declared, Exports(sources), affected, CheckAffected(affected))

Changed(m, declared) ==
    ChangedWith(m, declared, Affected(state.sources, sources, m, Redeclared(declared)))

-----------------------------------------------------------------------------
(* Analyzer.AnalyzeProject *)

Found ==
    IF SingleChange
    THEN Changed(CHOOSE m \in ChangedSources : TRUE, Captured(sources, file))
    ELSE Full(sources, strict, file)

\* An error leaves the state of the last success.
Keep(found) ==
    /\ answer' = found.outcome
    /\ state' = IF found.analysis.analyzed THEN found.analysis ELSE state

AnalyzeProject ==
    /\ answer = Unasked
    /\ Keep(Found)
    /\ UNCHANGED <<sources, strict, file>>

-----------------------------------------------------------------------------
(* What happens to the inputs between analyses *)

Init ==
    /\ sources \in Projects
    /\ strict = FALSE
    /\ file \in Files
    /\ state = Fresh
    /\ answer = Unasked

Edit(m, text) ==
    /\ state.analyzed
    /\ text # sources[m]
    /\ Cardinality({n \in Modules \ {m} : sources[n] # state.sources[n]}) < MaxChanges
    /\ sources' = [sources EXCEPT ![m] = text]
    /\ answer' = Unasked
    /\ UNCHANGED <<strict, file, state>>

ChangeOptions ==
    /\ strict' = ~strict
    /\ answer' = Unasked
    /\ UNCHANGED <<sources, file, state>>

ChangeFile(content) ==
    /\ content # file
    /\ file' = content
    /\ answer' = Unasked
    /\ UNCHANGED <<sources, strict, state>>

Next ==
    \/ AnalyzeProject
    \/ \E m \in Modules : \E text \in Texts[m] : Edit(m, text)
    \/ ChangeOptions
    \/ \E content \in Files : ChangeFile(content)

Spec == Init /\ [][Next]_vars
=============================================================================

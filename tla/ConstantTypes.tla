---------------------------- MODULE ConstantTypes ----------------------------
(***************************************************************************)
(* The types of the constants of a project: internal/compiler's            *)
(* constant_types.go.  Modules are checked a component of the import graph *)
(* at a time; a constant without a written type takes the type that        *)
(* checking finds for its initializer, and in a cyclic component the       *)
(* modules are checked again until nothing new is learnt.                  *)
(*                                                                         *)
(* A text is what the compiler sees of a module: the modules it imports    *)
(* and its constants, in the order they are written, each constant with    *)
(*   type   the type written for it, or Inferred                           *)
(*   reads  the constant its initializer reads, <<module, index>>, or << >>*)
(*   value  the type of the initializer, or Same as the constant it reads  *)
(*   takes  the types of the constant it reads that the initializer admits *)
(* Each text of a project is project[m].                                   *)
(***************************************************************************)
EXTENDS ModuleGraph

Inferred == "inferred"
Same     == "same"
Unknown  == "unknown"     \* Any, Invalid or no type at all: unresolvedValueType

Imports(project) == [m \in Modules |-> project[m].imports]

ConstantsOf(project, m) == {<<m, i>> : i \in DOMAIN project[m].constants}

AllConstants(project) == UNION {ConstantsOf(project, m) : m \in Modules}

Constant(project, c) == project[c[1]].constants[c[2]]

HasInferred(text) == \E i \in DOMAIN text.constants : text.constants[i].type = Inferred

\* What is known of the constants when nothing has been checked
Nothing(project) == [c \in AllConstants(project) |-> Unknown]

\* The type under which the checker sees c: written types are in the catalog.
Seen(project, known, c) ==
    IF c \notin AllConstants(project) THEN Unknown
    ELSE IF Constant(project, c).type # Inferred THEN Constant(project, c).type
    ELSE known[c]

Admitted(project, known, constant) ==
    \/ constant.reads = << >>
    \/ Seen(project, known, constant.reads) \in constant.takes \cup {Unknown}

TypeOf(project, known, constant) ==
    IF constant.type # Inferred THEN constant.type
    ELSE IF ~Admitted(project, known, constant) THEN Unknown
    ELSE IF constant.value = Same THEN Seen(project, known, constant.reads)
    ELSE constant.value

-----------------------------------------------------------------------------
(* What checking is to find                                                *)

\* The type that the definition of a constant gives it, when the others have these types
Given(project, types, constant) ==
    IF constant.type # Inferred THEN constant.type
    ELSE IF constant.value = Same THEN Seen(project, types, constant.reads)
    ELSE constant.value

\* The types that the constants have in the project as a whole: what follows from nothing
Typing(project) ==
    LET Round[n \in 0 .. Cardinality(AllConstants(project)) + 1] ==
            IF n = 0 THEN Nothing(project)
            ELSE LET before == Round[n - 1]
                 IN  [c \in AllConstants(project) |-> Given(project, before, Constant(project, c))]
    IN  Round[Cardinality(AllConstants(project)) + 1]

\* Every initializer admits what it reads, and no circle of imports leaves a type open.
WellTyped(project, types) ==
    \A c \in AllConstants(project) :
        /\ Admitted(project, types, Constant(project, c))
        /\ Constant(project, c).type = Inferred /\ OnCycle(Imports(project), c[1]) => types[c] # Unknown

-----------------------------------------------------------------------------
(* Checking                                                                *)

\* What checking the constants of m finds, each with what the earlier ones have
CheckModule(project, known, m) ==
    LET constants == project[m].constants
        Found[i \in 0 .. Len(constants)] ==
            IF i = 0 THEN known
            ELSE LET before == Found[i - 1]
                 IN  [before EXCEPT ![<<m, i>>] = TypeOf(project, before, constants[i])]
    IN  [types    |-> [i \in 1 .. Len(constants) |-> Found[i][<<m, i>>]],
         rejected |-> \E i \in 1 .. Len(constants) : ~Admitted(project, Found[i - 1], constants[i])]

\* The types of m that are worth telling to other modules are added.
Learnt(known, m, checked) ==
    [c \in DOMAIN known |-> IF c[1] = m /\ checked.types[c[2]] # Unknown THEN checked.types[c[2]]
                            ELSE known[c]]

CheckInTurn(project, walk, m) ==
    LET checked == CheckModule(project, walk.known, m)
    IN  [known |-> Learnt(walk.known, m, checked), checked |-> [walk.checked EXCEPT ![m] = checked]]

CheckInOrder(project, walk, modules) ==
    LET Walk[i \in 0 .. Len(modules)] ==
            IF i = 0 THEN walk
            ELSE LET before == Walk[i - 1] IN CheckInTurn(project, before, modules[i])
    IN  Walk[Len(modules)]

\* Mutated: a cyclic component is checked once, like any other.
LimitOnce(project, component) == 1

Limit(project, component) ==
    IF component.cyclic
    THEN 2 + Cardinality(UNION {ConstantsOf(project, m) : m \in ToSet(component.modules)})
    ELSE 1

\* A component is checked until a turn has learnt nothing.
Attempts(project, component, walk, limit) ==
    LET Turn[n \in 0 .. limit] ==
            IF n = 0 THEN [walk |-> walk, settled |-> FALSE]
            ELSE LET before == Turn[n - 1]
                     after == CheckInOrder(project, before.walk, component.modules)
                 IN  IF before.settled THEN before
                     ELSE [walk |-> after, settled |-> after.known = before.walk.known]
    IN  Turn[limit].walk

\* Nothing is known, and no module has been found wrong.
Unseen(project) ==
    [known |-> Nothing(project), checked |-> [m \in Modules |-> [types |-> << >>, rejected |-> FALSE]]]

\* One component after the other
CheckComponents(project, components) ==
    LET Walk[k \in 0 .. Len(components)] ==
            IF k = 0 THEN Unseen(project)
            ELSE LET before == Walk[k - 1]
                 IN  Attempts(project, components[k], before, Limit(project, components[k]))
    IN  Walk[Len(components)]

\* Constants of a cyclic component whose type is still open
Unresolved(project, component, checked) ==
    {m \in ToSet(component.modules) :
        component.cyclic /\ \E i \in DOMAIN project[m].constants :
            project[m].constants[i].type = Inferred /\ checked[m].types[i] = Unknown}

\* No module is checked again after its component.
CheckProjectComponents(project) ==
    LET components == Components(Paths, Imports(project))
        after == CheckComponents(project, components)
    IN  [checked |-> after.checked,
         open    |-> UNION {Unresolved(project, c, after.checked) : c \in ToSet(components)}]

\* The modules that a check leaves with an error
Rejected(result) == result.open \cup {m \in DOMAIN result.checked : result.checked[m].rejected}
=============================================================================

-------------------------- MODULE InitializationPlan --------------------------
(***************************************************************************)
(* The order in which the values of a project are initialized:             *)
(* internal/ir's initialization.go and internal/initialization's plan.go.  *)
(* A module outside import cycles is initialized as a whole, after the     *)
(* modules it imports.  The modules of a cycle are split into actions, one *)
(* that prepares each class and one that computes each constant, and the   *)
(* actions are ordered by what they depend on.                             *)
(*                                                                         *)
(* A text has, besides its imports and constants,                          *)
(*   class   whether it declares a class                                   *)
(*   parent  the module whose class that class extends, or None            *)
(* An action is a pair <<module, index>>, the index 0 for the class.       *)
(***************************************************************************)
EXTENDS ConstantTypes

None == "none"

(* The checker and the resolver end an analysis with an error when a name  *)
(* is not declared: a value is one that its module has declared before, or *)
(* one that is imported,                                                   *)
Readable(project) ==
    \A m \in Modules :
        /\ project[m].imports \in Seq(Modules)
        /\ project[m].constants \in Seq(ToSet(project[m].constants))
        /\ \A i \in DOMAIN project[m].constants :
               LET c == project[m].constants[i].reads
               IN  c # << >> => /\ c \in AllConstants(project)
                                /\ c[1] \in ToSet(project[m].imports) \/ (c[1] = m /\ c[2] < i)
        /\ project[m].class \in BOOLEAN

(* and a superclass is an imported class.                                  *)
Resolved(project) ==
    /\ Readable(project)
    /\ \A m \in Modules :
           project[m].parent # None => /\ project[m].class
                                       /\ project[m].parent \in ToSet(project[m].imports)
                                       /\ project[project[m].parent].class

Preparation(project, m) == IF project[m].class THEN <<<<m, 0>>>> ELSE << >>

Values(project, m) == [i \in DOMAIN project[m].constants |-> <<m, i>>]

Preparations(project, modules) ==
    FlattenSeq([i \in DOMAIN modules |-> Preparation(project, modules[i])])

\* Preparations of all the modules before the values of any
ActionsInOrder(project, modules) ==
    Preparations(project, modules)
        \o FlattenSeq([i \in DOMAIN modules |-> Values(project, modules[i])])

\* One module after the other
ActionsByModule(project, modules) ==
    FlattenSeq([i \in DOMAIN modules |->
                   Preparation(project, modules[i]) \o Values(project, modules[i])])

Within(actions, a) == IF a \in actions THEN <<a>> ELSE << >>

\* Mutated: the constants of a module may be computed in any order.
DependenciesUnordered(project, modules, actions, m, i) ==
    IF i = 0 THEN Within(actions, <<project[m].parent, 0>>)
    ELSE Preparations(project, modules) \o Within(actions, project[m].constants[i].reads)

\* A class needs its parent; a value needs the value before it, all the
\* classes, and what its initializer reads.
Dependencies(project, modules, actions, m, i) ==
    IF i = 0 THEN Within(actions, <<project[m].parent, 0>>)
    ELSE Within(actions, <<m, i - 1>>) \o Preparations(project, modules)
            \o Within(actions, project[m].constants[i].reads)

ActionGraph(project, modules) ==
    LET actions == ToSet(ActionsInOrder(project, modules))
    IN  [a \in actions |-> Dependencies(project, modules, actions, a[1], a[2])]

CyclicComponents(project) ==
    {c \in ToSet(Components(Paths, Imports(project))) : c.cyclic}

\* The circles of actions that need each other
Circles(project, modules) ==
    {c \in ToSet(Components(ActionsByModule(project, modules), ActionGraph(project, modules))) :
        c.cyclic}

\* initialization.Analyze: the modules where a circle of actions is reported
CircularValues(project) ==
    UNION {{circle.modules[1][1] : circle \in Circles(project, component.modules)} :
               component \in CyclicComponents(project)}

-----------------------------------------------------------------------------
(* OrderedInitializationSteps *)

\* Mutated: one dependency is enough.
ReadyWhenAny(graph, emitted, a) ==
    a \notin ToSet(emitted) /\ (graph[a] = << >> \/ ToSet(graph[a]) \cap ToSet(emitted) # {})

Ready(graph, emitted, a) == a \notin ToSet(emitted) /\ ToSet(graph[a]) \subseteq ToSet(emitted)

\* The first action that is ready goes next; the plan is invalid when none is.
Emit(order, graph) ==
    LET Emitted[n \in 0 .. Len(order)] ==
            IF n = 0 THEN << >>
            ELSE LET before == Emitted[n - 1]
                     ready == {i \in DOMAIN order : Ready(graph, before, order[i])}
                 IN  IF ready = {} THEN before ELSE Append(before, order[Min(ready)])
    IN  Emitted[Len(order)]

ComponentSteps(project, component) ==
    IF component.cyclic
    THEN Emit(ActionsInOrder(project, component.modules), ActionGraph(project, component.modules))
    ELSE ActionsInOrder(project, component.modules)

OrderedInitializationSteps(project, roots) ==
    LET components == Components(roots, Imports(project))
        steps == [i \in DOMAIN components |-> ComponentSteps(project, components[i])]
    IN  [valid |-> \A i \in DOMAIN components :
                       Len(steps[i]) = Len(ActionsInOrder(project, components[i].modules)),
         steps |-> FlattenSeq(steps)]
=============================================================================

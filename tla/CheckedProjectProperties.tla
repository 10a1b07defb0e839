----------------------- MODULE CheckedProjectProperties -----------------------
(***************************************************************************)
(* What checking and planning a project promise.                           *)
(***************************************************************************)
EXTENDS CheckedProject

(* modulegraph.Components: the components divide the modules, a component  *)
(* holds exactly the modules that reach each other, it is cyclic when its  *)
(* modules reach themselves, and no module depends on a later component.   *)
ComponentsSound ==
    LET graph == Imports(project)
        components == Components(Paths, graph)
        Of(m) == {i \in DOMAIN components : m \in ToSet(components[i].modules)}
    IN  /\ \A m \in Modules : Cardinality(Of(m)) = 1
        /\ \A i, j \in DOMAIN components :
               \A m \in ToSet(components[i].modules), n \in ToSet(components[j].modules) :
                   /\ Reaches(graph, m, n) => j <= i
                   /\ (m # n /\ i = j) => Reaches(graph, m, n)
        /\ \A i \in DOMAIN components : \A m \in ToSet(components[i].modules) :
               components[i].cyclic = OnCycle(graph, m)

(* checkProjectComponents: whatever the order and the cycles of the        *)
(* imports, a project is accepted exactly when it is well typed as a       *)
(* whole, and then each constant has been given the type that it has       *)
(* there ("no provisional Any escapes into lowering").                     *)
TypesConverge ==
    result # Unchecked =>
        LET types == Typing(project)
        IN  /\ (result.rejected = {}) = WellTyped(project, types)
            /\ result.rejected = {} =>
                   \A c \in AllConstants(project) : result.checked[c[1]].types[c[2]] = types[c]

\* a comes before b in the plan
Before(a, b) == \E i, j \in DOMAIN plan.steps : i < j /\ plan.steps[i] = a /\ plan.steps[j] = b

(* OrderedInitializationSteps: for a project that the analysis accepts     *)
(* there is a plan, it initializes everything that the entrypoint reaches, *)
(* once, and nothing is computed before what it reads, extends or follows  *)
(* in its module.                                                          *)
InitializationRespected ==
    plan # Unplanned =>
        LET reached == {m \in Modules : m = Entrypoint \/ Reaches(Imports(project), Entrypoint, m)}
        IN  /\ plan.valid
            /\ IsInjective(plan.steps)
            /\ ToSet(plan.steps) =
                   UNION {ConstantsOf(project, m) \cup ToSet(Preparation(project, m)) : m \in reached}
            /\ \A c \in ToSet(plan.steps) :
                   LET m == c[1] i == c[2]
                   IN  /\ i > 1 => Before(<<m, i - 1>>, c)
                       /\ (i > 0 /\ project[m].constants[i].reads # << >>)
                              => Before(project[m].constants[i].reads, c)
                       /\ (i = 0 /\ project[m].parent # None) => Before(<<project[m].parent, 0>>, c)

(* Two algorithms decide whether the values of a project can be put in an  *)
(* order: initialization.Analyze looks for circles when it accepts a       *)
(* project, OrderedInitializationSteps takes what is ready when it plans   *)
(* one.  They agree, so that no accepted project ends as an "invalid        *)
(* cyclic initialization plan" and none is rejected that has an order.     *)
CirclesAreThoseOfPlans ==
    result # Unchecked =>
        (CircularValues(project) = {}) = OrderedInitializationSteps(project, Paths).valid
=============================================================================

-------------------------- MODULE CheckedProjectProofs --------------------------
(***************************************************************************)
(* What checking and planning a project promise, for every set of modules  *)
(* and every resolved project: the project at hand stays resolved, and     *)
(* what has been found and planned are what is computed from it.           *)
(***************************************************************************)
EXTENDS CheckedProjectProperties, InitializationPlanProofs

\* The project at hand is one that name resolution lets through.
ResolvedProject == Resolved(project)

\* The project at hand is resolved at every step: nothing changes its texts.
LEMMA ResolvedAlways == Spec => []ResolvedProject
<1>1. Init => ResolvedProject
  BY ProjectsAssumption DEF Init, ResolvedProject
<1>2. ResolvedProject /\ [Next]_vars => ResolvedProject'
  <2> SUFFICES ASSUME ResolvedProject, [Next]_vars PROVE ResolvedProject'
    OBVIOUS
  <2>1. project' = project
    BY DEF Next, Check, Plan, vars
  <2> QED BY <2>1 DEF ResolvedProject
<1> QED BY <1>1, <1>2, PTL DEF Spec

\* modulegraph.Components, for every resolved project: every module is in one component,
\* components are the modules that reach each other, dependencies first, and cyclic
\* when they say so.
THEOREM ComponentsAreSound == Spec => []ComponentsSound
<1>1. ResolvedProject => ComponentsSound
  <2>1. SUFFICES ASSUME ResolvedProject PROVE ComponentsSound
    OBVIOUS
  <2> DEFINE graph == Imports(project)
             components == Components(Paths, graph)
  <2>2. IsGraph(graph) /\ DOMAIN graph = Modules
    BY <2>1, ImportsGraph DEF ResolvedProject, Resolved
  <2>3. Paths \in Seq(DOMAIN graph) /\ ToSet(Paths) = DOMAIN graph
    BY <2>2, ModulesFinite DEF Modules
  <2> HIDE DEF graph
  <2>4. components = Components(Paths, graph)
    OBVIOUS
  <2> HIDE DEF components
  <2>5. /\ \A m \in DOMAIN graph :
               Cardinality({i \in DOMAIN components : m \in ToSet(components[i].modules)}) = 1
        /\ \A i, j \in DOMAIN components :
               \A m \in ToSet(components[i].modules), n \in ToSet(components[j].modules) :
                   /\ Reaches(graph, m, n) => j <= i
                   /\ (m # n /\ i = j) => Reaches(graph, m, n)
        /\ \A i \in DOMAIN components : \A m \in ToSet(components[i].modules) :
               components[i].cyclic = OnCycle(graph, m)
    BY <2>2, <2>3, <2>4, ComponentsDivide
  <2> QED BY <2>2, <2>5 DEF ComponentsSound, components, graph
<1> QED BY <1>1, ResolvedAlways, PTL

\* For every resolved project, the analysis reports no circle of values exactly when the plan
\* of all modules is valid.
THEOREM CirclesAgree == Spec => []CirclesAreThoseOfPlans
<1>1. ResolvedProject => CirclesAreThoseOfPlans
  <2>1. SUFFICES ASSUME ResolvedProject
                 PROVE  (CircularValues(project) = {}) = OrderedInitializationSteps(project, Paths).valid
    BY DEF CirclesAreThoseOfPlans
  <2>2. Readable(project) /\ Paths \in Seq(Modules)
    BY <2>1, ModulesFinite DEF ResolvedProject, Resolved
  <2>3. CircularValues(project) = {} <=> Orderly(project, Components(Paths, Imports(project)))
    BY <2>2, CircularValuesFound
  <2>4. OrderedInitializationSteps(project, Paths).valid
            <=> Orderly(project, Components(Paths, Imports(project)))
    BY <2>2, PlanValid
  <2>5. OrderedInitializationSteps(project, Paths).valid \in BOOLEAN
    BY DEF OrderedInitializationSteps
  <2> QED BY <2>3, <2>4, <2>5
<1> QED BY <1>1, ResolvedAlways, PTL

\* The plan is for what the entrypoint reaches.
LEMMA EntrypointReaches ==
    ASSUME NEW p, Readable(p)
    PROVE  Gathered(Components(<<Entrypoint>>, Imports(p)))
               = {m \in Modules : m = Entrypoint \/ Reaches(Imports(p), Entrypoint, m)}
<1> DEFINE graph == Imports(p)
<1>1. IsGraph(graph) /\ DOMAIN graph = Modules
  BY ImportsGraph
<1> HIDE DEF graph
<1>2. Entrypoint \in DOMAIN graph
  BY <1>1, ProjectsAssumption
<1>3. <<Entrypoint>> \in Seq(DOMAIN graph) /\ ToSet(<<Entrypoint>>) = {Entrypoint}
  BY <1>2 DEF ToSet
<1>4. Gathered(Components(<<Entrypoint>>, graph))
          = {m \in DOMAIN graph : \E r \in {Entrypoint} : Path(graph, r, m)}
  <2> DEFINE roots == <<Entrypoint>>
  <2>1. roots \in Seq(DOMAIN graph) /\ ToSet(roots) = {Entrypoint}
    BY <1>3
  <2> HIDE DEF roots
  <2>2. Gathered(Components(roots, graph)) = {m \in DOMAIN graph : \E r \in ToSet(roots) : Path(graph, r, m)}
    BY <1>1, <2>1, ComponentsFound
  <2> QED BY <2>1, <2>2 DEF roots
<1>5. ASSUME NEW m \in DOMAIN graph
      PROVE  Path(graph, Entrypoint, m) <=> m = Entrypoint \/ Reaches(graph, Entrypoint, m)
  <2>1. Reaches(graph, Entrypoint, m)
            <=> \E q \in DOMAIN graph : Path(graph, Entrypoint, q) /\ m \in ToSet(graph[q])
    BY <1>1, <1>2, ReachesByPath
  <2>2. ASSUME Path(graph, Entrypoint, m), m # Entrypoint PROVE Reaches(graph, Entrypoint, m)
    BY <1>1, <1>2, <2>1, <2>2, PathThrough
  <2>3. ASSUME m = Entrypoint PROVE Path(graph, Entrypoint, m)
    BY <1>2, <2>3, PathReflexive
  <2>4. ASSUME Reaches(graph, Entrypoint, m) PROVE Path(graph, Entrypoint, m)
    <3>1. PICK q \in DOMAIN graph : Path(graph, Entrypoint, q) /\ m \in ToSet(graph[q])
      BY <2>1, <2>4
    <3> QED BY <3>1, PathEdge, PathTransitive
  <2> QED BY <2>2, <2>3, <2>4
<1> QED BY <1>1, <1>4, <1>5 DEF graph

\* A plan is made from the texts there are, and only for a project without circles.
PlanMade ==
    plan # Unplanned =>
        /\ plan = OrderedInitializationSteps(project, <<Entrypoint>>)
        /\ CircularValues(project) = {}

\* Every plan is that of the present texts and has passed the analysis.
LEMMA PlansAreMade == Spec => []PlanMade
<1>1. Init => PlanMade
  BY DEF Init, PlanMade
<1>2. PlanMade /\ [Next]_vars => PlanMade'
  <2> SUFFICES ASSUME PlanMade, [Next]_vars PROVE PlanMade'
    OBVIOUS
  <2>1. CASE Check
    BY <2>1 DEF Check, PlanMade
  <2>2. CASE Plan
    BY <2>2 DEF Plan, PlanMade
  <2>3. CASE UNCHANGED vars
    BY <2>3 DEF vars, PlanMade
  <2> QED BY <2>1, <2>2, <2>3 DEF Next
<1> QED BY <1>1, <1>2, PTL DEF Spec

\* OrderedInitializationSteps, for every resolved project that the analysis accepts: the plan
\* is valid, has everything that the entrypoint reaches, once, and nothing before what
\* it reads, extends or follows.
THEOREM PlansRespectInitialization == Spec => []InitializationRespected
<1>1. ResolvedProject /\ PlanMade => InitializationRespected
  <2>1. SUFFICES ASSUME ResolvedProject, PlanMade, plan # Unplanned
                 PROVE  InitializationRespected
    BY DEF InitializationRespected
  <2> DEFINE p == project
             roots == <<Entrypoint>>
             found == Components(roots, Imports(p))
             f == plan.steps
  <2>2. Readable(p) /\ Resolved(p) /\ CircularValues(p) = {} /\ plan = OrderedInitializationSteps(p, roots)
    BY <2>1 DEF ResolvedProject, Resolved, PlanMade
  <2>3. roots \in Seq(Modules)
    BY ProjectsAssumption
  <2>4. plan.valid
    <3>1. Orderly(p, found)
      BY <2>2, <2>3, OrderlyEverywhere
    <3> QED BY <2>2, <2>3, <3>1, PlanValid
  <2>5. /\ f \in Seq(Places)
        /\ IsInjective(f)
        /\ ToSet(f) = TasksAmong(p, Gathered(found))
        /\ \A c \in ToSet(f) : \A d : Requires(p, c, d) => Follows(f, d, c)
    <3> DEFINE x == found
    <3>1. x = Components(roots, Imports(p)) /\ f = OrderedInitializationSteps(p, roots).steps
      BY <2>2
    <3> HIDE DEF f, x
    <3>2. /\ f \in Seq(Places)
          /\ IsInjective(f)
          /\ ToSet(f) = TasksAmong(p, Gathered(x))
          /\ \A c \in ToSet(f) : \A d : Requires(p, c, d) => Follows(f, d, c)
      <4> HIDE DEF roots
      <4> QED BY <2>2, <2>3, <3>1, PlanInitializes
    <3> QED BY <3>2 DEF x
  <2>6. ToSet(plan.steps)
            = UNION {ConstantsOf(p, m) \cup ToSet(Preparation(p, m)) :
                        m \in {n \in Modules : n = Entrypoint \/ Reaches(Imports(p), Entrypoint, n)}}
    BY <2>2, <2>5, EntrypointReaches DEF TasksAmong, Tasks
  <2>7. \A a, b : Follows(f, a, b) => Before(a, b)
    <3>1. DOMAIN f = 1 .. Len(f)
      BY <2>5
    <3> QED BY <3>1 DEF Follows, Before
  <2>8. ASSUME NEW c \in ToSet(plan.steps)
        PROVE  /\ c[2] > 1 => Before(<<c[1], c[2] - 1>>, c)
               /\ (c[2] > 0 /\ p[c[1]].constants[c[2]].reads # << >>)
                      => Before(p[c[1]].constants[c[2]].reads, c)
               /\ (c[2] = 0 /\ p[c[1]].parent # None) => Before(<<p[c[1]].parent, 0>>, c)
    <3>1. \A d : Requires(p, c, d) => Before(d, c)
      BY <2>5, <2>7
    <3> HIDE DEF p
    <3> QED BY <3>1 DEF Requires
  <2> QED BY <2>4, <2>5, <2>6, <2>8 DEF InitializationRespected
<1> QED BY <1>1, ResolvedAlways, PlansAreMade, PTL

\* What has been found, if anything has, is what checking the project at hand finds.
ResultFound ==
    result # Unchecked =>
        \E found : /\ found = CheckProjectComponents(project)
                   /\ result = [checked |-> found.checked, rejected |-> Rejected(found)]

\* It is so at every step.
LEMMA ResultsAreFound == Spec => []ResultFound
<1>1. Init => ResultFound
  BY DEF Init, ResultFound
<1>2. ResultFound /\ [Next]_vars => ResultFound'
  <2> SUFFICES ASSUME ResultFound, [Next]_vars PROVE ResultFound'
    OBVIOUS
  <2>1. CASE Check
    BY <2>1 DEF Check, ResultFound
  <2>2. CASE Plan
    BY <2>2 DEF Plan, ResultFound
  <2>3. CASE UNCHANGED vars
    BY <2>3 DEF vars, ResultFound
  <2> QED BY <2>1, <2>2, <2>3 DEF Next
<1> QED BY <1>1, <1>2, PTL DEF Spec

\* checkProjectComponents, for every resolved project: whatever the order in which modules are
\* checked and the types that checks find on the way, a project is accepted exactly when it is
\* well typed as a whole, with the types that its constants have there.
THEOREM TypesAreRight == Spec => []TypesConverge
<1>1. ResolvedProject /\ ResultFound => TypesConverge
  <2>1. SUFFICES ASSUME ResolvedProject, ResultFound, result # Unchecked PROVE TypesConverge
    BY DEF TypesConverge
  <2>2. PICK found : /\ found = CheckProjectComponents(project)
                     /\ result = [checked |-> found.checked, rejected |-> Rejected(found)]
    BY <2>1 DEF ResultFound
  <2>3. result.checked = found.checked /\ result.rejected = Rejected(found)
    BY <2>2
  <2>4. AcceptedWhenTyped(project, result.checked, result.rejected)
    BY <2>1, <2>2, <2>3, CheckedProjectAccepted DEF ResolvedProject, Resolved
  <2> QED BY <2>4 DEF TypesConverge, AcceptedWhenTyped
<1> QED BY <1>1, ResolvedAlways, ResultsAreFound, PTL

=============================================================================

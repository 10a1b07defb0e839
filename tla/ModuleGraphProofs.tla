---------------------------- MODULE ModuleGraphProofs ----------------------------
(***************************************************************************)
(* What Components computes, for every graph: the walk of Tarjan's         *)
(* algorithm keeps WalkInvariant, so that what it ends with are the groups *)
(* of nodes that reach each other, dependencies first (ComponentsFound).   *)
(***************************************************************************)
EXTENDS ModuleGraph, FiniteSetTheorems, WellFoundedInduction, TLAPS

\* A set of natural numbers that is not empty has a least member.
LEMMA LeastElement ==
    ASSUME NEW T \in SUBSET Nat, T # {}
    PROVE  \E n \in T : \A k \in T : n <= k
<1> DEFINE R == OpToRel(<, Nat)
<1>1. IsWellFoundedOn(R, Nat)
  BY NatLessThanWellFounded
<1>2. \E n \in T : \A k \in T : ~ (<<k, n>> \in R)
  <2> HIDE DEF R
  <2> QED BY <1>1, WFMin, Zenon
<1>3. \A x, y \in Nat : <<x, y>> \in R <=> x < y
  BY DEF OpToRel
<1> HIDE DEF R
<1>4. PICK n \in T : \A k \in T : ~ (<<k, n>> \in R)
  BY <1>2
<1>5. ASSUME NEW k \in T PROVE n <= k
  <2>1. n \in Nat /\ k \in Nat /\ ~(<<k, n>> \in R)
    BY <1>4
  <2>2. ~ (k < n)
    BY <2>1, <1>3
  <2> QED BY <2>1, <2>2
<1> QED BY <1>5

(* Induction on a set of numbers *)
LEMMA Counting ==
    ASSUME NEW S \in SUBSET Nat, 0 \in S, \A n \in Nat : n \in S => n + 1 \in S
    PROVE  S = Nat
<1> DEFINE T == Nat \ S
<1>1. SUFFICES ASSUME T # {} PROVE FALSE
  OBVIOUS
<1>2. PICK n \in T : \A k \in T : n <= k
  BY <1>1, LeastElement
<1>3. n - 1 \in Nat /\ n - 1 \in S
  BY <1>2
<1> QED BY <1>2, <1>3

-----------------------------------------------------------------------------
(* Graphs and paths                                                        *)

\* A graph has finitely many nodes, which depend on nodes of it.
IsGraph(graph) ==
    /\ IsFiniteSet(DOMAIN graph)
    /\ \A m \in DOMAIN graph : graph[m] \in Seq(DOMAIN graph)

\* S holds what its members depend on.
Closed(graph, S) == \A m \in S : ToSet(graph[m]) \subseteq S

\* n is in every closed set that m is in: m depends on n in some number of steps.
Path(graph, m, n) == \A S \in SUBSET DOMAIN graph : m \in S /\ Closed(graph, S) => n \in S

\* Every node reaches itself in no step.
LEMMA PathReflexive ==
    ASSUME NEW graph, NEW m \in DOMAIN graph
    PROVE  Path(graph, m, m)
BY DEF Path

\* What is reached from a node that is reached is reached.
LEMMA PathTransitive ==
    ASSUME NEW graph, NEW m, NEW n, NEW p, Path(graph, m, n), Path(graph, n, p)
    PROVE  Path(graph, m, p)
BY DEF Path

\* A node reaches what it depends on.
LEMMA PathEdge ==
    ASSUME NEW graph, NEW m \in DOMAIN graph, NEW n \in ToSet(graph[m])
    PROVE  Path(graph, m, n)
BY DEF Path, Closed

\* What a node depends on is a node, at some place of its sequence.
LEMMA Successors ==
    ASSUME NEW graph, IsGraph(graph), NEW m \in DOMAIN graph
    PROVE  /\ ToSet(graph[m]) \subseteq DOMAIN graph
           /\ \A n : n \in ToSet(graph[m]) <=> \E i \in 1 .. Len(graph[m]) : n = graph[m][i]
BY DEF IsGraph, ToSet

\* A path does not leave a closed set.
LEMMA PathInside ==
    ASSUME NEW graph, NEW S \in SUBSET DOMAIN graph, Closed(graph, S), NEW m \in S, NEW n,
           Path(graph, m, n)
    PROVE  n \in S
BY DEF Path

\* A path to another node ends with an edge.
LEMMA PathThrough ==
    ASSUME NEW graph, IsGraph(graph), NEW m \in DOMAIN graph, NEW n, Path(graph, m, n), m # n
    PROVE  \E p \in DOMAIN graph : Path(graph, m, p) /\ n \in ToSet(graph[p])
<1> DEFINE S == {x \in DOMAIN graph : x = m \/ \E p \in DOMAIN graph : Path(graph, m, p) /\ x \in ToSet(graph[p])}
<1>1. ASSUME NEW x \in S, NEW y \in ToSet(graph[x]) PROVE y \in S
  <2>1. Path(graph, m, x)
    BY <1>1, PathReflexive, PathEdge, PathTransitive
  <2> QED BY <2>1, <1>1, Successors
<1>2. Closed(graph, S)
  BY <1>1 DEF Closed
<1>3. n \in S
  <2>1. S \in SUBSET DOMAIN graph /\ m \in S
    OBVIOUS
  <2> HIDE DEF S
  <2> QED BY <1>2, <2>1, PathInside
<1> QED BY <1>3

-----------------------------------------------------------------------------
(* Dependents and Reaches                                                  *)

\* One step of Dependents
Wider(graph, S) == S \cup {m \in DOMAIN graph : ToSet(graph[m]) \cap S # {}}

\* f is the function that Dependents computes by, up to N.
IsWidening(f, graph, targets, N) ==
    f = [n \in 0 .. N |-> IF n = 0 THEN targets ELSE Wider(graph, f[n - 1])]

\* The recursion of Dependents has a solution.
LEMMA WideningExists ==
    ASSUME NEW graph, NEW targets, NEW N \in Nat
    PROVE  \E f : IsWidening(f, graph, targets, N)
<1> DEFINE S == {n \in Nat : \E f : IsWidening(f, graph, targets, n)}
<1>1. 0 \in S
  <2> DEFINE f == [i \in 0 .. 0 |-> targets]
  <2>1. IsWidening(f, graph, targets, 0)
    BY DEF IsWidening
  <2> QED BY <2>1
<1>2. ASSUME NEW n \in Nat, n \in S PROVE n + 1 \in S
  <2>1. PICK f : IsWidening(f, graph, targets, n)
    BY <1>2
  <2> DEFINE g == [i \in 0 .. n + 1 |-> IF i = n + 1 THEN Wider(graph, f[n]) ELSE f[i]]
  <2>2. ASSUME NEW i \in 0 .. n + 1 PROVE g[i] = IF i = 0 THEN targets ELSE Wider(graph, g[i - 1])
    <3>1. CASE i = n + 1
      <4>1. i - 1 = n /\ n \in 0 .. n + 1 /\ n # n + 1 /\ i # 0
        BY <3>1
      <4> QED BY <3>1, <4>1
    <3>2. CASE i # n + 1 /\ i # 0
      <4>1. i - 1 \in 0 .. n + 1 /\ i - 1 # n + 1 /\ i \in 0 .. n
        BY <3>2
      <4>2. f[i] = Wider(graph, f[i - 1])
        BY <3>2, <4>1, <2>1 DEF IsWidening
      <4> QED BY <3>2, <4>1, <4>2
    <3>3. CASE i = 0
      BY <3>3, <2>1 DEF IsWidening
    <3> QED BY <3>1, <3>2, <3>3
  <2>3. g = [i \in 0 .. n + 1 |-> g[i]]
    OBVIOUS
  <2>4. IsWidening(g, graph, targets, n + 1)
    <3> HIDE DEF g
    <3> QED BY <2>2, <2>3 DEF IsWidening
  <2> HIDE DEF g
  <2> QED BY <2>4
<1>3. S = Nat
  <2>1. S \in SUBSET Nat
    OBVIOUS
  <2> HIDE DEF S
  <2> QED BY <1>1, <1>2, <2>1, Counting
<1> QED BY <1>3

\* Dependents is the last value of such a solution.
LEMMA DependentsByWidening ==
    ASSUME NEW graph, NEW targets, IsFiniteSet(DOMAIN graph)
    PROVE  \E f : /\ IsWidening(f, graph, targets, Cardinality(DOMAIN graph))
                  /\ Dependents(graph, targets) = f[Cardinality(DOMAIN graph)]
<1> DEFINE N == Cardinality(DOMAIN graph)
           f == CHOOSE g : IsWidening(g, graph, targets, N)
<1>1. N \in Nat
  BY FS_CardinalityType
<1>2. IsWidening(f, graph, targets, N)
  <2> HIDE DEF N
  <2> QED BY <1>1, WideningExists
<1>3. Dependents(graph, targets) = f[N]
  BY DEF Dependents, IsWidening, Wider
<1> QED BY <1>2, <1>3

\* What the values of the solution are, one by one.
LEMMA WideningSteps ==
    ASSUME NEW graph, NEW targets \in SUBSET DOMAIN graph, NEW N \in Nat, NEW f,
           IsWidening(f, graph, targets, N)
    PROVE  /\ f[0] = targets
           /\ \A n \in Nat : n + 1 <= N => f[n + 1] = Wider(graph, f[n])
           /\ \A n \in Nat : n <= N => f[n] \subseteq DOMAIN graph
<1>1. f[0] = targets
  BY DEF IsWidening
<1>2. ASSUME NEW n \in Nat, n + 1 <= N PROVE f[n + 1] = Wider(graph, f[n])
  <2>1. n + 1 \in 0 .. N /\ n + 1 # 0 /\ (n + 1) - 1 = n
    BY <1>2
  <2> QED BY <2>1 DEF IsWidening
<1> DEFINE S == {n \in Nat : n <= N => f[n] \subseteq DOMAIN graph}
<1>3. 0 \in S
  BY <1>1
<1>4. ASSUME NEW n \in Nat, n \in S PROVE n + 1 \in S
  BY <1>2, <1>4 DEF Wider
<1>5. S = Nat
  <2>1. S \in SUBSET Nat
    OBVIOUS
  <2> HIDE DEF S
  <2> QED BY <1>3, <1>4, <2>1, Counting
<1> QED BY <1>1, <1>2, <1>5

\* what all the dependents are among
LEMMA WideningInside ==
    ASSUME NEW graph, NEW targets \in SUBSET DOMAIN graph, NEW N \in Nat, NEW f,
           IsWidening(f, graph, targets, N),
           NEW T, targets \subseteq T,
           \A m \in DOMAIN graph : ToSet(graph[m]) \cap T # {} => m \in T
    PROVE  f[N] \subseteq T
<1> DEFINE S == {n \in Nat : n <= N => f[n] \subseteq T}
<1>w. f[0] = targets /\ \A n \in Nat : n + 1 <= N => f[n + 1] = Wider(graph, f[n])
  BY WideningSteps
<1>1. 0 \in S
  BY <1>w
<1>2. ASSUME NEW n \in Nat, n \in S PROVE n + 1 \in S
  <2>1. SUFFICES ASSUME n + 1 <= N PROVE f[n + 1] \subseteq T
    OBVIOUS
  <2>2. f[n] \subseteq T /\ f[n + 1] = Wider(graph, f[n])
    BY <1>2, <2>1, <1>w
  <2> QED BY <2>2 DEF Wider
<1>3. S = Nat
  <2>1. S \in SUBSET Nat
    OBVIOUS
  <2> HIDE DEF S
  <2> QED BY <1>1, <1>2, <2>1, Counting
<1> QED BY <1>3

\* A step for each node is enough: nothing is added by another one.
LEMMA WideningEnds ==
    ASSUME NEW graph, NEW targets \in SUBSET DOMAIN graph, IsFiniteSet(DOMAIN graph), NEW f,
           IsWidening(f, graph, targets, Cardinality(DOMAIN graph))
    PROVE  Wider(graph, f[Cardinality(DOMAIN graph)]) = f[Cardinality(DOMAIN graph)]
<1> DEFINE N == Cardinality(DOMAIN graph)
           S == {n \in Nat : n <= N => \/ Wider(graph, f[n]) = f[n]
                                       \/ Cardinality(f[n]) >= n}
<1>0. N \in Nat
  BY FS_CardinalityType
<1>w. /\ f[0] = targets
      /\ \A n \in Nat : n + 1 <= N => f[n + 1] = Wider(graph, f[n])
      /\ \A n \in Nat : n <= N => f[n] \subseteq DOMAIN graph
  BY <1>0, WideningSteps, Zenon
<1>a. ASSUME NEW n \in Nat, n <= N PROVE f[n] \subseteq DOMAIN graph /\ IsFiniteSet(f[n]) /\ Cardinality(f[n]) \in Nat
  BY <1>w, <1>a, FS_Subset, FS_CardinalityType
<1>1. 0 \in S
  BY <1>0, <1>a
<1>2. ASSUME NEW n \in Nat, n \in S PROVE n + 1 \in S
  <2>1. SUFFICES ASSUME n + 1 <= N, Wider(graph, f[n + 1]) # f[n + 1]
                 PROVE  Cardinality(f[n + 1]) >= n + 1
    OBVIOUS
  <2>2. f[n + 1] = Wider(graph, f[n]) /\ n <= N
    BY <1>0, <2>1, <1>w
  <2>3. f[n + 1] # f[n] /\ f[n] \subseteq f[n + 1]
    BY <2>1, <2>2 DEF Wider
  <2>4. Cardinality(f[n]) >= n
    BY <1>2, <2>2, <2>3
  <2>5. Cardinality(f[n]) <= Cardinality(f[n + 1]) /\ Cardinality(f[n + 1]) # Cardinality(f[n])
    BY <2>1, <2>3, <1>a, FS_Subset
  <2> QED BY <2>1, <2>2, <2>4, <2>5, <1>a
<1>3. S = Nat
  <2>1. S \in SUBSET Nat
    OBVIOUS
  <2> HIDE DEF S
  <2> QED BY <1>1, <1>2, <2>1, Counting
<1>4. CASE Cardinality(f[N]) >= N
  <2>1. f[N] = DOMAIN graph
    BY <1>0, <1>a, <1>4, FS_Subset
  <2> QED BY <2>1 DEF Wider
<1> QED BY <1>0, <1>3, <1>4

(* The dependents of targets are the nodes with a path to one of them.     *)
LEMMA DependentsArePaths ==
    ASSUME NEW graph, IsGraph(graph), NEW targets \in SUBSET DOMAIN graph
    PROVE  Dependents(graph, targets) = {m \in DOMAIN graph : \E t \in targets : Path(graph, m, t)}
<1> DEFINE N == Cardinality(DOMAIN graph)
           T == {m \in DOMAIN graph : \E t \in targets : Path(graph, m, t)}
<1>0. IsFiniteSet(DOMAIN graph) /\ N \in Nat
  BY FS_CardinalityType DEF IsGraph
<1>1. PICK f : IsWidening(f, graph, targets, N) /\ Dependents(graph, targets) = f[N]
  BY <1>0, DependentsByWidening
<1>w. /\ f[0] = targets
      /\ \A n \in Nat : n + 1 <= N => f[n + 1] = Wider(graph, f[n])
      /\ \A n \in Nat : n <= N => f[n] \subseteq DOMAIN graph
  BY <1>0, <1>1, WideningSteps, Zenon
<1>2. f[N] \subseteq T
  <2>1. targets \subseteq T
    BY PathReflexive
  <2>2. ASSUME NEW m \in DOMAIN graph, ToSet(graph[m]) \cap T # {} PROVE m \in T
    <3>1. PICK n \in ToSet(graph[m]), t \in targets : Path(graph, n, t)
      BY <2>2
    <3> QED BY <3>1, PathEdge, PathTransitive
  <2> HIDE DEF T
  <2> QED BY <1>0, <1>1, <2>1, <2>2, WideningInside
<1>3. ASSUME NEW m \in T PROVE m \in f[N]
  <2>1. PICK t \in targets : Path(graph, m, t)
    OBVIOUS
  <2>2. targets \subseteq f[N]
    <3> DEFINE S == {n \in Nat : n <= N => targets \subseteq f[n]}
    <3>1. 0 \in S
      BY <1>w
    <3>2. ASSUME NEW n \in Nat, n \in S PROVE n + 1 \in S
      <4>1. n + 1 <= N => f[n + 1] = Wider(graph, f[n])
        BY <1>w
      <4> QED BY <1>0, <3>2, <4>1 DEF Wider
    <3>3. S = Nat
      <4>1. S \in SUBSET Nat
        OBVIOUS
      <4> HIDE DEF S
      <4> QED BY <3>1, <3>2, <4>1, Counting
    <3> QED BY <1>0, <3>3
  <2>3. f[N] \subseteq DOMAIN graph /\ Wider(graph, f[N]) = f[N]
    BY <1>0, <1>1, <1>w, WideningEnds
  <2> DEFINE U == DOMAIN graph \ f[N]
  <2>4. Closed(graph, U)
    BY <2>3, Successors DEF Closed, Wider
  <2>5. SUFFICES ASSUME m \in U PROVE FALSE
    OBVIOUS
  <2>6. t \in U
    <3>1. U \in SUBSET DOMAIN graph
      OBVIOUS
    <3> HIDE DEF U
    <3> QED BY <2>1, <2>4, <2>5, <3>1, PathInside
  <2> QED BY <2>2, <2>6
<1> QED BY <1>1, <1>2, <1>3

\* Reaches(graph, m, n) says that a path of at least one edge leads from m to n.
LEMMA ReachesByPath ==
    ASSUME NEW graph, IsGraph(graph), NEW m \in DOMAIN graph, NEW n
    PROVE  Reaches(graph, m, n) <=> \E p \in DOMAIN graph : Path(graph, m, p) /\ n \in ToSet(graph[p])
<1> DEFINE T == {p \in DOMAIN graph : n \in ToSet(graph[p])}
<1>1. Dependents(graph, T) = {q \in DOMAIN graph : \E t \in T : Path(graph, q, t)}
  <2>1. T \in SUBSET DOMAIN graph
    OBVIOUS
  <2> HIDE DEF T
  <2> QED BY <2>1, DependentsArePaths
<1> QED BY <1>1 DEF Reaches

-----------------------------------------------------------------------------
(* The steps of a walk, field by field                                     *)

\* The components that a graph with these nodes can have
ComponentsOver(nodes) == [modules : Seq(nodes), cyclic : BOOLEAN]

\* The states of a walk over a graph
Walks(graph) ==
    [next : Nat, index : [DOMAIN graph -> Nat], low : [DOMAIN graph -> Nat],
     looked : [DOMAIN graph -> Nat], stack : Seq(DOMAIN graph), calls : Seq(DOMAIN graph),
     result : Seq(ComponentsOver(DOMAIN graph)), passed : Nat]

\* e follows w when visit(m) has been entered.
Entered(w, e, m) ==
    /\ e.next = w.next + 1
    /\ e.index = [w.index EXCEPT ![m] = w.next + 1]
    /\ e.low = [w.low EXCEPT ![m] = w.next + 1]
    /\ e.looked = w.looked
    /\ e.stack = Append(w.stack, m)
    /\ e.calls = Append(w.calls, m)
    /\ e.result = w.result
    /\ e.passed = w.passed

\* Enter changes what visit changes up to its loop.
LEMMA EnterFields ==
    ASSUME NEW graph, NEW w \in Walks(graph), NEW m \in DOMAIN graph
    PROVE  Enter(w, m) \in Walks(graph) /\ Entered(w, Enter(w, m), m)
<1> DEFINE next == w.next + 1
           index == [w.index EXCEPT ![m] = w.next + 1]
           low == [w.low EXCEPT ![m] = w.next + 1]
           stack == Append(w.stack, m)
           calls == Append(w.calls, m)
<1>1. Enter(w, m) = [w EXCEPT !.next = next, !.index = index, !.low = low, !.stack = stack, !.calls = calls]
  BY DEF Enter, Walks
<1>2. /\ next \in Nat
      /\ index \in [DOMAIN graph -> Nat]
      /\ low \in [DOMAIN graph -> Nat]
      /\ stack \in Seq(DOMAIN graph)
      /\ calls \in Seq(DOMAIN graph)
  BY DEF Walks
<1> HIDE DEF next, index, low, stack, calls
<1>3. [w EXCEPT !.next = next, !.index = index, !.low = low, !.stack = stack, !.calls = calls]
        = [next |-> next, index |-> index, low |-> low, looked |-> w.looked, stack |-> stack,
           calls |-> calls, result |-> w.result, passed |-> w.passed]
  <2> DEFINE old == [next |-> w.next, index |-> w.index, low |-> w.low, looked |-> w.looked,
                    stack |-> w.stack, calls |-> w.calls, result |-> w.result, passed |-> w.passed]
  <2>1. w = old
    BY DEF Walks
  <2> DEFINE v1 == [next |-> next, index |-> w.index, low |-> w.low, looked |-> w.looked, stack |-> w.stack,
              calls |-> w.calls, result |-> w.result, passed |-> w.passed]
             v2 == [next |-> next, index |-> index, low |-> w.low, looked |-> w.looked, stack |-> w.stack,
              calls |-> w.calls, result |-> w.result, passed |-> w.passed]
             v3 == [next |-> next, index |-> index, low |-> low, looked |-> w.looked, stack |-> w.stack,
              calls |-> w.calls, result |-> w.result, passed |-> w.passed]
             v4 == [next |-> next, index |-> index, low |-> low, looked |-> w.looked, stack |-> stack,
              calls |-> w.calls, result |-> w.result, passed |-> w.passed]
  <2>2. [old EXCEPT !.next = next] = v1
    OBVIOUS
  <2>3. [v1 EXCEPT !.index = index] = v2
    OBVIOUS
  <2>4. [v2 EXCEPT !.low = low] = v3
    OBVIOUS
  <2>5. [v3 EXCEPT !.stack = stack] = v4
    OBVIOUS
  <2>6. [v4 EXCEPT !.calls = calls]
          = [next |-> next, index |-> index, low |-> low, looked |-> w.looked, stack |-> stack,
              calls |-> calls, result |-> w.result, passed |-> w.passed]
    OBVIOUS
  <2> HIDE DEF old, v1, v2, v3, v4
  <2> QED BY <2>1, <2>2, <2>3, <2>4, <2>5, <2>6
<1>4. /\ Enter(w, m) \in Walks(graph)
      /\ Enter(w, m).next = next
      /\ Enter(w, m).index = index
      /\ Enter(w, m).low = low
      /\ Enter(w, m).looked = w.looked
      /\ Enter(w, m).stack = stack
      /\ Enter(w, m).calls = calls
      /\ Enter(w, m).result = w.result
      /\ Enter(w, m).passed = w.passed
  BY <1>1, <1>2, <1>3 DEF Walks
<1> QED BY <1>4 DEF next, index, low, stack, calls, Entered

\* The smaller of two indices
Smaller(i, j) == IF i < j THEN i ELSE j

\* Lower changes nothing but the low index of m.
LEMMA LowerFields ==
    ASSUME NEW graph, NEW w \in Walks(graph), NEW m \in DOMAIN graph, NEW i \in Nat
    PROVE  /\ Lower(w, m, i) \in Walks(graph)
           /\ Lower(w, m, i).low = [w.low EXCEPT ![m] = Smaller(i, w.low[m])]
           /\ Lower(w, m, i).next = w.next
           /\ Lower(w, m, i).index = w.index
           /\ Lower(w, m, i).looked = w.looked
           /\ Lower(w, m, i).stack = w.stack
           /\ Lower(w, m, i).calls = w.calls
           /\ Lower(w, m, i).result = w.result
           /\ Lower(w, m, i).passed = w.passed
<1> DEFINE low == [w.low EXCEPT ![m] = Smaller(i, w.low[m])]
<1>1. Lower(w, m, i) = [w EXCEPT !.low = low]
  BY DEF Lower, Walks, Smaller
<1>2. low \in [DOMAIN graph -> Nat]
  BY DEF Walks, Smaller
<1> HIDE DEF low
<1>3. /\ Lower(w, m, i) \in Walks(graph)
      /\ Lower(w, m, i).low = low
      /\ Lower(w, m, i).next = w.next
      /\ Lower(w, m, i).index = w.index
      /\ Lower(w, m, i).looked = w.looked
      /\ Lower(w, m, i).stack = w.stack
      /\ Lower(w, m, i).calls = w.calls
      /\ Lower(w, m, i).result = w.result
      /\ Lower(w, m, i).passed = w.passed
  BY <1>1, <1>2 DEF Walks
<1> QED BY <1>3 DEF low

\* Look changes nothing but how many dependencies of m have been looked at.
LEMMA LookFields ==
    ASSUME NEW graph, NEW w \in Walks(graph), NEW m \in DOMAIN graph
    PROVE  /\ Look(w, m) \in Walks(graph)
           /\ Look(w, m).looked = [w.looked EXCEPT ![m] = w.looked[m] + 1]
           /\ Look(w, m).next = w.next
           /\ Look(w, m).index = w.index
           /\ Look(w, m).low = w.low
           /\ Look(w, m).stack = w.stack
           /\ Look(w, m).calls = w.calls
           /\ Look(w, m).result = w.result
           /\ Look(w, m).passed = w.passed
<1> DEFINE looked == [w.looked EXCEPT ![m] = w.looked[m] + 1]
<1>1. Look(w, m) = [w EXCEPT !.looked = looked]
  BY DEF Look, Walks
<1>2. looked \in [DOMAIN graph -> Nat]
  BY DEF Walks
<1> HIDE DEF looked
<1>3. /\ Look(w, m) \in Walks(graph)
      /\ Look(w, m).looked = looked
      /\ Look(w, m).next = w.next
      /\ Look(w, m).index = w.index
      /\ Look(w, m).low = w.low
      /\ Look(w, m).stack = w.stack
      /\ Look(w, m).calls = w.calls
      /\ Look(w, m).result = w.result
      /\ Look(w, m).passed = w.passed
  BY <1>1, <1>2 DEF Walks
<1> QED BY <1>3 DEF looked

\* The component of m, as Pop makes it.
Popped(graph, m, members) ==
    [modules |-> members, cyclic |-> m \in ToSet(graph[m]) \/ Len(members) > 1]

\* u follows w when the component of m, first on the stack at a position, has been popped.
PoppedAt(w, u, graph, m, first) ==
    /\ w.stack[first] = m
    /\ u.stack = SubSeq(w.stack, 1, first - 1)
    /\ u.result = Append(w.result, Popped(graph, m, SubSeq(w.stack, first, Len(w.stack))))
    /\ u.next = w.next
    /\ u.index = w.index
    /\ u.low = w.low
    /\ u.looked = w.looked
    /\ u.calls = w.calls
    /\ u.passed = w.passed

\* Pop takes the part of the stack from m on away and makes a component of it.
LEMMA PopFields ==
    ASSUME NEW graph, NEW w \in Walks(graph), NEW m \in ToSet(w.stack)
    PROVE  \E first \in 1 .. Len(w.stack) :
               Pop(w, graph, m) \in Walks(graph) /\ PoppedAt(w, Pop(w, graph, m), graph, m, first)
<1> DEFINE first == CHOOSE i \in DOMAIN w.stack : w.stack[i] = m
           members == SubSeq(w.stack, first, Len(w.stack))
           component == [modules |-> members, cyclic |-> m \in ToSet(graph[m]) \/ Len(members) > 1]
           stack == SubSeq(w.stack, 1, first - 1)
           results == Append(w.result, component)
<1>1. w.stack \in Seq(DOMAIN graph) /\ w.result \in Seq(ComponentsOver(DOMAIN graph))
  BY DEF Walks
<1>2. first \in 1 .. Len(w.stack) /\ w.stack[first] = m
  BY <1>1 DEF ToSet
<1>3. stack \in Seq(DOMAIN graph) /\ members \in Seq(DOMAIN graph)
  <2> HIDE DEF first
  <2> QED BY <1>1, <1>2
<1>4. component \in ComponentsOver(DOMAIN graph)
  <2> HIDE DEF members
  <2> QED BY <1>3 DEF ComponentsOver
<1>5. results \in Seq(ComponentsOver(DOMAIN graph))
  <2> HIDE DEF component
  <2> QED BY <1>1, <1>4
<1>6. Pop(w, graph, m) = [w EXCEPT !.stack = stack, !.result = results]
  BY DEF Pop, Walks
<1> HIDE DEF first, members, component, stack, results
<1> DEFINE v1 == [w EXCEPT !.stack = stack]
           v2 == [v1 EXCEPT !.result = results]
<1>7. /\ v1 \in Walks(graph)
      /\ v1.stack = stack
      /\ v1.result = w.result
      /\ v1.next = w.next
      /\ v1.index = w.index
      /\ v1.low = w.low
      /\ v1.looked = w.looked
      /\ v1.calls = w.calls
      /\ v1.passed = w.passed
  BY <1>3 DEF Walks
<1>8. Pop(w, graph, m) = v2
  BY <1>6, Zenon
<1> HIDE DEF v1
<1>9. /\ v2 \in Walks(graph)
      /\ v2.stack = stack
      /\ v2.result = results
      /\ v2.next = w.next
      /\ v2.index = w.index
      /\ v2.low = w.low
      /\ v2.looked = w.looked
      /\ v2.calls = w.calls
      /\ v2.passed = w.passed
  BY <1>5, <1>7 DEF Walks
<1> HIDE DEF v2
<1>10. component = Popped(graph, m, members)
  BY DEF component, Popped
<1>11. v2 \in Walks(graph) /\ PoppedAt(w, v2, graph, m, first)
  BY <1>2, <1>9, <1>10 DEF stack, results, members, PoppedAt
<1> QED BY <1>2, <1>8, <1>11

\* A sequence is empty when its length is zero.
LEMMA EmptyLength ==
    ASSUME NEW S, NEW s \in Seq(S)
    PROVE  s = << >> <=> Len(s) = 0
OBVIOUS

\* Returning takes the innermost call away.
LEMMA CallsShortened ==
    ASSUME NEW graph, NEW w \in Walks(graph), NEW depth \in Nat, depth = Len(w.calls), depth # 0
    PROVE  /\ [w EXCEPT !.calls = Front(@)] \in Walks(graph)
           /\ [w EXCEPT !.calls = Front(@)].calls = SubSeq(w.calls, 1, depth - 1)
           /\ [w EXCEPT !.calls = Front(@)].next = w.next
           /\ [w EXCEPT !.calls = Front(@)].index = w.index
           /\ [w EXCEPT !.calls = Front(@)].low = w.low
           /\ [w EXCEPT !.calls = Front(@)].looked = w.looked
           /\ [w EXCEPT !.calls = Front(@)].stack = w.stack
           /\ [w EXCEPT !.calls = Front(@)].result = w.result
           /\ [w EXCEPT !.calls = Front(@)].passed = w.passed
<1> DEFINE calls == SubSeq(w.calls, 1, depth - 1)
<1>1. calls \in Seq(DOMAIN graph)
  <2>1. w.calls \in Seq(DOMAIN graph) /\ depth - 1 \in 0 .. Len(w.calls)
    BY DEF Walks
  <2> QED BY <2>1
<1>2. [w EXCEPT !.calls = Front(@)] = [w EXCEPT !.calls = calls]
  <2>1. Front(w.calls) = calls
    BY DEF Front
  <2> HIDE DEF calls
  <2> QED BY <2>1 DEF Walks
<1> HIDE DEF calls
<1> DEFINE v == [w EXCEPT !.calls = calls]
<1>3. /\ v \in Walks(graph)
      /\ v.calls = calls
      /\ v.next = w.next
      /\ v.index = w.index
      /\ v.low = w.low
      /\ v.looked = w.looked
      /\ v.stack = w.stack
      /\ v.result = w.result
      /\ v.passed = w.passed
  BY <1>1 DEF Walks
<1> HIDE DEF v
<1>4. [w EXCEPT !.calls = Front(@)] = v
  BY <1>2 DEF v
<1> QED BY <1>3, <1>4 DEF calls

\* The outermost call returns to the loop over the roots.
LEMMA ReturnToRoots ==
    ASSUME NEW graph, NEW w \in Walks(graph), NEW m \in DOMAIN graph, Len(w.calls) = 1
    PROVE  /\ Return(w, m) \in Walks(graph)
           /\ Return(w, m).calls = << >>
           /\ Return(w, m).low = w.low
           /\ Return(w, m).looked = w.looked
           /\ Return(w, m).next = w.next
           /\ Return(w, m).index = w.index
           /\ Return(w, m).stack = w.stack
           /\ Return(w, m).result = w.result
           /\ Return(w, m).passed = w.passed
<1> DEFINE v == [w EXCEPT !.calls = Front(@)]
<1>1. /\ v \in Walks(graph)
      /\ v.calls = SubSeq(w.calls, 1, 1 - 1)
      /\ v.low = w.low
      /\ v.looked = w.looked
      /\ v.next = w.next
      /\ v.index = w.index
      /\ v.stack = w.stack
      /\ v.result = w.result
      /\ v.passed = w.passed
  <2>1. 1 \in Nat /\ 1 # 0 /\ 1 = Len(w.calls)
    OBVIOUS
  <2> QED BY <2>1, CallsShortened
<1>2. SubSeq(w.calls, 1, 1 - 1) = << >>
  BY DEF Walks
<1>3. Return(w, m) = IF v.calls = << >> THEN v
                     ELSE Look(Lower(v, Last(v.calls), w.low[m]), Last(v.calls))
  BY DEF Return
<1> HIDE DEF v
<1> QED BY <1>1, <1>2, <1>3

\* Lower and Look of the same node, one after the other.
LEMMA LowerLookFields ==
    ASSUME NEW graph, NEW w \in Walks(graph), NEW m \in DOMAIN graph, NEW i \in Nat
    PROVE  /\ Look(Lower(w, m, i), m) \in Walks(graph)
           /\ Look(Lower(w, m, i), m).low = [w.low EXCEPT ![m] = Smaller(i, w.low[m])]
           /\ Look(Lower(w, m, i), m).looked = [w.looked EXCEPT ![m] = w.looked[m] + 1]
           /\ Look(Lower(w, m, i), m).next = w.next
           /\ Look(Lower(w, m, i), m).index = w.index
           /\ Look(Lower(w, m, i), m).stack = w.stack
           /\ Look(Lower(w, m, i), m).calls = w.calls
           /\ Look(Lower(w, m, i), m).result = w.result
           /\ Look(Lower(w, m, i), m).passed = w.passed
<1> DEFINE u == Lower(w, m, i)
<1>1. /\ u \in Walks(graph)
      /\ u.low = [w.low EXCEPT ![m] = Smaller(i, w.low[m])]
      /\ u.next = w.next
      /\ u.index = w.index
      /\ u.looked = w.looked
      /\ u.stack = w.stack
      /\ u.calls = w.calls
      /\ u.result = w.result
      /\ u.passed = w.passed
  BY LowerFields
<1>2. u \in Walks(graph)
  BY <1>1
<1> HIDE DEF u
<1>3. /\ Look(u, m) \in Walks(graph)
      /\ Look(u, m).looked = [u.looked EXCEPT ![m] = u.looked[m] + 1]
      /\ Look(u, m).next = u.next
      /\ Look(u, m).index = u.index
      /\ Look(u, m).low = u.low
      /\ Look(u, m).stack = u.stack
      /\ Look(u, m).calls = u.calls
      /\ Look(u, m).result = u.result
      /\ Look(u, m).passed = u.passed
  BY <1>2, LookFields
<1> QED BY <1>1, <1>3 DEF u

\* Another call returns to its caller, which takes over its low index and looks on.
LEMMA ReturnToCaller ==
    ASSUME NEW graph, NEW w \in Walks(graph), NEW m \in DOMAIN graph,
           NEW depth \in Nat, depth = Len(w.calls), depth > 1,
           NEW caller \in DOMAIN graph
    PROVE  caller = w.calls[depth - 1] =>
           /\ Return(w, m) \in Walks(graph)
           /\ Return(w, m).calls = SubSeq(w.calls, 1, depth - 1)
           /\ Return(w, m).low = [w.low EXCEPT ![caller] = Smaller(w.low[m], w.low[caller])]
           /\ Return(w, m).looked = [w.looked EXCEPT ![caller] = w.looked[caller] + 1]
           /\ Return(w, m).next = w.next
           /\ Return(w, m).index = w.index
           /\ Return(w, m).stack = w.stack
           /\ Return(w, m).result = w.result
           /\ Return(w, m).passed = w.passed
<1> DEFINE v == [w EXCEPT !.calls = Front(@)]
           u == Lower(v, caller, w.low[m])
<1>1. /\ v \in Walks(graph)
      /\ v.calls = SubSeq(w.calls, 1, depth - 1)
      /\ v.low = w.low
      /\ v.looked = w.looked
      /\ v.next = w.next
      /\ v.index = w.index
      /\ v.stack = w.stack
      /\ v.result = w.result
      /\ v.passed = w.passed
  <2>1. depth # 0
    OBVIOUS
  <2> QED BY <2>1, CallsShortened
<1>2. v.calls # << >> /\ Last(v.calls) = w.calls[depth - 1]
  <2> DEFINE calls == SubSeq(w.calls, 1, depth - 1)
  <2>1. w.calls \in Seq(DOMAIN graph)
    BY DEF Walks
  <2>2. /\ calls \in Seq(DOMAIN graph) /\ Len(calls) = depth - 1
        /\ calls[depth - 1] = w.calls[depth - 1]
    BY <2>1
  <2>4. v.calls = calls
    BY <1>1
  <2> HIDE DEF calls, v
  <2>5. calls # << >>
    BY <2>2, EmptyLength
  <2> QED BY <2>2, <2>4, <2>5 DEF Last
<1>3. Return(w, m) = IF v.calls = << >> THEN v
                     ELSE Look(Lower(v, Last(v.calls), w.low[m]), Last(v.calls))
  BY DEF Return
<1>4. caller = w.calls[depth - 1] => Return(w, m) = Look(u, caller)
  <2> HIDE DEF v
  <2> QED BY <1>2, <1>3 DEF u
<1> HIDE DEF v
<1> DEFINE i == w.low[m]
<1>5. i \in Nat /\ v \in Walks(graph)
  BY <1>1 DEF Walks
<1> HIDE DEF i
<1>6. /\ Look(Lower(v, caller, i), caller) \in Walks(graph)
      /\ Look(Lower(v, caller, i), caller).low = [v.low EXCEPT ![caller] = Smaller(i, v.low[caller])]
      /\ Look(Lower(v, caller, i), caller).looked = [v.looked EXCEPT ![caller] = v.looked[caller] + 1]
      /\ Look(Lower(v, caller, i), caller).next = v.next
      /\ Look(Lower(v, caller, i), caller).index = v.index
      /\ Look(Lower(v, caller, i), caller).stack = v.stack
      /\ Look(Lower(v, caller, i), caller).calls = v.calls
      /\ Look(Lower(v, caller, i), caller).result = v.result
      /\ Look(Lower(v, caller, i), caller).passed = v.passed
  BY <1>5, LowerLookFields
<1> QED BY <1>1, <1>4, <1>6 DEF i

\* e follows w by a dependency n of its innermost call m, visited before.
Passed(w, e, graph, m, n) ==
    /\ e.low = IF n \in ToSet(w.stack) THEN [w.low EXCEPT ![m] = Smaller(w.index[n], w.low[m])] ELSE w.low
    /\ e.looked = [w.looked EXCEPT ![m] = w.looked[m] + 1]
    /\ e.next = w.next
    /\ e.index = w.index
    /\ e.stack = w.stack
    /\ e.calls = w.calls
    /\ e.result = w.result
    /\ e.passed = w.passed

\* What looking at a dependency that has been visited changes
LEMMA BackFields ==
    ASSUME NEW graph, NEW w \in Walks(graph), NEW m \in DOMAIN graph, NEW n \in DOMAIN graph
    PROVE  Look(Back(w, m, n), m) \in Walks(graph) /\ Passed(w, Look(Back(w, m, n), m), graph, m, n)
<1>1. w.index[n] \in Nat
  BY DEF Walks
<1> DEFINE e == Look(Back(w, m, n), m)
<1>2. CASE n \in ToSet(w.stack)
  <2> DEFINE u == Look(Lower(w, m, w.index[n]), m)
  <2>1. /\ u \in Walks(graph)
        /\ u.low = [w.low EXCEPT ![m] = Smaller(w.index[n], w.low[m])]
        /\ u.looked = [w.looked EXCEPT ![m] = w.looked[m] + 1]
        /\ u.next = w.next
        /\ u.index = w.index
        /\ u.stack = w.stack
        /\ u.calls = w.calls
        /\ u.result = w.result
        /\ u.passed = w.passed
    BY <1>1, LowerLookFields
  <2>2. e = u
    BY <1>2 DEF Back
  <2> HIDE DEF u, e
  <2>3. e \in Walks(graph) /\ Passed(w, e, graph, m, n)
    BY <1>2, <2>1, <2>2 DEF Passed
  <2> QED BY <2>3 DEF e
<1>3. CASE n \notin ToSet(w.stack)
  <2> DEFINE u == Look(w, m)
  <2>1. /\ u \in Walks(graph)
        /\ u.looked = [w.looked EXCEPT ![m] = w.looked[m] + 1]
        /\ u.next = w.next
        /\ u.index = w.index
        /\ u.low = w.low
        /\ u.stack = w.stack
        /\ u.calls = w.calls
        /\ u.result = w.result
        /\ u.passed = w.passed
    BY LookFields
  <2>2. e = u
    BY <1>3 DEF Back
  <2> HIDE DEF u, e
  <2>3. e \in Walks(graph) /\ Passed(w, e, graph, m, n)
    BY <1>3, <2>1, <2>2 DEF Passed
  <2> QED BY <2>3 DEF e
<1> QED BY <1>2, <1>3

-----------------------------------------------------------------------------
(* The invariant of a walk                                                 *)

\* The nodes of the components found
Gathered(found) == UNION {ToSet(found[k].modules) : k \in DOMAIN found}

\* The nodes whose component has been found
Finished(w) == Gathered(w.result)

\* Nodes are numbered in the order in which they are entered, each once, and nothing
\* is looked at before it.
Numbered(w, graph) ==
    /\ \A m \in DOMAIN graph : /\ w.index[m] <= w.next
                               /\ w.looked[m] <= Len(graph[m])
                               /\ w.index[m] = 0 => w.looked[m] = 0
    /\ \A m, n \in DOMAIN graph : w.index[m] = w.index[n] /\ w.index[m] # 0 => m = n

\* The nodes of s are in the order of their indices.
Ordered(index, s) == \A i, j \in 1 .. Len(s) : i < j => index[s[i]] < index[s[j]]

\* The stack and the calls are in the order of the indices, every call is of a node on the
\* stack, and a node that has been entered is on the stack or in a component.
Placed(w, graph) ==
    /\ Ordered(w.index, w.stack)
    /\ Ordered(w.index, w.calls)
    /\ ToSet(w.calls) \subseteq ToSet(w.stack)
    /\ \A m \in DOMAIN graph : w.index[m] # 0 <=> m \in ToSet(w.stack) \cup Finished(w)
    /\ ToSet(w.stack) \cap Finished(w) = {}

\* A call that has returned has looked at all its dependencies, these have been entered,
\* and each call but the last is at the dependency that the next one visits.
Followed(w, graph) ==
    /\ \A m \in DOMAIN graph : w.index[m] # 0 /\ m \notin ToSet(w.calls) => w.looked[m] = Len(graph[m])
    /\ \A m \in DOMAIN graph : \A i \in 1 .. w.looked[m] : w.index[graph[m][i]] # 0
    /\ \A k \in 1 .. Len(w.calls) - 1 :
           /\ w.looked[w.calls[k]] < Len(graph[w.calls[k]])
           /\ graph[w.calls[k]][w.looked[w.calls[k]] + 1] = w.calls[k + 1]

\* A call reaches all that is above it on the stack, and every node of the stack reaches
\* a call that is not above it.
Connected(w, graph) ==
    /\ \A c \in ToSet(w.calls), s \in ToSet(w.stack) : w.index[c] <= w.index[s] => Path(graph, c, s)
    /\ \A s \in ToSet(w.stack) : \E c \in ToSet(w.calls) : w.index[c] <= w.index[s] /\ Path(graph, s, c)

\* c is the innermost call within which s has been entered.
During(w, c, s) ==
    /\ w.index[c] <= w.index[s]
    /\ \A d \in ToSet(w.calls) : w.index[c] < w.index[d] => w.index[s] < w.index[d]

\* The low index of a call is that of a node on the stack which it reaches.
LowsReached(w, graph) ==
    \A c \in ToSet(w.calls) : \E t \in ToSet(w.stack) :
        w.index[t] = w.low[c] /\ w.index[t] <= w.index[c] /\ Path(graph, c, t)

\* The low index of a call is no larger than that of any node on the stack which a
\* node entered within the call has been seen to depend on.
LowsBound(w, graph) ==
    \A c \in ToSet(w.calls), s \in ToSet(w.stack) :
        During(w, c, s) =>
            \A i \in 1 .. w.looked[s] :
                graph[s][i] \in ToSet(w.stack) => w.low[c] <= w.index[graph[s][i]]

\* m depends on itself, directly or not.
OnCircle(graph, m) == \E p \in DOMAIN graph : Path(graph, m, p) /\ m \in ToSet(graph[p])

\* The components found so far are such: no node twice, all of a component's nodes reach each
\* other, it is cyclic when they depend on themselves, and they depend on it and earlier ones only.
Groups(found, graph) ==
    \A k \in 1 .. Len(found) :
        LET component == found[k]
        IN  /\ component.modules # << >> /\ IsInjective(component.modules)
            /\ \A l \in 1 .. k - 1 : ToSet(component.modules) \cap ToSet(found[l].modules) = {}
            /\ \A m \in ToSet(component.modules) :
                   /\ ToSet(graph[m]) \subseteq UNION {ToSet(found[l].modules) : l \in 1 .. k}
                   /\ component.cyclic = OnCircle(graph, m)
                   /\ \A n \in ToSet(component.modules) : Path(graph, m, n)

\* The components of a walk are sound.
Grouped(w, graph) == Groups(w.result, graph)

\* The roots that have been passed have been entered, and nothing but what roots reach.
Rooted(w, roots, graph) ==
    /\ w.passed <= Len(roots)
    /\ \A i \in 1 .. w.passed : w.index[roots[i]] # 0
    /\ \A m \in DOMAIN graph : w.index[m] # 0 => \E r \in ToSet(roots) : Path(graph, r, m)

\* What holds at every step of a walk
WalkInvariant(w, roots, graph) ==
    /\ w \in Walks(graph)
    /\ Numbered(w, graph)
    /\ Placed(w, graph)
    /\ Followed(w, graph)
    /\ Connected(w, graph)
    /\ LowsReached(w, graph)
    /\ LowsBound(w, graph)
    /\ Grouped(w, graph)
    /\ Rooted(w, roots, graph)

\* The elements of a sequence are what it has at its positions.
LEMMA SetOfSequence ==
    ASSUME NEW S, NEW s \in Seq(S)
    PROVE  /\ ToSet(s) \subseteq S
           /\ \A x : x \in ToSet(s) <=> \E i \in 1 .. Len(s) : x = s[i]
           /\ Len(s) \in Nat
           /\ \A i \in 1 .. Len(s) : s[i] \in S
BY DEF ToSet

\* What a sequence with one more element has
LEMMA AppendedElements ==
    ASSUME NEW S, NEW s \in Seq(S), NEW x \in S
    PROVE  /\ Append(s, x) \in Seq(S)
           /\ Len(Append(s, x)) = Len(s) + 1
           /\ \A i \in 1 .. Len(s) : Append(s, x)[i] = s[i]
           /\ Append(s, x)[Len(s) + 1] = x
           /\ ToSet(Append(s, x)) = ToSet(s) \cup {x}
<1>1. /\ Append(s, x) \in Seq(S)
      /\ Len(Append(s, x)) = Len(s) + 1
      /\ \A i \in 1 .. Len(s) : Append(s, x)[i] = s[i]
      /\ Append(s, x)[Len(s) + 1] = x
  OBVIOUS
<1> DEFINE t == Append(s, x)
<1>2. ASSUME NEW y PROVE y \in ToSet(t) <=> y \in ToSet(s) \cup {x}
  <2>1. y \in ToSet(t) <=> \E i \in 1 .. Len(s) + 1 : y = t[i]
    <3> HIDE DEF t
    <3>1. t \in Seq(S) /\ Len(t) = Len(s) + 1
      BY <1>1 DEF t
    <3> QED BY <3>1, SetOfSequence
  <2>2. y \in ToSet(s) <=> \E i \in 1 .. Len(s) : y = s[i]
    BY SetOfSequence
  <2>3. /\ Len(s) \in Nat
        /\ \A i \in 1 .. Len(s) : t[i] = s[i]
        /\ t[Len(s) + 1] = x
    BY <1>1
  <2> HIDE DEF t
  <2>4. (\E i \in 1 .. Len(s) + 1 : y = t[i]) <=> (\E i \in 1 .. Len(s) : y = s[i]) \/ y = x
    <3>1. ASSUME NEW i \in 1 .. Len(s) + 1 PROVE i \in 1 .. Len(s) \/ i = Len(s) + 1
      BY <2>3
    <3>2. Len(s) + 1 \in 1 .. Len(s) + 1 /\ \A i \in 1 .. Len(s) : i \in 1 .. Len(s) + 1
      BY <2>3
    <3> QED BY <2>3, <3>1, <3>2
  <2> QED BY <2>1, <2>2, <2>4
<1> QED BY <1>1, <1>2

\* What a part of a sequence has
LEMMA SliceElements ==
    ASSUME NEW S, NEW s \in Seq(S), NEW i \in Nat, NEW j \in Nat, 1 <= i, j <= Len(s), i <= j + 1
    PROVE  /\ SubSeq(s, i, j) \in Seq(S)
           /\ Len(SubSeq(s, i, j)) = j + 1 - i
           /\ \A k \in 1 .. j + 1 - i : SubSeq(s, i, j)[k] = s[k + i - 1]
           /\ \A x : x \in ToSet(SubSeq(s, i, j)) <=> \E k \in i .. j : x = s[k]
<1> DEFINE t == SubSeq(s, i, j)
<1>1. /\ t \in Seq(S)
      /\ Len(t) = j + 1 - i
      /\ \A k \in 1 .. j + 1 - i : t[k] = s[k + i - 1]
  OBVIOUS
<1> HIDE DEF t
<1>2. ASSUME NEW x PROVE x \in ToSet(t) <=> \E k \in i .. j : x = s[k]
  <2>1. x \in ToSet(t) <=> \E k \in 1 .. j + 1 - i : x = t[k]
    BY <1>1, SetOfSequence
  <2>2. ASSUME NEW k \in 1 .. j + 1 - i PROVE k + i - 1 \in i .. j /\ t[k] = s[k + i - 1]
    BY <1>1
  <2>3. ASSUME NEW k \in i .. j PROVE k + 1 - i \in 1 .. j + 1 - i /\ t[k + 1 - i] = s[k]
    <3>1. k + 1 - i \in 1 .. j + 1 - i /\ (k + 1 - i) + i - 1 = k
      OBVIOUS
    <3> QED BY <1>1, <3>1
  <2> QED BY <2>1, <2>2, <2>3
<1> QED BY <1>1, <1>2 DEF t

\* What the beginning of a sequence has
LEMMA PrefixElements ==
    ASSUME NEW S, NEW s \in Seq(S), NEW j \in Nat, j <= Len(s)
    PROVE  /\ SubSeq(s, 1, j) \in Seq(S)
           /\ Len(SubSeq(s, 1, j)) = j
           /\ \A k \in 1 .. j : SubSeq(s, 1, j)[k] = s[k]
           /\ \A x : x \in ToSet(SubSeq(s, 1, j)) <=> \E k \in 1 .. j : x = s[k]
<1> DEFINE t == SubSeq(s, 1, j)
<1>1. /\ t \in Seq(S)
      /\ Len(t) = j
      /\ \A k \in 1 .. j : t[k] = s[k]
  OBVIOUS
<1> HIDE DEF t
<1>2. \A x : x \in ToSet(t) <=> \E k \in 1 .. j : x = t[k]
  BY <1>1, SetOfSequence
<1> QED BY <1>1, <1>2 DEF t

\* What the end of a sequence has
LEMMA SuffixElements ==
    ASSUME NEW S, NEW s \in Seq(S), NEW i \in 1 .. Len(s), NEW n \in Nat, n = Len(s)
    PROVE  /\ SubSeq(s, i, n) \in Seq(S)
           /\ Len(SubSeq(s, i, n)) = n + 1 - i
           /\ \A k \in 1 .. n + 1 - i : SubSeq(s, i, n)[k] = s[k + i - 1]
           /\ \A x : x \in ToSet(SubSeq(s, i, n)) <=> \E k \in i .. n : x = s[k]
BY SliceElements

\* The types of the fields of a walk
LEMMA WalkTypes ==
    ASSUME NEW graph, NEW w \in Walks(graph)
    PROVE  /\ w.next \in Nat /\ w.passed \in Nat
           /\ w.stack \in Seq(DOMAIN graph) /\ w.calls \in Seq(DOMAIN graph)
           /\ ToSet(w.stack) \subseteq DOMAIN graph /\ ToSet(w.calls) \subseteq DOMAIN graph
           /\ Len(w.stack) \in Nat /\ Len(w.calls) \in Nat
           /\ w.index \in [DOMAIN graph -> Nat] /\ w.low \in [DOMAIN graph -> Nat]
           /\ w.looked \in [DOMAIN graph -> Nat]
           /\ \A x \in DOMAIN graph : w.index[x] \in Nat /\ w.low[x] \in Nat /\ w.looked[x] \in Nat
           /\ \A k \in 1 .. Len(w.calls) : w.calls[k] \in DOMAIN graph /\ w.calls[k] \in ToSet(w.calls)
           /\ \A k \in 1 .. Len(w.stack) : w.stack[k] \in DOMAIN graph /\ w.stack[k] \in ToSet(w.stack)
<1>1. /\ w.next \in Nat /\ w.passed \in Nat
      /\ w.stack \in Seq(DOMAIN graph) /\ w.calls \in Seq(DOMAIN graph)
      /\ w.index \in [DOMAIN graph -> Nat] /\ w.low \in [DOMAIN graph -> Nat]
      /\ w.looked \in [DOMAIN graph -> Nat]
  BY DEF Walks
<1>2. \A x \in DOMAIN graph : w.index[x] \in Nat /\ w.low[x] \in Nat /\ w.looked[x] \in Nat
  BY <1>1
<1> QED BY <1>1, <1>2, SetOfSequence

\* A sequence stays ordered when a node with a larger index is added.
LEMMA OrderedAppend ==
    ASSUME NEW S, NEW s \in Seq(S), NEW x \in S, NEW f \in [S -> Nat], NEW g \in [S -> Nat],
           Ordered(f, s), \A i \in 1 .. Len(s) : g[s[i]] = f[s[i]] /\ f[s[i]] < g[x]
    PROVE  Ordered(g, Append(s, x))
<1> DEFINE t == Append(s, x)
<1>1. /\ Len(t) = Len(s) + 1 /\ Len(s) \in Nat
      /\ \A i \in 1 .. Len(s) : t[i] = s[i]
      /\ t[Len(s) + 1] = x
  BY AppendedElements, SetOfSequence
<1> HIDE DEF t
<1>2. ASSUME NEW i \in 1 .. Len(s) + 1, NEW j \in 1 .. Len(s) + 1, i < j PROVE g[t[i]] < g[t[j]]
  <2>1. i \in 1 .. Len(s)
    BY <1>1, <1>2
  <2>2. CASE j \in 1 .. Len(s)
    <3>1. f[s[i]] < f[s[j]]
      BY <1>2, <2>1, <2>2 DEF Ordered
    <3> QED BY <1>1, <2>1, <2>2, <3>1
  <2>3. CASE j = Len(s) + 1
    BY <1>1, <2>1, <2>3
  <2> QED BY <1>1, <2>2, <2>3
<1> QED BY <1>1, <1>2 DEF Ordered, t

-----------------------------------------------------------------------------
(* Entering a node                                                         *)

\* What a step into m changes, node by node
EnteredInto(w, e, m, graph) ==
    /\ e.index[m] = w.next + 1 /\ e.low[m] = w.next + 1 /\ e.looked = w.looked /\ e.next = w.next + 1
    /\ e.result = w.result /\ e.passed = w.passed
    /\ \A x \in DOMAIN graph : x # m => e.index[x] = w.index[x] /\ e.low[x] = w.low[x]
    /\ \A x \in DOMAIN graph : w.index[x] \in Nat /\ w.index[x] <= w.next /\ w.low[x] \in Nat
                               /\ w.looked[x] \in Nat
    /\ m \notin ToSet(w.stack) /\ m \notin ToSet(w.calls) /\ m \notin Finished(w) /\ w.looked[m] = 0
    /\ ToSet(e.stack) = ToSet(w.stack) \cup {m} /\ ToSet(e.calls) = ToSet(w.calls) \cup {m}
    /\ Len(e.calls) = Len(w.calls) + 1 /\ e.calls[Len(w.calls) + 1] = m
    /\ \A k \in 1 .. Len(w.calls) : e.calls[k] = w.calls[k]
    /\ Finished(e) = Finished(w)

\* A step into a node that has not been entered changes just that.
LEMMA EnteredFacts ==
    ASSUME NEW graph, NEW roots, NEW w \in Walks(graph), WalkInvariant(w, roots, graph),
           NEW e \in Walks(graph), NEW m \in DOMAIN graph, w.index[m] = 0,
           Entered(w, e, m)
    PROVE  EnteredInto(w, e, m, graph)
<1>t. /\ w.next \in Nat /\ w.index \in [DOMAIN graph -> Nat] /\ w.low \in [DOMAIN graph -> Nat]
      /\ w.looked \in [DOMAIN graph -> Nat]
      /\ w.stack \in Seq(DOMAIN graph) /\ w.calls \in Seq(DOMAIN graph)
      /\ \A x \in DOMAIN graph : w.index[x] \in Nat /\ w.low[x] \in Nat /\ w.looked[x] \in Nat
  BY WalkTypes
<1>2. /\ e.index[m] = w.next + 1
      /\ \A x \in DOMAIN graph : x # m => e.index[x] = w.index[x]
      /\ e.low[m] = w.next + 1
      /\ \A x \in DOMAIN graph : x # m => e.low[x] = w.low[x]
  BY <1>t DEF Entered
<1>3. \A x \in DOMAIN graph : w.index[x] <= w.next
  BY DEF WalkInvariant, Numbered
<1>4. m \notin ToSet(w.stack) /\ m \notin ToSet(w.calls) /\ m \notin Finished(w) /\ w.looked[m] = 0
  BY DEF WalkInvariant, Placed, Numbered
<1>5. ToSet(e.stack) = ToSet(w.stack) \cup {m} /\ ToSet(e.calls) = ToSet(w.calls) \cup {m}
  BY <1>t, AppendedElements DEF Entered
<1>6. /\ Len(e.calls) = Len(w.calls) + 1
      /\ \A k \in 1 .. Len(w.calls) : e.calls[k] = w.calls[k]
      /\ e.calls[Len(w.calls) + 1] = m
  BY <1>t, AppendedElements DEF Entered
<1>7. Finished(e) = Finished(w)
  BY DEF Finished, Entered
<1>8. e.looked = w.looked /\ e.next = w.next + 1 /\ e.result = w.result /\ e.passed = w.passed
  BY DEF Entered
<1> QED BY <1>t, <1>2, <1>3, <1>4, <1>5, <1>6, <1>7, <1>8 DEF EnteredInto

\* A step into a node keeps the numbering.
LEMMA EnteredNumbered ==
    ASSUME NEW graph, NEW roots, NEW w \in Walks(graph), WalkInvariant(w, roots, graph),
           NEW e \in Walks(graph), NEW m \in DOMAIN graph, w.index[m] = 0,
           Entered(w, e, m)
    PROVE  Numbered(e, graph)
<1>1. /\ e.index[m] = w.next + 1 /\ e.looked = w.looked /\ e.next = w.next + 1
      /\ \A x \in DOMAIN graph : x # m => e.index[x] = w.index[x]
      /\ \A x \in DOMAIN graph : w.index[x] \in Nat /\ w.index[x] <= w.next
      /\ w.looked[m] = 0
  <2>1. EnteredInto(w, e, m, graph)
    BY EnteredFacts
  <2> QED BY <2>1 DEF EnteredInto
<1>2. w.next \in Nat
  BY WalkTypes
<1>3. \A x \in DOMAIN graph : /\ w.looked[x] <= Len(graph[x])
                              /\ w.index[x] = 0 => w.looked[x] = 0
  BY DEF WalkInvariant, Numbered
<1>4. \A x, y \in DOMAIN graph : w.index[x] = w.index[y] /\ w.index[x] # 0 => x = y
  BY DEF WalkInvariant, Numbered
<1>5. \A x \in DOMAIN graph : e.index[x] <= e.next
  BY <1>1, <1>2
<1>6. \A x \in DOMAIN graph : /\ e.looked[x] <= Len(graph[x])
                              /\ e.index[x] = 0 => e.looked[x] = 0
  BY <1>1, <1>2, <1>3
<1>7. ASSUME NEW x \in DOMAIN graph, NEW y \in DOMAIN graph, e.index[x] = e.index[y], e.index[x] # 0
      PROVE  x = y
  <2>1. CASE x # m /\ y # m
    BY <1>1, <1>4, <1>7, <2>1
  <2>2. CASE x = m /\ y # m
    BY <1>1, <1>2, <1>7, <2>2
  <2>3. CASE x # m /\ y = m
    BY <1>1, <1>2, <1>7, <2>3
  <2> QED BY <2>1, <2>2, <2>3
<1> QED BY <1>5, <1>6, <1>7 DEF Numbered

\* A step into a node keeps the order of the stack and of the calls.
LEMMA EnteredPlaced ==
    ASSUME NEW graph, NEW roots, NEW w \in Walks(graph), WalkInvariant(w, roots, graph),
           NEW e \in Walks(graph), NEW m \in DOMAIN graph, w.index[m] = 0,
           Entered(w, e, m)
    PROVE  Placed(e, graph)
<1>1. /\ e.index[m] = w.next + 1
      /\ \A x \in DOMAIN graph : x # m => e.index[x] = w.index[x]
      /\ \A x \in DOMAIN graph : w.index[x] \in Nat /\ w.index[x] <= w.next
  <2>1. EnteredInto(w, e, m, graph)
    BY EnteredFacts
  <2> QED BY <2>1 DEF EnteredInto
<1>0. /\ m \notin ToSet(w.stack) /\ m \notin ToSet(w.calls) /\ m \notin Finished(w)
      /\ ToSet(e.stack) = ToSet(w.stack) \cup {m} /\ ToSet(e.calls) = ToSet(w.calls) \cup {m}
      /\ Finished(e) = Finished(w)
  <2>1. EnteredInto(w, e, m, graph)
    BY EnteredFacts
  <2> QED BY <2>1 DEF EnteredInto
<1>2. /\ w.next \in Nat /\ w.stack \in Seq(DOMAIN graph) /\ w.calls \in Seq(DOMAIN graph)
      /\ w.index \in [DOMAIN graph -> Nat] /\ e.index \in [DOMAIN graph -> Nat]
      /\ \A k \in 1 .. Len(w.calls) : w.calls[k] \in DOMAIN graph /\ w.calls[k] \in ToSet(w.calls)
      /\ \A k \in 1 .. Len(w.stack) : w.stack[k] \in DOMAIN graph /\ w.stack[k] \in ToSet(w.stack)
  BY WalkTypes
<1>3. /\ Ordered(w.index, w.stack)
      /\ Ordered(w.index, w.calls)
      /\ ToSet(w.calls) \subseteq ToSet(w.stack)
      /\ \A x \in DOMAIN graph : w.index[x] # 0 <=> x \in ToSet(w.stack) \cup Finished(w)
      /\ ToSet(w.stack) \cap Finished(w) = {}
  BY DEF WalkInvariant, Placed
<1>4. Ordered(e.index, Append(w.stack, m))
  <2>1. \A x \in ToSet(w.stack) : x \in DOMAIN graph => e.index[x] = w.index[x] /\ w.index[x] < e.index[m]
    BY <1>0, <1>1, <1>2
  <2>2. \A i \in 1 .. Len(w.stack) : e.index[w.stack[i]] = w.index[w.stack[i]] /\ w.index[w.stack[i]] < e.index[m]
    BY <1>2, <2>1
  <2> QED BY <1>2, <1>3, <2>2, OrderedAppend
<1>5. Ordered(e.index, Append(w.calls, m))
  <2>1. \A x \in ToSet(w.calls) : x \in DOMAIN graph => e.index[x] = w.index[x] /\ w.index[x] < e.index[m]
    BY <1>0, <1>1, <1>2
  <2>2. \A i \in 1 .. Len(w.calls) : e.index[w.calls[i]] = w.index[w.calls[i]] /\ w.index[w.calls[i]] < e.index[m]
    BY <1>2, <2>1
  <2> QED BY <1>2, <1>3, <2>2, OrderedAppend
<1>6. \A x \in DOMAIN graph : e.index[x] # 0 <=> x \in ToSet(e.stack) \cup Finished(e)
  BY <1>0, <1>1, <1>2, <1>3
<1>7. e.stack = Append(w.stack, m) /\ e.calls = Append(w.calls, m)
  BY DEF Entered
<1> QED BY <1>0, <1>3, <1>4, <1>5, <1>6, <1>7 DEF Placed

\* A step into a node keeps the record of what has been followed.
LEMMA EnteredFollowed ==
    ASSUME NEW graph, IsGraph(graph), NEW roots, NEW w \in Walks(graph), WalkInvariant(w, roots, graph),
           NEW e \in Walks(graph), NEW m \in DOMAIN graph, w.index[m] = 0,
           Entered(w, e, m),
           \A k \in 1 .. Len(w.calls) : k = Len(w.calls) =>
               /\ w.looked[w.calls[k]] < Len(graph[w.calls[k]])
               /\ graph[w.calls[k]][w.looked[w.calls[k]] + 1] = m
    PROVE  Followed(e, graph)
<1>1. /\ e.index[m] = w.next + 1 /\ e.looked = w.looked
      /\ \A x \in DOMAIN graph : x # m => e.index[x] = w.index[x]
      /\ \A x \in DOMAIN graph : w.looked[x] \in Nat
      /\ ToSet(e.calls) = ToSet(w.calls) \cup {m}
      /\ Len(e.calls) = Len(w.calls) + 1 /\ e.calls[Len(w.calls) + 1] = m
      /\ \A k \in 1 .. Len(w.calls) : e.calls[k] = w.calls[k]
  <2>1. EnteredInto(w, e, m, graph)
    BY EnteredFacts
  <2> QED BY <2>1 DEF EnteredInto
<1>2. w.next \in Nat /\ Len(w.calls) \in Nat
  BY WalkTypes
<1>3. /\ \A x \in DOMAIN graph : w.index[x] # 0 /\ x \notin ToSet(w.calls) => w.looked[x] = Len(graph[x])
      /\ \A x \in DOMAIN graph : \A i \in 1 .. w.looked[x] : w.index[graph[x][i]] # 0
      /\ \A k \in 1 .. Len(w.calls) - 1 :
           /\ w.looked[w.calls[k]] < Len(graph[w.calls[k]])
           /\ graph[w.calls[k]][w.looked[w.calls[k]] + 1] = w.calls[k + 1]
  BY DEF WalkInvariant, Followed
<1>4. \A x \in DOMAIN graph : w.looked[x] <= Len(graph[x])
  BY DEF WalkInvariant, Numbered
<1>5. \A x \in DOMAIN graph : e.index[x] # 0 /\ x \notin ToSet(e.calls) => e.looked[x] = Len(graph[x])
  BY <1>1, <1>3
<1>6. ASSUME NEW x \in DOMAIN graph, NEW i \in 1 .. e.looked[x] PROVE e.index[graph[x][i]] # 0
  <2>1. i \in 1 .. w.looked[x] /\ w.looked[x] \in Nat
    BY <1>1
  <2>2. Len(graph[x]) \in Nat /\ graph[x] \in Seq(DOMAIN graph)
    BY DEF IsGraph
  <2>3. i \in 1 .. Len(graph[x])
    BY <1>4, <2>1, <2>2
  <2>4. graph[x][i] \in DOMAIN graph /\ w.index[graph[x][i]] # 0
    BY <1>3, <2>1, <2>2, <2>3
  <2> QED BY <1>1, <2>4
<1>7. ASSUME NEW k \in 1 .. Len(e.calls) - 1
      PROVE  /\ e.looked[e.calls[k]] < Len(graph[e.calls[k]])
             /\ graph[e.calls[k]][e.looked[e.calls[k]] + 1] = e.calls[k + 1]
  <2>1. k \in 1 .. Len(w.calls) /\ e.calls[k] = w.calls[k]
    BY <1>1, <1>2
  <2>2. CASE k = Len(w.calls)
    <3>1. e.calls[k + 1] = m
      BY <1>1, <2>2
    <3>2. /\ w.looked[w.calls[k]] < Len(graph[w.calls[k]])
          /\ graph[w.calls[k]][w.looked[w.calls[k]] + 1] = m
      BY <2>1, <2>2
    <3> QED BY <1>1, <2>1, <3>1, <3>2
  <2>3. CASE k # Len(w.calls)
    <3>1. k \in 1 .. Len(w.calls) - 1 /\ k + 1 \in 1 .. Len(w.calls)
      BY <1>2, <2>1, <2>3
    <3>2. e.calls[k + 1] = w.calls[k + 1]
      BY <1>1, <3>1
    <3> QED BY <1>1, <1>3, <2>1, <3>1, <3>2
  <2> QED BY <2>2, <2>3
<1> QED BY <1>5, <1>6, <1>7 DEF Followed

\* The innermost call is at its dependency m.
CallsTo(w, graph, m) ==
    \A k \in 1 .. Len(w.calls) : k = Len(w.calls) =>
        /\ w.looked[w.calls[k]] < Len(graph[w.calls[k]])
        /\ graph[w.calls[k]][w.looked[w.calls[k]] + 1] = m

\* Every call reaches the node that the innermost is about to visit.
LEMMA CallerReaches ==
    ASSUME NEW graph, IsGraph(graph), NEW roots, NEW w \in Walks(graph), WalkInvariant(w, roots, graph),
           NEW m \in DOMAIN graph, CallsTo(w, graph, m), NEW c \in ToSet(w.calls)
    PROVE  Path(graph, c, m)
<1>1. PICK k \in 1 .. Len(w.calls) : c = w.calls[k]
  <2>1. w.calls \in Seq(DOMAIN graph)
    BY WalkTypes
  <2> QED BY <2>1, SetOfSequence
<1> DEFINE depth == Len(w.calls)
           last == w.calls[depth]
<1>2. depth \in Nat /\ k \in 1 .. depth /\ depth \in 1 .. depth
  BY <1>1, WalkTypes
<1>3. /\ last \in DOMAIN graph /\ last \in ToSet(w.calls)
      /\ c \in DOMAIN graph /\ w.index[c] \in Nat /\ w.index[last] \in Nat
  BY <1>1, <1>2, WalkTypes
<1>4. m \in ToSet(graph[last])
  <2>1. w.looked[last] + 1 \in 1 .. Len(graph[last]) /\ graph[last][w.looked[last] + 1] = m
    <3>1. w.looked[last] \in Nat /\ Len(graph[last]) \in Nat
      BY <1>3, WalkTypes DEF IsGraph
    <3>2. w.looked[last] < Len(graph[last]) /\ graph[last][w.looked[last] + 1] = m
      BY <1>2 DEF CallsTo
    <3> QED BY <3>1, <3>2
  <2> HIDE DEF last
  <2> QED BY <1>3, <2>1, Successors
<1>5. w.index[c] <= w.index[last]
  <2>1. CASE k = depth
    BY <1>1, <1>3, <2>1
  <2>2. CASE k # depth
    <3>1. k < depth /\ k \in 1 .. depth /\ depth \in 1 .. depth
      BY <1>2, <2>2
    <3>2. Ordered(w.index, w.calls)
      BY DEF WalkInvariant, Placed
    <3>3. w.index[w.calls[k]] < w.index[w.calls[depth]]
      BY <3>1, <3>2 DEF Ordered
    <3> QED BY <1>1, <1>3, <3>3
  <2> QED BY <2>1, <2>2
<1>6. last \in ToSet(w.stack)
  BY <1>3 DEF WalkInvariant, Placed
<1> HIDE DEF last
<1>7. Path(graph, c, last)
  BY <1>5, <1>6 DEF WalkInvariant, Connected
<1> QED BY <1>3, <1>4, <1>7, PathEdge, PathTransitive

\* A step into a node keeps the calls connected with the stack.
LEMMA EnteredConnected ==
    ASSUME NEW graph, IsGraph(graph), NEW roots, NEW w \in Walks(graph), WalkInvariant(w, roots, graph),
           NEW e \in Walks(graph), NEW m \in DOMAIN graph, w.index[m] = 0,
           Entered(w, e, m), CallsTo(w, graph, m)
    PROVE  Connected(e, graph)
<1>1. EnteredInto(w, e, m, graph)
  BY EnteredFacts
<1>2. w.next \in Nat /\ ToSet(w.stack) \subseteq DOMAIN graph /\ ToSet(w.calls) \subseteq DOMAIN graph
  BY WalkTypes
<1>3. ToSet(e.stack) = ToSet(w.stack) \cup {m} /\ ToSet(e.calls) = ToSet(w.calls) \cup {m}
  BY <1>1 DEF EnteredInto
<1>4. m \notin ToSet(w.stack) /\ m \notin ToSet(w.calls)
  BY <1>1 DEF EnteredInto
<1>5. \A x \in ToSet(w.stack) \cup ToSet(w.calls) : e.index[x] = w.index[x] /\ e.index[x] < e.index[m]
  <2>1. \A x \in DOMAIN graph : x # m => e.index[x] = w.index[x]
    BY <1>1 DEF EnteredInto
  <2>2. \A x \in DOMAIN graph : w.index[x] \in Nat /\ w.index[x] <= w.next
    BY <1>1 DEF EnteredInto
  <2>3. e.index[m] = w.next + 1
    BY <1>1 DEF EnteredInto
  <2> QED BY <1>2, <1>4, <2>1, <2>2, <2>3
<1>6. \A x \in ToSet(w.stack) : e.index[x] \in Nat /\ e.index[m] \in Nat
  BY <1>2, WalkTypes
<1>7. Path(graph, m, m)
  BY PathReflexive
<1>8. ASSUME NEW c \in ToSet(e.calls), NEW s \in ToSet(e.stack), e.index[c] <= e.index[s]
      PROVE  Path(graph, c, s)
  <2>1. CASE c \in ToSet(w.calls) /\ s \in ToSet(w.stack)
    <3>1. w.index[c] <= w.index[s]
      BY <1>5, <1>8, <2>1
    <3> QED BY <2>1, <3>1 DEF WalkInvariant, Connected
  <2>2. CASE c \in ToSet(w.calls) /\ s = m
    BY <2>2, CallerReaches
  <2>3. CASE c = m /\ s \in ToSet(w.stack)
    <3>1. e.index[s] < e.index[m] /\ e.index[m] <= e.index[s]
      BY <1>5, <1>8, <2>3
    <3> QED BY <1>6, <2>3, <3>1
  <2>4. CASE c = m /\ s = m
    BY <1>7, <2>4
  <2> QED BY <1>3, <2>1, <2>2, <2>3, <2>4
<1>9. ASSUME NEW s \in ToSet(e.stack)
      PROVE  \E c \in ToSet(e.calls) : e.index[c] <= e.index[s] /\ Path(graph, s, c)
  <2>1. CASE s = m
    <3>1. e.index[m] \in Nat
      BY WalkTypes
    <3>2. m \in ToSet(e.calls) /\ e.index[m] <= e.index[s] /\ Path(graph, s, m)
      BY <1>3, <1>7, <2>1, <3>1
    <3> QED BY <3>2
  <2>2. CASE s \in ToSet(w.stack)
    <3>1. PICK c \in ToSet(w.calls) : w.index[c] <= w.index[s] /\ Path(graph, s, c)
      BY <2>2 DEF WalkInvariant, Connected
    <3>2. c \in ToSet(e.calls) /\ e.index[c] <= e.index[s]
      BY <1>3, <1>5, <2>2, <3>1
    <3> QED BY <3>1, <3>2
  <2> QED BY <1>3, <2>1, <2>2
<1> QED BY <1>8, <1>9 DEF Connected

\* A step into a node keeps the low indices those of nodes that are reached.
LEMMA EnteredLowsReached ==
    ASSUME NEW graph, IsGraph(graph), NEW roots, NEW w \in Walks(graph), WalkInvariant(w, roots, graph),
           NEW e \in Walks(graph), NEW m \in DOMAIN graph, w.index[m] = 0,
           Entered(w, e, m)
    PROVE  LowsReached(e, graph)
<1>1. EnteredInto(w, e, m, graph)
  BY EnteredFacts
<1>2. ToSet(w.stack) \subseteq DOMAIN graph /\ ToSet(w.calls) \subseteq DOMAIN graph
  BY WalkTypes
<1>3. ToSet(e.stack) = ToSet(w.stack) \cup {m} /\ ToSet(e.calls) = ToSet(w.calls) \cup {m}
  BY <1>1 DEF EnteredInto
<1>4. m \notin ToSet(w.stack) /\ m \notin ToSet(w.calls)
  BY <1>1 DEF EnteredInto
<1>5. \A x \in DOMAIN graph : x # m => e.index[x] = w.index[x] /\ e.low[x] = w.low[x]
  BY <1>1 DEF EnteredInto
<1>6. SUFFICES ASSUME NEW c \in ToSet(e.calls)
               PROVE  \E t \in ToSet(e.stack) : /\ e.index[t] = e.low[c] /\ e.index[t] <= e.index[c]
                                                /\ Path(graph, c, t)
  BY DEF LowsReached
<1>7. CASE c = m
  <2>1. e.index[m] = e.low[m] /\ e.index[m] \in Nat
    BY <1>1, WalkTypes DEF EnteredInto
  <2>2. Path(graph, m, m)
    BY PathReflexive
  <2> QED BY <1>3, <1>7, <2>1, <2>2
<1>8. CASE c \in ToSet(w.calls)
  <2>1. PICK t \in ToSet(w.stack) : w.index[t] = w.low[c] /\ w.index[t] <= w.index[c] /\ Path(graph, c, t)
    BY <1>8 DEF WalkInvariant, LowsReached
  <2>2. t \in ToSet(e.stack) /\ e.index[t] = w.index[t] /\ e.index[c] = w.index[c] /\ e.low[c] = w.low[c]
    BY <1>2, <1>3, <1>4, <1>5, <1>8, <2>1
  <2> QED BY <2>1, <2>2
<1> QED BY <1>3, <1>7, <1>8

\* A step into a node keeps the low indices as small as they have to be.
LEMMA EnteredLowsBound ==
    ASSUME NEW graph, IsGraph(graph), NEW roots, NEW w \in Walks(graph), WalkInvariant(w, roots, graph),
           NEW e \in Walks(graph), NEW m \in DOMAIN graph, w.index[m] = 0,
           Entered(w, e, m)
    PROVE  LowsBound(e, graph)
<1>1. EnteredInto(w, e, m, graph)
  BY EnteredFacts
<1>2. ToSet(w.stack) \subseteq DOMAIN graph /\ ToSet(w.calls) \subseteq DOMAIN graph
  BY WalkTypes
<1>3. ToSet(e.stack) = ToSet(w.stack) \cup {m} /\ ToSet(e.calls) = ToSet(w.calls) \cup {m}
  BY <1>1 DEF EnteredInto
<1>4. m \notin ToSet(w.stack) /\ m \notin ToSet(w.calls)
  BY <1>1 DEF EnteredInto
<1>5. \A x \in DOMAIN graph : x # m => e.index[x] = w.index[x] /\ e.low[x] = w.low[x]
  BY <1>1 DEF EnteredInto
<1>6. e.looked = w.looked /\ w.looked[m] = 0 /\ e.index[m] = w.next + 1
  BY <1>1 DEF EnteredInto
<1>7. SUFFICES ASSUME NEW c \in ToSet(e.calls), NEW s \in ToSet(e.stack), During(e, c, s),
                      NEW i \in 1 .. e.looked[s], graph[s][i] \in ToSet(e.stack)
               PROVE  e.low[c] <= e.index[graph[s][i]]
  BY DEF LowsBound
<1>8. s # m
  BY <1>6
<1>9. s \in ToSet(w.stack) /\ s \in DOMAIN graph /\ e.index[s] = w.index[s]
  BY <1>2, <1>3, <1>5, <1>8
<1>10. c # m
  <2>1. e.index[c] <= w.index[s]
    BY <1>7, <1>9 DEF During
  <2>2. w.index[s] \in Nat /\ w.index[s] <= w.next /\ w.next \in Nat
    BY <1>1, <1>9, WalkTypes DEF EnteredInto
  <2> QED BY <1>6, <2>1, <2>2
<1>11. c \in ToSet(w.calls) /\ e.index[c] = w.index[c] /\ e.low[c] = w.low[c]
  BY <1>2, <1>3, <1>5, <1>10
<1>12. During(w, c, s)
  <2>1. w.index[c] <= w.index[s]
    BY <1>7, <1>9, <1>11 DEF During
  <2>2. ASSUME NEW d \in ToSet(w.calls), w.index[c] < w.index[d] PROVE w.index[s] < w.index[d]
    <3>1. d \in ToSet(e.calls) /\ e.index[d] = w.index[d]
      BY <1>2, <1>3, <1>4, <1>5
    <3> QED BY <1>7, <1>9, <1>11, <2>2, <3>1 DEF During
  <2> QED BY <2>1, <2>2 DEF During
<1>13. i \in 1 .. w.looked[s]
  BY <1>6
<1>14. graph[s][i] # m
  <2>1. w.index[graph[s][i]] # 0
    BY <1>9, <1>13 DEF WalkInvariant, Followed
  <2> QED BY <2>1
<1>15. graph[s][i] \in ToSet(w.stack) /\ e.index[graph[s][i]] = w.index[graph[s][i]]
  BY <1>2, <1>3, <1>5, <1>7, <1>14
<1>16. w.low[c] <= w.index[graph[s][i]]
  BY <1>9, <1>11, <1>12, <1>13, <1>15 DEF WalkInvariant, LowsBound
<1> QED BY <1>11, <1>15, <1>16

\* A step into a node that a root reaches enters nothing else.
LEMMA EnteredRooted ==
    ASSUME NEW graph, IsGraph(graph), NEW roots \in Seq(DOMAIN graph),
           NEW w \in Walks(graph), WalkInvariant(w, roots, graph),
           NEW e \in Walks(graph), NEW m \in DOMAIN graph, w.index[m] = 0,
           Entered(w, e, m), CallsTo(w, graph, m), w.calls = << >> => m \in ToSet(roots)
    PROVE  Rooted(e, roots, graph)
<1>1. EnteredInto(w, e, m, graph)
  BY EnteredFacts
<1>2. e.passed = w.passed /\ e.index[m] = w.next + 1 /\ w.next \in Nat
  BY <1>1, WalkTypes DEF EnteredInto
<1>3. \A x \in DOMAIN graph : x # m => e.index[x] = w.index[x]
  BY <1>1 DEF EnteredInto
<1>4. ASSUME NEW i \in 1 .. e.passed PROVE e.index[roots[i]] # 0
  <2>1. w.passed <= Len(roots) /\ w.passed \in Nat
    BY WalkTypes DEF WalkInvariant, Rooted
  <2>2. w.index[roots[i]] # 0 /\ roots[i] \in DOMAIN graph
    BY <1>2, <2>1 DEF WalkInvariant, Rooted
  <2> QED BY <1>3, <2>2
<1>5. ASSUME NEW x \in DOMAIN graph, e.index[x] # 0 PROVE \E r \in ToSet(roots) : Path(graph, r, x)
  <2>1. CASE x # m
    BY <1>3, <1>5, <2>1 DEF WalkInvariant, Rooted
  <2>2. CASE x = m /\ w.calls = << >>
    <3>1. m \in ToSet(roots) /\ Path(graph, m, m)
      BY <2>2, PathReflexive
    <3> QED BY <2>2, <3>1
  <2>3. CASE x = m /\ w.calls # << >>
    <3>1. \E c : c \in ToSet(w.calls)
      <4>1. w.calls \in Seq(DOMAIN graph)
        BY WalkTypes
      <4>2. 1 \in 1 .. Len(w.calls)
        BY <2>3, <4>1
      <4> QED BY <4>2, WalkTypes
    <3>2. PICK c : c \in ToSet(w.calls)
      BY <3>1
    <3>3. c \in DOMAIN graph /\ w.index[c] # 0
      BY <3>2, WalkTypes DEF WalkInvariant, Placed
    <3>4. PICK r \in ToSet(roots) : Path(graph, r, c)
      BY <3>3 DEF WalkInvariant, Rooted
    <3>5. Path(graph, c, m)
      BY <3>2, CallerReaches
    <3>6. Path(graph, r, m)
      BY <3>4, <3>5, PathTransitive
    <3> QED BY <2>3, <3>6
  <2> QED BY <2>1, <2>2, <2>3
<1>6. e.passed <= Len(roots)
  BY <1>2 DEF WalkInvariant, Rooted
<1> QED BY <1>4, <1>5, <1>6 DEF Rooted

\* A step into a node keeps the invariant.
LEMMA EnterKeeps ==
    ASSUME NEW graph, IsGraph(graph), NEW roots \in Seq(DOMAIN graph),
           NEW w \in Walks(graph), WalkInvariant(w, roots, graph),
           NEW m \in DOMAIN graph, w.index[m] = 0,
           CallsTo(w, graph, m), w.calls = << >> => m \in ToSet(roots)
    PROVE  WalkInvariant(Enter(w, m), roots, graph)
<1> DEFINE e == Enter(w, m)
<1>1. e \in Walks(graph) /\ Entered(w, e, m)
  BY EnterFields
<1> HIDE DEF e
<1>2. e \in Walks(graph)
  BY <1>1
<1>3. Numbered(e, graph)
  BY <1>1, EnteredNumbered
<1>4. Placed(e, graph)
  BY <1>1, EnteredPlaced
<1>5. Followed(e, graph)
  <2>1. \A k \in 1 .. Len(w.calls) : k = Len(w.calls) =>
            /\ w.looked[w.calls[k]] < Len(graph[w.calls[k]])
            /\ graph[w.calls[k]][w.looked[w.calls[k]] + 1] = m
    BY DEF CallsTo
  <2> QED BY <1>1, <2>1, EnteredFollowed
<1>6. Connected(e, graph)
  BY <1>1, EnteredConnected
<1>7. LowsReached(e, graph)
  BY <1>1, EnteredLowsReached
<1>8. LowsBound(e, graph)
  BY <1>1, EnteredLowsBound
<1>9. Grouped(e, graph)
  <2>1. e.result = w.result /\ Grouped(w, graph)
    BY <1>1 DEF WalkInvariant, Entered
  <2> QED BY <2>1 DEF Grouped
<1>10. Rooted(e, roots, graph)
  BY <1>1, EnteredRooted
<1> QED BY <1>2, <1>3, <1>4, <1>5, <1>6, <1>7, <1>8, <1>9, <1>10 DEF WalkInvariant, e

-----------------------------------------------------------------------------
(* Looking at a dependency that has been visited                           *)

\* m is the node of the innermost of the calls, depth in all.
Innermost(w, m, depth) ==
    /\ depth \in Nat /\ depth = Len(w.calls) /\ depth # 0
    /\ m = w.calls[depth]

\* n is the next dependency of m to look at, after i others.
NextOf(w, graph, m, n, i) ==
    /\ i \in Nat /\ i = w.looked[m] /\ i < Len(graph[m])
    /\ n = graph[m][i + 1]

\* The node of the innermost call is entered last among those of the calls.
LEMMA LastCall ==
    ASSUME NEW graph, NEW roots, NEW w \in Walks(graph), WalkInvariant(w, roots, graph),
           NEW m, NEW depth, Innermost(w, m, depth)
    PROVE  /\ m \in DOMAIN graph /\ m \in ToSet(w.calls) /\ m \in ToSet(w.stack)
           /\ \A c \in ToSet(w.calls) : c = m \/ w.index[c] < w.index[m]
           /\ \A k \in 1 .. depth - 1 : w.calls[k] # m
<1>0. depth \in Nat /\ depth = Len(w.calls) /\ depth # 0 /\ m = w.calls[depth]
  BY DEF Innermost
<1>1. depth \in 1 .. Len(w.calls)
  BY <1>0
<1>2. m \in DOMAIN graph /\ m \in ToSet(w.calls)
  BY <1>0, <1>1, WalkTypes
<1>3. m \in ToSet(w.stack)
  BY <1>2 DEF WalkInvariant, Placed
<1>4. Ordered(w.index, w.calls)
  BY DEF WalkInvariant, Placed
<1>5. \A k \in 1 .. depth - 1 : w.index[w.calls[k]] < w.index[m]
  BY <1>0, <1>1, <1>4 DEF Ordered
<1>6. \A c \in ToSet(w.calls) : \E k \in 1 .. depth : c = w.calls[k]
  <2>1. w.calls \in Seq(DOMAIN graph)
    BY WalkTypes
  <2> QED BY <1>0, <2>1, SetOfSequence
<1>7. \A c \in ToSet(w.calls) : c = m \/ w.index[c] < w.index[m]
  BY <1>0, <1>5, <1>6
<1>8. w.index[m] \in Nat
  BY <1>2, WalkTypes
<1>9. \A k \in 1 .. depth - 1 : w.calls[k] # m
  BY <1>5, <1>8
<1> QED BY <1>2, <1>3, <1>7, <1>9

\* What a look at a dependency n of m that has been visited changes, node by node
PassedInto(w, e, graph, m, n) ==
    /\ e.next = w.next /\ e.index = w.index /\ e.stack = w.stack /\ e.calls = w.calls
    /\ e.result = w.result /\ e.passed = w.passed
    /\ e.looked[m] = w.looked[m] + 1
    /\ \A x \in DOMAIN graph : x # m => e.looked[x] = w.looked[x] /\ e.low[x] = w.low[x]
    /\ e.low[m] <= w.low[m]
    /\ n \in ToSet(w.stack) => e.low[m] <= w.index[n]
    /\ e.low[m] = w.low[m] \/ (n \in ToSet(w.stack) /\ e.low[m] = w.index[n])

\* A look at a dependency that has been visited changes just that.
LEMMA PassedFacts ==
    ASSUME NEW graph, NEW w \in Walks(graph), NEW m \in DOMAIN graph, NEW n \in DOMAIN graph,
           NEW e \in Walks(graph), Passed(w, e, graph, m, n)
    PROVE  PassedInto(w, e, graph, m, n)
<1>1. /\ w.low \in [DOMAIN graph -> Nat] /\ w.looked \in [DOMAIN graph -> Nat]
      /\ w.low[m] \in Nat /\ w.index[n] \in Nat
  BY WalkTypes
<1>2. /\ e.looked[m] = w.looked[m] + 1
      /\ \A x \in DOMAIN graph : x # m => e.looked[x] = w.looked[x]
  BY <1>1 DEF Passed
<1>3. /\ \A x \in DOMAIN graph : x # m => e.low[x] = w.low[x]
      /\ e.low[m] = IF n \in ToSet(w.stack) THEN Smaller(w.index[n], w.low[m]) ELSE w.low[m]
  BY <1>1 DEF Passed
<1>4. /\ e.low[m] <= w.low[m]
      /\ n \in ToSet(w.stack) => e.low[m] <= w.index[n]
      /\ e.low[m] = w.low[m] \/ (n \in ToSet(w.stack) /\ e.low[m] = w.index[n])
  BY <1>1, <1>3 DEF Smaller
<1>5. /\ e.next = w.next /\ e.index = w.index /\ e.stack = w.stack /\ e.calls = w.calls
      /\ e.result = w.result /\ e.passed = w.passed
  BY DEF Passed
<1> QED BY <1>2, <1>3, <1>4, <1>5 DEF PassedInto

\* A look at a dependency that has been visited keeps the invariant.
LEMMA BackKeeps ==
    ASSUME NEW graph, IsGraph(graph), NEW roots \in Seq(DOMAIN graph),
           NEW w \in Walks(graph), WalkInvariant(w, roots, graph),
           NEW m, NEW depth, Innermost(w, m, depth),
           NEW n, NEW i, NextOf(w, graph, m, n, i), w.index[n] # 0
    PROVE  WalkInvariant(Look(Back(w, m, n), m), roots, graph)
<1> DEFINE e == Look(Back(w, m, n), m)
<1>m. /\ m \in DOMAIN graph /\ m \in ToSet(w.calls) /\ m \in ToSet(w.stack)
      /\ \A c \in ToSet(w.calls) : c = m \/ w.index[c] < w.index[m]
      /\ \A k \in 1 .. depth - 1 : w.calls[k] # m
  BY LastCall
<1>0. depth \in Nat /\ depth = Len(w.calls) /\ i \in Nat
  BY DEF Innermost, NextOf
<1>i. i = w.looked[m] /\ i < Len(graph[m])
  BY DEF NextOf
<1>n. n \in DOMAIN graph /\ n \in ToSet(graph[m])
  <2>1. i + 1 \in 1 .. Len(graph[m])
    <3>1. Len(graph[m]) \in Nat
      BY <1>m DEF IsGraph
    <3> QED BY <1>0, <1>i, <3>1
  <2>2. n = graph[m][i + 1]
    BY DEF NextOf
  <2> QED BY <1>m, <2>1, <2>2, Successors
<1>1. e \in Walks(graph) /\ Passed(w, e, graph, m, n)
  <2>1. m \in DOMAIN graph /\ n \in DOMAIN graph
    BY <1>m, <1>n
  <2> QED BY <2>1, BackFields
<1> HIDE DEF e
<1>2. PassedInto(w, e, graph, m, n)
  BY <1>1, <1>m, <1>n, PassedFacts
<1>same. /\ e.next = w.next /\ e.index = w.index /\ e.stack = w.stack /\ e.calls = w.calls
         /\ e.result = w.result /\ e.passed = w.passed
  BY <1>2 DEF PassedInto
<1>looked. /\ e.looked[m] = i + 1
           /\ \A x \in DOMAIN graph : x # m => e.looked[x] = w.looked[x]
  BY <1>2, <1>i DEF PassedInto
<1>low. /\ \A x \in DOMAIN graph : x # m => e.low[x] = w.low[x]
        /\ e.low[m] <= w.low[m]
        /\ n \in ToSet(w.stack) => e.low[m] <= w.index[n]
        /\ e.low[m] = w.low[m] \/ (n \in ToSet(w.stack) /\ e.low[m] = w.index[n])
  BY <1>2 DEF PassedInto
<1>nat. /\ \A x \in DOMAIN graph : /\ w.index[x] \in Nat /\ w.low[x] \in Nat /\ w.looked[x] \in Nat
                                  /\ e.low[x] \in Nat /\ e.looked[x] \in Nat
        /\ ToSet(w.stack) \subseteq DOMAIN graph /\ ToSet(w.calls) \subseteq DOMAIN graph
        /\ \A k \in 1 .. Len(w.calls) : w.calls[k] \in DOMAIN graph
  BY <1>1, WalkTypes
<1>len. Len(graph[m]) \in Nat /\ i + 1 <= Len(graph[m])
  BY <1>m, <1>0, <1>i DEF IsGraph
<1>3. Numbered(e, graph)
  <2>1. \A x \in DOMAIN graph : /\ w.index[x] <= w.next
                                /\ w.looked[x] <= Len(graph[x])
                                /\ w.index[x] = 0 => w.looked[x] = 0
    BY DEF WalkInvariant, Numbered
  <2>2. \A x, y \in DOMAIN graph : w.index[x] = w.index[y] /\ w.index[x] # 0 => x = y
    BY DEF WalkInvariant, Numbered
  <2>3. w.index[m] # 0
    BY <1>m DEF WalkInvariant, Placed
  <2>4. \A x \in DOMAIN graph : /\ e.index[x] <= e.next
                                /\ e.looked[x] <= Len(graph[x])
                                /\ e.index[x] = 0 => e.looked[x] = 0
    BY <1>same, <1>looked, <1>len, <2>1, <2>3
  <2>5. \A x, y \in DOMAIN graph : e.index[x] = e.index[y] /\ e.index[x] # 0 => x = y
    BY <1>same, <2>2
  <2> QED BY <2>4, <2>5 DEF Numbered
<1>4. Placed(e, graph)
  <2>1. Finished(e) = Finished(w)
    BY <1>same DEF Finished
  <2> QED BY <1>same, <2>1 DEF WalkInvariant, Placed
<1>5. Followed(e, graph)
  <2>1. \A x \in DOMAIN graph : e.index[x] # 0 /\ x \notin ToSet(e.calls) => e.looked[x] = Len(graph[x])
    <3>1. \A x \in DOMAIN graph : w.index[x] # 0 /\ x \notin ToSet(w.calls) => w.looked[x] = Len(graph[x])
      BY DEF WalkInvariant, Followed
    <3> QED BY <1>m, <1>same, <1>looked, <3>1
  <2>2. ASSUME NEW x \in DOMAIN graph, NEW j \in 1 .. e.looked[x] PROVE e.index[graph[x][j]] # 0
    <3>1. CASE x = m /\ j = i + 1
      BY <1>same, <3>1 DEF NextOf
    <3>2. CASE ~ (x = m /\ j = i + 1)
      <4>1. j \in 1 .. w.looked[x]
        <5>1. CASE x = m
          <6>1. j \in 1 .. i + 1 /\ j # i + 1
            BY <1>looked, <2>2, <3>2, <5>1
          <6> QED BY <1>0, <1>i, <5>1, <6>1
        <5>2. CASE x # m
          BY <1>looked, <2>2, <5>2
        <5> QED BY <5>1, <5>2
      <4> QED BY <1>same, <4>1 DEF WalkInvariant, Followed
    <3> QED BY <3>1, <3>2
  <2>3. ASSUME NEW k \in 1 .. Len(e.calls) - 1
        PROVE  /\ e.looked[e.calls[k]] < Len(graph[e.calls[k]])
               /\ graph[e.calls[k]][e.looked[e.calls[k]] + 1] = e.calls[k + 1]
    <3>1. k \in 1 .. depth - 1 /\ k \in 1 .. Len(w.calls) /\ k \in 1 .. Len(w.calls) - 1
      BY <1>0, <1>same, <2>3
    <3>2. w.calls[k] # m /\ w.calls[k] \in DOMAIN graph
      BY <1>m, <1>nat, <3>1
    <3>3. e.looked[w.calls[k]] = w.looked[w.calls[k]]
      BY <1>looked, <3>2
    <3>4. /\ w.looked[w.calls[k]] < Len(graph[w.calls[k]])
          /\ graph[w.calls[k]][w.looked[w.calls[k]] + 1] = w.calls[k + 1]
      BY <3>1 DEF WalkInvariant, Followed
    <3> QED BY <1>same, <3>3, <3>4
  <2> QED BY <2>1, <2>2, <2>3 DEF Followed
<1>6. Connected(e, graph)
  BY <1>same DEF WalkInvariant, Connected
<1>7. LowsReached(e, graph)
  <2>1. SUFFICES ASSUME NEW c \in ToSet(w.calls)
                 PROVE  \E t \in ToSet(w.stack) : /\ w.index[t] = e.low[c] /\ w.index[t] <= w.index[c]
                                                  /\ Path(graph, c, t)
    BY <1>same DEF LowsReached
  <2>2. PICK t \in ToSet(w.stack) : w.index[t] = w.low[c] /\ w.index[t] <= w.index[c] /\ Path(graph, c, t)
    BY DEF WalkInvariant, LowsReached
  <2>3. CASE e.low[c] = w.low[c]
    BY <2>2, <2>3
  <2>4. CASE e.low[c] # w.low[c]
    <3>1. c = m
      BY <1>low, <1>nat, <2>4
    <3>2. n \in ToSet(w.stack) /\ e.low[m] = w.index[n] /\ e.low[m] <= w.low[m]
      BY <1>low, <2>4, <3>1
    <3>3. w.index[n] <= w.index[m]
      <4>1. w.index[n] <= w.index[t] /\ w.index[t] <= w.index[m] /\ t \in DOMAIN graph
        BY <1>nat, <2>2, <3>1, <3>2
      <4>2. w.index[n] \in Nat /\ w.index[t] \in Nat /\ w.index[m] \in Nat
        BY <1>nat, <1>m, <1>n, <4>1
      <4> QED BY <4>1, <4>2
    <3>4. Path(graph, m, n)
      BY <1>m, <1>n, PathEdge
    <3> QED BY <3>1, <3>2, <3>3, <3>4
  <2> QED BY <2>3, <2>4
<1>8. LowsBound(e, graph)
  <2>1. SUFFICES ASSUME NEW c \in ToSet(w.calls), NEW s \in ToSet(w.stack), During(w, c, s),
                        NEW j \in 1 .. e.looked[s], graph[s][j] \in ToSet(w.stack)
                 PROVE  e.low[c] <= w.index[graph[s][j]]
    BY <1>same DEF LowsBound, During
  <2>2. e.low[c] <= w.low[c] /\ e.low[c] \in Nat /\ w.low[c] \in Nat
    <3>1. c \in DOMAIN graph
      BY <1>nat
    <3>2. e.low[c] \in Nat /\ w.low[c] \in Nat
      BY <1>nat, <3>1
    <3>3. CASE c = m
      BY <1>low, <3>2, <3>3
    <3>4. CASE c # m
      BY <1>low, <3>1, <3>2, <3>4
    <3> QED BY <3>2, <3>3, <3>4
  <2>3. CASE s = m /\ j = i + 1
    <3>1. c = m
      <4>1. SUFFICES ASSUME c # m PROVE FALSE
        OBVIOUS
      <4>2. w.index[c] < w.index[m]
        BY <1>m, <4>1
      <4>3. w.index[s] < w.index[m]
        BY <1>m, <2>1, <4>2 DEF During
      <4> QED BY <1>m, <1>nat, <2>3, <4>3
    <3>2. graph[s][j] = n
      BY <2>3 DEF NextOf
    <3> QED BY <1>low, <2>1, <3>1, <3>2
  <2>4. CASE ~ (s = m /\ j = i + 1)
    <3>1. s \in DOMAIN graph
      BY <1>nat
    <3>2. j \in 1 .. w.looked[s]
      <4>1. CASE s = m
        <5>1. j \in 1 .. i + 1 /\ j # i + 1
          BY <1>looked, <2>1, <2>4, <4>1
        <5> QED BY <1>0, <1>i, <4>1, <5>1
      <4>2. CASE s # m
        BY <1>looked, <2>1, <3>1, <4>2
      <4> QED BY <4>1, <4>2
    <3>3. w.low[c] <= w.index[graph[s][j]]
      BY <2>1, <3>2 DEF WalkInvariant, LowsBound
    <3>4. w.index[graph[s][j]] \in Nat
      BY <1>nat, <2>1
    <3> QED BY <2>2, <3>3, <3>4
  <2> QED BY <2>3, <2>4
<1>9. Grouped(e, graph)
  BY <1>same DEF WalkInvariant, Grouped
<1>10. Rooted(e, roots, graph)
  BY <1>same DEF WalkInvariant, Rooted
<1> QED BY <1>1, <1>3, <1>4, <1>5, <1>6, <1>7, <1>8, <1>9, <1>10 DEF WalkInvariant, e

-----------------------------------------------------------------------------
(* Leaving a node                                                          *)

\* c is the node of the call that the innermost returns to.
Caller(w, c, depth) == depth > 1 /\ c = w.calls[depth - 1]

\* The caller is at its dependency, which the innermost call visits.
LEMMA CallerFacts ==
    ASSUME NEW graph, IsGraph(graph), NEW roots, NEW w \in Walks(graph), WalkInvariant(w, roots, graph),
           NEW m, NEW depth, Innermost(w, m, depth), NEW c, Caller(w, c, depth)
    PROVE  /\ c \in DOMAIN graph /\ c \in ToSet(w.calls) /\ c # m
           /\ w.looked[c] + 1 \in 1 .. Len(graph[c]) /\ graph[c][w.looked[c] + 1] = m /\ m \in ToSet(graph[c])
           /\ w.index[c] < w.index[m]
           /\ \A d \in ToSet(w.calls) : d = m \/ d = c \/ w.index[d] < w.index[c]
           /\ \A k \in 1 .. depth - 2 : w.calls[k] # c
<1>0. depth \in Nat /\ depth = Len(w.calls) /\ depth # 0 /\ m = w.calls[depth] /\ depth > 1 /\ c = w.calls[depth - 1]
  BY DEF Innermost, Caller
<1>m. /\ m \in DOMAIN graph /\ m \in ToSet(w.calls) /\ m \in ToSet(w.stack)
      /\ \A d \in ToSet(w.calls) : d = m \/ w.index[d] < w.index[m]
      /\ \A k \in 1 .. depth - 1 : w.calls[k] # m
  BY LastCall
<1>1. depth - 1 \in 1 .. Len(w.calls) /\ depth - 1 \in 1 .. depth - 1 /\ depth \in 1 .. Len(w.calls)
  BY <1>0
<1>2. c \in DOMAIN graph /\ c \in ToSet(w.calls)
  BY <1>0, <1>1, WalkTypes
<1>3. c # m /\ w.index[c] < w.index[m]
  BY <1>0, <1>1, <1>2, <1>m
<1>4. Ordered(w.index, w.calls)
  BY DEF WalkInvariant, Placed
<1>5. \A k \in 1 .. depth - 2 : w.index[w.calls[k]] < w.index[c]
  <2>1. ASSUME NEW k \in 1 .. depth - 2 PROVE k \in 1 .. Len(w.calls) /\ k < depth - 1
    BY <1>0, <2>1
  <2> QED BY <1>0, <1>1, <1>4, <2>1 DEF Ordered
<1>6. \A d \in ToSet(w.calls) : \E k \in 1 .. depth : d = w.calls[k]
  <2>1. w.calls \in Seq(DOMAIN graph)
    BY WalkTypes
  <2> QED BY <1>0, <2>1, SetOfSequence
<1>7. ASSUME NEW d \in ToSet(w.calls) PROVE d = m \/ d = c \/ w.index[d] < w.index[c]
  <2>1. PICK k \in 1 .. depth : d = w.calls[k]
    BY <1>6
  <2>2. k = depth \/ k = depth - 1 \/ k \in 1 .. depth - 2
    BY <1>0
  <2> QED BY <1>0, <1>5, <2>1, <2>2
<1>8. \A k \in 1 .. depth - 2 : w.calls[k] # c
  BY <1>2, <1>5, WalkTypes
<1>9. w.looked[c] < Len(graph[c]) /\ graph[c][w.looked[c] + 1] = m
  <2>1. \A k \in 1 .. Len(w.calls) - 1 :
           /\ w.looked[w.calls[k]] < Len(graph[w.calls[k]])
           /\ graph[w.calls[k]][w.looked[w.calls[k]] + 1] = w.calls[k + 1]
    BY DEF WalkInvariant, Followed
  <2>2. depth - 1 \in 1 .. Len(w.calls) - 1 /\ (depth - 1) + 1 = depth
    BY <1>0
  <2> QED BY <1>0, <2>1, <2>2
<1>10. w.looked[c] + 1 \in 1 .. Len(graph[c])
  <2>1. w.looked[c] \in Nat /\ Len(graph[c]) \in Nat
    BY <1>2, WalkTypes DEF IsGraph
  <2> QED BY <1>9, <2>1
<1>11. m \in ToSet(graph[c])
  BY <1>2, <1>9, <1>10, Successors
<1> QED BY <1>2, <1>3, <1>7, <1>8, <1>9, <1>10, <1>11

\* e follows w when the innermost call, of m, has returned.
Left(w, e, graph, m, depth) ==
    /\ e.next = w.next /\ e.index = w.index /\ e.passed = w.passed
    /\ Len(e.calls) = depth - 1
    /\ \A k \in 1 .. depth - 1 : e.calls[k] = w.calls[k]
    /\ ToSet(e.calls) = ToSet(w.calls) \ {m}
    /\ \A x \in DOMAIN graph : ~ Caller(w, x, depth) => e.looked[x] = w.looked[x] /\ e.low[x] = w.low[x]
    /\ \A x \in DOMAIN graph : Caller(w, x, depth) => /\ e.looked[x] = w.looked[x] + 1
                                                      /\ e.low[x] = Smaller(w.low[m], w.low[x])

\* calls is what is left of the calls without the innermost, of m.
Shortened(calls, w, m, depth) ==
    /\ Len(calls) = depth - 1
    /\ \A k \in 1 .. depth - 1 : calls[k] = w.calls[k]
    /\ ToSet(calls) = ToSet(w.calls) \ {m}

\* Front leaves the other calls.
LEMMA ShortenedCalls ==
    ASSUME NEW graph, NEW roots, NEW w \in Walks(graph), WalkInvariant(w, roots, graph),
           NEW m, NEW depth, Innermost(w, m, depth)
    PROVE  Shortened(SubSeq(w.calls, 1, depth - 1), w, m, depth)
<1>0. depth \in Nat /\ depth = Len(w.calls) /\ depth # 0 /\ m = w.calls[depth]
  BY DEF Innermost
<1>1. w.calls \in Seq(DOMAIN graph)
  BY WalkTypes
<1> DEFINE calls == SubSeq(w.calls, 1, depth - 1)
<1>2. /\ Len(calls) = depth - 1
      /\ \A k \in 1 .. depth - 1 : calls[k] = w.calls[k]
      /\ \A x : x \in ToSet(calls) <=> \E k \in 1 .. depth - 1 : x = w.calls[k]
  <2> DEFINE j == depth - 1
  <2>1. j \in Nat /\ j <= Len(w.calls)
    BY <1>0
  <2> HIDE DEF j
  <2>2. /\ Len(SubSeq(w.calls, 1, j)) = j
        /\ \A k \in 1 .. j : SubSeq(w.calls, 1, j)[k] = w.calls[k]
        /\ \A x : x \in ToSet(SubSeq(w.calls, 1, j)) <=> \E k \in 1 .. j : x = w.calls[k]
    BY <1>1, <2>1, PrefixElements
  <2> QED BY <2>2 DEF j
<1>3. \A x : x \in ToSet(w.calls) <=> \E k \in 1 .. depth : x = w.calls[k]
  BY <1>0, <1>1, SetOfSequence
<1>4. \A k \in 1 .. depth - 1 : w.calls[k] # m
  BY LastCall
<1> HIDE DEF calls
<1>5. ASSUME NEW x PROVE x \in ToSet(calls) <=> x \in ToSet(w.calls) /\ x # m
  <2>1. \A k \in 1 .. depth : k \in 1 .. depth - 1 \/ k = depth
    BY <1>0
  <2>2. \A k \in 1 .. depth - 1 : k \in 1 .. depth
    BY <1>0
  <2> QED BY <1>0, <1>2, <1>3, <1>4, <2>1, <2>2
<1>6. ToSet(calls) = ToSet(w.calls) \ {m}
  BY <1>5
<1>7. Len(calls) = depth - 1 /\ \A k \in 1 .. depth - 1 : calls[k] = w.calls[k]
  BY <1>0, <1>2
<1> QED BY <1>6, <1>7 DEF calls, Shortened

\* Return leaves the innermost call and changes its caller as the code does.
LEMMA ReturnLeaves ==
    ASSUME NEW graph, IsGraph(graph), NEW roots, NEW w \in Walks(graph), WalkInvariant(w, roots, graph),
           NEW m, NEW depth, Innermost(w, m, depth),
           NEW u \in Walks(graph), u.next = w.next, u.index = w.index, u.low = w.low,
           u.looked = w.looked, u.calls = w.calls, u.passed = w.passed
    PROVE  /\ Return(u, m) \in Walks(graph)
           /\ Left(w, Return(u, m), graph, m, depth)
           /\ Return(u, m).stack = u.stack
           /\ Return(u, m).result = u.result
<1>0. depth \in Nat /\ depth = Len(u.calls) /\ depth # 0
  BY DEF Innermost
<1>d. depth \in Nat /\ depth # 0
  BY DEF Innermost
<1>m. m \in DOMAIN graph
  BY LastCall
<1>s. Shortened(SubSeq(w.calls, 1, depth - 1), w, m, depth)
  BY ShortenedCalls
<1>1. CASE depth = 1
  <2> DEFINE e == Return(u, m)
  <2>1. /\ e \in Walks(graph)
        /\ e.calls = << >>
        /\ e.low = u.low
        /\ e.looked = u.looked
        /\ e.next = u.next
        /\ e.index = u.index
        /\ e.stack = u.stack
        /\ e.result = u.result
        /\ e.passed = u.passed
    <3>1. Len(u.calls) = 1
      BY <1>0, <1>1
    <3> HIDE DEF e
    <3> QED BY <3>1, <1>m, ReturnToRoots DEF e
  <2>2. e.calls = SubSeq(w.calls, 1, depth - 1)
    <3>1. w.calls \in Seq(DOMAIN graph)
      BY WalkTypes
    <3>2. SubSeq(w.calls, 1, 1 - 1) = << >>
      BY <3>1
    <3> QED BY <1>1, <2>1, <3>2
  <2> HIDE DEF e
  <2>3. \A x : ~ Caller(w, x, depth)
    BY <1>1 DEF Caller
  <2>4. Left(w, e, graph, m, depth)
    BY <1>s, <2>1, <2>2, <2>3 DEF Left, Shortened
  <2> QED BY <2>1, <2>4 DEF e
<1>2. CASE depth # 1
  <2> DEFINE c == w.calls[depth - 1]
             e == Return(u, m)
  <2>1. depth > 1 /\ Caller(w, c, depth)
    BY <1>d, <1>2 DEF Caller
  <2>2. \A x : Caller(w, x, depth) => x = c
    BY DEF Caller
  <2>3. c = u.calls[depth - 1]
    OBVIOUS
  <2> HIDE DEF c
  <2>4. c \in DOMAIN graph
    BY <2>1, CallerFacts
  <2>5. c = u.calls[depth - 1] =>
           /\ e \in Walks(graph)
           /\ e.calls = SubSeq(u.calls, 1, depth - 1)
           /\ e.low = [u.low EXCEPT ![c] = Smaller(u.low[m], u.low[c])]
           /\ e.looked = [u.looked EXCEPT ![c] = u.looked[c] + 1]
           /\ e.next = u.next
           /\ e.index = u.index
           /\ e.stack = u.stack
           /\ e.result = u.result
           /\ e.passed = u.passed
    BY <1>0, <1>m, <2>1, <2>4, ReturnToCaller
  <2> HIDE DEF e
  <2>6. /\ e \in Walks(graph)
        /\ e.calls = SubSeq(w.calls, 1, depth - 1)
        /\ e.low = [w.low EXCEPT ![c] = Smaller(w.low[m], w.low[c])]
        /\ e.looked = [w.looked EXCEPT ![c] = w.looked[c] + 1]
        /\ e.next = w.next
        /\ e.index = w.index
        /\ e.stack = u.stack
        /\ e.result = u.result
        /\ e.passed = w.passed
    BY <2>3, <2>5
  <2>7. w.low \in [DOMAIN graph -> Nat] /\ w.looked \in [DOMAIN graph -> Nat]
    BY WalkTypes
  <2>8. /\ \A x \in DOMAIN graph : x # c => e.looked[x] = w.looked[x] /\ e.low[x] = w.low[x]
        /\ e.looked[c] = w.looked[c] + 1
        /\ e.low[c] = Smaller(w.low[m], w.low[c])
    BY <2>4, <2>6, <2>7
  <2>9. Left(w, e, graph, m, depth)
    BY <1>s, <2>1, <2>2, <2>6, <2>8 DEF Left, Shortened
  <2> QED BY <2>6, <2>9 DEF e
<1> QED BY <1>1, <1>2

\* Leaving a call keeps the numbering.
LEMMA LeftNumbered ==
    ASSUME NEW graph, IsGraph(graph), NEW roots, NEW w \in Walks(graph), WalkInvariant(w, roots, graph),
           NEW m, NEW depth, Innermost(w, m, depth),
           NEW e \in Walks(graph), Left(w, e, graph, m, depth)
    PROVE  Numbered(e, graph)
<1>1. \A x \in DOMAIN graph : /\ w.index[x] <= w.next
                              /\ w.looked[x] <= Len(graph[x])
                              /\ w.index[x] = 0 => w.looked[x] = 0
  BY DEF WalkInvariant, Numbered
<1>2. \A x, y \in DOMAIN graph : w.index[x] = w.index[y] /\ w.index[x] # 0 => x = y
  BY DEF WalkInvariant, Numbered
<1>3. e.next = w.next /\ e.index = w.index
  BY DEF Left
<1>4. ASSUME NEW x \in DOMAIN graph
      PROVE  /\ e.looked[x] <= Len(graph[x])
             /\ e.index[x] = 0 => e.looked[x] = 0
  <2>1. CASE ~ Caller(w, x, depth)
    BY <1>1, <1>3, <2>1 DEF Left
  <2>2. CASE Caller(w, x, depth)
    <3>1. w.looked[x] + 1 \in 1 .. Len(graph[x]) /\ x \in ToSet(w.calls)
      BY <2>2, CallerFacts
    <3>2. e.looked[x] = w.looked[x] + 1
      BY <2>2 DEF Left
    <3>3. w.index[x] # 0
      BY <3>1 DEF WalkInvariant, Placed
    <3> QED BY <1>3, <3>1, <3>2, <3>3
  <2> QED BY <2>1, <2>2
<1> QED BY <1>1, <1>2, <1>3, <1>4 DEF Numbered

\* Leaving a call that has looked at all its dependencies keeps the record of them.
LEMMA LeftFollowed ==
    ASSUME NEW graph, IsGraph(graph), NEW roots, NEW w \in Walks(graph), WalkInvariant(w, roots, graph),
           NEW m, NEW depth, Innermost(w, m, depth), w.looked[m] = Len(graph[m]),
           NEW e \in Walks(graph), Left(w, e, graph, m, depth)
    PROVE  Followed(e, graph)
<1>0. depth \in Nat /\ depth = Len(w.calls) /\ depth # 0
  BY DEF Innermost
<1>1. /\ \A x \in DOMAIN graph : w.index[x] # 0 /\ x \notin ToSet(w.calls) => w.looked[x] = Len(graph[x])
      /\ \A x \in DOMAIN graph : \A i \in 1 .. w.looked[x] : w.index[graph[x][i]] # 0
      /\ \A k \in 1 .. Len(w.calls) - 1 :
           /\ w.looked[w.calls[k]] < Len(graph[w.calls[k]])
           /\ graph[w.calls[k]][w.looked[w.calls[k]] + 1] = w.calls[k + 1]
  BY DEF WalkInvariant, Followed
<1>2. /\ e.index = w.index /\ ToSet(e.calls) = ToSet(w.calls) \ {m}
      /\ Len(e.calls) = depth - 1 /\ \A k \in 1 .. depth - 1 : e.calls[k] = w.calls[k]
  BY DEF Left
<1>3. /\ \A x \in DOMAIN graph : ~ Caller(w, x, depth) => e.looked[x] = w.looked[x]
      /\ \A x \in DOMAIN graph : Caller(w, x, depth) => e.looked[x] = w.looked[x] + 1
  BY DEF Left
<1>m. m \in DOMAIN graph /\ w.index[m] # 0 /\ ~ Caller(w, m, depth)
  <2>1. m \in DOMAIN graph /\ m \in ToSet(w.stack)
    BY LastCall
  <2>2. ~ Caller(w, m, depth)
    BY CallerFacts
  <2> QED BY <2>1, <2>2 DEF WalkInvariant, Placed
<1>4. ASSUME NEW x \in DOMAIN graph, e.index[x] # 0, x \notin ToSet(e.calls) PROVE e.looked[x] = Len(graph[x])
  <2>1. CASE x = m
    BY <1>3, <1>m, <2>1
  <2>2. CASE x # m
    <3>1. x \notin ToSet(w.calls)
      BY <1>2, <1>4, <2>2
    <3>2. ~ Caller(w, x, depth)
      BY <3>1, CallerFacts
    <3> QED BY <1>1, <1>2, <1>3, <1>4, <3>1, <3>2
  <2> QED BY <2>1, <2>2
<1>5. ASSUME NEW x \in DOMAIN graph, NEW i \in 1 .. e.looked[x] PROVE e.index[graph[x][i]] # 0
  <2>1. CASE Caller(w, x, depth) /\ i = w.looked[x] + 1
    <3>1. graph[x][i] = m
      BY <2>1, CallerFacts
    <3> QED BY <1>2, <1>m, <3>1
  <2>2. CASE ~ (Caller(w, x, depth) /\ i = w.looked[x] + 1)
    <3>1. i \in 1 .. w.looked[x]
      <4>1. w.looked[x] \in Nat
        BY WalkTypes
      <4>2. CASE ~ Caller(w, x, depth)
        BY <1>3, <1>5, <4>2
      <4>3. CASE Caller(w, x, depth)
        <5>1. i \in 1 .. w.looked[x] + 1 /\ i # w.looked[x] + 1
          BY <1>3, <1>5, <2>2, <4>3
        <5> QED BY <4>1, <5>1
      <4> QED BY <4>2, <4>3
    <3> QED BY <1>1, <1>2, <3>1
  <2> QED BY <2>1, <2>2
<1>6. ASSUME NEW k \in 1 .. Len(e.calls) - 1
      PROVE  /\ e.looked[e.calls[k]] < Len(graph[e.calls[k]])
             /\ graph[e.calls[k]][e.looked[e.calls[k]] + 1] = e.calls[k + 1]
  <2>1. k \in 1 .. depth - 2
    BY <1>0, <1>2
  <2>2. k \in 1 .. depth - 1 /\ k + 1 \in 1 .. depth - 1 /\ k \in 1 .. depth /\ depth > 1
    BY <1>0, <2>1
  <2>3. e.calls[k] = w.calls[k] /\ e.calls[k + 1] = w.calls[k + 1] /\ w.calls[k] \in DOMAIN graph
    BY <1>0, <1>2, <2>2, WalkTypes
  <2>4. ~ Caller(w, w.calls[k], depth)
    <3> DEFINE c == w.calls[k]
    <3>1. \A d : Caller(w, d, depth) => \A j \in 1 .. depth - 2 : w.calls[j] # d
      BY CallerFacts
    <3>2. Caller(w, c, depth) => c # c
      BY <2>1, <3>1
    <3> QED BY <3>2
  <2>5. e.looked[w.calls[k]] = w.looked[w.calls[k]]
    BY <1>3, <2>3, <2>4
  <2>6. /\ w.looked[w.calls[k]] < Len(graph[w.calls[k]])
        /\ graph[w.calls[k]][w.looked[w.calls[k]] + 1] = w.calls[k + 1]
    BY <1>0, <1>1, <2>2
  <2> QED BY <2>3, <2>5, <2>6
<1> QED BY <1>4, <1>5, <1>6 DEF Followed

\* The beginning of an ordered sequence is ordered.
LEMMA OrderedPrefix ==
    ASSUME NEW S, NEW index \in [S -> Nat], NEW s \in Seq(S), NEW t, Ordered(index, s), NEW n \in Nat, n <= Len(s),
           Len(t) = n, \A k \in 1 .. n : t[k] = s[k]
    PROVE  Ordered(index, t)
<1>1. \A k \in 1 .. n : k \in 1 .. Len(s)
  OBVIOUS
<1> QED BY <1>1 DEF Ordered

\* Leaving a node that is no root of a component keeps the invariant.
LEMMA LeaveKeeps ==
    ASSUME NEW graph, IsGraph(graph), NEW roots, NEW w \in Walks(graph), WalkInvariant(w, roots, graph),
           NEW m, NEW depth, Innermost(w, m, depth), w.looked[m] = Len(graph[m]), w.low[m] # w.index[m],
           NEW e \in Walks(graph), Left(w, e, graph, m, depth), e.stack = w.stack, e.result = w.result
    PROVE  WalkInvariant(e, roots, graph)
<1>0. depth \in Nat /\ depth = Len(w.calls) /\ depth # 0
  BY DEF Innermost
<1>m. /\ m \in DOMAIN graph /\ m \in ToSet(w.calls) /\ m \in ToSet(w.stack)
      /\ \A c \in ToSet(w.calls) : c = m \/ w.index[c] < w.index[m]
  BY LastCall
<1>e. /\ e.next = w.next /\ e.index = w.index /\ e.passed = w.passed
      /\ ToSet(e.calls) = ToSet(w.calls) \ {m}
      /\ Len(e.calls) = depth - 1
      /\ \A k \in 1 .. depth - 1 : e.calls[k] = w.calls[k]
  BY DEF Left
<1>n. /\ ToSet(w.stack) \subseteq DOMAIN graph /\ ToSet(w.calls) \subseteq DOMAIN graph
      /\ w.index \in [DOMAIN graph -> Nat] /\ w.calls \in Seq(DOMAIN graph)
      /\ \A x \in DOMAIN graph : w.index[x] \in Nat /\ w.low[x] \in Nat /\ w.looked[x] \in Nat
  BY WalkTypes
<1>t. PICK t \in ToSet(w.stack) : w.index[t] = w.low[m] /\ w.index[t] < w.index[m] /\ Path(graph, m, t)
  <2>1. PICK t \in ToSet(w.stack) : w.index[t] = w.low[m] /\ w.index[t] <= w.index[m] /\ Path(graph, m, t)
    BY <1>m DEF WalkInvariant, LowsReached
  <2>2. w.index[t] \in Nat /\ w.index[m] \in Nat
    BY <1>m, <1>n
  <2>3. w.index[t] < w.index[m]
    BY <2>1, <2>2
  <2> QED BY <2>1, <2>3
<1>1. Numbered(e, graph)
  BY LeftNumbered
<1>2. Followed(e, graph)
  BY LeftFollowed
<1>3. Placed(e, graph)
  <2>1. Ordered(e.index, e.calls)
    <3>1. depth - 1 \in Nat /\ depth - 1 <= Len(w.calls)
      BY <1>0
    <3>2. Ordered(w.index, w.calls)
      BY DEF WalkInvariant, Placed
    <3> DEFINE n == depth - 1
    <3>3. Len(e.calls) = n /\ \A k \in 1 .. n : e.calls[k] = w.calls[k]
      BY <1>e
    <3>4. n \in Nat /\ n <= Len(w.calls)
      BY <3>1
    <3> HIDE DEF n
    <3> QED BY <1>e, <1>n, <3>2, <3>3, <3>4, OrderedPrefix
  <2>2. Finished(e) = Finished(w)
    BY DEF Finished
  <2>3. /\ Ordered(w.index, w.stack)
        /\ ToSet(w.calls) \subseteq ToSet(w.stack)
        /\ \A x \in DOMAIN graph : w.index[x] # 0 <=> x \in ToSet(w.stack) \cup Finished(w)
        /\ ToSet(w.stack) \cap Finished(w) = {}
    BY DEF WalkInvariant, Placed
  <2> QED BY <1>e, <2>1, <2>2, <2>3 DEF Placed
<1>4. Connected(e, graph)
  <2>1. \A c \in ToSet(w.calls), s \in ToSet(w.stack) : w.index[c] <= w.index[s] => Path(graph, c, s)
    BY DEF WalkInvariant, Connected
  <2>2. \A s \in ToSet(w.stack) : \E c \in ToSet(w.calls) : w.index[c] <= w.index[s] /\ Path(graph, s, c)
    BY DEF WalkInvariant, Connected
  <2>3. ASSUME NEW s \in ToSet(w.stack)
        PROVE  \E c \in ToSet(e.calls) : w.index[c] <= w.index[s] /\ Path(graph, s, c)
    <3>1. PICK c \in ToSet(w.calls) : w.index[c] <= w.index[s] /\ Path(graph, s, c)
      BY <2>2
    <3>2. CASE c # m
      BY <1>e, <3>1, <3>2
    <3>3. CASE c = m
      <4>1. PICK d \in ToSet(w.calls) : w.index[d] <= w.index[t] /\ Path(graph, t, d)
        BY <2>2
      <4>2. /\ w.index[d] \in Nat /\ w.index[t] \in Nat /\ w.index[m] \in Nat /\ w.index[s] \in Nat
            /\ w.index[t] < w.index[m]
        BY <1>n, <1>m, <1>t, <4>1
      <4>3. w.index[d] < w.index[m] /\ w.index[d] <= w.index[s]
        BY <3>1, <3>3, <4>1, <4>2
      <4>4. d # m
        BY <4>2, <4>3
      <4>5. Path(graph, s, d)
        BY <1>t, <3>1, <3>3, <4>1, PathTransitive
      <4> QED BY <1>e, <4>1, <4>3, <4>4, <4>5
    <3> QED BY <3>2, <3>3
  <2> QED BY <1>e, <2>1, <2>3 DEF Connected
<1>5. LowsReached(e, graph)
  <2>1. SUFFICES ASSUME NEW c \in ToSet(w.calls), c # m
                 PROVE  \E x \in ToSet(w.stack) : /\ w.index[x] = e.low[c] /\ w.index[x] <= w.index[c]
                                                  /\ Path(graph, c, x)
    BY <1>e DEF LowsReached
  <2>2. PICK x \in ToSet(w.stack) : w.index[x] = w.low[c] /\ w.index[x] <= w.index[c] /\ Path(graph, c, x)
    BY DEF WalkInvariant, LowsReached
  <2>3. CASE ~ Caller(w, c, depth)
    <3>1. e.low[c] = w.low[c]
      BY <1>n, <2>3 DEF Left
    <3> QED BY <2>2, <3>1
  <2>4. CASE Caller(w, c, depth)
    <3>1. e.low[c] = Smaller(w.low[m], w.low[c])
      BY <1>n, <2>4 DEF Left
    <3>2. CASE e.low[c] = w.low[c]
      BY <2>2, <3>2
    <3>3. CASE e.low[c] # w.low[c]
      <4>1. /\ w.low[m] \in Nat /\ w.low[c] \in Nat /\ w.index[x] \in Nat /\ w.index[c] \in Nat
            /\ w.index[t] \in Nat /\ w.index[t] = w.low[m]
        BY <1>n, <1>m, <1>t
      <4>2. e.low[c] = w.low[m] /\ w.low[m] < w.low[c]
        BY <3>1, <3>3, <4>1 DEF Smaller
      <4>3. w.index[t] = e.low[c] /\ w.index[t] <= w.index[c]
        BY <2>2, <4>1, <4>2
      <4>4. Path(graph, c, m)
        <5>1. c \in DOMAIN graph /\ m \in ToSet(graph[c])
          BY <2>4, CallerFacts
        <5> QED BY <5>1, PathEdge
      <4>5. Path(graph, c, t)
        BY <1>t, <4>4, PathTransitive
      <4> QED BY <4>3, <4>5
    <3> QED BY <3>2, <3>3
  <2> QED BY <2>3, <2>4
<1>6. LowsBound(e, graph)
  <2>1. SUFFICES ASSUME NEW c \in ToSet(e.calls), NEW s \in ToSet(w.stack), During(e, c, s),
                        NEW j \in 1 .. e.looked[s], graph[s][j] \in ToSet(w.stack)
                 PROVE  e.low[c] <= w.index[graph[s][j]]
    BY <1>e DEF LowsBound
  <2>2. c \in ToSet(w.calls) /\ c # m /\ c \in DOMAIN graph /\ s \in DOMAIN graph /\ graph[s][j] \in DOMAIN graph
    BY <1>e, <1>n, <2>1
  <2>3. /\ w.low[c] \in Nat /\ w.low[m] \in Nat /\ w.index[graph[s][j]] \in Nat /\ w.index[m] \in Nat
        /\ w.index[c] \in Nat /\ w.index[s] \in Nat /\ w.looked[s] \in Nat
    BY <1>m, <1>n, <2>2
  <2>4. /\ Caller(w, c, depth) => e.low[c] <= w.low[m] /\ e.low[c] <= w.low[c]
        /\ ~ Caller(w, c, depth) => e.low[c] = w.low[c]
    <3>1. CASE Caller(w, c, depth)
      <4>1. e.low[c] = Smaller(w.low[m], w.low[c])
        BY <2>2, <3>1 DEF Left
      <4> QED BY <2>3, <3>1, <4>1 DEF Smaller
    <3>2. CASE ~ Caller(w, c, depth)
      BY <2>2, <3>2 DEF Left
    <3> QED BY <3>1, <3>2
  <2>5. e.low[c] <= w.low[c]
    BY <2>3, <2>4
  <2>6. w.index[c] <= w.index[s]
    BY <1>e, <2>1 DEF During
  <2>7. Caller(w, c, depth) \/ (w.index[s] < w.index[m] /\ ~ Caller(w, s, depth))
    <3>1. SUFFICES ASSUME ~ Caller(w, c, depth)
                   PROVE  w.index[s] < w.index[m] /\ ~ Caller(w, s, depth)
      OBVIOUS
    <3>2. depth > 1
      <4>0. depth \in Nat /\ depth # 0
        BY DEF Innermost
      <4>1. SUFFICES ASSUME depth = 1 PROVE FALSE
        BY <4>0
      <4>2. Len(e.calls) = 0 /\ e.calls \in Seq(DOMAIN graph)
        BY <1>e, <4>1, WalkTypes
      <4>3. \E k \in 1 .. Len(e.calls) : c = e.calls[k]
        BY <4>2, SetOfSequence
      <4> QED BY <4>2, <4>3
    <3> DEFINE d == w.calls[depth - 1]
    <3>3. Caller(w, d, depth)
      BY <3>2 DEF Caller
    <3> HIDE DEF d
    <3>4. /\ d \in ToSet(w.calls) /\ d # m /\ w.index[d] < w.index[m] /\ d \in DOMAIN graph
          /\ \A x \in ToSet(w.calls) : x = m \/ x = d \/ w.index[x] < w.index[d]
      BY <3>3, CallerFacts
    <3>5. w.index[c] < w.index[d]
      BY <2>2, <3>1, <3>3, <3>4
    <3>6. w.index[s] < w.index[d]
      BY <1>e, <2>1, <3>4, <3>5 DEF During
    <3>7. ~ Caller(w, s, depth)
      <4>1. SUFFICES ASSUME Caller(w, s, depth) PROVE FALSE
        OBVIOUS
      <4>2. s = d
        BY <3>3, <4>1 DEF Caller
      <4> QED BY <2>3, <3>6, <4>2
    <3>8. w.index[d] \in Nat
      BY <1>n, <3>4
    <3> QED BY <2>3, <3>4, <3>6, <3>7, <3>8
  <2>8. CASE Caller(w, s, depth) /\ j = w.looked[s] + 1
    <3>1. graph[s][j] = m
      BY <2>8, CallerFacts
    <3>2. Caller(w, c, depth)
      BY <2>7, <2>8
    <3>3. w.low[m] <= w.index[m]
      BY <1>t, <2>3
    <3>4. e.low[c] \in Nat
      BY <2>2, WalkTypes
    <3> QED BY <2>3, <2>4, <3>1, <3>2, <3>3, <3>4
  <2>9. CASE ~ (Caller(w, s, depth) /\ j = w.looked[s] + 1)
    <3>1. j \in 1 .. w.looked[s]
      <4>1. CASE ~ Caller(w, s, depth)
        BY <2>1, <2>2, <4>1 DEF Left
      <4>2. CASE Caller(w, s, depth)
        <5>1. j \in 1 .. w.looked[s] + 1 /\ j # w.looked[s] + 1
          BY <2>1, <2>2, <2>9, <4>2 DEF Left
        <5> QED BY <2>3, <5>1
      <4> QED BY <4>1, <4>2
    <3>2. e.low[c] \in Nat
      BY <2>2, WalkTypes
    <3>b. \A d \in ToSet(w.calls) : During(w, d, s) => w.low[d] <= w.index[graph[s][j]]
      BY <2>1, <3>1 DEF WalkInvariant, LowsBound
    <3>3. CASE w.index[s] < w.index[m]
      <4>1. During(w, c, s)
        <5>1. ASSUME NEW d \in ToSet(w.calls), w.index[c] < w.index[d] PROVE w.index[s] < w.index[d]
          <6>1. CASE d = m
            BY <3>3, <6>1
          <6>2. CASE d # m
            BY <1>e, <2>1, <5>1, <6>2 DEF During
          <6> QED BY <6>1, <6>2
        <5> QED BY <2>6, <5>1 DEF During
      <4>2. w.low[c] <= w.index[graph[s][j]]
        BY <2>2, <3>b, <4>1
      <4> QED BY <2>3, <2>5, <3>2, <4>2
    <3>4. CASE ~ (w.index[s] < w.index[m])
      <4>1. Caller(w, c, depth)
        BY <2>7, <3>4
      <4>2. During(w, m, s)
        <5>1. w.index[m] <= w.index[s]
          BY <2>3, <3>4
        <5>2. ASSUME NEW d \in ToSet(w.calls), w.index[m] < w.index[d] PROVE w.index[s] < w.index[d]
          <6>1. d = m \/ w.index[d] < w.index[m]
            BY <1>m
          <6>2. w.index[d] \in Nat
            BY <1>n
          <6> QED BY <2>3, <5>2, <6>1, <6>2
        <5> QED BY <5>1, <5>2 DEF During
      <4>3. w.low[m] <= w.index[graph[s][j]]
        BY <1>m, <3>b, <4>2
      <4> QED BY <2>3, <2>4, <3>2, <4>1, <4>3
    <3> QED BY <3>3, <3>4
  <2> QED BY <2>8, <2>9
<1>7. Grouped(e, graph)
  BY DEF WalkInvariant, Grouped
<1>8. Rooted(e, roots, graph)
  BY <1>e DEF WalkInvariant, Rooted
<1> QED BY <1>1, <1>2, <1>3, <1>4, <1>5, <1>6, <1>7, <1>8 DEF WalkInvariant

\* In an ordered sequence an earlier position has a smaller index.
LEMMA OrderedPosition ==
    ASSUME NEW S, NEW index \in [S -> Nat], NEW s \in Seq(S), Ordered(index, s)
    PROVE  \A i, j \in 1 .. Len(s) : i < j <=> index[s[i]] < index[s[j]]
<1>1. ASSUME NEW i \in 1 .. Len(s), NEW j \in 1 .. Len(s) PROVE i < j <=> index[s[i]] < index[s[j]]
  <2>1. index[s[i]] \in Nat /\ index[s[j]] \in Nat
    OBVIOUS
  <2>2. i < j => index[s[i]] < index[s[j]]
    BY DEF Ordered
  <2>3. j < i => index[s[j]] < index[s[i]]
    BY DEF Ordered
  <2>4. i = j => index[s[i]] = index[s[j]]
    OBVIOUS
  <2>5. i \in Nat /\ j \in Nat
    OBVIOUS
  <2>6. i < j \/ j < i \/ i = j
    BY <2>5
  <2> QED BY <2>1, <2>2, <2>3, <2>4, <2>6
<1> QED BY <1>1

\* The stack from the root m of a component on, and before it.
Parted(w, graph, m, before, members) ==
    /\ before \in Seq(DOMAIN graph) /\ members \in Seq(DOMAIN graph)
    /\ \A x : x \in ToSet(before) <=> x \in ToSet(w.stack) /\ w.index[x] < w.index[m]
    /\ \A x : x \in ToSet(members) <=> x \in ToSet(w.stack) /\ w.index[m] <= w.index[x]
    /\ Ordered(w.index, before) /\ Ordered(w.index, members)

\* The position of m divides the stack by the index of m.
LEMMA PartedStack ==
    ASSUME NEW graph, NEW roots, NEW w \in Walks(graph), WalkInvariant(w, roots, graph),
           NEW m, NEW first \in 1 .. Len(w.stack), m = w.stack[first]
    PROVE  Parted(w, graph, m, SubSeq(w.stack, 1, first - 1), SubSeq(w.stack, first, Len(w.stack)))
<1> DEFINE height == Len(w.stack)
           before == SubSeq(w.stack, 1, first - 1)
           members == SubSeq(w.stack, first, height)
<1>1. /\ w.stack \in Seq(DOMAIN graph) /\ w.index \in [DOMAIN graph -> Nat] /\ height \in Nat
      /\ \A k \in 1 .. height : w.stack[k] \in DOMAIN graph
  BY WalkTypes
<1>2. Ordered(w.index, w.stack)
  BY DEF WalkInvariant, Placed
<1>3. \A i, j \in 1 .. height : i < j <=> w.index[w.stack[i]] < w.index[w.stack[j]]
  BY <1>1, <1>2, OrderedPosition
<1>4. first \in 1 .. height /\ first \in Nat /\ first - 1 \in Nat /\ first - 1 <= height /\ 1 <= first
      /\ first <= height + 1
  BY <1>1
<1>5. \A x : x \in ToSet(w.stack) <=> \E k \in 1 .. height : x = w.stack[k]
  BY <1>1, SetOfSequence
<1>6. /\ before \in Seq(DOMAIN graph)
      /\ Len(before) = first - 1
      /\ \A k \in 1 .. first - 1 : before[k] = w.stack[k]
      /\ \A x : x \in ToSet(before) <=> \E k \in 1 .. first - 1 : x = w.stack[k]
  <2> DEFINE j == first - 1
  <2>1. j \in Nat /\ j <= Len(w.stack)
    BY <1>4
  <2> HIDE DEF j
  <2>2. /\ SubSeq(w.stack, 1, j) \in Seq(DOMAIN graph)
        /\ Len(SubSeq(w.stack, 1, j)) = j
        /\ \A k \in 1 .. j : SubSeq(w.stack, 1, j)[k] = w.stack[k]
        /\ \A x : x \in ToSet(SubSeq(w.stack, 1, j)) <=> \E k \in 1 .. j : x = w.stack[k]
    BY <1>1, <2>1, PrefixElements
  <2> QED BY <2>2 DEF j
<1>7. /\ members \in Seq(DOMAIN graph)
      /\ Len(members) = height + 1 - first
      /\ \A k \in 1 .. height + 1 - first : members[k] = w.stack[k + first - 1]
      /\ \A x : x \in ToSet(members) <=> \E k \in first .. height : x = w.stack[k]
  <2>1. height \in Nat /\ height = Len(w.stack)
    BY <1>1
  <2> HIDE DEF height
  <2>2. w.stack \in Seq(DOMAIN graph)
    BY <1>1
  <2> QED BY <2>1, <2>2, SuffixElements
<1> HIDE DEF before, members, height
<1>8. ASSUME NEW x PROVE x \in ToSet(before) <=> x \in ToSet(w.stack) /\ w.index[x] < w.index[m]
  <2>1. ASSUME NEW k \in 1 .. height PROVE k \in 1 .. first - 1 <=> w.index[w.stack[k]] < w.index[m]
    <3>1. k < first <=> w.index[w.stack[k]] < w.index[m]
      BY <1>3, <1>4
    <3> QED BY <1>4, <3>1
  <2>2. \A k \in 1 .. first - 1 : k \in 1 .. height
    BY <1>1, <1>4
  <2> QED BY <1>5, <1>6, <2>1, <2>2
<1>9. ASSUME NEW x PROVE x \in ToSet(members) <=> x \in ToSet(w.stack) /\ w.index[m] <= w.index[x]
  <2>1. ASSUME NEW k \in 1 .. height PROVE k \in first .. height <=> w.index[m] <= w.index[w.stack[k]]
    <3>1. k < first <=> w.index[w.stack[k]] < w.index[m]
      BY <1>3, <1>4
    <3>2. w.index[w.stack[k]] \in Nat /\ w.index[m] \in Nat
      BY <1>1, <1>4
    <3> QED BY <1>1, <1>4, <3>1, <3>2
  <2>2. \A k \in first .. height : k \in 1 .. height
    BY <1>1, <1>4
  <2> QED BY <1>5, <1>7, <2>1, <2>2
<1>10. Ordered(w.index, before)
  <2>1. \A k \in 1 .. first - 1 : k \in 1 .. height
    BY <1>1, <1>4
  <2> QED BY <1>3, <1>6, <2>1 DEF Ordered
<1>11. Ordered(w.index, members)
  <2>1. ASSUME NEW i \in 1 .. Len(members), NEW j \in 1 .. Len(members), i < j
        PROVE  w.index[members[i]] < w.index[members[j]]
    <3>1. /\ i \in 1 .. height + 1 - first /\ j \in 1 .. height + 1 - first
          /\ i + first - 1 \in 1 .. height /\ j + first - 1 \in 1 .. height
          /\ i + first - 1 < j + first - 1
      BY <1>1, <1>4, <1>7, <2>1
    <3>2. members[i] = w.stack[i + first - 1] /\ members[j] = w.stack[j + first - 1]
      BY <1>7, <3>1
    <3> QED BY <1>3, <3>1, <3>2
  <2> QED BY <2>1 DEF Ordered
<1> QED BY <1>6, <1>7, <1>8, <1>9, <1>10, <1>11 DEF Parted, before, members, height

\* The components found depend on nothing else.
LEMMA FinishedClosed ==
    ASSUME NEW graph, NEW w, w.result \in Seq(ComponentsOver(DOMAIN graph)), Grouped(w, graph)
    PROVE  Finished(w) \in SUBSET DOMAIN graph /\ Closed(graph, Finished(w))
<1>1. DOMAIN w.result = 1 .. Len(w.result) /\ Len(w.result) \in Nat
  OBVIOUS
<1>2. Finished(w) \in SUBSET DOMAIN graph
  <2>1. \A k \in DOMAIN w.result : ToSet(w.result[k].modules) \subseteq DOMAIN graph
    <3>1. \A k \in DOMAIN w.result : w.result[k].modules \in Seq(DOMAIN graph)
      <4>1. \A k \in DOMAIN w.result : w.result[k] \in ComponentsOver(DOMAIN graph)
        OBVIOUS
      <4> QED BY <4>1 DEF ComponentsOver
    <3> QED BY <3>1, SetOfSequence
  <2> QED BY <2>1 DEF Finished, Gathered
<1>3. ASSUME NEW x \in Finished(w) PROVE ToSet(graph[x]) \subseteq Finished(w)
  <2>1. PICK k \in 1 .. Len(w.result) : x \in ToSet(w.result[k].modules)
    BY <1>1 DEF Finished, Gathered
  <2>2. ToSet(graph[x]) \subseteq UNION {ToSet(w.result[l].modules) : l \in 1 .. k}
    BY <2>1 DEF Grouped, Groups
  <2>3. \A l \in 1 .. k : l \in DOMAIN w.result
    BY <1>1
  <2> QED BY <2>2, <2>3 DEF Finished, Gathered
<1> QED BY <1>2, <1>3 DEF Closed

\* What makes of the popped members a component
Component(component, finished, graph) ==
    /\ component.modules # << >> /\ IsInjective(component.modules)
    /\ ToSet(component.modules) \cap finished = {}
    /\ \A m \in ToSet(component.modules) :
           /\ ToSet(graph[m]) \subseteq finished \cup ToSet(component.modules)
           /\ component.cyclic = OnCircle(graph, m)
           /\ \A n \in ToSet(component.modules) : Path(graph, m, n)

\* A component that only depends on itself and those found is one of them.
LEMMA GroupsAppended ==
    ASSUME NEW graph, NEW found \in Seq(ComponentsOver(DOMAIN graph)), Groups(found, graph),
           NEW component \in ComponentsOver(DOMAIN graph),
           Component(component, Gathered(found), graph)
    PROVE  /\ Groups(Append(found, component), graph)
           /\ Gathered(Append(found, component)) = Gathered(found) \cup ToSet(component.modules)
<1> DEFINE after == Append(found, component)
           n == Len(found)
<1>1. /\ Len(after) = n + 1 /\ n \in Nat /\ DOMAIN after = 1 .. n + 1 /\ DOMAIN found = 1 .. n
      /\ \A k \in 1 .. n : after[k] = found[k]
      /\ after[n + 1] = component
  OBVIOUS
<1> HIDE DEF after
<1>2. UNION {ToSet(after[k].modules) : k \in DOMAIN after}
        = (UNION {ToSet(found[k].modules) : k \in DOMAIN found}) \cup ToSet(component.modules)
  <2>1. \A k \in DOMAIN after : k \in DOMAIN found \/ k = n + 1
    BY <1>1
  <2>2. \A k \in DOMAIN found : k \in DOMAIN after /\ after[k] = found[k]
    BY <1>1
  <2>3. n + 1 \in DOMAIN after /\ after[n + 1] = component
    BY <1>1
  <2>4. ASSUME NEW x
        PROVE  (\E k \in DOMAIN after : x \in ToSet(after[k].modules))
                 <=> (\E k \in DOMAIN found : x \in ToSet(found[k].modules)) \/ x \in ToSet(component.modules)
    BY <2>1, <2>2, <2>3
  <2>5. ASSUME NEW x
        PROVE  x \in UNION {ToSet(after[k].modules) : k \in DOMAIN after} <=>
                   x \in (UNION {ToSet(found[k].modules) : k \in DOMAIN found}) \cup ToSet(component.modules)
    <3>1. x \in UNION {ToSet(after[k].modules) : k \in DOMAIN after}
            <=> \E k \in DOMAIN after : x \in ToSet(after[k].modules)
      OBVIOUS
    <3>2. x \in UNION {ToSet(found[k].modules) : k \in DOMAIN found}
            <=> \E k \in DOMAIN found : x \in ToSet(found[k].modules)
      OBVIOUS
    <3> DEFINE A == UNION {ToSet(after[k].modules) : k \in DOMAIN after}
               B == UNION {ToSet(found[k].modules) : k \in DOMAIN found}
               C == ToSet(component.modules)
    <3>3. x \in A <=> \E k \in DOMAIN after : x \in ToSet(after[k].modules)
      BY <3>1
    <3>4. x \in B <=> \E k \in DOMAIN found : x \in ToSet(found[k].modules)
      BY <3>2
    <3>5. x \in A <=> x \in B \/ x \in C
      BY <2>4, <3>3, <3>4, Zenon
    <3> HIDE DEF A, B, C
    <3>6. x \in A <=> x \in B \cup C
      BY <3>5
    <3> QED BY <3>6 DEF A, B, C
  <2> QED BY <2>5
<1>3. ASSUME NEW k \in 1 .. n + 1
      PROVE  /\ after[k].modules # << >> /\ IsInjective(after[k].modules)
             /\ \A l \in 1 .. k - 1 : ToSet(after[k].modules) \cap ToSet(after[l].modules) = {}
             /\ \A m \in ToSet(after[k].modules) :
                    /\ ToSet(graph[m]) \subseteq UNION {ToSet(after[l].modules) : l \in 1 .. k}
                    /\ after[k].cyclic = OnCircle(graph, m)
                    /\ \A x \in ToSet(after[k].modules) : Path(graph, m, x)
  <2>1. CASE k \in 1 .. n
    <3>1. after[k] = found[k] /\ \A l \in 1 .. k : after[l] = found[l]
      BY <1>1, <2>1
    <3>2. \A l \in 1 .. k - 1 : l \in 1 .. k
      BY <1>1
    <3>3. UNION {ToSet(after[l].modules) : l \in 1 .. k} = UNION {ToSet(found[l].modules) : l \in 1 .. k}
      BY <3>1
    <3>4. /\ found[k].modules # << >> /\ IsInjective(found[k].modules)
          /\ \A l \in 1 .. k - 1 : ToSet(found[k].modules) \cap ToSet(found[l].modules) = {}
          /\ \A m \in ToSet(found[k].modules) :
                 /\ ToSet(graph[m]) \subseteq UNION {ToSet(found[l].modules) : l \in 1 .. k}
                 /\ found[k].cyclic = OnCircle(graph, m)
                 /\ \A x \in ToSet(found[k].modules) : Path(graph, m, x)
      BY <2>1 DEF Groups
    <3>5. \A l \in 1 .. k - 1 : ToSet(after[k].modules) \cap ToSet(after[l].modules) = {}
      BY <3>1, <3>2, <3>4
    <3> QED BY <3>1, <3>3, <3>4, <3>5
  <2>2. CASE k = n + 1
    <3>1. after[k] = component
      BY <1>1, <2>2
    <3>2. \A l \in 1 .. k - 1 : l \in DOMAIN found /\ after[l] = found[l]
      BY <1>1, <2>2
    <3>3. \A l \in 1 .. k - 1 : ToSet(component.modules) \cap ToSet(after[l].modules) = {}
      BY <3>2 DEF Component, Gathered
    <3>4. UNION {ToSet(after[l].modules) : l \in 1 .. k}
            = (UNION {ToSet(found[l].modules) : l \in DOMAIN found}) \cup ToSet(component.modules)
      BY <1>1, <1>2, <2>2
    <3> QED BY <3>1, <3>3, <3>4 DEF Component, Gathered
  <2>3. k \in 1 .. n \/ k = n + 1
    BY <1>1
  <2> QED BY <2>1, <2>2, <2>3
<1>4. Groups(after, graph)
  BY <1>1, <1>3 DEF Groups
<1> QED BY <1>2, <1>4 DEF after, Gathered

\* A root with its own index as low index: what is popped depends on itself and on what is
\* finished only.
LEMMA MembersClosed ==
    ASSUME NEW graph, IsGraph(graph), NEW roots, NEW w \in Walks(graph), WalkInvariant(w, roots, graph),
           NEW m, NEW depth, Innermost(w, m, depth), w.looked[m] = Len(graph[m]), w.low[m] = w.index[m],
           NEW before, NEW members, Parted(w, graph, m, before, members)
    PROVE  \A x \in ToSet(members) : ToSet(graph[x]) \subseteq Finished(w) \cup ToSet(members)
<1>m. /\ m \in DOMAIN graph /\ m \in ToSet(w.calls) /\ m \in ToSet(w.stack)
      /\ \A c \in ToSet(w.calls) : c = m \/ w.index[c] < w.index[m]
  BY LastCall
<1>n. /\ ToSet(w.stack) \subseteq DOMAIN graph /\ ToSet(w.calls) \subseteq DOMAIN graph
      /\ \A x \in DOMAIN graph : w.index[x] \in Nat /\ w.low[x] \in Nat /\ w.looked[x] \in Nat
  BY WalkTypes
<1>1. SUFFICES ASSUME NEW x \in ToSet(members), NEW y \in ToSet(graph[x])
               PROVE  y \in Finished(w) \cup ToSet(members)
  OBVIOUS
<1>2. x \in ToSet(w.stack) /\ w.index[m] <= w.index[x]
  BY DEF Parted
<1>3. x \in DOMAIN graph /\ w.index[x] \in Nat /\ w.index[m] \in Nat
  BY <1>2, <1>n, <1>m
<1>4. x = m \/ x \notin ToSet(w.calls)
  BY <1>2, <1>3, <1>m
<1>5. w.looked[x] = Len(graph[x])
  <2>1. w.index[x] # 0
    BY <1>2, <1>3 DEF WalkInvariant, Placed
  <2> QED BY <1>3, <1>4, <2>1 DEF WalkInvariant, Followed
<1>6. PICK i \in 1 .. w.looked[x] : y = graph[x][i]
  BY <1>3, <1>5, Successors
<1>7. y \in DOMAIN graph
  BY <1>3, Successors
<1>8. w.index[y] # 0
  BY <1>3, <1>6 DEF WalkInvariant, Followed
<1>9. y \in ToSet(w.stack) \cup Finished(w)
  BY <1>7, <1>8 DEF WalkInvariant, Placed
<1>10. ASSUME y \in ToSet(w.stack) PROVE y \in ToSet(members)
  <2>1. During(w, m, x)
    <3>1. ASSUME NEW d \in ToSet(w.calls), w.index[m] < w.index[d] PROVE FALSE
      <4>1. w.index[d] \in Nat
        BY <1>n
      <4> QED BY <1>3, <1>m, <3>1, <4>1
    <3> QED BY <1>2, <3>1 DEF During
  <2>2. w.low[m] <= w.index[y]
    BY <1>2, <1>6, <1>10, <1>m, <2>1 DEF WalkInvariant, LowsBound
  <2> QED BY <1>10, <2>2 DEF Parted
<1> QED BY <1>9, <1>10

\* What is popped reaches each other.
LEMMA MembersConnected ==
    ASSUME NEW graph, IsGraph(graph), NEW roots, NEW w \in Walks(graph), WalkInvariant(w, roots, graph),
           NEW m, NEW depth, Innermost(w, m, depth),
           NEW before, NEW members, Parted(w, graph, m, before, members)
    PROVE  \A x, y \in ToSet(members) : Path(graph, x, y)
<1>m. /\ m \in DOMAIN graph /\ m \in ToSet(w.calls) /\ m \in ToSet(w.stack)
      /\ \A c \in ToSet(w.calls) : c = m \/ w.index[c] < w.index[m]
  BY LastCall
<1>n. /\ ToSet(w.stack) \subseteq DOMAIN graph /\ ToSet(w.calls) \subseteq DOMAIN graph
      /\ \A x \in DOMAIN graph : w.index[x] \in Nat
  BY WalkTypes
<1>1. SUFFICES ASSUME NEW x \in ToSet(members), NEW y \in ToSet(members) PROVE Path(graph, x, y)
  OBVIOUS
<1>2. /\ x \in ToSet(w.stack) /\ w.index[m] <= w.index[x]
      /\ y \in ToSet(w.stack) /\ w.index[m] <= w.index[y]
  BY DEF Parted
<1>3. Path(graph, m, y)
  BY <1>2, <1>m DEF WalkInvariant, Connected
<1>4. PICK c \in ToSet(w.calls) : w.index[c] <= w.index[x] /\ Path(graph, x, c)
  BY <1>2 DEF WalkInvariant, Connected
<1>5. Path(graph, c, m)
  <2>1. w.index[m] \in Nat /\ w.index[c] \in Nat /\ (c = m \/ w.index[c] < w.index[m])
    BY <1>m, <1>n
  <2>2. w.index[c] <= w.index[m]
    BY <2>1
  <2> QED BY <1>m, <2>2 DEF WalkInvariant, Connected
<1>6. Path(graph, x, m)
  BY <1>4, <1>5, PathTransitive
<1> QED BY <1>3, <1>6, PathTransitive

\* No node is twice in an ordered sequence.
LEMMA OrderedInjective ==
    ASSUME NEW S, NEW index \in [S -> Nat], NEW s \in Seq(S), Ordered(index, s)
    PROVE  IsInjective(s)
<1>1. \A i, j \in 1 .. Len(s) : i < j <=> index[s[i]] < index[s[j]]
  BY OrderedPosition
<1>2. ASSUME NEW i \in 1 .. Len(s), NEW j \in 1 .. Len(s), s[i] = s[j] PROVE i = j
  <2>1. index[s[i]] \in Nat /\ index[s[j]] \in Nat /\ i \in Nat /\ j \in Nat
    OBVIOUS
  <2>2. ~ (i < j) /\ ~ (j < i)
    BY <1>1, <1>2, <2>1
  <2> QED BY <2>1, <2>2
<1>3. DOMAIN s = 1 .. Len(s)
  OBVIOUS
<1> QED BY <1>2, <1>3 DEF IsInjective

\* The test of the code, a node that depends on itself or more than one node, tells whether
\* a component is cyclic.
LEMMA MembersCyclic ==
    ASSUME NEW graph, IsGraph(graph), NEW S, NEW members \in Seq(DOMAIN graph), IsInjective(members),
           NEW finished \in SUBSET DOMAIN graph, Closed(graph, finished),
           ToSet(members) \cap finished = {},
           \A x \in ToSet(members) : ToSet(graph[x]) \subseteq finished \cup ToSet(members),
           \A x, y \in ToSet(members) : Path(graph, x, y),
           NEW m \in ToSet(members), NEW x \in ToSet(members)
    PROVE  m \in ToSet(graph[m]) \/ Len(members) > 1 <=> OnCircle(graph, x)
<1>1. ToSet(members) \subseteq DOMAIN graph /\ Len(members) \in Nat
  BY SetOfSequence
<1>2. \A y : y \in ToSet(members) <=> \E i \in 1 .. Len(members) : y = members[i]
  BY SetOfSequence
<1>3. CASE Len(members) > 1
  <2>1. 1 \in 1 .. Len(members) /\ 2 \in 1 .. Len(members)
    BY <1>1, <1>3
  <2>2. members[1] # members[2]
    <3>1. DOMAIN members = 1 .. Len(members)
      OBVIOUS
    <3> QED BY <2>1, <3>1 DEF IsInjective
  <2>3. members[1] \in ToSet(members) /\ members[2] \in ToSet(members)
    BY <1>2, <2>1
  <2>4. PICK y \in ToSet(members) : y # x
    BY <2>2, <2>3
  <2>5. Path(graph, x, y) /\ Path(graph, y, x)
    OBVIOUS
  <2>6. PICK p \in DOMAIN graph : Path(graph, y, p) /\ x \in ToSet(graph[p])
    BY <1>1, <2>4, <2>5, PathThrough
  <2>7. Path(graph, x, p)
    BY <2>5, <2>6, PathTransitive
  <2> QED BY <1>3, <2>6, <2>7 DEF OnCircle
<1>4. CASE ~ (Len(members) > 1)
  <2>1. x = m
    <3>1. PICK i \in 1 .. Len(members) : x = members[i]
      BY <1>2
    <3>2. PICK j \in 1 .. Len(members) : m = members[j]
      BY <1>2
    <3>3. i = j
      BY <1>1, <1>4
    <3> QED BY <3>1, <3>2, <3>3
  <2>2. ASSUME m \in ToSet(graph[m]) PROVE OnCircle(graph, x)
    <3>1. Path(graph, m, m) /\ m \in DOMAIN graph
      BY <1>1, PathReflexive
    <3> QED BY <2>1, <2>2, <3>1 DEF OnCircle
  <2>3. ASSUME OnCircle(graph, x) PROVE m \in ToSet(graph[m])
    <3>1. PICK p \in DOMAIN graph : Path(graph, m, p) /\ m \in ToSet(graph[p])
      BY <2>1, <2>3 DEF OnCircle
    <3> DEFINE C == finished \cup ToSet(members)
    <3>2. Closed(graph, C) /\ C \in SUBSET DOMAIN graph /\ m \in C
      BY <1>1 DEF Closed
    <3> HIDE DEF C
    <3>3. p \in C
      BY <3>1, <3>2, PathInside
    <3>4. p \notin finished
      BY <3>1 DEF Closed
    <3>5. p \in ToSet(members)
      BY <3>3, <3>4 DEF C
    <3>6. p = m
      <4>1. PICK i \in 1 .. Len(members) : p = members[i]
        BY <1>2, <3>5
      <4>2. PICK j \in 1 .. Len(members) : m = members[j]
        BY <1>2
      <4>3. i = j
        BY <1>1, <1>4
      <4> QED BY <4>1, <4>2, <4>3
    <3> QED BY <3>1, <3>6
  <2> QED BY <1>4, <2>2, <2>3
<1> QED BY <1>3, <1>4

\* What is popped is a component.
LEMMA PoppedComponent ==
    ASSUME NEW graph, IsGraph(graph), NEW roots, NEW w \in Walks(graph), WalkInvariant(w, roots, graph),
           NEW m, NEW depth, Innermost(w, m, depth), w.looked[m] = Len(graph[m]), w.low[m] = w.index[m],
           NEW before, NEW members, Parted(w, graph, m, before, members)
    PROVE  /\ Popped(graph, m, members) \in ComponentsOver(DOMAIN graph)
           /\ Component(Popped(graph, m, members), Finished(w), graph)
           /\ Popped(graph, m, members).modules = members
<1>1. members \in Seq(DOMAIN graph) /\ Ordered(w.index, members)
  BY DEF Parted
<1>2. w.index \in [DOMAIN graph -> Nat] /\ w.result \in Seq(ComponentsOver(DOMAIN graph))
  BY WalkTypes DEF Walks
<1>3. IsInjective(members)
  BY <1>1, <1>2, OrderedInjective
<1>4. Finished(w) \in SUBSET DOMAIN graph /\ Closed(graph, Finished(w))
  BY <1>2, FinishedClosed DEF WalkInvariant
<1>5. m \in ToSet(members)
  <2>1. m \in ToSet(w.stack) /\ m \in DOMAIN graph
    BY LastCall
  <2>2. w.index[m] \in Nat
    BY <1>2, <2>1
  <2> QED BY <2>1, <2>2 DEF Parted
<1>6. members # << >>
  <2>1. \E i \in 1 .. Len(members) : m = members[i]
    BY <1>1, <1>5, SetOfSequence
  <2>2. Len(members) # 0
    BY <2>1
  <2> QED BY <1>1, <2>2, EmptyLength
<1>7. ToSet(members) \cap Finished(w) = {}
  <2>1. ToSet(w.stack) \cap Finished(w) = {}
    BY DEF WalkInvariant, Placed
  <2>2. ToSet(members) \subseteq ToSet(w.stack)
    BY DEF Parted
  <2> QED BY <2>1, <2>2
<1>8. \A x \in ToSet(members) : ToSet(graph[x]) \subseteq Finished(w) \cup ToSet(members)
  BY MembersClosed
<1>9. \A x, y \in ToSet(members) : Path(graph, x, y)
  BY MembersConnected
<1> DEFINE cyclic == m \in ToSet(graph[m]) \/ Len(members) > 1
           component == [modules |-> members, cyclic |-> cyclic]
<1>10. ASSUME NEW x \in ToSet(members) PROVE cyclic = OnCircle(graph, x)
  <2> DEFINE finished == Finished(w)
  <2>1. /\ finished \in SUBSET DOMAIN graph /\ Closed(graph, finished)
        /\ ToSet(members) \cap finished = {}
        /\ \A y \in ToSet(members) : ToSet(graph[y]) \subseteq finished \cup ToSet(members)
    BY <1>4, <1>7, <1>8
  <2> HIDE DEF finished
  <2>2. m \in ToSet(graph[m]) \/ Len(members) > 1 <=> OnCircle(graph, x)
    BY <1>1, <1>3, <1>5, <1>9, <2>1, MembersCyclic
  <2>3. OnCircle(graph, x) \in BOOLEAN /\ cyclic \in BOOLEAN
    BY DEF OnCircle
  <2> QED BY <2>2, <2>3
<1>11. cyclic \in BOOLEAN
  OBVIOUS
<1>12. Popped(graph, m, members) = component
  BY DEF Popped
<1> HIDE DEF cyclic
<1>13. component \in ComponentsOver(DOMAIN graph) /\ component.modules = members /\ component.cyclic = cyclic
  BY <1>1, <1>11 DEF ComponentsOver
<1> HIDE DEF component
<1>14. Component(component, Finished(w), graph)
  BY <1>3, <1>6, <1>7, <1>8, <1>9, <1>10, <1>13 DEF Component
<1> QED BY <1>12, <1>13, <1>14

\* Leaving the root of a component keeps the invariant.
LEMMA PopKeeps ==
    ASSUME NEW graph, IsGraph(graph), NEW roots, NEW w \in Walks(graph), WalkInvariant(w, roots, graph),
           NEW m, NEW depth, Innermost(w, m, depth), w.looked[m] = Len(graph[m]), w.low[m] = w.index[m],
           NEW before, NEW members, Parted(w, graph, m, before, members),
           NEW e \in Walks(graph), Left(w, e, graph, m, depth), e.stack = before,
           e.result = Append(w.result, Popped(graph, m, members))
    PROVE  WalkInvariant(e, roots, graph)
<1>0. depth \in Nat /\ depth = Len(w.calls) /\ depth # 0
  BY DEF Innermost
<1>m. /\ m \in DOMAIN graph /\ m \in ToSet(w.calls) /\ m \in ToSet(w.stack)
      /\ \A c \in ToSet(w.calls) : c = m \/ w.index[c] < w.index[m]
  BY LastCall
<1>e. /\ e.next = w.next /\ e.index = w.index /\ e.passed = w.passed
      /\ ToSet(e.calls) = ToSet(w.calls) \ {m}
      /\ Len(e.calls) = depth - 1
      /\ \A k \in 1 .. depth - 1 : e.calls[k] = w.calls[k]
  BY DEF Left
<1>n. /\ ToSet(w.stack) \subseteq DOMAIN graph /\ ToSet(w.calls) \subseteq DOMAIN graph
      /\ w.index \in [DOMAIN graph -> Nat] /\ w.calls \in Seq(DOMAIN graph)
      /\ \A x \in DOMAIN graph : w.index[x] \in Nat /\ w.low[x] \in Nat /\ w.looked[x] \in Nat
  BY WalkTypes
<1>p. /\ \A x : x \in ToSet(before) <=> x \in ToSet(w.stack) /\ w.index[x] < w.index[m]
      /\ \A x : x \in ToSet(members) <=> x \in ToSet(w.stack) /\ w.index[m] <= w.index[x]
      /\ Ordered(w.index, before)
  BY DEF Parted
<1>b. ToSet(e.stack) = ToSet(before)
  OBVIOUS
<1>c. \A c \in ToSet(e.calls) : /\ c \in ToSet(w.calls) /\ c # m /\ w.index[c] < w.index[m]
                                /\ c \in ToSet(before)
  BY <1>e, <1>m, <1>p DEF WalkInvariant, Placed
<1>g. /\ Groups(e.result, graph)
      /\ Finished(e) = Finished(w) \cup ToSet(members)
  <2> DEFINE component == Popped(graph, m, members)
  <2>1. /\ component \in ComponentsOver(DOMAIN graph)
        /\ Component(component, Finished(w), graph)
        /\ component.modules = members
    BY PoppedComponent
  <2> HIDE DEF component
  <2>2. w.result \in Seq(ComponentsOver(DOMAIN graph)) /\ Groups(w.result, graph)
    BY DEF Walks, WalkInvariant, Grouped
  <2> DEFINE found == w.result
  <2>3. Component(component, Gathered(found), graph)
    BY <2>1 DEF Finished
  <2>4. e.result = Append(found, component)
    BY DEF component
  <2>5. Finished(w) = Gathered(found) /\ Finished(e) = Gathered(e.result)
    BY DEF Finished
  <2> HIDE DEF found
  <2>6. found \in Seq(ComponentsOver(DOMAIN graph)) /\ Groups(found, graph)
    BY <2>2 DEF found
  <2>7. /\ Groups(Append(found, component), graph)
        /\ Gathered(Append(found, component)) = Gathered(found) \cup ToSet(component.modules)
    BY <2>1, <2>3, <2>6, GroupsAppended
  <2> QED BY <2>1, <2>4, <2>5, <2>7
<1>1. Numbered(e, graph)
  BY LeftNumbered
<1>2. Followed(e, graph)
  BY LeftFollowed
<1>3. Placed(e, graph)
  <2>1. Ordered(e.index, e.calls)
    <3>2. Ordered(w.index, w.calls)
      BY DEF WalkInvariant, Placed
    <3> DEFINE n == depth - 1
    <3>3. Len(e.calls) = n /\ \A k \in 1 .. n : e.calls[k] = w.calls[k]
      BY <1>e
    <3>4. n \in Nat /\ n <= Len(w.calls)
      BY <1>0
    <3> HIDE DEF n
    <3> QED BY <1>e, <1>n, <3>2, <3>3, <3>4, OrderedPrefix
  <2>2. /\ \A x \in DOMAIN graph : w.index[x] # 0 <=> x \in ToSet(w.stack) \cup Finished(w)
        /\ ToSet(w.stack) \cap Finished(w) = {}
    BY DEF WalkInvariant, Placed
  <2>3. \A x \in ToSet(w.stack) : x \in ToSet(before) \/ x \in ToSet(members)
    <3>1. \A x \in ToSet(w.stack) : w.index[x] \in Nat /\ w.index[m] \in Nat
      BY <1>n, <1>m
    <3> QED BY <1>p, <3>1
  <2>4. \A x \in ToSet(before) : x \notin ToSet(members)
    <3>1. \A x \in ToSet(w.stack) : w.index[x] \in Nat /\ w.index[m] \in Nat
      BY <1>n, <1>m
    <3> QED BY <1>p, <3>1
  <2>5. \A x \in DOMAIN graph : e.index[x] # 0 <=> x \in ToSet(e.stack) \cup Finished(e)
    <3>1. ASSUME NEW x \in DOMAIN graph
          PROVE  x \in ToSet(w.stack) \cup Finished(w) <=> x \in ToSet(before) \cup (Finished(w) \cup ToSet(members))
      BY <1>p, <2>3
    <3> QED BY <1>e, <1>b, <1>g, <2>2, <3>1
  <2>6. ToSet(e.stack) \cap Finished(e) = {}
    BY <1>b, <1>g, <1>p, <2>2, <2>4
  <2>7. ToSet(e.calls) \subseteq ToSet(e.stack)
    BY <1>b, <1>c
  <2> QED BY <1>e, <1>p, <2>1, <2>5, <2>6, <2>7 DEF Placed
<1>4. Connected(e, graph)
  <2>1. ASSUME NEW c \in ToSet(e.calls), NEW s \in ToSet(e.stack), e.index[c] <= e.index[s] PROVE Path(graph, c, s)
    BY <1>e, <1>b, <1>c, <1>p, <2>1 DEF WalkInvariant, Connected
  <2>2. ASSUME NEW s \in ToSet(before)
        PROVE  \E c \in ToSet(e.calls) : w.index[c] <= w.index[s] /\ Path(graph, s, c)
    <3>1. PICK c \in ToSet(w.calls) : w.index[c] <= w.index[s] /\ Path(graph, s, c)
      BY <1>p DEF WalkInvariant, Connected
    <3>2. c # m
      <4>1. w.index[s] < w.index[m] /\ s \in DOMAIN graph
        BY <1>p, <1>n
      <4>2. w.index[s] \in Nat /\ w.index[m] \in Nat
        BY <4>1, <1>n, <1>m
      <4> QED BY <3>1, <4>1, <4>2
    <3> QED BY <1>e, <3>1, <3>2
  <2> QED BY <1>e, <1>b, <2>1, <2>2 DEF Connected
<1>l. \A c \in ToSet(e.calls) : e.low[c] = w.low[c]
  <2>1. SUFFICES ASSUME NEW c \in ToSet(e.calls) PROVE e.low[c] = w.low[c]
    OBVIOUS
  <2>2. c \in DOMAIN graph /\ c \in ToSet(w.calls) /\ w.index[c] < w.index[m]
    BY <1>c, <1>n
  <2>3. CASE ~ Caller(w, c, depth)
    BY <2>2, <2>3 DEF Left
  <2>4. CASE Caller(w, c, depth)
    <3>1. e.low[c] = Smaller(w.low[m], w.low[c])
      BY <2>2, <2>4 DEF Left
    <3>2. PICK t \in ToSet(w.stack) : w.index[t] = w.low[c] /\ w.index[t] <= w.index[c]
      BY <2>2 DEF WalkInvariant, LowsReached
    <3>3. w.low[c] \in Nat /\ w.index[c] \in Nat /\ w.index[m] \in Nat
      BY <2>2, <1>n, <1>m
    <3>4. w.low[c] < w.low[m]
      BY <2>2, <3>2, <3>3
    <3> QED BY <3>1, <3>3, <3>4 DEF Smaller
  <2> QED BY <2>3, <2>4
<1>5. LowsReached(e, graph)
  <2>1. SUFFICES ASSUME NEW c \in ToSet(e.calls)
                 PROVE  \E t \in ToSet(e.stack) : /\ e.index[t] = e.low[c] /\ e.index[t] <= e.index[c]
                                                  /\ Path(graph, c, t)
    BY DEF LowsReached
  <2>2. PICK t \in ToSet(w.stack) : w.index[t] = w.low[c] /\ w.index[t] <= w.index[c] /\ Path(graph, c, t)
    BY <1>c DEF WalkInvariant, LowsReached
  <2>3. t \in ToSet(before)
    <3>1. w.index[t] \in Nat /\ w.index[c] \in Nat /\ w.index[m] \in Nat /\ w.index[c] < w.index[m]
      BY <1>c, <1>n, <1>m
    <3>2. w.index[t] < w.index[m]
      BY <2>2, <3>1
    <3> QED BY <1>p, <3>2
  <2> QED BY <1>b, <1>e, <1>l, <2>2, <2>3
<1>6. LowsBound(e, graph)
  <2>1. SUFFICES ASSUME NEW c \in ToSet(e.calls), NEW s \in ToSet(e.stack), During(e, c, s),
                        NEW j \in 1 .. e.looked[s], graph[s][j] \in ToSet(e.stack)
                 PROVE  e.low[c] <= e.index[graph[s][j]]
    BY DEF LowsBound
  <2>2. /\ c \in ToSet(w.calls) /\ s \in ToSet(w.stack) /\ s \in DOMAIN graph /\ w.index[s] < w.index[m]
        /\ graph[s][j] \in ToSet(w.stack) /\ w.index[graph[s][j]] < w.index[m]
    BY <1>b, <1>c, <1>n, <1>p, <2>1
  <2>3. During(w, c, s)
    <3>1. w.index[c] <= w.index[s]
      BY <1>e, <2>1 DEF During
    <3>2. ASSUME NEW d \in ToSet(w.calls), w.index[c] < w.index[d] PROVE w.index[s] < w.index[d]
      <4>1. CASE d = m
        BY <2>2, <4>1
      <4>2. CASE d # m
        BY <1>e, <2>1, <3>2, <4>2 DEF During
      <4> QED BY <4>1, <4>2
    <3> QED BY <3>1, <3>2 DEF During
  <2>4. j \in 1 .. w.looked[s]
    <3>1. CASE ~ Caller(w, s, depth)
      BY <2>1, <2>2, <3>1 DEF Left
    <3>2. CASE Caller(w, s, depth)
      <4>1. graph[s][w.looked[s] + 1] = m
        BY <3>2, CallerFacts
      <4>2. w.index[m] \in Nat /\ w.looked[s] \in Nat
        BY <1>m, <1>n, <2>2
      <4>3. j # w.looked[s] + 1
        BY <2>2, <4>1, <4>2
      <4>4. j \in 1 .. w.looked[s] + 1
        BY <2>1, <2>2, <3>2 DEF Left
      <4> QED BY <4>2, <4>3, <4>4
    <3> QED BY <3>1, <3>2
  <2>5. w.low[c] <= w.index[graph[s][j]]
    BY <2>2, <2>3, <2>4 DEF WalkInvariant, LowsBound
  <2> QED BY <1>e, <1>l, <2>5
<1>7. Grouped(e, graph)
  BY <1>g DEF Grouped
<1>8. Rooted(e, roots, graph)
  BY <1>e DEF WalkInvariant, Rooted
<1> QED BY <1>1, <1>2, <1>3, <1>4, <1>5, <1>6, <1>7, <1>8 DEF WalkInvariant

-----------------------------------------------------------------------------
(* Every step goes on, so that Steps of them are enough                    *)

\* How many of its steps the visit of m has made: entering, each dependency, leaving
StepsOf(w, m) ==
    IF w.index[m] = 0 THEN 0 ELSE 1 + w.looked[m] + (IF m \in ToSet(w.calls) THEN 0 ELSE 1)

\* No visit goes back, and one goes on, or the next root is passed.
Forward(w, e, graph) ==
    /\ \A x \in DOMAIN graph : StepsOf(w, x) <= StepsOf(e, x)
    /\ \/ e.passed = w.passed + 1
       \/ e.passed = w.passed /\ \E x \in DOMAIN graph : StepsOf(w, x) < StepsOf(e, x)

\* The steps of a visit are counted by natural numbers.
LEMMA StepsOfNat ==
    ASSUME NEW graph, NEW w \in Walks(graph)
    PROVE  \A x \in DOMAIN graph : StepsOf(w, x) \in Nat
<1>1. \A x \in DOMAIN graph : w.looked[x] \in Nat
  BY WalkTypes
<1> QED BY <1>1 DEF StepsOf

\* Entering a node is a step of its visit.
LEMMA EnterForward ==
    ASSUME NEW graph, NEW roots, NEW w \in Walks(graph), WalkInvariant(w, roots, graph),
           NEW m \in DOMAIN graph, w.index[m] = 0
    PROVE  Forward(w, Enter(w, m), graph)
<1> DEFINE e == Enter(w, m)
<1>1. e \in Walks(graph) /\ Entered(w, e, m)
  BY EnterFields
<1> HIDE DEF e
<1>2. EnteredInto(w, e, m, graph)
  BY <1>1, EnteredFacts
<1>3. /\ \A x \in DOMAIN graph : x # m => e.index[x] = w.index[x]
      /\ e.looked = w.looked /\ ToSet(e.calls) = ToSet(w.calls) \cup {m}
      /\ e.index[m] = w.next + 1 /\ w.looked[m] = 0
  BY <1>2 DEF EnteredInto
<1>4. w.next \in Nat
  BY WalkTypes
<1>5. \A x \in DOMAIN graph : x # m => StepsOf(e, x) = StepsOf(w, x)
  BY <1>3 DEF StepsOf
<1>6. StepsOf(w, m) = 0 /\ StepsOf(e, m) = 1
  <2>1. e.index[m] # 0 /\ m \in ToSet(e.calls) /\ e.looked[m] = 0
    BY <1>3, <1>4
  <2> QED BY <2>1 DEF StepsOf
<1>7. \A x \in DOMAIN graph : StepsOf(w, x) \in Nat
  BY StepsOfNat
<1>8. \A x \in DOMAIN graph : StepsOf(w, x) <= StepsOf(e, x)
  BY <1>5, <1>6, <1>7
<1>9. e.passed = w.passed
  BY <1>1 DEF Entered
<1> QED BY <1>6, <1>8, <1>9 DEF Forward, e

\* Looking at a dependency is a step of a visit.
LEMMA BackForward ==
    ASSUME NEW graph, NEW roots, NEW w \in Walks(graph), WalkInvariant(w, roots, graph),
           NEW m \in DOMAIN graph, m \in ToSet(w.calls), NEW n \in DOMAIN graph
    PROVE  Forward(w, Look(Back(w, m, n), m), graph)
<1> DEFINE e == Look(Back(w, m, n), m)
<1>1. e \in Walks(graph) /\ Passed(w, e, graph, m, n)
  BY BackFields
<1> HIDE DEF e
<1>2. PassedInto(w, e, graph, m, n)
  BY <1>1, PassedFacts
<1>3. /\ e.index = w.index /\ e.calls = w.calls /\ e.passed = w.passed
      /\ e.looked[m] = w.looked[m] + 1
      /\ \A x \in DOMAIN graph : x # m => e.looked[x] = w.looked[x]
  BY <1>2 DEF PassedInto
<1>4. \A x \in DOMAIN graph : x # m => StepsOf(e, x) = StepsOf(w, x)
  BY <1>3 DEF StepsOf
<1>5. w.index[m] # 0
  BY DEF WalkInvariant, Placed
<1>6. StepsOf(w, m) = 1 + w.looked[m] + 0 /\ StepsOf(e, m) = 1 + (w.looked[m] + 1) + 0
  BY <1>3, <1>5 DEF StepsOf
<1>7. w.looked[m] \in Nat /\ \A x \in DOMAIN graph : StepsOf(w, x) \in Nat
  BY WalkTypes, StepsOfNat
<1>8. StepsOf(w, m) < StepsOf(e, m)
  BY <1>6, <1>7
<1>9. \A x \in DOMAIN graph : StepsOf(w, x) <= StepsOf(e, x)
  <2>1. ASSUME NEW x \in DOMAIN graph PROVE StepsOf(w, x) <= StepsOf(e, x)
    <3>1. CASE x = m
      BY <1>6, <1>7, <3>1
    <3>2. CASE x # m
      BY <1>4, <1>7, <3>2
    <3> QED BY <3>1, <3>2
  <2> QED BY <2>1
<1> QED BY <1>3, <1>8, <1>9 DEF Forward, e

\* Leaving a node is a step of its visit.
LEMMA LeftForward ==
    ASSUME NEW graph, IsGraph(graph), NEW roots, NEW w \in Walks(graph), WalkInvariant(w, roots, graph),
           NEW m, NEW depth, Innermost(w, m, depth),
           NEW e \in Walks(graph), Left(w, e, graph, m, depth)
    PROVE  Forward(w, e, graph)
<1>m. m \in DOMAIN graph /\ m \in ToSet(w.calls) /\ m \in ToSet(w.stack)
  BY LastCall
<1>1. /\ e.index = w.index /\ e.passed = w.passed
      /\ ToSet(e.calls) = ToSet(w.calls) \ {m}
      /\ \A x \in DOMAIN graph : ~ Caller(w, x, depth) => e.looked[x] = w.looked[x]
      /\ \A x \in DOMAIN graph : Caller(w, x, depth) => e.looked[x] = w.looked[x] + 1
  BY DEF Left
<1>2. \A x \in DOMAIN graph : StepsOf(w, x) \in Nat /\ w.looked[x] \in Nat
  BY WalkTypes, StepsOfNat
<1>3. w.index[m] # 0 /\ ~ Caller(w, m, depth)
  <2>1. ~ Caller(w, m, depth)
    BY CallerFacts
  <2> QED BY <1>m, <2>1 DEF WalkInvariant, Placed
<1>4. StepsOf(w, m) = 1 + w.looked[m] + 0 /\ StepsOf(e, m) = 1 + w.looked[m] + 1
  <2>1. e.looked[m] = w.looked[m] /\ m \notin ToSet(e.calls) /\ e.index[m] # 0
    BY <1>1, <1>3, <1>m
  <2> QED BY <1>3, <1>m, <2>1 DEF StepsOf
<1>5. w.looked[m] \in Nat
  BY <1>2, <1>m
<1>6. StepsOf(w, m) < StepsOf(e, m)
  BY <1>4, <1>5
<1>7. ASSUME NEW x \in DOMAIN graph PROVE StepsOf(w, x) <= StepsOf(e, x)
  <2>1. CASE x = m
    BY <1>4, <1>5, <2>1
  <2>2. CASE x # m
    <3>1. x \in ToSet(e.calls) <=> x \in ToSet(w.calls)
      BY <1>1, <2>2
    <3>2. CASE ~ Caller(w, x, depth)
      <4>1. StepsOf(e, x) = StepsOf(w, x)
        BY <1>1, <3>1, <3>2 DEF StepsOf
      <4> QED BY <1>2, <4>1
    <3>3. CASE Caller(w, x, depth)
      <4>1. e.looked[x] = w.looked[x] + 1 /\ w.looked[x] \in Nat /\ e.index[x] = w.index[x]
        BY <1>1, <1>2, <3>3
      <4> QED BY <3>1, <4>1 DEF StepsOf
    <3> QED BY <3>2, <3>3
  <2> QED BY <2>1, <2>2
<1> QED BY <1>1, <1>6, <1>7, <1>m DEF Forward

\* What a step of an unfinished walk comes to
Onward(w, e, roots, graph) == e \in Walks(graph) /\ WalkInvariant(e, roots, graph) /\ Forward(w, e, graph)

\* Leaving a node keeps the invariant and goes on.
LEMMA LeaveOnward ==
    ASSUME NEW graph, IsGraph(graph), NEW roots, NEW w \in Walks(graph), WalkInvariant(w, roots, graph),
           NEW m, NEW depth, Innermost(w, m, depth), w.looked[m] = Len(graph[m])
    PROVE  Onward(w, Leave(w, graph, m), roots, graph)
<1>1. CASE w.low[m] # w.index[m]
  <2> DEFINE e == Return(w, m)
  <2>1. /\ e \in Walks(graph)
        /\ Left(w, e, graph, m, depth)
        /\ e.stack = w.stack
        /\ e.result = w.result
    BY ReturnLeaves
  <2> HIDE DEF e
  <2>2. WalkInvariant(e, roots, graph)
    BY <1>1, <2>1, LeaveKeeps
  <2>3. Forward(w, e, graph)
    BY <2>1, LeftForward
  <2>4. Leave(w, graph, m) = e
    BY <1>1 DEF Leave, e
  <2> QED BY <2>1, <2>2, <2>3, <2>4 DEF Onward
<1>2. CASE w.low[m] = w.index[m]
  <2>m. m \in ToSet(w.stack)
    BY LastCall
  <2>1. PICK first \in 1 .. Len(w.stack) :
            Pop(w, graph, m) \in Walks(graph) /\ PoppedAt(w, Pop(w, graph, m), graph, m, first)
    BY <2>m, PopFields
  <2> DEFINE before == SubSeq(w.stack, 1, first - 1)
             members == SubSeq(w.stack, first, Len(w.stack))
             u == Pop(w, graph, m)
             e == Return(u, m)
  <2>2. Parted(w, graph, m, before, members)
    <3>1. m = w.stack[first]
      BY <2>1 DEF PoppedAt
    <3> QED BY <3>1, PartedStack
  <2>3. /\ u \in Walks(graph) /\ u.next = w.next /\ u.index = w.index /\ u.low = w.low
        /\ u.looked = w.looked /\ u.calls = w.calls /\ u.passed = w.passed
        /\ u.stack = before
    BY <2>1 DEF PoppedAt
  <2>4. u.result = Append(w.result, Popped(graph, m, members))
    BY <2>1 DEF PoppedAt
  <2>5. Leave(w, graph, m) = e
    BY <1>2 DEF Leave
  <2> HIDE DEF before, members, u
  <2>6. /\ e \in Walks(graph)
        /\ Left(w, e, graph, m, depth)
        /\ e.stack = u.stack
        /\ e.result = u.result
    BY <2>3, ReturnLeaves
  <2> HIDE DEF e
  <2>7. e.stack = before /\ e.result = Append(w.result, Popped(graph, m, members))
    BY <2>3, <2>4, <2>6
  <2>8. WalkInvariant(e, roots, graph)
    BY <1>2, <2>2, <2>6, <2>7, PopKeeps
  <2>9. Forward(w, e, graph)
    BY <2>6, LeftForward
  <2> QED BY <2>5, <2>6, <2>8, <2>9 DEF Onward
<1> QED BY <1>1, <1>2

\* Passing a root that has been entered keeps the invariant and goes on.
LEMMA PassKeeps ==
    ASSUME NEW graph, IsGraph(graph), NEW roots \in Seq(DOMAIN graph),
           NEW w \in Walks(graph), WalkInvariant(w, roots, graph),
           w.passed < Len(roots), w.index[roots[w.passed + 1]] # 0
    PROVE  Onward(w, [w EXCEPT !.passed = @ + 1], roots, graph)
<1> DEFINE e == [w EXCEPT !.passed = @ + 1]
           n == w.passed + 1
<1>0. w.passed \in Nat /\ Len(roots) \in Nat
  BY WalkTypes
<1>1. e = [w EXCEPT !.passed = n] /\ n \in Nat
  BY <1>0 DEF Walks
<1> HIDE DEF n
<1>2. /\ e \in Walks(graph)
      /\ e.passed = n
      /\ e.next = w.next /\ e.index = w.index /\ e.low = w.low /\ e.looked = w.looked
      /\ e.stack = w.stack /\ e.calls = w.calls /\ e.result = w.result
  BY <1>1 DEF Walks
<1> HIDE DEF e
<1>3. Rooted(e, roots, graph)
  <2>1. n <= Len(roots)
    BY <1>0 DEF n
  <2>2. ASSUME NEW i \in 1 .. n PROVE w.index[roots[i]] # 0
    <3>1. i \in 1 .. w.passed \/ i = w.passed + 1
      BY <1>0 DEF n
    <3> QED BY <3>1 DEF WalkInvariant, Rooted
  <2>3. \A m \in DOMAIN graph : w.index[m] # 0 => \E r \in ToSet(roots) : Path(graph, r, m)
    BY DEF WalkInvariant, Rooted
  <2> QED BY <1>2, <2>1, <2>2, <2>3 DEF Rooted
<1>4. Numbered(e, graph)
  BY <1>2 DEF WalkInvariant, Numbered
<1>5. Placed(e, graph)
  <2>1. Finished(e) = Finished(w)
    BY <1>2 DEF Finished
  <2> QED BY <1>2, <2>1 DEF WalkInvariant, Placed
<1>6. Followed(e, graph)
  BY <1>2 DEF WalkInvariant, Followed
<1>7. Connected(e, graph)
  BY <1>2 DEF WalkInvariant, Connected
<1>8. LowsReached(e, graph)
  BY <1>2 DEF WalkInvariant, LowsReached
<1>9. LowsBound(e, graph)
  <2>1. \A c, s : During(e, c, s) <=> During(w, c, s)
    BY <1>2 DEF During
  <2> QED BY <1>2, <2>1 DEF WalkInvariant, LowsBound
<1>10. Grouped(e, graph)
  BY <1>2 DEF WalkInvariant, Grouped
<1>11. WalkInvariant(e, roots, graph)
  BY <1>2, <1>3, <1>4, <1>5, <1>6, <1>7, <1>8, <1>9, <1>10 DEF WalkInvariant
<1>12. Forward(w, e, graph)
  <2>1. \A x \in DOMAIN graph : StepsOf(w, x) = StepsOf(e, x) /\ StepsOf(w, x) \in Nat
    BY <1>2, StepsOfNat DEF StepsOf
  <2>2. e.passed = w.passed + 1
    BY <1>2 DEF n
  <2> QED BY <2>1, <2>2 DEF Forward
<1> QED BY <1>2, <1>11, <1>12 DEF Onward, e

\* There is something left to do.
Unfinished(w, roots) == w.calls # << >> \/ w.passed < Len(roots)

\* Every step of an unfinished walk keeps the invariant and goes on.
LEMMA AdvanceOnward ==
    ASSUME NEW graph, IsGraph(graph), NEW roots \in Seq(DOMAIN graph),
           NEW w \in Walks(graph), WalkInvariant(w, roots, graph), Unfinished(w, roots)
    PROVE  Onward(w, Advance(w, roots, graph), roots, graph)
<1>1. CASE w.calls # << >>
  <2> DEFINE depth == Len(w.calls)
             m == w.calls[depth]
             i == w.looked[m]
             n == graph[m][i + 1]
  <2>1. Innermost(w, m, depth)
    <3>1. w.calls \in Seq(DOMAIN graph) /\ depth \in Nat
      BY WalkTypes
    <3>2. depth # 0
      BY <1>1, <3>1, EmptyLength
    <3> QED BY <3>1, <3>2 DEF Innermost
  <2>2. Advance(w, roots, graph) = IF i < Len(graph[m]) THEN Follow(w, m, n) ELSE Leave(w, graph, m)
    BY <1>1 DEF Advance, Last
  <2> HIDE DEF depth, m, i, n
  <2>3. m \in DOMAIN graph /\ m \in ToSet(w.calls)
    BY <2>1, LastCall
  <2>4. i \in Nat /\ Len(graph[m]) \in Nat /\ i <= Len(graph[m]) /\ i = w.looked[m]
    BY <2>3, WalkTypes DEF i, IsGraph, WalkInvariant, Numbered
  <2>5. CASE i < Len(graph[m])
    <3>1. NextOf(w, graph, m, n, i)
      BY <2>4, <2>5 DEF NextOf, n
    <3>2. n \in DOMAIN graph
      <4>1. i + 1 \in 1 .. Len(graph[m])
        BY <2>4, <2>5
      <4> QED BY <2>3, <4>1 DEF n, IsGraph
    <3>3. CASE w.index[n] = 0
      <4>1. CallsTo(w, graph, n)
        <5>1. ASSUME NEW k \in 1 .. Len(w.calls), k = Len(w.calls)
              PROVE  /\ w.looked[w.calls[k]] < Len(graph[w.calls[k]])
                     /\ graph[w.calls[k]][w.looked[w.calls[k]] + 1] = n
          <6>1. w.calls[k] = m
            BY <5>1 DEF m, depth
          <6> QED BY <6>1, <2>4, <2>5 DEF n
        <5> QED BY <5>1 DEF CallsTo
      <4>2. WalkInvariant(Enter(w, n), roots, graph)
        BY <1>1, <3>2, <3>3, <4>1, EnterKeeps
      <4>3. Forward(w, Enter(w, n), graph)
        BY <3>2, <3>3, EnterForward
      <4>4. Advance(w, roots, graph) = Enter(w, n)
        BY <2>2, <2>5, <3>3 DEF Follow
      <4>5. Enter(w, n) \in Walks(graph)
        BY <3>2, EnterFields
      <4> QED BY <4>2, <4>3, <4>4, <4>5 DEF Onward
    <3>4. CASE w.index[n] # 0
      <4>1. WalkInvariant(Look(Back(w, m, n), m), roots, graph)
        BY <2>1, <3>1, <3>4, BackKeeps
      <4>2. Forward(w, Look(Back(w, m, n), m), graph)
        BY <2>3, <3>2, BackForward
      <4>3. Advance(w, roots, graph) = Look(Back(w, m, n), m)
        BY <2>2, <2>5, <3>4 DEF Follow
      <4>4. Look(Back(w, m, n), m) \in Walks(graph)
        BY <2>3, <3>2, BackFields
      <4> QED BY <4>1, <4>2, <4>3, <4>4 DEF Onward
    <3> QED BY <3>3, <3>4
  <2>6. CASE ~ (i < Len(graph[m]))
    <3>1. w.looked[m] = Len(graph[m])
      BY <2>4, <2>6
    <3>2. Onward(w, Leave(w, graph, m), roots, graph)
      BY <2>1, <3>1, LeaveOnward
    <3> QED BY <2>2, <2>6, <3>2
  <2> QED BY <2>5, <2>6
<1>2. CASE w.calls = << >>
  <2> DEFINE root == roots[w.passed + 1]
  <2>1. w.passed < Len(roots) /\ w.passed \in Nat /\ Len(roots) \in Nat
    BY <1>2, WalkTypes DEF Unfinished
  <2>2. w.passed + 1 \in 1 .. Len(roots)
    BY <2>1
  <2>3. root \in DOMAIN graph /\ root \in ToSet(roots)
    BY <2>2, SetOfSequence
  <2>4. Advance(w, roots, graph) = IF w.index[root] = 0 THEN Enter(w, root) ELSE [w EXCEPT !.passed = @ + 1]
    BY <1>2, <2>1 DEF Advance
  <2>5. CASE w.index[root] = 0
    <3> HIDE DEF root
    <3>1. CallsTo(w, graph, root)
      <4>1. Len(w.calls) = 0
        BY <1>2
      <4> QED BY <4>1 DEF CallsTo
    <3>2. WalkInvariant(Enter(w, root), roots, graph)
      BY <2>3, <2>5, <3>1, EnterKeeps
    <3>3. Forward(w, Enter(w, root), graph)
      BY <2>3, <2>5, EnterForward
    <3>4. Enter(w, root) \in Walks(graph)
      BY <2>3, EnterFields
    <3> QED BY <2>4, <2>5, <3>2, <3>3, <3>4 DEF Onward
  <2>6. CASE w.index[root] # 0
    <3>1. Onward(w, [w EXCEPT !.passed = @ + 1], roots, graph)
      BY <2>1, <2>6, PassKeeps
    <3> QED BY <2>4, <2>6, <3>1
  <2> QED BY <2>5, <2>6
<1> QED BY <1>1, <1>2

\* A finished walk stays as it is.
LEMMA AdvanceEnds ==
    ASSUME NEW graph, NEW roots, NEW w, ~ Unfinished(w, roots)
    PROVE  Advance(w, roots, graph) = w
BY DEF Advance, Unfinished

\* A walk starts with the invariant.
LEMMA StartKeeps ==
    ASSUME NEW graph, NEW roots \in Seq(DOMAIN graph)
    PROVE  Start(graph) \in Walks(graph) /\ WalkInvariant(Start(graph), roots, graph)
<1> DEFINE w == Start(graph)
<1>1. /\ w.next = 0 /\ w.passed = 0 /\ w.stack = << >> /\ w.calls = << >> /\ w.result = << >>
      /\ w.index = [m \in DOMAIN graph |-> 0]
      /\ w.low = [m \in DOMAIN graph |-> 0]
      /\ w.looked = [m \in DOMAIN graph |-> 0]
      /\ w \in Walks(graph)
  BY DEF Start, Walks
<1> HIDE DEF w
<1>2. ToSet(w.stack) = {} /\ ToSet(w.calls) = {} /\ Finished(w) = {}
  BY <1>1 DEF ToSet, Finished, Gathered
<1>3. \A m \in DOMAIN graph : w.index[m] = 0 /\ w.looked[m] = 0
  BY <1>1
<1>4. Numbered(w, graph)
  <2>1. \A m \in DOMAIN graph : w.looked[m] <= Len(graph[m])
    BY <1>3
  <2> QED BY <1>1, <1>3, <2>1 DEF Numbered
<1>5. Placed(w, graph)
  BY <1>1, <1>2, <1>3 DEF Placed, Ordered
<1>6. Followed(w, graph)
  BY <1>1, <1>3 DEF Followed
<1>7. Connected(w, graph) /\ LowsReached(w, graph) /\ LowsBound(w, graph)
  BY <1>2 DEF Connected, LowsReached, LowsBound
<1>8. Grouped(w, graph)
  BY <1>1 DEF Grouped, Groups
<1>9. Rooted(w, roots, graph)
  BY <1>1, <1>3 DEF Rooted
<1> QED BY <1>1, <1>4, <1>5, <1>6, <1>7, <1>8, <1>9 DEF WalkInvariant, w

\* The steps that there are to make, but for the roots
Items(graph) == UNION {{m} \X (0 .. Len(graph[m]) + 1) : m \in DOMAIN graph}

\* They are finitely many.
LEMMA ItemsFinite ==
    ASSUME NEW graph, IsGraph(graph)
    PROVE  /\ IsFiniteSet(Items(graph))
           /\ \A p : p \in Items(graph) <=>
                  \E m \in DOMAIN graph : \E j \in 0 .. Len(graph[m]) + 1 : p = <<m, j>>
<1> DEFINE f == [m \in DOMAIN graph |-> {m} \X (0 .. Len(graph[m]) + 1)]
           T == {{m} \X (0 .. Len(graph[m]) + 1) : m \in DOMAIN graph}
<1>1. f \in Surjection(DOMAIN graph, T)
  BY DEF Surjection
<1>2. IsFiniteSet(T)
  <2> HIDE DEF f, T
  <2> QED BY <1>1, FS_Surjection DEF IsGraph
<1>3. ASSUME NEW S \in T PROVE IsFiniteSet(S)
  <2>1. PICK m \in DOMAIN graph : S = {m} \X (0 .. Len(graph[m]) + 1)
    OBVIOUS
  <2>2. 0 \in Int /\ Len(graph[m]) + 1 \in Int
    BY DEF IsGraph
  <2> DEFINE n == Len(graph[m]) + 1
             J == 0 .. n
             M == {m}
  <2>3. IsFiniteSet(J)
    <3> HIDE DEF n
    <3> QED BY <2>2, FS_Interval DEF n
  <2>4. IsFiniteSet(M)
    BY FS_Singleton
  <2> HIDE DEF J, M
  <2>5. IsFiniteSet(M \X J)
    BY <2>3, <2>4, FS_Product
  <2> QED BY <2>1, <2>5 DEF J, M
<1>4. Items(graph) = UNION T
  BY DEF Items
<1>5. IsFiniteSet(UNION T)
  <2> HIDE DEF T
  <2> QED BY <1>2, <1>3, FS_UNION
<1>6. ASSUME NEW p
      PROVE  p \in Items(graph) <=> \E m \in DOMAIN graph : \E j \in 0 .. Len(graph[m]) + 1 : p = <<m, j>>
  <2>1. p \in Items(graph) <=> \E m \in DOMAIN graph : p \in {m} \X (0 .. Len(graph[m]) + 1)
    BY DEF Items
  <2>2. \A m : p \in {m} \X (0 .. Len(graph[m]) + 1) <=> \E j \in 0 .. Len(graph[m]) + 1 : p = <<m, j>>
    OBVIOUS
  <2> QED BY <2>1, <2>2
<1> QED BY <1>4, <1>5, <1>6

\* The steps of Items that a walk has made.
Made(w, graph) == {p \in Items(graph) : p[2] < StepsOf(w, p[1])}

\* How many steps have been made
Measure(w, graph) == Cardinality(Made(w, graph)) + w.passed

\* A visit makes no more steps than it has.
LEMMA StepsBound ==
    ASSUME NEW graph, IsGraph(graph), NEW roots, NEW w \in Walks(graph), WalkInvariant(w, roots, graph)
    PROVE  \A x \in DOMAIN graph : /\ StepsOf(w, x) \in Nat /\ Len(graph[x]) \in Nat
                                   /\ StepsOf(w, x) <= Len(graph[x]) + 2
                                   /\ x \in ToSet(w.calls) => StepsOf(w, x) <= Len(graph[x]) + 1
<1>1. \A x \in DOMAIN graph : w.looked[x] \in Nat /\ w.looked[x] <= Len(graph[x])
  BY WalkTypes DEF WalkInvariant, Numbered
<1>2. \A x \in DOMAIN graph : Len(graph[x]) \in Nat
  BY DEF IsGraph
<1> QED BY <1>1, <1>2 DEF StepsOf

\* Every step of a walk is one more.
LEMMA MeasureGrows ==
    ASSUME NEW graph, IsGraph(graph), NEW roots, NEW w \in Walks(graph), WalkInvariant(w, roots, graph),
           NEW e \in Walks(graph), WalkInvariant(e, roots, graph), Forward(w, e, graph)
    PROVE  /\ Measure(w, graph) \in Nat /\ Measure(e, graph) \in Nat
           /\ Measure(w, graph) < Measure(e, graph)
<1>1. /\ IsFiniteSet(Items(graph))
      /\ \A p : p \in Items(graph) <=>
                  \E m \in DOMAIN graph : \E j \in 0 .. Len(graph[m]) + 1 : p = <<m, j>>
  BY ItemsFinite
<1>2. /\ IsFiniteSet(Made(w, graph)) /\ IsFiniteSet(Made(e, graph))
      /\ Cardinality(Made(w, graph)) \in Nat /\ Cardinality(Made(e, graph)) \in Nat
  <2>1. Made(w, graph) \in SUBSET Items(graph) /\ Made(e, graph) \in SUBSET Items(graph)
    BY DEF Made
  <2> QED BY <1>1, <2>1, FS_Subset, FS_CardinalityType
<1>3. \A x \in DOMAIN graph : /\ StepsOf(w, x) \in Nat /\ StepsOf(e, x) \in Nat /\ Len(graph[x]) \in Nat
                              /\ StepsOf(w, x) <= StepsOf(e, x)
                              /\ StepsOf(e, x) <= Len(graph[x]) + 2
  BY StepsBound DEF Forward
<1>4. Made(w, graph) \subseteq Made(e, graph)
  <2>1. SUFFICES ASSUME NEW p \in Made(w, graph) PROVE p \in Made(e, graph)
    OBVIOUS
  <2>m. PICK m \in DOMAIN graph : \E j \in 0 .. Len(graph[m]) + 1 : p = <<m, j>>
    BY <1>1 DEF Made
  <2>2. PICK j \in 0 .. Len(graph[m]) + 1 : p = <<m, j>>
    BY <2>m
  <2>3. p \in Items(graph) /\ j < StepsOf(w, m)
    BY <2>2 DEF Made
  <2>4. j < StepsOf(e, m)
    BY <1>3, <2>3
  <2> QED BY <2>2, <2>3, <2>4 DEF Made
<1>5. w.passed \in Nat /\ e.passed \in Nat
  BY WalkTypes
<1>6. Cardinality(Made(w, graph)) <= Cardinality(Made(e, graph))
  BY <1>2, <1>4, FS_Subset
<1>7. CASE e.passed = w.passed + 1
  BY <1>2, <1>5, <1>6, <1>7 DEF Measure
<1>8. CASE e.passed = w.passed /\ \E x \in DOMAIN graph : StepsOf(w, x) < StepsOf(e, x)
  <2>1. PICK x \in DOMAIN graph : StepsOf(w, x) < StepsOf(e, x)
    BY <1>8
  <2> DEFINE j == StepsOf(w, x)
             p == <<x, j>>
  <2>2. j \in 0 .. Len(graph[x]) + 1
    BY <1>3, <2>1
  <2>3. p \in Items(graph)
    BY <1>1, <2>2
  <2>4. p \in Made(e, graph) /\ p \notin Made(w, graph)
    <3>1. p[1] = x /\ p[2] = j
      OBVIOUS
    <3>2. j < StepsOf(e, x) /\ ~ (j < StepsOf(w, x))
      BY <1>3, <2>1
    <3> HIDE DEF p, j
    <3> QED BY <2>3, <3>1, <3>2 DEF Made
  <2>5. Made(w, graph) # Made(e, graph)
    BY <2>4
  <2>6. Cardinality(Made(w, graph)) # Cardinality(Made(e, graph))
    BY <1>2, <1>4, <2>5, FS_Subset
  <2> QED BY <1>2, <1>5, <1>6, <1>8, <2>6 DEF Measure
<1> QED BY <1>2, <1>5, <1>7, <1>8 DEF Forward, Measure

\* A walk that has made all the steps is finished.
LEMMA MeasureBound ==
    ASSUME NEW graph, IsGraph(graph), NEW roots \in Seq(DOMAIN graph),
           NEW w \in Walks(graph), WalkInvariant(w, roots, graph)
    PROVE  Measure(w, graph) >= Steps(roots, graph) => ~ Unfinished(w, roots)
<1>1. /\ IsFiniteSet(Items(graph))
      /\ \A p : p \in Items(graph) <=>
                  \E m \in DOMAIN graph : \E j \in 0 .. Len(graph[m]) + 1 : p = <<m, j>>
  BY ItemsFinite
<1>2. Made(w, graph) \in SUBSET Items(graph)
  BY DEF Made
<1>3. /\ Cardinality(Made(w, graph)) \in Nat /\ Cardinality(Items(graph)) \in Nat
      /\ Cardinality(Made(w, graph)) <= Cardinality(Items(graph))
      /\ Cardinality(Made(w, graph)) = Cardinality(Items(graph)) => Made(w, graph) = Items(graph)
  BY <1>1, <1>2, FS_Subset, FS_CardinalityType
<1>4. w.passed \in Nat /\ Len(roots) \in Nat /\ w.passed <= Len(roots)
  BY WalkTypes DEF WalkInvariant, Rooted
<1>5. Steps(roots, graph) = Cardinality(Items(graph)) + Len(roots)
  BY DEF Steps, Items
<1>6. SUFFICES ASSUME Measure(w, graph) >= Steps(roots, graph) PROVE ~ Unfinished(w, roots)
  OBVIOUS
<1>7. Made(w, graph) = Items(graph) /\ w.passed = Len(roots)
  BY <1>3, <1>4, <1>5, <1>6 DEF Measure
<1>8. w.calls = << >>
  <2>1. SUFFICES ASSUME w.calls # << >> PROVE FALSE
    OBVIOUS
  <2>2. PICK m \in DOMAIN graph : m \in ToSet(w.calls)
    <3>1. w.calls \in Seq(DOMAIN graph)
      BY WalkTypes
    <3>2. 1 \in 1 .. Len(w.calls)
      BY <2>1, <3>1
    <3> QED BY <3>2, WalkTypes
  <2> DEFINE j == Len(graph[m]) + 1
             p == <<m, j>>
  <2>3. j \in 0 .. Len(graph[m]) + 1 /\ j \in Nat
    BY DEF IsGraph
  <2>4. p \in Items(graph)
    BY <1>1, <2>3
  <2>5. p[1] = m /\ p[2] = j
    OBVIOUS
  <2>6. StepsOf(w, m) <= j /\ StepsOf(w, m) \in Nat
    BY <2>2, StepsBound
  <2> HIDE DEF p, j
  <2>7. p[2] < StepsOf(w, p[1])
    BY <1>7, <2>4 DEF Made
  <2> QED BY <2>3, <2>5, <2>6, <2>7
<1> QED BY <1>4, <1>7, <1>8 DEF Unfinished

\* f[n] is what n steps of F make of a.
IsIteration(f, S, F, a, N) == f \in [0 .. N -> S] /\ f[0] = a /\ \A n \in 1 .. N : f[n] = F[f[n - 1]]

\* Any number of steps can be made.
LEMMA IterationExists ==
    ASSUME NEW S, NEW F \in [S -> S], NEW a \in S, NEW N \in Nat
    PROVE  \E f : IsIteration(f, S, F, a, N)
<1> DEFINE Reached(n) == \E f \in [0 .. n -> S] : f[0] = a /\ \A i \in 1 .. n : f[i] = F[f[i - 1]]
           C == {n \in Nat : Reached(n)}
<1>1. 0 \in C
  <2> DEFINE f == [i \in 0 .. 0 |-> a]
  <2>1. f \in [0 .. 0 -> S] /\ f[0] = a /\ \A i \in 1 .. 0 : f[i] = F[f[i - 1]]
    OBVIOUS
  <2> HIDE DEF f
  <2> QED BY <2>1
<1>2. ASSUME NEW n \in Nat, n \in C PROVE n + 1 \in C
  <2>1. PICK f \in [0 .. n -> S] : f[0] = a /\ \A i \in 1 .. n : f[i] = F[f[i - 1]]
    BY <1>2
  <2> DEFINE g == [i \in 0 .. n + 1 |-> IF i = n + 1 THEN F[f[n]] ELSE f[i]]
  <2>2. \A i \in 0 .. n : i \in 0 .. n + 1 /\ i # n + 1 /\ g[i] = f[i]
    OBVIOUS
  <2>3. g[n + 1] = F[f[n]] /\ f[n] \in S
    OBVIOUS
  <2>4. g \in [0 .. n + 1 -> S]
    <3>1. ASSUME NEW i \in 0 .. n + 1 PROVE (IF i = n + 1 THEN F[f[n]] ELSE f[i]) \in S
      <4>1. i = n + 1 \/ i \in 0 .. n
        OBVIOUS
      <4> QED BY <2>3, <4>1
    <3> QED BY <3>1
  <2> HIDE DEF g
  <2>5. ASSUME NEW i \in 1 .. n + 1 PROVE g[i] = F[g[i - 1]]
    <3>1. CASE i = n + 1
      <4>1. i - 1 = n /\ n \in 0 .. n
        BY <3>1
      <4> QED BY <2>2, <2>3, <3>1, <4>1
    <3>2. CASE i # n + 1
      <4>1. i \in 1 .. n /\ i \in 0 .. n /\ i - 1 \in 0 .. n
        BY <3>2
      <4> QED BY <2>1, <2>2, <4>1
    <3> QED BY <3>1, <3>2
  <2>6. g[0] = a
    BY <2>1, <2>2
  <2>7. Reached(n + 1)
    BY <2>4, <2>5, <2>6
  <2> QED BY <2>7
<1>3. C = Nat
  <2>1. C \in SUBSET Nat
    OBVIOUS
  <2> HIDE DEF C
  <2> QED BY <1>1, <1>2, <2>1, Counting
<1>4. Reached(N)
  BY <1>3
<1> QED BY <1>4 DEF IsIteration

\* f[n] is what step n of F makes of f[n - 1].
IsStepping(f, S, F, a, N) ==
    f \in [0 .. N -> S] /\ f[0] = a /\ \A n \in 1 .. N : f[n] = F[<<n, f[n - 1]>>]

\* The steps of an iteration may differ from each other.
LEMMA StepsExist ==
    ASSUME NEW S, NEW F \in [Nat \X S -> S], NEW a \in S, NEW N \in Nat
    PROVE  \E f : IsStepping(f, S, F, a, N)
<1> DEFINE P == Nat \X S
           G == [q \in P |-> <<q[1] + 1, F[<<q[1] + 1, q[2]>>]>>]
           b == <<0, a>>
<1>1. G \in [P -> P]
  OBVIOUS
<1>2. b \in P
  OBVIOUS
<1>3. \A n \in Nat, s \in S : G[<<n, s>>] = <<n + 1, F[<<n + 1, s>>]>>
  OBVIOUS
<1>4. \A q \in P : q[1] \in Nat /\ q[2] \in S /\ q = <<q[1], q[2]>>
  OBVIOUS
<1>b. b[1] = 0 /\ b[2] = a
  OBVIOUS
<1> HIDE DEF P, G, b
<1>g. PICK g : IsIteration(g, P, G, b, N)
  BY <1>1, <1>2, IterationExists
<1>5. g \in [0 .. N -> P] /\ g[0] = b /\ \A n \in 1 .. N : g[n] = G[g[n - 1]]
  BY <1>g DEF IsIteration
<1> DEFINE C == {n \in Nat : n <= N => g[n][1] = n}
<1>6. 0 \in C
  BY <1>5, <1>b
<1>7. ASSUME NEW n \in Nat, n \in C PROVE n + 1 \in C
  <2>1. SUFFICES ASSUME n + 1 <= N PROVE g[n + 1][1] = n + 1
    OBVIOUS
  <2>2. g[n][1] = n /\ n \in 0 .. N /\ n + 1 \in 1 .. N /\ (n + 1) - 1 = n
    BY <1>7, <2>1
  <2>3. g[n] \in P /\ g[n + 1] = G[g[n]]
    BY <1>5, <2>2
  <2>4. g[n] = <<n, g[n][2]>> /\ g[n][2] \in S
    BY <1>4, <2>2, <2>3
  <2> DEFINE s == g[n][2]
  <2>5. g[n] = <<n, s>> /\ s \in S
    BY <2>4
  <2> HIDE DEF s
  <2>6. g[n + 1] = <<n + 1, F[<<n + 1, s>>]>>
    BY <1>3, <2>3, <2>5
  <2> QED BY <2>6
<1>8. C = Nat
  <2>1. C \in SUBSET Nat
    OBVIOUS
  <2> HIDE DEF C
  <2> QED BY <1>6, <1>7, <2>1, Counting
<1> DEFINE f == [n \in 0 .. N |-> g[n][2]]
<1>9. f \in [0 .. N -> S]
  BY <1>4, <1>5
<1>10. f[0] = a
  BY <1>5, <1>b
<1>11. ASSUME NEW n \in 1 .. N PROVE f[n] = F[<<n, f[n - 1]>>]
  <2>1. n \in 0 .. N /\ n - 1 \in 0 .. N /\ n - 1 \in Nat /\ (n - 1) + 1 = n
    OBVIOUS
  <2>2. f[n] = g[n][2] /\ f[n - 1] = g[n - 1][2]
    BY <2>1
  <2>3. g[n - 1][1] = n - 1
    BY <1>8, <2>1
  <2>4. g[n - 1] \in P /\ g[n] = G[g[n - 1]]
    BY <1>5, <2>1
  <2>5. g[n - 1] = <<n - 1, g[n - 1][2]>> /\ g[n - 1][2] \in S
    BY <1>4, <2>3, <2>4
  <2>6. g[n] = <<n, F[<<n, g[n - 1][2]>>]>>
    BY <1>3, <2>1, <2>4, <2>5
  <2> HIDE DEF f
  <2> QED BY <2>2, <2>6
<1> HIDE DEF f
<1> QED BY <1>9, <1>10, <1>11 DEF IsStepping

\* f is the function that Components computes by, up to N.
IsWalk(f, roots, graph, N) ==
    f = [n \in 0 .. N |-> IF n = 0 THEN Start(graph)
                          ELSE LET walk == f[n - 1] IN Advance(walk, roots, graph)]

\* The recursion of Components has a solution.
LEMMA WalkExists ==
    ASSUME NEW graph, IsGraph(graph), NEW roots \in Seq(DOMAIN graph), NEW N \in Nat
    PROVE  \E f : IsWalk(f, roots, graph, N)
<1> DEFINE S == {w \in Walks(graph) : WalkInvariant(w, roots, graph)}
           F == [w \in S |-> Advance(w, roots, graph)]
           a == Start(graph)
<1>1. ASSUME NEW w \in S PROVE Advance(w, roots, graph) \in S
  <2>1. CASE Unfinished(w, roots)
    BY <2>1, AdvanceOnward DEF Onward
  <2>2. CASE ~ Unfinished(w, roots)
    BY <2>2, AdvanceEnds
  <2> QED BY <2>1, <2>2
<1>2. F \in [S -> S]
  BY <1>1
<1>3. a \in S
  BY StartKeeps
<1>4. \A w \in S : F[w] = Advance(w, roots, graph)
  OBVIOUS
<1> HIDE DEF S, F, a
<1>f. PICK f : IsIteration(f, S, F, a, N)
  BY <1>2, <1>3, IterationExists
<1>5. f \in [0 .. N -> S] /\ f[0] = a /\ \A n \in 1 .. N : f[n] = F[f[n - 1]]
  BY <1>f DEF IsIteration
<1>6. ASSUME NEW n \in 0 .. N
      PROVE  f[n] = IF n = 0 THEN a ELSE Advance(f[n - 1], roots, graph)
  <2>1. CASE n = 0
    BY <1>5, <2>1
  <2>2. CASE n # 0
    <3>1. n \in 1 .. N /\ n - 1 \in 0 .. N
      BY <2>2
    <3> QED BY <1>4, <1>5, <2>2, <3>1
  <2> QED BY <2>1, <2>2
<1>7. f = [n \in 0 .. N |-> f[n]]
  BY <1>5
<1>8. IsWalk(f, roots, graph, N)
  BY <1>6, <1>7 DEF IsWalk, a
<1> QED BY <1>8

\* Along the walk the invariant holds, and n steps have been made after n.
LEMMA WalkSteps ==
    ASSUME NEW graph, IsGraph(graph), NEW roots \in Seq(DOMAIN graph), NEW N \in Nat,
           NEW f, IsWalk(f, roots, graph, N)
    PROVE  \A n \in Nat : n <= N => /\ f[n] \in Walks(graph) /\ WalkInvariant(f[n], roots, graph)
                                    /\ Unfinished(f[n], roots) => Measure(f[n], graph) >= n
<1> DEFINE Good(n) == /\ f[n] \in Walks(graph) /\ WalkInvariant(f[n], roots, graph)
                      /\ Unfinished(f[n], roots) => Measure(f[n], graph) >= n
           C == {n \in Nat : n <= N => Good(n)}
<1>1. 0 \in C
  <2>1. f[0] = Start(graph)
    BY DEF IsWalk
  <2>2. f[0] \in Walks(graph) /\ WalkInvariant(f[0], roots, graph)
    BY <2>1, StartKeeps
  <2>3. Measure(f[0], graph) >= 0
    <3> DEFINE w == f[0]
    <3>1. w \in Walks(graph)
      BY <2>2
    <3> HIDE DEF w
    <3>2. w.passed \in Nat
      BY <3>1, WalkTypes
    <3>3. Cardinality(Made(w, graph)) \in Nat
      <4>1. IsFiniteSet(Items(graph)) /\ Made(w, graph) \in SUBSET Items(graph)
        BY ItemsFinite DEF Made
      <4> QED BY <4>1, FS_Subset, FS_CardinalityType
    <3>4. Measure(w, graph) >= 0
      BY <3>2, <3>3 DEF Measure
    <3> QED BY <3>4 DEF w
  <2> QED BY <2>2, <2>3
<1>2. ASSUME NEW n \in Nat, n \in C PROVE n + 1 \in C
  <2>1. SUFFICES ASSUME n + 1 <= N PROVE Good(n + 1)
    OBVIOUS
  <2>2. Good(n)
    BY <1>2, <2>1
  <2>3. f[n + 1] = Advance(f[n], roots, graph)
    <3>1. n + 1 \in 0 .. N /\ n + 1 # 0 /\ (n + 1) - 1 = n
      BY <2>1
    <3> QED BY <3>1 DEF IsWalk
  <2> DEFINE w == f[n]
             e == f[n + 1]
  <2>4. /\ w \in Walks(graph) /\ WalkInvariant(w, roots, graph)
        /\ Unfinished(w, roots) => Measure(w, graph) >= n
        /\ e = Advance(w, roots, graph)
    BY <2>2, <2>3
  <2> HIDE DEF w, e
  <2>5. CASE Unfinished(w, roots)
    <3>1. e \in Walks(graph) /\ WalkInvariant(e, roots, graph) /\ Forward(w, e, graph)
      BY <2>4, <2>5, AdvanceOnward DEF Onward
    <3>2. /\ Measure(w, graph) \in Nat /\ Measure(e, graph) \in Nat
          /\ Measure(w, graph) < Measure(e, graph)
      BY <2>4, <3>1, MeasureGrows
    <3>3. Measure(e, graph) >= n + 1
      BY <2>4, <2>5, <3>2
    <3> QED BY <3>1, <3>3 DEF e
  <2>6. CASE ~ Unfinished(w, roots)
    <3>1. e = w
      BY <2>4, <2>6, AdvanceEnds
    <3> QED BY <2>4, <2>6, <3>1 DEF e
  <2> QED BY <2>5, <2>6
<1>3. C = Nat
  <2>1. C \in SUBSET Nat
    OBVIOUS
  <2> HIDE DEF C
  <2> QED BY <1>1, <1>2, <2>1, Counting
<1>4. ASSUME NEW n \in Nat, n <= N PROVE Good(n)
  BY <1>3, <1>4
<1> QED BY <1>4

\* The components found are those of the nodes that the roots reach, dependencies first.
THEOREM ComponentsFound ==
    ASSUME NEW graph, IsGraph(graph), NEW roots \in Seq(DOMAIN graph)
    PROVE  /\ Components(roots, graph) \in Seq(ComponentsOver(DOMAIN graph))
           /\ Groups(Components(roots, graph), graph)
           /\ Gathered(Components(roots, graph))
                  = {m \in DOMAIN graph : \E r \in ToSet(roots) : Path(graph, r, m)}
<1> DEFINE N == Steps(roots, graph)
           f == CHOOSE g : IsWalk(g, roots, graph, N)
           w == f[N]
<1>1. N \in Nat
  <2>1. Cardinality(Items(graph)) \in Nat
    BY ItemsFinite, FS_CardinalityType
  <2> QED BY <2>1 DEF Steps, Items
<1>2. IsWalk(f, roots, graph, N)
  <2> HIDE DEF N
  <2> QED BY <1>1, WalkExists
<1>3. Components(roots, graph) = w.result
  BY DEF Components, IsWalk
<1> HIDE DEF f
<1>4. /\ w \in Walks(graph) /\ WalkInvariant(w, roots, graph)
      /\ Unfinished(w, roots) => Measure(w, graph) >= N
  <2> HIDE DEF N
  <2>1. N <= N
    BY <1>1
  <2> QED BY <1>1, <1>2, <2>1, WalkSteps
<1> HIDE DEF w
<1>5. ~ Unfinished(w, roots)
  BY <1>4, MeasureBound
<1>6. w.calls = << >> /\ w.passed >= Len(roots)
  <2>1. w.passed \in Nat /\ Len(roots) \in Nat
    BY <1>4, WalkTypes
  <2> QED BY <1>5, <2>1 DEF Unfinished
<1>7. ToSet(w.calls) = {} /\ ToSet(w.stack) = {}
  <2>1. ToSet(w.calls) = {}
    BY <1>6 DEF ToSet
  <2> QED BY <1>4, <2>1 DEF WalkInvariant, Connected
<1>8. \A m \in DOMAIN graph : w.index[m] # 0 <=> m \in Finished(w)
  BY <1>4, <1>7 DEF WalkInvariant, Placed
<1>9. w.result \in Seq(ComponentsOver(DOMAIN graph)) /\ Groups(w.result, graph)
  BY <1>4 DEF Walks, WalkInvariant, Grouped
<1>10. Finished(w) \in SUBSET DOMAIN graph /\ Closed(graph, Finished(w))
  BY <1>4, <1>9, FinishedClosed DEF WalkInvariant
<1>11. ToSet(roots) \subseteq Finished(w)
  <2>1. \A i \in 1 .. Len(roots) : i \in 1 .. w.passed
    <3>1. w.passed \in Nat /\ Len(roots) \in Nat
      BY <1>4, WalkTypes
    <3> QED BY <1>6, <3>1
  <2>2. \A i \in 1 .. Len(roots) : w.index[roots[i]] # 0 /\ roots[i] \in DOMAIN graph
    BY <1>4, <2>1 DEF WalkInvariant, Rooted
  <2>3. \A r \in ToSet(roots) : \E i \in 1 .. Len(roots) : r = roots[i]
    BY SetOfSequence
  <2> QED BY <1>8, <2>2, <2>3
<1>12. \A m \in Finished(w) : \E r \in ToSet(roots) : Path(graph, r, m)
  BY <1>4, <1>8, <1>10 DEF WalkInvariant, Rooted
<1>13. ASSUME NEW m \in DOMAIN graph, NEW r \in ToSet(roots), Path(graph, r, m) PROVE m \in Finished(w)
  BY <1>10, <1>11, <1>13, PathInside
<1>14. Finished(w) = {m \in DOMAIN graph : \E r \in ToSet(roots) : Path(graph, r, m)}
  BY <1>10, <1>12, <1>13
<1> QED BY <1>3, <1>9, <1>14 DEF Finished

-----------------------------------------------------------------------------
(* The components of a graph                                               *)

\* The nodes of the first k components
FirstOf(found, k) == UNION {ToSet(found[l].modules) : l \in 1 .. k}

\* The first components depend on themselves only.
LEMMA FirstClosed ==
    ASSUME NEW graph, NEW found \in Seq(ComponentsOver(DOMAIN graph)), Groups(found, graph),
           NEW k \in Nat, k <= Len(found)
    PROVE  FirstOf(found, k) \in SUBSET DOMAIN graph /\ Closed(graph, FirstOf(found, k))
<1>0. Len(found) \in Nat /\ \A l \in 1 .. k : l \in 1 .. Len(found)
  OBVIOUS
<1>1. FirstOf(found, k) \in SUBSET DOMAIN graph
  <2>1. \A l \in 1 .. k : found[l].modules \in Seq(DOMAIN graph)
    <3>1. \A l \in 1 .. k : found[l] \in ComponentsOver(DOMAIN graph)
      BY <1>0
    <3> QED BY <3>1 DEF ComponentsOver
  <2>2. \A l \in 1 .. k : ToSet(found[l].modules) \subseteq DOMAIN graph
    BY <2>1, SetOfSequence
  <2> QED BY <2>2 DEF FirstOf
<1>2. ASSUME NEW x \in FirstOf(found, k) PROVE ToSet(graph[x]) \subseteq FirstOf(found, k)
  <2>1. PICK l \in 1 .. k : x \in ToSet(found[l].modules)
    BY DEF FirstOf
  <2>2. ToSet(graph[x]) \subseteq UNION {ToSet(found[j].modules) : j \in 1 .. l}
    BY <1>0, <2>1 DEF Groups
  <2>3. \A j \in 1 .. l : j \in 1 .. k
    OBVIOUS
  <2> QED BY <2>2, <2>3 DEF FirstOf
<1> QED BY <1>1, <1>2 DEF Closed

\* No node is in two components.
LEMMA ComponentUnique ==
    ASSUME NEW graph, NEW found \in Seq(ComponentsOver(DOMAIN graph)), Groups(found, graph),
           NEW i \in 1 .. Len(found), NEW j \in 1 .. Len(found), NEW m,
           m \in ToSet(found[i].modules), m \in ToSet(found[j].modules)
    PROVE  i = j
<1>1. i \in Nat /\ j \in Nat
  OBVIOUS
<1>2. ~ (i < j)
  <2>1. SUFFICES ASSUME i < j PROVE FALSE
    OBVIOUS
  <2>2. i \in 1 .. j - 1
    BY <1>1, <2>1
  <2> QED BY <2>2 DEF Groups
<1>3. ~ (j < i)
  <2>1. SUFFICES ASSUME j < i PROVE FALSE
    OBVIOUS
  <2>2. j \in 1 .. i - 1
    BY <1>1, <2>1
  <2> QED BY <2>2 DEF Groups
<1> QED BY <1>1, <1>2, <1>3

\* What a node reaches is not in a later component.
LEMMA ComponentsOrdered ==
    ASSUME NEW graph, NEW found \in Seq(ComponentsOver(DOMAIN graph)), Groups(found, graph),
           NEW i \in 1 .. Len(found), NEW j \in 1 .. Len(found), NEW m, NEW n,
           m \in ToSet(found[i].modules), n \in ToSet(found[j].modules), Path(graph, m, n)
    PROVE  j <= i
<1>1. i \in Nat /\ j \in Nat /\ i <= Len(found) /\ i \in 1 .. i
  OBVIOUS
<1>2. FirstOf(found, i) \in SUBSET DOMAIN graph /\ Closed(graph, FirstOf(found, i))
  BY <1>1, FirstClosed
<1>3. m \in FirstOf(found, i)
  BY <1>1 DEF FirstOf
<1>4. n \in FirstOf(found, i)
  BY <1>2, <1>3, PathInside
<1>5. PICK l \in 1 .. i : n \in ToSet(found[l].modules)
  BY <1>4 DEF FirstOf
<1>6. l \in 1 .. Len(found) /\ l <= i
  OBVIOUS
<1>7. l = j
  BY <1>5, <1>6, ComponentUnique
<1> QED BY <1>6, <1>7

\* The modules are finitely many.
LEMMA ModulesFinite == IsFiniteSet(Modules) /\ Paths \in Seq(Modules)
<1>1. Paths \in Seq(Modules)
  BY PathsAssumption
<1> DEFINE n == Len(Paths)
           D == 1 .. n
           f == [i \in D |-> Paths[i]]
<1>2. n \in Nat
  BY <1>1
<1>3. IsFiniteSet(D)
  <2>1. 1 \in Int /\ n \in Int
    BY <1>2
  <2> HIDE DEF n
  <2> QED BY <2>1, FS_Interval
<1>4. f \in Surjection(D, Modules)
  <2>1. \A m : m \in Modules <=> \E i \in 1 .. Len(Paths) : m = Paths[i]
    BY <1>1, SetOfSequence DEF Modules
  <2> QED BY <2>1 DEF Surjection
<1>5. IsFiniteSet(Modules)
  <2> HIDE DEF f, D
  <2> QED BY <1>3, <1>4, FS_Surjection
<1> QED BY <1>1, <1>5

\* Every node is in one component, components are the nodes that reach each other, no node
\* reaches a later component, and a component is cyclic when its nodes are on a cycle.
LEMMA ComponentsDivide ==
    ASSUME NEW graph, IsGraph(graph), NEW roots \in Seq(DOMAIN graph), ToSet(roots) = DOMAIN graph,
           NEW components, components = Components(roots, graph)
    PROVE  /\ \A m \in DOMAIN graph :
                  Cardinality({i \in DOMAIN components : m \in ToSet(components[i].modules)}) = 1
           /\ \A i, j \in DOMAIN components :
                  \A m \in ToSet(components[i].modules), n \in ToSet(components[j].modules) :
                      /\ Reaches(graph, m, n) => j <= i
                      /\ (m # n /\ i = j) => Reaches(graph, m, n)
           /\ \A i \in DOMAIN components : \A m \in ToSet(components[i].modules) :
                  components[i].cyclic = OnCycle(graph, m)
<1>1. /\ components \in Seq(ComponentsOver(DOMAIN graph))
      /\ Groups(components, graph)
      /\ Gathered(components) = {m \in DOMAIN graph : \E r \in ToSet(roots) : Path(graph, r, m)}
  BY ComponentsFound
<1>2. DOMAIN components = 1 .. Len(components) /\ Len(components) \in Nat
  BY <1>1
<1>3. Gathered(components) = DOMAIN graph
  BY <1>1, PathReflexive
<1>4. \A i \in DOMAIN components : ToSet(components[i].modules) \subseteq DOMAIN graph
  BY <1>3 DEF Gathered
<1>5. ASSUME NEW m \in DOMAIN graph
      PROVE  Cardinality({i \in DOMAIN components : m \in ToSet(components[i].modules)}) = 1
  <2>1. PICK i \in DOMAIN components : m \in ToSet(components[i].modules)
    BY <1>3 DEF Gathered
  <2>2. \A j \in DOMAIN components : m \in ToSet(components[j].modules) => j = i
    BY <1>1, <1>2, <2>1, ComponentUnique
  <2>3. {j \in DOMAIN components : m \in ToSet(components[j].modules)} = {i}
    BY <2>1, <2>2
  <2> QED BY <2>3, FS_Singleton
<1>6. ASSUME NEW i \in DOMAIN components, NEW j \in DOMAIN components,
             NEW m \in ToSet(components[i].modules), NEW n \in ToSet(components[j].modules)
      PROVE  /\ Reaches(graph, m, n) => j <= i
             /\ (m # n /\ i = j) => Reaches(graph, m, n)
  <2>1. m \in DOMAIN graph /\ n \in DOMAIN graph
    BY <1>4
  <2>2. Reaches(graph, m, n) <=> \E p \in DOMAIN graph : Path(graph, m, p) /\ n \in ToSet(graph[p])
    BY <2>1, ReachesByPath
  <2>3. ASSUME Reaches(graph, m, n) PROVE j <= i
    <3>1. PICK p \in DOMAIN graph : Path(graph, m, p) /\ n \in ToSet(graph[p])
      BY <2>2, <2>3
    <3>2. Path(graph, m, n)
      BY <3>1, PathEdge, PathTransitive
    <3> QED BY <1>1, <1>2, <3>2, ComponentsOrdered
  <2>4. ASSUME m # n, i = j PROVE Reaches(graph, m, n)
    <3>1. Path(graph, m, n)
      BY <1>1, <1>2, <2>4 DEF Groups
    <3> QED BY <2>1, <2>2, <2>4, <3>1, PathThrough
  <2> QED BY <2>3, <2>4
<1>7. ASSUME NEW i \in DOMAIN components, NEW m \in ToSet(components[i].modules)
      PROVE  components[i].cyclic = OnCycle(graph, m)
  <2>1. components[i].cyclic = OnCircle(graph, m)
    BY <1>1, <1>2 DEF Groups
  <2>2. m \in DOMAIN graph
    BY <1>4
  <2>3. OnCycle(graph, m) <=> OnCircle(graph, m)
    BY <2>2, ReachesByPath DEF OnCycle, OnCircle
  <2>4. OnCycle(graph, m) \in BOOLEAN /\ OnCircle(graph, m) \in BOOLEAN
    BY DEF OnCycle, OnCircle, Reaches
  <2> QED BY <2>1, <2>3, <2>4
<1> QED BY <1>5, <1>6, <1>7

\* A component is what m reaches and is reached from.
LEMMA ComponentIs ==
    ASSUME NEW graph, NEW found \in Seq(ComponentsOver(DOMAIN graph)), Groups(found, graph),
           NEW k \in 1 .. Len(found), NEW m \in ToSet(found[k].modules), NEW n
    PROVE  n \in ToSet(found[k].modules) <=> Path(graph, m, n) /\ Path(graph, n, m)
<1>0. Len(found) \in Nat /\ k \in Nat /\ k <= Len(found) /\ k \in 1 .. k
  OBVIOUS
<1>1. ASSUME n \in ToSet(found[k].modules) PROVE Path(graph, m, n) /\ Path(graph, n, m)
  BY <1>1 DEF Groups
<1>2. ASSUME Path(graph, m, n), Path(graph, n, m) PROVE n \in ToSet(found[k].modules)
  <2>1. FirstOf(found, k) \in SUBSET DOMAIN graph /\ Closed(graph, FirstOf(found, k))
    BY <1>0, FirstClosed
  <2>2. m \in FirstOf(found, k)
    BY <1>0 DEF FirstOf
  <2>3. n \in FirstOf(found, k)
    BY <1>2, <2>1, <2>2, PathInside
  <2>4. PICK l \in 1 .. k : n \in ToSet(found[l].modules)
    BY <2>3 DEF FirstOf
  <2>5. l \in 1 .. Len(found) /\ l <= k
    BY <1>0
  <2>6. k <= l
    BY <1>2, <2>4, <2>5, ComponentsOrdered
  <2>7. l = k
    BY <1>0, <2>5, <2>6
  <2> QED BY <2>4, <2>7
<1> QED BY <1>1, <1>2

\* A node that what it depends on reaches is on a circle.
LEMMA BackEdgeCircle ==
    ASSUME NEW graph, IsGraph(graph), NEW m \in DOMAIN graph, NEW d \in ToSet(graph[m]),
           Path(graph, d, m)
    PROVE  OnCircle(graph, m)
<1>1. d \in DOMAIN graph
  BY Successors
<1>2. CASE d = m
  BY <1>2, PathReflexive DEF OnCircle
<1>3. CASE d # m
  <2>1. PICK q \in DOMAIN graph : Path(graph, d, q) /\ m \in ToSet(graph[q])
    BY <1>1, <1>3, PathThrough
  <2>2. Path(graph, m, q)
    BY <2>1, PathEdge, PathTransitive
  <2> QED BY <2>1, <2>2 DEF OnCircle
<1> QED BY <1>2, <1>3

\* A component is cyclic, or it is one module that does not import itself.
LEMMA CyclicOrAlone ==
    ASSUME NEW graph, IsGraph(graph), NEW found \in Seq(ComponentsOver(DOMAIN graph)),
           Groups(found, graph), NEW k \in 1 .. Len(found)
    PROVE  \/ found[k].cyclic
           \/ /\ Len(found[k].modules) = 1
              /\ \A m \in ToSet(found[k].modules) : m \notin ToSet(graph[m])
<1> DEFINE modules == found[k].modules
<1>1. SUFFICES ASSUME ~ found[k].cyclic
               PROVE  Len(modules) = 1 /\ \A m \in ToSet(modules) : m \notin ToSet(graph[m])
  OBVIOUS
<1>2. modules \in Seq(DOMAIN graph) /\ modules # << >> /\ IsInjective(modules)
  <2>1. found[k] \in ComponentsOver(DOMAIN graph)
    OBVIOUS
  <2> QED BY <2>1 DEF Groups, ComponentsOver
<1>3. \A m \in ToSet(modules) : m \in DOMAIN graph
  BY <1>2 DEF ToSet
<1>4. \A m, n \in ToSet(modules) : Path(graph, m, n)
  BY DEF Groups
<1>5. \A m \in ToSet(modules) : ~ OnCircle(graph, m)
  BY <1>1 DEF Groups
<1> HIDE DEF modules
<1>6. ASSUME NEW m \in ToSet(modules) PROVE m \notin ToSet(graph[m])
  <2>1. Path(graph, m, m)
    BY <1>4
  <2> QED BY <1>3, <1>5, <2>1 DEF OnCircle
<1>7. Len(modules) = 1
  <2>1. SUFFICES ASSUME Len(modules) # 1 PROVE FALSE
    OBVIOUS
  <2>2. Len(modules) \in Nat /\ Len(modules) # 0 /\ DOMAIN modules = 1 .. Len(modules)
    BY <1>2, EmptyLength
  <2>3. 1 \in DOMAIN modules /\ 2 \in DOMAIN modules
    BY <2>1, <2>2
  <2>4. modules[1] \in ToSet(modules) /\ modules[2] \in ToSet(modules) /\ modules[1] # modules[2]
    BY <1>2, <2>3 DEF ToSet, IsInjective
  <2>5. PICK q \in DOMAIN graph : Path(graph, modules[1], q) /\ modules[2] \in ToSet(graph[q])
    BY <1>3, <1>4, <2>4, PathThrough
  <2>6. PICK s \in DOMAIN graph : Path(graph, modules[2], s) /\ modules[1] \in ToSet(graph[s])
    BY <1>3, <1>4, <2>4, PathThrough
  <2>7. Path(graph, modules[1], s)
    BY <1>4, <2>4, <2>6, PathTransitive
  <2>8. OnCircle(graph, modules[1])
    BY <2>6, <2>7 DEF OnCircle
  <2> QED BY <1>5, <2>4, <2>8
<1> QED BY <1>6, <1>7 DEF modules

=============================================================================

----------------------------- MODULE ModuleGraph -----------------------------
(***************************************************************************)
(* The traversals of a graph of source modules: internal/modulegraph, and  *)
(* the orders that checking and initialization take from it.  A graph maps *)
(* each node to the sequence of the nodes it depends on, as it is written. *)
(***************************************************************************)
EXTENDS Naturals, Sequences, SequencesExt

CONSTANT Paths    \* the modules, sorted by their paths

Modules == ToSet(Paths)

ASSUME PathsAssumption == Paths \in Seq(Modules) /\ IsInjective(Paths)

\* The elements of s that are in S, in the order of s
Among(s, S) ==
    LET Chosen[n \in 0 .. Len(s)] ==
            IF n = 0 THEN << >>
            ELSE IF s[n] \in S THEN Append(Chosen[n - 1], s[n]) ELSE Chosen[n - 1]
    IN  Chosen[Len(s)]

Sorted(modules) == Among(Paths, modules)

-----------------------------------------------------------------------------
(* What the traversals are to find *)

\* Everything that depends on a member of targets, directly or not.
Dependents(graph, targets) ==
    LET Wider[n \in 0 .. Cardinality(DOMAIN graph)] ==
            IF n = 0 THEN targets
            ELSE Wider[n - 1] \cup {m \in DOMAIN graph : ToSet(graph[m]) \cap Wider[n - 1] # {}}
    IN  Wider[Cardinality(DOMAIN graph)]

\* A path of one or more edges from m to n
Reaches(graph, m, n) == m \in Dependents(graph, {p \in DOMAIN graph : n \in ToSet(graph[p])})

OnCycle(graph, m) == Reaches(graph, m, m)

-----------------------------------------------------------------------------
(* Components of modulegraph: Tarjan's algorithm.  A walk holds, besides   *)
(* the maps and the stack of the code, the calls of visit that have not    *)
(* returned, outermost first, the number of dependencies each module's     *)
(* call has looked at, and the number of roots that have been passed.      *)

Start(graph) ==
    LET zero == [m \in DOMAIN graph |-> 0]
    IN  [next |-> 0, index |-> zero, low |-> zero, looked |-> zero,
         stack |-> << >>, calls |-> << >>, result |-> << >>, passed |-> 0]

\* visit(m), up to its loop
Enter(walk, m) ==
    [walk EXCEPT !.next = @ + 1, !.index[m] = walk.next + 1, !.low[m] = walk.next + 1,
                 !.stack = Append(@, m), !.calls = Append(@, m)]

Lower(walk, m, index) == [walk EXCEPT !.low[m] = IF index < @ THEN index ELSE @]

Look(walk, m) == [walk EXCEPT !.looked[m] = @ + 1]

\* Mutated: a module met on the stack is not taken for a way back.
BackForgetful(walk, m, n) == walk

\* dependency n of m has been visited before
Back(walk, m, n) == IF n \in ToSet(walk.stack) THEN Lower(walk, m, walk.index[n]) ELSE walk

Follow(walk, m, n) ==
    IF walk.index[n] = 0 THEN Enter(walk, n) ELSE Look(Back(walk, m, n), m)

\* m is the root of its component, which ends the stack.
Pop(walk, graph, m) ==
    LET first == CHOOSE i \in DOMAIN walk.stack : walk.stack[i] = m
        members == SubSeq(walk.stack, first, Len(walk.stack))
    IN  [walk EXCEPT
            !.stack = SubSeq(@, 1, first - 1),
            !.result = Append(@, [modules |-> members,
                                  cyclic  |-> m \in ToSet(graph[m]) \/ Len(members) > 1])]

\* visit(m) returns, to the loop of the module that called it or to that of the roots.
Return(walk, m) ==
    LET returned == [walk EXCEPT !.calls = Front(@)]
    IN  IF returned.calls = << >> THEN returned
        ELSE LET caller == Last(returned.calls)
             IN  Look(Lower(returned, caller, walk.low[m]), caller)

Leave(walk, graph, m) ==
    Return(IF walk.low[m] = walk.index[m] THEN Pop(walk, graph, m) ELSE walk, m)

Advance(walk, roots, graph) ==
    IF walk.calls # << >> THEN
        LET m == Last(walk.calls)
        IN  IF walk.looked[m] < Len(graph[m]) THEN Follow(walk, m, graph[m][walk.looked[m] + 1])
            ELSE Leave(walk, graph, m)
    ELSE IF walk.passed < Len(roots) THEN
        LET root == roots[walk.passed + 1]
        IN  IF walk.index[root] = 0 THEN Enter(walk, root) ELSE [walk EXCEPT !.passed = @ + 1]
    ELSE walk

\* Every module is entered and left once, every dependency looked at once.
Steps(roots, graph) ==
    Cardinality(UNION {{m} \X (0 .. Len(graph[m]) + 1) : m \in DOMAIN graph}) + Len(roots)

\* Groups of mutually reachable nodes, dependencies first
Components(roots, graph) ==
    LET Walk[n \in 0 .. Steps(roots, graph)] ==
            IF n = 0 THEN Start(graph)
            ELSE LET walk == Walk[n - 1] IN Advance(walk, roots, graph)
    IN  Walk[Steps(roots, graph)].result
=============================================================================

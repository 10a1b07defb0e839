----------------------- MODULE IncrementalAnalysisProofs -----------------------
(***************************************************************************)
(* Whatever sequence of edits, changes of the declaration file and         *)
(* analyses has been made, an analysis that checks the affected modules    *)
(* again answers what an analysis of everything would, while no text       *)
(* declares a name that a declaration file gives (AnswersAreSame), and     *)
(* what is remembered is complete (StatesAreFull).                         *)
(***************************************************************************)
EXTENDS IncrementalAnalysisProperties, InitializationPlanProofs

-----------------------------------------------------------------------------
(* The order in which modules are checked again                            *)

\* What is left to do, and the states of the walk
Visitings == [module : Modules, visited : BOOLEAN]

Orders == [seen : SUBSET Modules, ordered : Seq(Modules), left : Seq(Visitings)]

\* The module of entry i of what is left, and whether the entry is the end of its visit
LeftAt(w, i) == w.left[i].module

EndAt(w, i) == w.left[i].visited

\* u has, from position K + 1 on, what w has left from position i on.
Remains(w, u, i, K) ==
    /\ Len(u.left) = Len(w.left) - i + 1 + K
    /\ \A j \in i .. Len(w.left) : LeftAt(u, K + j - i + 1) = LeftAt(w, j)
                                   /\ EndAt(u, K + j - i + 1) = EndAt(w, j)

\* The visit of the module at the head ends.
VisitEnds(w, u) ==
    /\ u.seen = w.seen /\ u.ordered = Append(w.ordered, LeftAt(w, 1)) /\ Remains(w, u, 2, 0)

\* The module at the head is not visited again.
VisitSkipped(w, u) == u.seen = w.seen /\ u.ordered = w.ordered /\ Remains(w, u, 2, 0)

\* The module at the head is visited, its K dependencies before the end of its visit.
VisitStarts(w, u, graph, K) ==
    /\ u.seen = w.seen \cup {LeftAt(w, 1)} /\ u.ordered = w.ordered
    /\ K \in Nat /\ K <= Len(graph[LeftAt(w, 1)])
    /\ \A i \in 1 .. K : ~ EndAt(u, i) /\ LeftAt(u, i) \in ToSet(graph[LeftAt(w, 1)])
    /\ \A d \in ToSet(graph[LeftAt(w, 1)]) : \E i \in 1 .. K : LeftAt(u, i) = d
    /\ LeftAt(u, K + 1) = LeftAt(w, 1) /\ EndAt(u, K + 1)
    /\ Remains(w, u, 2, K + 1)

\* What is left of a walk
LEMMA LeftEntries ==
    ASSUME NEW w \in Orders
    PROVE  /\ w.seen \in SUBSET Modules /\ w.ordered \in Seq(Modules) /\ w.left \in Seq(Visitings)
           /\ Len(w.left) \in Nat
           /\ \A i \in 1 .. Len(w.left) : /\ w.left[i] \in Visitings
                                          /\ LeftAt(w, i) \in Modules
                                          /\ EndAt(w, i) \in BOOLEAN
<1>1. w.seen \in SUBSET Modules /\ w.ordered \in Seq(Modules) /\ w.left \in Seq(Visitings)
  BY DEF Orders
<1>2. Len(w.left) \in Nat /\ \A i \in 1 .. Len(w.left) : w.left[i] \in Visitings
  BY <1>1
<1>3. \A v \in Visitings : v.module \in Modules /\ v.visited \in BOOLEAN
  BY DEF Visitings
<1> QED BY <1>1, <1>2, <1>3 DEF LeftAt, EndAt

\* A walk with nothing left but its tail
LEMMA TailRemains ==
    ASSUME NEW w \in Orders, w.left # << >>
    PROVE  /\ Len(w.left) \in Nat /\ Len(w.left) # 0
           /\ Head(w.left) = w.left[1]
           /\ Tail(w.left) \in Seq(Visitings)
           /\ Len(Tail(w.left)) = Len(w.left) - 1
           /\ \A j \in 1 .. Len(w.left) - 1 : Tail(w.left)[j] = w.left[j + 1]
<1> DEFINE left == w.left
<1>1. left \in Seq(Visitings) /\ left # << >>
  BY LeftEntries
<1> HIDE DEF left
<1>2. /\ Len(left) \in Nat /\ Len(left) # 0 /\ Head(left) = left[1]
      /\ Tail(left) \in Seq(Visitings) /\ Len(Tail(left)) = Len(left) - 1
      /\ \A j \in 1 .. Len(left) - 1 : Tail(left)[j] = left[j + 1]
  BY <1>1
<1> QED BY <1>2 DEF left

\* The rest of what is left remains.
LEMMA RestRemains ==
    ASSUME NEW w \in Orders, w.left # << >>, NEW u, u.left = Tail(w.left)
    PROVE  Remains(w, u, 2, 0)
<1>1. /\ Len(w.left) \in Nat /\ Len(w.left) # 0
      /\ Len(u.left) = Len(w.left) - 1
      /\ \A j \in 1 .. Len(w.left) - 1 : u.left[j] = w.left[j + 1]
  BY TailRemains
<1>2. ASSUME NEW j \in 2 .. Len(w.left)
      PROVE  u.left[0 + j - 2 + 1] = w.left[j]
  <2>1. j - 1 \in 1 .. Len(w.left) - 1 /\ 0 + j - 2 + 1 = j - 1 /\ j - 1 + 1 = j
    BY <1>1
  <2> QED BY <1>1, <2>1
<1>3. Len(u.left) = Len(w.left) - 2 + 1 + 0
  BY <1>1
<1> QED BY <1>2, <1>3 DEF Remains, LeftAt, EndAt

\* The end of a visit
LEMMA VisitEnded ==
    ASSUME NEW graph, NEW w \in Orders, w.left # << >>, EndAt(w, 1)
    PROVE  Visit(w, graph) \in Orders /\ VisitEnds(w, Visit(w, graph))
<1> DEFINE m == LeftAt(w, 1)
           u == [w EXCEPT !.ordered = Append(@, m), !.left = Tail(w.left)]
<1>1. Head(w.left) = w.left[1] /\ Tail(w.left) \in Seq(Visitings) /\ Len(w.left) \in Nat
      /\ Len(w.left) # 0
  BY TailRemains
<1>2. Visit(w, graph) = u
  BY <1>1 DEF Visit, EndAt, LeftAt
<1>3. m \in Modules
  <2>1. 1 \in 1 .. Len(w.left)
    BY <1>1
  <2> QED BY <2>1, LeftEntries
<1> HIDE DEF m
<1>4. /\ u \in Orders /\ u.seen = w.seen /\ u.ordered = Append(w.ordered, m)
      /\ u.left = Tail(w.left)
  <2> DEFINE o == Append(w.ordered, m)
             rest == Tail(w.left)
  <2>1. o \in Seq(Modules) /\ rest \in Seq(Visitings)
    BY <1>1, <1>3, LeftEntries
  <2> HIDE DEF o, rest
  <2>2. u = [w EXCEPT !.ordered = o, !.left = rest]
    BY DEF o, rest
  <2> HIDE DEF u
  <2>3. u \in Orders /\ u.seen = w.seen /\ u.ordered = o /\ u.left = rest
    BY <2>1, <2>2 DEF Orders
  <2> QED BY <2>3 DEF o, rest
<1> HIDE DEF u
<1>5. Remains(w, u, 2, 0)
  BY <1>4, RestRemains
<1> QED BY <1>2, <1>4, <1>5 DEF VisitEnds, m

\* A visit of a module that has been visited
LEMMA VisitAgain ==
    ASSUME NEW graph, NEW w \in Orders, w.left # << >>, ~ EndAt(w, 1), LeftAt(w, 1) \in w.seen
    PROVE  Visit(w, graph) \in Orders /\ VisitSkipped(w, Visit(w, graph))
<1> DEFINE u == [w EXCEPT !.left = Tail(w.left)]
<1>1. Head(w.left) = w.left[1] /\ Tail(w.left) \in Seq(Visitings)
  BY TailRemains
<1>2. Visit(w, graph) = u
  BY <1>1 DEF Visit, EndAt, LeftAt
<1>4. /\ u \in Orders /\ u.seen = w.seen /\ u.ordered = w.ordered /\ u.left = Tail(w.left)
  BY <1>1 DEF Orders
<1> HIDE DEF u
<1>5. Remains(w, u, 2, 0)
  BY <1>4, RestRemains
<1> QED BY <1>2, <1>4, <1>5 DEF VisitSkipped

\* What Visits makes of modules
LEMMA VisitsFound ==
    ASSUME NEW modules \in Seq(Modules)
    PROVE  /\ Visits(modules) \in Seq(Visitings)
           /\ Len(Visits(modules)) = Len(modules)
           /\ \A i \in 1 .. Len(modules) : /\ Visits(modules)[i].module = modules[i]
                                           /\ Visits(modules)[i].visited = FALSE
<1> DEFINE N == Len(modules)
           s == [i \in 1 .. N |-> [module |-> modules[i], visited |-> FALSE]]
<1>1. N \in Nat /\ DOMAIN modules = 1 .. N /\ \A i \in 1 .. N : modules[i] \in Modules
  OBVIOUS
<1>2. Visits(modules) = s
  BY <1>1 DEF Visits
<1>3. ASSUME NEW i \in 1 .. N PROVE [module |-> modules[i], visited |-> FALSE] \in Visitings
  BY <1>1 DEF Visitings
<1>4. \A i \in 1 .. N : s[i] = [module |-> modules[i], visited |-> FALSE]
  OBVIOUS
<1>5. \A i \in 1 .. N : s[i] \in Visitings
  BY <1>3, <1>4
<1>6. DOMAIN s = 1 .. N /\ s = [i \in 1 .. N |-> s[i]]
  OBVIOUS
<1>7. \A i \in 1 .. N : s[i].module = modules[i] /\ s[i].visited = FALSE
  BY <1>4
<1> HIDE DEF s, N
<1>8. s \in [1 .. N -> Visitings]
  BY <1>5, <1>6
<1>9. s \in Seq(Visitings) /\ Len(s) = N
  BY <1>1, <1>6, <1>8
<1> QED BY <1>2, <1>7, <1>9 DEF N

\* The first visit of a module
LEMMA VisitStarted ==
    ASSUME NEW graph, IsGraph(graph), DOMAIN graph = Modules, NEW w \in Orders, w.left # << >>,
           ~ EndAt(w, 1), LeftAt(w, 1) \notin w.seen
    PROVE  /\ Visit(w, graph) \in Orders
           /\ \E K \in Nat : VisitStarts(w, Visit(w, graph), graph, K)
<1> DEFINE m == LeftAt(w, 1)
           rest == Tail(w.left)
           s == Sorted(ToSet(graph[m]))
           v == Visits(s)
           e == [module |-> m, visited |-> TRUE]
           left == v \o <<e>> \o rest
           u == [w EXCEPT !.seen = @ \cup {m}, !.left = left]
           K == Len(s)
           L == Len(w.left)
<1>1. /\ Head(w.left) = w.left[1] /\ rest \in Seq(Visitings) /\ L \in Nat /\ L # 0
      /\ Len(rest) = L - 1 /\ \A j \in 1 .. L - 1 : rest[j] = w.left[j + 1]
  BY TailRemains
<1>2. Visit(w, graph) = u
  BY <1>1 DEF Visit, EndAt, LeftAt
<1>3. m \in Modules
  <2>1. 1 \in 1 .. L
    BY <1>1
  <2> QED BY <2>1, LeftEntries
<1> HIDE DEF m
<1>4. /\ s \in Seq(Modules) /\ ToSet(s) = ToSet(graph[m]) /\ K \in Nat /\ K <= Len(graph[m])
  BY <1>3, SortedFound
<1> HIDE DEF s
<1>5. /\ v \in Seq(Visitings) /\ Len(v) = K
      /\ \A i \in 1 .. K : v[i].module = s[i] /\ v[i].visited = FALSE
  BY <1>4, VisitsFound
<1>6. e \in Visitings /\ e.module = m /\ e.visited = TRUE
  BY <1>3 DEF Visitings
<1> HIDE DEF v, e, rest, K, L
<1>7. /\ left \in Seq(Visitings) /\ Len(left) = K + L
      /\ \A i \in 1 .. K : left[i] = v[i]
      /\ left[K + 1] = e
      /\ \A j \in 1 .. L - 1 : left[K + 1 + j] = rest[j]
  <2> DEFINE a == v \o <<e>>
  <2>1. a \in Seq(Visitings) /\ Len(a) = K + 1 /\ (\A i \in 1 .. K : a[i] = v[i]) /\ a[K + 1] = e
    <3> DEFINE one == <<e>>
    <3>1. one \in Seq(Visitings) /\ Len(one) = 1 /\ one[1] = e
      BY <1>6
    <3> HIDE DEF one
    <3>2. v \in Seq(Visitings) /\ Len(v) = K /\ K \in Nat
      BY <1>4, <1>5
    <3> DEFINE j == v \o one
    <3>3. /\ j \in Seq(Visitings) /\ Len(j) = Len(v) + Len(one)
          /\ \A i \in 1 .. Len(v) : j[i] = v[i]
          /\ \A i \in 1 .. Len(one) : j[Len(v) + i] = one[i]
      <4>1. \A x, y \in Seq(Visitings) :
                /\ x \o y \in Seq(Visitings)
                /\ Len(x \o y) = Len(x) + Len(y)
                /\ \A i \in 1 .. Len(x) : (x \o y)[i] = x[i]
                /\ \A i \in 1 .. Len(y) : (x \o y)[Len(x) + i] = y[i]
        BY JoinedElements
      <4> QED BY <3>1, <3>2, <4>1
    <3> HIDE DEF j
    <3>4. \A i \in 1 .. K : j[i] = v[i]
      BY <3>2, <3>3
    <3>5. Len(j) = K + 1 /\ j[K + 1] = e
      BY <3>1, <3>2, <3>3
    <3>6. a = j
      BY DEF one, j
    <3> HIDE DEF a
    <3> QED BY <3>1, <3>3, <3>4, <3>5, <3>6
  <2> HIDE DEF a
  <2>2. left = a \o rest
    BY DEF a
  <2> HIDE DEF left
  <2>3. left \in Seq(Visitings) /\ Len(left) = K + 1 + (L - 1)
    BY <1>1, <2>1, <2>2
  <2>4. \A i \in 1 .. K + 1 : left[i] = a[i]
    BY <1>1, <1>4, <2>1, <2>2
  <2>5. ASSUME NEW j \in 1 .. L - 1 PROVE left[K + 1 + j] = rest[j]
    BY <1>1, <1>4, <2>1, <2>2
  <2>6. \A i \in 1 .. K : i \in 1 .. K + 1
    BY <1>4
  <2>7. K + 1 \in 1 .. K + 1 /\ K + 1 + (L - 1) = K + L
    BY <1>1, <1>4
  <2> QED BY <2>1, <2>3, <2>4, <2>5, <2>6, <2>7
<1> HIDE DEF left
<1>8. /\ u \in Orders /\ u.seen = w.seen \cup {m} /\ u.ordered = w.ordered /\ u.left = left
  BY <1>3, <1>7 DEF Orders
<1> HIDE DEF u
<1>9. ASSUME NEW i \in 1 .. K PROVE ~ EndAt(u, i) /\ LeftAt(u, i) = s[i]
  BY <1>5, <1>7, <1>8 DEF EndAt, LeftAt
<1>10. \A i \in 1 .. K : LeftAt(u, i) \in ToSet(graph[m])
  BY <1>4, <1>9, SetOfSequence DEF K
<1>11. \A d \in ToSet(graph[m]) : \E i \in 1 .. K : LeftAt(u, i) = d
  BY <1>4, <1>9, SetOfSequence DEF K
<1>12. LeftAt(u, K + 1) = m /\ EndAt(u, K + 1)
  BY <1>6, <1>7, <1>8 DEF LeftAt, EndAt
<1>13. Remains(w, u, 2, K + 1)
  <2>0. L \in Nat /\ K \in Nat /\ Len(u.left) = K + L
    BY <1>1, <1>4, <1>7, <1>8
  <2>1. Len(u.left) = L - 2 + 1 + (K + 1)
    BY <2>0
  <2>2. ASSUME NEW j \in 2 .. L PROVE u.left[K + 1 + j - 2 + 1] = w.left[j]
    <3>1. j - 1 \in 1 .. L - 1 /\ K + 1 + j - 2 + 1 = K + 1 + (j - 1) /\ j - 1 + 1 = j
      BY <1>1, <1>4
    <3>2. rest[j - 1] = w.left[j]
      BY <1>1, <3>1 DEF L, rest
    <3> QED BY <1>7, <1>8, <3>1, <3>2
  <2> QED BY <2>1, <2>2 DEF Remains, LeftAt, EndAt, L
<1> QED BY <1>2, <1>4, <1>8, <1>9, <1>10, <1>11, <1>12, <1>13 DEF VisitStarts, m

\* m reaches n by one or more steps.
Leads(graph, m, n) == \E d \in ToSet(graph[m]) : Path(graph, d, n)

\* m is in the order, or an entry for it comes before entry j.
OrderedBefore(w, m, j) == m \in ToSet(w.ordered) \/ \E i \in 1 .. j - 1 : LeftAt(w, i) = m

\* The modules seen are those in the order and those whose visit has an end, once each.
SeenOnce(w) ==
    /\ IsInjective(w.ordered) /\ ToSet(w.ordered) \subseteq w.seen
    /\ \A m \in w.seen : \/ m \in ToSet(w.ordered)
                         \/ \E j \in 1 .. Len(w.left) : EndAt(w, j) /\ LeftAt(w, j) = m
    /\ \A j \in 1 .. Len(w.left) :
           EndAt(w, j) => LeftAt(w, j) \in w.seen /\ LeftAt(w, j) \notin ToSet(w.ordered)
    /\ \A i, j \in 1 .. Len(w.left) :
           EndAt(w, i) /\ EndAt(w, j) /\ LeftAt(w, i) = LeftAt(w, j) => i = j

\* Before a visit ends, the dependencies of its module have been visited.
Awaited(w, graph) ==
    \A j \in 1 .. Len(w.left) :
        EndAt(w, j) => \A d \in ToSet(graph[LeftAt(w, j)]) : OrderedBefore(w, d, j)

\* What comes before the end of a visit is what the visit leads to.
Leading(w, graph) ==
    \A j \in 1 .. Len(w.left) : \A i \in 1 .. j - 1 :
        EndAt(w, j) => Leads(graph, LeftAt(w, j), LeftAt(w, i))

\* In the order dependencies come first.
DependenciesFirst(s, graph) ==
    \A j \in 1 .. Len(s) : \A d \in ToSet(graph[s[j]]) : \E i \in 1 .. j - 1 : s[i] = d

\* Every module is in the order or is left.
Covered(w) == \A m \in Modules : OrderedBefore(w, m, Len(w.left) + 1)

\* What holds at every step of the walk
OrderInvariant(w, graph) ==
    /\ SeenOnce(w)
    /\ Awaited(w, graph)
    /\ Leading(w, graph)
    /\ DependenciesFirst(w.ordered, graph)
    /\ Covered(w)

\* Where the entries that remain are
LEMMA RemainsPlaces ==
    ASSUME NEW w \in Orders, w.left # << >>, NEW u \in Orders, NEW K \in Nat, Remains(w, u, 2, K)
    PROVE  /\ Len(w.left) \in Nat /\ Len(w.left) # 0 /\ 1 \in 1 .. Len(w.left)
           /\ Len(u.left) \in Nat /\ Len(u.left) = Len(w.left) - 1 + K
           /\ \A j \in 2 .. Len(w.left) :
                  /\ j - 1 + K \in 1 .. Len(u.left) /\ j \in 1 .. Len(w.left)
                  /\ LeftAt(u, j - 1 + K) = LeftAt(w, j) /\ EndAt(u, j - 1 + K) = EndAt(w, j)
           /\ \A l \in 1 .. Len(u.left) : l > K =>
                  /\ l + 1 - K \in 2 .. Len(w.left)
                  /\ LeftAt(u, l) = LeftAt(w, l + 1 - K) /\ EndAt(u, l) = EndAt(w, l + 1 - K)
<1> DEFINE L == Len(w.left)
           M == Len(u.left)
<1>1. L \in Nat /\ L # 0 /\ M \in Nat
  BY LeftEntries, TailRemains
<1>2. /\ M = L - 2 + 1 + K
      /\ \A j \in 2 .. L : LeftAt(u, K + j - 2 + 1) = LeftAt(w, j)
                                   /\ EndAt(u, K + j - 2 + 1) = EndAt(w, j)
  BY DEF Remains
<1> HIDE DEF L, M
<1>3. M = L - 1 + K /\ 1 \in 1 .. L
  BY <1>1, <1>2
<1>4. ASSUME NEW j \in 2 .. L
      PROVE  /\ j - 1 + K \in 1 .. M /\ j \in 1 .. L
             /\ LeftAt(u, j - 1 + K) = LeftAt(w, j) /\ EndAt(u, j - 1 + K) = EndAt(w, j)
  <2>1. j - 1 + K \in 1 .. M /\ j \in 1 .. L /\ K + j - 2 + 1 = j - 1 + K
    BY <1>1, <1>3
  <2> QED BY <1>2, <2>1
<1>5. ASSUME NEW l \in 1 .. M, l > K
      PROVE  /\ l + 1 - K \in 2 .. L
             /\ LeftAt(u, l) = LeftAt(w, l + 1 - K) /\ EndAt(u, l) = EndAt(w, l + 1 - K)
  <2> DEFINE j == l + 1 - K
  <2>1. j \in 2 .. L /\ K + j - 2 + 1 = l
    BY <1>1, <1>3, <1>5
  <2> HIDE DEF j
  <2>2. LeftAt(u, l) = LeftAt(w, j) /\ EndAt(u, l) = EndAt(w, j)
    BY <1>2, <2>1
  <2> QED BY <2>1, <2>2 DEF j
<1> QED BY <1>1, <1>3, <1>4, <1>5 DEF L, M

\* The same, when nothing is put before them
LEMMA RestPlaces ==
    ASSUME NEW w \in Orders, w.left # << >>, NEW u \in Orders, Remains(w, u, 2, 0)
    PROVE  /\ Len(w.left) \in Nat /\ 1 \in 1 .. Len(w.left)
           /\ Len(u.left) \in Nat /\ Len(u.left) = Len(w.left) - 1
           /\ \A j \in 2 .. Len(w.left) :
                  /\ j - 1 \in 1 .. Len(u.left) /\ j \in 1 .. Len(w.left)
                  /\ LeftAt(u, j - 1) = LeftAt(w, j) /\ EndAt(u, j - 1) = EndAt(w, j)
           /\ \A l \in 1 .. Len(u.left) :
                  /\ l + 1 \in 2 .. Len(w.left)
                  /\ LeftAt(u, l) = LeftAt(w, l + 1) /\ EndAt(u, l) = EndAt(w, l + 1)
<1> DEFINE L == Len(w.left)
           M == Len(u.left)
           K == 0
<1>1. K \in Nat /\ Remains(w, u, 2, K)
  OBVIOUS
<1>z. K = 0
  OBVIOUS
<1> HIDE DEF K
<1>a. /\ L \in Nat /\ L # 0 /\ 1 \in 1 .. L
      /\ M \in Nat /\ M = L - 1 + K
      /\ \A j \in 2 .. L : /\ j - 1 + K \in 1 .. M /\ j \in 1 .. L
                           /\ LeftAt(u, j - 1 + K) = LeftAt(w, j) /\ EndAt(u, j - 1 + K) = EndAt(w, j)
      /\ \A l \in 1 .. M : l > K => /\ l + 1 - K \in 2 .. L
                                    /\ LeftAt(u, l) = LeftAt(w, l + 1 - K) /\ EndAt(u, l) = EndAt(w, l + 1 - K)
  BY <1>1, RemainsPlaces
<1> HIDE DEF L, M
<1>2. ASSUME NEW j \in 2 .. L
      PROVE  /\ j - 1 \in 1 .. M /\ j \in 1 .. L
             /\ LeftAt(u, j - 1) = LeftAt(w, j) /\ EndAt(u, j - 1) = EndAt(w, j)
  <2>1. j - 1 + K = j - 1
    BY <1>z
  <2> QED BY <1>a, <2>1
<1>3. ASSUME NEW l \in 1 .. M
      PROVE  /\ l + 1 \in 2 .. L
             /\ LeftAt(u, l) = LeftAt(w, l + 1) /\ EndAt(u, l) = EndAt(w, l + 1)
  <2>1. l + 1 - K = l + 1 /\ l > K
    BY <1>z
  <2> QED BY <1>a, <2>1
<1>4. M = L - 1
  BY <1>a, <1>z
<1> QED BY <1>a, <1>2, <1>3, <1>4 DEF L, M

\* When a visit ends, its module can come next in the order.
LEMMA VisitEndsKeeps ==
    ASSUME NEW graph, IsGraph(graph), DOMAIN graph = Modules, NEW w \in Orders, w.left # << >>,
           OrderInvariant(w, graph), EndAt(w, 1), NEW u \in Orders, VisitEnds(w, u)
    PROVE  OrderInvariant(u, graph)
<1> DEFINE m == LeftAt(w, 1)
           L == Len(w.left)
           M == Len(u.left)
           n == Len(w.ordered)
<1>1. /\ L \in Nat /\ 1 \in 1 .. L /\ M \in Nat /\ M = L - 1
      /\ \A j \in 2 .. L : /\ j - 1 \in 1 .. M /\ j \in 1 .. L
                           /\ LeftAt(u, j - 1) = LeftAt(w, j) /\ EndAt(u, j - 1) = EndAt(w, j)
      /\ \A l \in 1 .. M : /\ l + 1 \in 2 .. L
                           /\ LeftAt(u, l) = LeftAt(w, l + 1) /\ EndAt(u, l) = EndAt(w, l + 1)
  BY RestPlaces DEF VisitEnds
<1>2. /\ w.ordered \in Seq(Modules) /\ u.ordered = Append(w.ordered, m) /\ u.seen = w.seen
      /\ m \in Modules /\ \A j \in 1 .. L : LeftAt(w, j) \in Modules
  BY <1>1, LeftEntries DEF VisitEnds
<1>3. /\ n \in Nat /\ Len(u.ordered) = n + 1
      /\ \A i \in 1 .. n : u.ordered[i] = w.ordered[i]
      /\ u.ordered[n + 1] = m
      /\ ToSet(u.ordered) = ToSet(w.ordered) \cup {m}
  BY <1>2, AppendedElements
<1>4. /\ SeenOnce(w) /\ Awaited(w, graph) /\ Leading(w, graph) /\ DependenciesFirst(w.ordered, graph)
      /\ Covered(w)
  BY DEF OrderInvariant
<1>5. m \in w.seen /\ m \notin ToSet(w.ordered)
  BY <1>1, <1>4 DEF SeenOnce
<1>6. ASSUME NEW j \in 2 .. L, EndAt(w, j) PROVE LeftAt(w, j) # m
  <2>1. j # 1 /\ j \in 1 .. L
    BY <1>1
  <2> QED BY <1>1, <1>4, <1>6, <2>1 DEF SeenOnce
<1>7. \A d \in ToSet(graph[m]) : d \in ToSet(w.ordered)
  <2>1. \A i \in 1 .. 1 - 1 : FALSE
    OBVIOUS
  <2> QED BY <1>1, <1>4, <2>1 DEF Awaited, OrderedBefore
<1>8. ASSUME NEW d, NEW l \in 1 .. M + 1, OrderedBefore(w, d, l + 1) PROVE OrderedBefore(u, d, l)
  <2>1. CASE d \in ToSet(w.ordered)
    BY <1>3, <2>1 DEF OrderedBefore
  <2>2. CASE \E i \in 1 .. (l + 1) - 1 : LeftAt(w, i) = d
    <3>1. PICK i \in 1 .. (l + 1) - 1 : LeftAt(w, i) = d
      BY <2>2
    <3>2. CASE i = 1
      BY <1>3, <3>1, <3>2 DEF OrderedBefore
    <3>3. CASE i # 1
      <4>1. i \in 2 .. L /\ i - 1 \in 1 .. l - 1
        BY <1>1, <3>3
      <4> QED BY <1>1, <3>1, <4>1 DEF OrderedBefore
    <3> QED BY <3>2, <3>3
  <2> QED BY <1>8, <2>1, <2>2 DEF OrderedBefore
<1> HIDE DEF m, L, M, n
<1>9. SeenOnce(u)
  <2>1. IsInjective(u.ordered)
    BY <1>2, <1>4, <1>5, AppendOnce DEF SeenOnce
  <2>2. ToSet(u.ordered) \subseteq u.seen
    BY <1>2, <1>3, <1>4, <1>5 DEF SeenOnce
  <2>3. ASSUME NEW x \in u.seen
        PROVE  x \in ToSet(u.ordered) \/ \E j \in 1 .. M : EndAt(u, j) /\ LeftAt(u, j) = x
    <3>1. CASE x \in ToSet(w.ordered)
      BY <1>3, <3>1
    <3>2. CASE \E j \in 1 .. L : EndAt(w, j) /\ LeftAt(w, j) = x
      <4>1. PICK j \in 1 .. L : EndAt(w, j) /\ LeftAt(w, j) = x
        BY <3>2
      <4>2. CASE j = 1
        BY <1>3, <4>1, <4>2 DEF m
      <4>3. CASE j # 1
        <5>1. j \in 2 .. L
          BY <1>1, <4>3
        <5> QED BY <1>1, <4>1, <5>1
      <4> QED BY <4>2, <4>3
    <3> QED BY <1>2, <1>4, <2>3, <3>1, <3>2 DEF SeenOnce, L
  <2>4. ASSUME NEW j \in 1 .. M, EndAt(u, j)
        PROVE  LeftAt(u, j) \in u.seen /\ LeftAt(u, j) \notin ToSet(u.ordered)
    <3>1. j + 1 \in 2 .. L /\ LeftAt(u, j) = LeftAt(w, j + 1) /\ EndAt(w, j + 1)
      BY <1>1, <2>4
    <3>2. j + 1 \in 1 .. L
      BY <1>1, <3>1
    <3>3. LeftAt(w, j + 1) \in w.seen /\ LeftAt(w, j + 1) \notin ToSet(w.ordered)
      BY <1>4, <3>1, <3>2 DEF SeenOnce, L
    <3> QED BY <1>2, <1>3, <1>6, <3>1, <3>3
  <2>5. ASSUME NEW i \in 1 .. M, NEW j \in 1 .. M, EndAt(u, i), EndAt(u, j), LeftAt(u, i) = LeftAt(u, j)
        PROVE  i = j
    <3>1. /\ i + 1 \in 1 .. L /\ LeftAt(u, i) = LeftAt(w, i + 1) /\ EndAt(w, i + 1)
          /\ j + 1 \in 1 .. L /\ LeftAt(u, j) = LeftAt(w, j + 1) /\ EndAt(w, j + 1)
      BY <1>1, <2>5
    <3>2. i + 1 = j + 1
      BY <1>4, <2>5, <3>1 DEF SeenOnce, L
    <3> QED BY <1>1, <3>2
  <2> QED BY <2>1, <2>2, <2>3, <2>4, <2>5 DEF SeenOnce, M
<1>10. Awaited(u, graph)
  <2>1. SUFFICES ASSUME NEW j \in 1 .. M, EndAt(u, j), NEW d \in ToSet(graph[LeftAt(u, j)])
                 PROVE  OrderedBefore(u, d, j)
    BY DEF Awaited, M
  <2>2. j + 1 \in 1 .. L /\ LeftAt(u, j) = LeftAt(w, j + 1) /\ EndAt(w, j + 1) /\ j \in 1 .. M + 1
    BY <1>1, <2>1
  <2>3. OrderedBefore(w, d, j + 1)
    BY <1>4, <2>1, <2>2 DEF Awaited, L
  <2> QED BY <1>8, <2>2, <2>3
<1>11. Leading(u, graph)
  <2>1. SUFFICES ASSUME NEW j \in 1 .. M, NEW i \in 1 .. j - 1, EndAt(u, j)
                 PROVE  Leads(graph, LeftAt(u, j), LeftAt(u, i))
    BY DEF Leading, M
  <2>2. /\ j + 1 \in 1 .. L /\ i \in 1 .. M /\ i + 1 \in 1 .. (j + 1) - 1
        /\ LeftAt(u, j) = LeftAt(w, j + 1) /\ EndAt(w, j + 1) /\ LeftAt(u, i) = LeftAt(w, i + 1)
    BY <1>1, <2>1
  <2>3. Leads(graph, LeftAt(w, j + 1), LeftAt(w, i + 1))
    BY <1>4, <2>2 DEF Leading, L
  <2> QED BY <2>2, <2>3
<1>12. DependenciesFirst(u.ordered, graph)
  <2>1. SUFFICES ASSUME NEW j \in 1 .. n + 1, NEW d \in ToSet(graph[u.ordered[j]])
                 PROVE  \E i \in 1 .. j - 1 : u.ordered[i] = d
    BY <1>3 DEF DependenciesFirst
  <2>2. CASE j \in 1 .. n
    <3>1. PICK i \in 1 .. j - 1 : w.ordered[i] = d
      BY <1>3, <1>4, <2>1, <2>2 DEF DependenciesFirst, n
    <3>2. i \in 1 .. n
      BY <1>3, <2>2
    <3> QED BY <1>3, <3>1, <3>2
  <2>3. CASE j = n + 1
    <3>1. d \in ToSet(w.ordered)
      BY <1>3, <1>7, <2>1, <2>3
    <3>2. PICK i \in 1 .. n : w.ordered[i] = d
      BY <1>2, <3>1, SetOfSequence DEF n
    <3>3. i \in 1 .. j - 1
      BY <1>3, <2>3
    <3> QED BY <1>3, <3>2, <3>3
  <2> QED BY <1>3, <2>2, <2>3
<1>13. Covered(u)
  <2>1. M + 1 \in 1 .. M + 1 /\ L + 1 = (M + 1) + 1
    BY <1>1
  <2>2. \A x \in Modules : OrderedBefore(w, x, L + 1)
    BY <1>4 DEF Covered, L
  <2> QED BY <1>8, <2>1, <2>2 DEF Covered, M
<1> QED BY <1>9, <1>10, <1>11, <1>12, <1>13 DEF OrderInvariant

\* Where a module that has been seen is, when the next entry is no end
LEMMA SeenPlace ==
    ASSUME NEW w \in Orders, w.left # << >>, SeenOnce(w), ~ EndAt(w, 1), NEW m \in w.seen
    PROVE  \/ m \in ToSet(w.ordered)
           \/ \E k \in 2 .. Len(w.left) : EndAt(w, k) /\ LeftAt(w, k) = m
<1>1. Len(w.left) \in Nat
  BY LeftEntries
<1>2. CASE \E k \in 1 .. Len(w.left) : EndAt(w, k) /\ LeftAt(w, k) = m
  <2>1. PICK k \in 1 .. Len(w.left) : EndAt(w, k) /\ LeftAt(w, k) = m
    BY <1>2
  <2>2. k # 1
    BY <2>1
  <2>3. k \in 2 .. Len(w.left)
    BY <1>1, <2>2
  <2> QED BY <2>1, <2>3
<1> QED BY <1>2 DEF SeenOnce

\* A module that has been seen is not waited for by what comes before the end of its visit.
LEMMA SeenBefore ==
    ASSUME NEW graph, IsGraph(graph), DOMAIN graph = Modules, NoCircle(graph), NEW w \in Orders,
           w.left # << >>, Leading(w, graph), NEW k \in 1 .. Len(w.left), EndAt(w, k),
           NEW j \in 1 .. Len(w.left), LeftAt(w, k) \in ToSet(graph[LeftAt(w, j)])
    PROVE  k < j
<1> DEFINE m == LeftAt(w, k)
           x == LeftAt(w, j)
<1>1. Len(w.left) \in Nat /\ m \in Modules /\ x \in Modules
  BY LeftEntries
<1>2. m \in DOMAIN graph /\ x \in DOMAIN graph /\ m \in ToSet(graph[x])
  BY <1>1
<1>3. ~ OnCircle(graph, m)
  BY <1>2 DEF NoCircle
<1>4. CASE k = j
  <2>1. m \in ToSet(graph[m])
    BY <1>2, <1>4
  <2> HIDE DEF m, x
  <2>2. Path(graph, m, m)
    BY <1>2, PathReflexive
  <2>3. OnCircle(graph, m)
    BY <1>2, <2>1, <2>2, BackEdgeCircle
  <2> QED BY <1>3, <2>3
<1>5. CASE j < k
  <2>1. j \in 1 .. k - 1
    BY <1>1, <1>5
  <2>2. Leads(graph, m, x)
    BY <2>1 DEF Leading
  <2> HIDE DEF m, x
  <2>3. PICK d \in ToSet(graph[m]) : Path(graph, d, x)
    BY <2>2 DEF Leads
  <2>4. Path(graph, x, m)
    BY <1>2, PathEdge
  <2>5. Path(graph, d, m)
    BY <2>3, <2>4, PathTransitive
  <2>6. OnCircle(graph, m)
    BY <1>2, <2>5, BackEdgeCircle
  <2> QED BY <1>3, <2>6
<1> QED BY <1>1, <1>4, <1>5

\* A module that has been seen need not be visited again, where there are no circles.
LEMMA VisitSkippedKeeps ==
    ASSUME NEW graph, IsGraph(graph), DOMAIN graph = Modules, NoCircle(graph), NEW w \in Orders,
           w.left # << >>, OrderInvariant(w, graph), ~ EndAt(w, 1), LeftAt(w, 1) \in w.seen,
           NEW u \in Orders, VisitSkipped(w, u)
    PROVE  OrderInvariant(u, graph)
<1> DEFINE m == LeftAt(w, 1)
           L == Len(w.left)
           M == Len(u.left)
<1>1. /\ L \in Nat /\ 1 \in 1 .. L /\ M \in Nat /\ M = L - 1
      /\ \A j \in 2 .. L : /\ j - 1 \in 1 .. M /\ j \in 1 .. L
                           /\ LeftAt(u, j - 1) = LeftAt(w, j) /\ EndAt(u, j - 1) = EndAt(w, j)
      /\ \A l \in 1 .. M : /\ l + 1 \in 2 .. L
                           /\ LeftAt(u, l) = LeftAt(w, l + 1) /\ EndAt(u, l) = EndAt(w, l + 1)
  BY RestPlaces DEF VisitSkipped
<1>2. u.ordered = w.ordered /\ u.seen = w.seen
  BY DEF VisitSkipped
<1>4. /\ SeenOnce(w) /\ Awaited(w, graph) /\ Leading(w, graph) /\ DependenciesFirst(w.ordered, graph)
      /\ Covered(w)
  BY DEF OrderInvariant
<1>5. m \in ToSet(w.ordered) \/ \E k \in 2 .. L : EndAt(w, k) /\ LeftAt(w, k) = m
  BY <1>4, SeenPlace
<1>7. \A j \in 1 .. L : \A k \in 1 .. L :
          EndAt(w, k) /\ LeftAt(w, k) \in ToSet(graph[LeftAt(w, j)]) => k < j
  BY <1>4, SeenBefore
<1> HIDE DEF m, L, M
<1>8. ASSUME NEW d, NEW l \in 1 .. M + 1, OrderedBefore(w, d, l + 1),
             d = m => \A k \in 2 .. L : EndAt(w, k) /\ LeftAt(w, k) = m => k < l + 1
      PROVE  OrderedBefore(u, d, l)
  <2>1. CASE d \in ToSet(w.ordered)
    BY <1>2, <2>1 DEF OrderedBefore
  <2>2. CASE \E i \in 1 .. (l + 1) - 1 : LeftAt(w, i) = d
    <3>1. PICK i \in 1 .. (l + 1) - 1 : LeftAt(w, i) = d
      BY <2>2
    <3>2. CASE i = 1
      <4>1. d = m
        BY <3>1, <3>2 DEF m
      <4>2. CASE \E k \in 2 .. L : EndAt(w, k) /\ LeftAt(w, k) = m
        <5>1. PICK k \in 2 .. L : EndAt(w, k) /\ LeftAt(w, k) = m
          BY <4>2
        <5>2. k - 1 \in 1 .. l - 1
          BY <1>1, <1>8, <4>1, <5>1
        <5> QED BY <1>1, <4>1, <5>1, <5>2 DEF OrderedBefore
      <4> QED BY <1>2, <1>5, <4>1, <4>2 DEF OrderedBefore
    <3>3. CASE i # 1
      <4>1. i \in 2 .. L /\ i - 1 \in 1 .. l - 1
        BY <1>1, <3>3
      <4> QED BY <1>1, <3>1, <4>1 DEF OrderedBefore
    <3> QED BY <3>2, <3>3
  <2> QED BY <1>8, <2>1, <2>2 DEF OrderedBefore
<1>9. SeenOnce(u)
  <2>1. IsInjective(u.ordered) /\ ToSet(u.ordered) \subseteq u.seen
    BY <1>2, <1>4 DEF SeenOnce
  <2>3. ASSUME NEW x \in u.seen
        PROVE  x \in ToSet(u.ordered) \/ \E j \in 1 .. M : EndAt(u, j) /\ LeftAt(u, j) = x
    <3>1. x \in ToSet(w.ordered) \/ \E j \in 2 .. L : EndAt(w, j) /\ LeftAt(w, j) = x
      BY <1>2, <1>4, SeenPlace DEF L
    <3> QED BY <1>1, <1>2, <3>1
  <2>4. ASSUME NEW j \in 1 .. M, EndAt(u, j)
        PROVE  LeftAt(u, j) \in u.seen /\ LeftAt(u, j) \notin ToSet(u.ordered)
    <3>1. j + 1 \in 1 .. L /\ LeftAt(u, j) = LeftAt(w, j + 1) /\ EndAt(w, j + 1)
      BY <1>1, <2>4
    <3> QED BY <1>2, <1>4, <3>1 DEF SeenOnce, L
  <2>5. ASSUME NEW i \in 1 .. M, NEW j \in 1 .. M, EndAt(u, i), EndAt(u, j), LeftAt(u, i) = LeftAt(u, j)
        PROVE  i = j
    <3>1. /\ i + 1 \in 1 .. L /\ LeftAt(u, i) = LeftAt(w, i + 1) /\ EndAt(w, i + 1)
          /\ j + 1 \in 1 .. L /\ LeftAt(u, j) = LeftAt(w, j + 1) /\ EndAt(w, j + 1)
      BY <1>1, <2>5
    <3>2. i + 1 = j + 1
      BY <1>4, <2>5, <3>1 DEF SeenOnce, L
    <3> QED BY <1>1, <3>2
  <2> QED BY <2>1, <2>3, <2>4, <2>5 DEF SeenOnce, M
<1>10. Awaited(u, graph)
  <2>1. SUFFICES ASSUME NEW j \in 1 .. M, EndAt(u, j), NEW d \in ToSet(graph[LeftAt(u, j)])
                 PROVE  OrderedBefore(u, d, j)
    BY DEF Awaited, M
  <2>2. j + 1 \in 1 .. L /\ LeftAt(u, j) = LeftAt(w, j + 1) /\ EndAt(w, j + 1) /\ j \in 1 .. M + 1
    BY <1>1, <2>1
  <2>3. OrderedBefore(w, d, j + 1)
    BY <1>4, <2>1, <2>2 DEF Awaited, L
  <2>4. ASSUME d = m, NEW k \in 2 .. L, EndAt(w, k), LeftAt(w, k) = m PROVE k < j + 1
    <3>1. k \in 1 .. L /\ LeftAt(w, k) \in ToSet(graph[LeftAt(w, j + 1)])
      BY <1>1, <2>1, <2>2, <2>4
    <3> QED BY <1>7, <2>2, <2>4, <3>1
  <2> QED BY <1>8, <2>2, <2>3, <2>4
<1>11. Leading(u, graph)
  <2>1. SUFFICES ASSUME NEW j \in 1 .. M, NEW i \in 1 .. j - 1, EndAt(u, j)
                 PROVE  Leads(graph, LeftAt(u, j), LeftAt(u, i))
    BY DEF Leading, M
  <2>2. /\ j + 1 \in 1 .. L /\ i \in 1 .. M /\ i + 1 \in 1 .. (j + 1) - 1
        /\ LeftAt(u, j) = LeftAt(w, j + 1) /\ EndAt(w, j + 1) /\ LeftAt(u, i) = LeftAt(w, i + 1)
    BY <1>1, <2>1
  <2>3. Leads(graph, LeftAt(w, j + 1), LeftAt(w, i + 1))
    BY <1>4, <2>2 DEF Leading, L
  <2> QED BY <2>2, <2>3
<1>12. DependenciesFirst(u.ordered, graph)
  BY <1>2, <1>4
<1>13. Covered(u)
  <2>1. M + 1 \in 1 .. M + 1 /\ L + 1 = (M + 1) + 1 /\ \A k \in 2 .. L : k < L + 1
    BY <1>1
  <2>2. \A x \in Modules : OrderedBefore(w, x, L + 1)
    BY <1>4 DEF Covered, L
  <2> QED BY <1>8, <2>1, <2>2 DEF Covered, M
<1> QED BY <1>9, <1>10, <1>11, <1>12, <1>13 DEF OrderInvariant

\* The visit of a module starts with its dependencies.
LEMMA VisitStartsKeeps ==
    ASSUME NEW graph, IsGraph(graph), DOMAIN graph = Modules, NEW w \in Orders,
           w.left # << >>, OrderInvariant(w, graph), ~ EndAt(w, 1), LeftAt(w, 1) \notin w.seen,
           NEW u \in Orders, NEW K \in Nat, VisitStarts(w, u, graph, K)
    PROVE  OrderInvariant(u, graph)
<1> DEFINE m == LeftAt(w, 1)
           L == Len(w.left)
           M == Len(u.left)
           J == K + 1
<1>j. J \in Nat /\ J = K + 1
  OBVIOUS
<1>0. /\ L \in Nat /\ 1 \in 1 .. L /\ M \in Nat /\ M = L - 1 + J
      /\ \A j \in 2 .. L :
             /\ j - 1 + J \in 1 .. M /\ j \in 1 .. L
             /\ LeftAt(u, j - 1 + J) = LeftAt(w, j) /\ EndAt(u, j - 1 + J) = EndAt(w, j)
      /\ \A l \in 1 .. M : l > J =>
             /\ l + 1 - J \in 2 .. L
             /\ LeftAt(u, l) = LeftAt(w, l + 1 - J) /\ EndAt(u, l) = EndAt(w, l + 1 - J)
  <2>1. Remains(w, u, 2, J)
    BY DEF VisitStarts
  <2>2. J \in Nat
    OBVIOUS
  <2> HIDE DEF J
  <2> QED BY <2>1, <2>2, RemainsPlaces
<1>1. /\ u.ordered = w.ordered /\ u.seen = w.seen \cup {m}
      /\ \A i \in 1 .. K : ~ EndAt(u, i) /\ LeftAt(u, i) \in ToSet(graph[m])
      /\ \A d \in ToSet(graph[m]) : \E i \in 1 .. K : LeftAt(u, i) = d
      /\ LeftAt(u, K + 1) = m /\ EndAt(u, K + 1)
  BY DEF VisitStarts
<1>2. m \in Modules /\ \A j \in 1 .. L : LeftAt(w, j) \in Modules
  BY <1>0, LeftEntries
<1>4. /\ SeenOnce(w) /\ Awaited(w, graph) /\ Leading(w, graph) /\ DependenciesFirst(w.ordered, graph)
      /\ Covered(w)
  BY DEF OrderInvariant
<1>5. m \notin w.seen /\ ~ EndAt(w, 1)
  OBVIOUS
<1> HIDE DEF m, L, M, J
<1>6. M = L + K /\ J \in 1 .. M /\ L \in Nat /\ M \in Nat /\ 1 \in 1 .. L
  BY <1>0, <1>j
<1>7. ASSUME NEW j \in 2 .. L
      PROVE  /\ j + K \in 1 .. M /\ j \in 1 .. L
             /\ LeftAt(u, j + K) = LeftAt(w, j) /\ EndAt(u, j + K) = EndAt(w, j)
  <2>1. j - 1 + J = j + K
    BY <1>j
  <2> QED BY <1>0, <2>1
<1>8. ASSUME NEW l \in 1 .. M, l \notin 1 .. K, l # J
      PROVE  /\ l - K \in 2 .. L /\ l - K \in 1 .. L
             /\ LeftAt(u, l) = LeftAt(w, l - K) /\ EndAt(u, l) = EndAt(w, l - K)
  <2>1. l > J /\ l + 1 - J = l - K
    BY <1>j, <1>8
  <2> QED BY <1>0, <2>1
<1>9. ASSUME NEW d, NEW j \in 2 .. L + 1, OrderedBefore(w, d, j) PROVE OrderedBefore(u, d, j + K)
  <2>1. CASE d \in ToSet(w.ordered)
    BY <1>1, <2>1 DEF OrderedBefore
  <2>2. CASE \E i \in 1 .. j - 1 : LeftAt(w, i) = d
    <3>1. PICK i \in 1 .. j - 1 : LeftAt(w, i) = d
      BY <2>2
    <3>2. CASE i = 1
      <4>1. LeftAt(u, J) = d /\ J \in 1 .. (j + K) - 1
        BY <1>1, <1>j, <1>6, <3>1, <3>2 DEF m
      <4> QED BY <4>1 DEF OrderedBefore
    <3>3. CASE i # 1
      <4>1. i \in 2 .. L /\ i + K \in 1 .. (j + K) - 1
        BY <1>6, <3>3
      <4> QED BY <1>7, <3>1, <4>1 DEF OrderedBefore
    <3> QED BY <3>2, <3>3
  <2> QED BY <1>9, <2>1, <2>2 DEF OrderedBefore
<1>10. SeenOnce(u)
  <2>1. IsInjective(u.ordered) /\ ToSet(u.ordered) \subseteq u.seen
    BY <1>1, <1>4 DEF SeenOnce
  <2>3. ASSUME NEW x \in u.seen
        PROVE  x \in ToSet(u.ordered) \/ \E j \in 1 .. M : EndAt(u, j) /\ LeftAt(u, j) = x
    <3>1. CASE x = m
      BY <1>1, <1>6, <1>j, <3>1
    <3>2. CASE x \in w.seen
      <4>1. x \in ToSet(w.ordered) \/ \E j \in 2 .. L : EndAt(w, j) /\ LeftAt(w, j) = x
        BY <1>4, <1>5, <3>2, SeenPlace DEF L
      <4> QED BY <1>1, <1>7, <4>1
    <3> QED BY <1>1, <2>3, <3>1, <3>2
  <2>4. ASSUME NEW l \in 1 .. M, EndAt(u, l), l # J
        PROVE  /\ l - K \in 1 .. L /\ EndAt(w, l - K) /\ LeftAt(u, l) = LeftAt(w, l - K)
               /\ LeftAt(u, l) \in w.seen /\ LeftAt(u, l) \notin ToSet(w.ordered)
    <3>1. l \notin 1 .. K
      BY <1>1, <2>4
    <3>2. l - K \in 1 .. L /\ LeftAt(u, l) = LeftAt(w, l - K) /\ EndAt(w, l - K)
      BY <1>8, <2>4, <3>1
    <3> QED BY <1>4, <3>2 DEF SeenOnce, L
  <2>5. LeftAt(u, J) = m /\ m \notin ToSet(w.ordered)
    BY <1>1, <1>4, <1>5, <1>j DEF SeenOnce
  <2>6. ASSUME NEW l \in 1 .. M, EndAt(u, l)
        PROVE  LeftAt(u, l) \in u.seen /\ LeftAt(u, l) \notin ToSet(u.ordered)
    BY <1>1, <2>4, <2>5, <2>6
  <2>7. ASSUME NEW i \in 1 .. M, NEW j \in 1 .. M, EndAt(u, i), EndAt(u, j), LeftAt(u, i) = LeftAt(u, j)
        PROVE  i = j
    <3>1. CASE i = J \/ j = J
      BY <1>5, <2>4, <2>5, <2>7, <3>1
    <3>2. CASE i # J /\ j # J
      <4>1. /\ i - K \in 1 .. L /\ EndAt(w, i - K) /\ LeftAt(u, i) = LeftAt(w, i - K)
            /\ j - K \in 1 .. L /\ EndAt(w, j - K) /\ LeftAt(u, j) = LeftAt(w, j - K)
        BY <2>4, <2>7, <3>2
      <4>2. i - K = j - K
        BY <1>4, <2>7, <4>1 DEF SeenOnce, L
      <4> QED BY <1>6, <4>2
    <3> QED BY <3>1, <3>2
  <2> QED BY <2>1, <2>3, <2>6, <2>7 DEF SeenOnce, M
<1>11. Awaited(u, graph)
  <2>1. SUFFICES ASSUME NEW l \in 1 .. M, EndAt(u, l), NEW d \in ToSet(graph[LeftAt(u, l)])
                 PROVE  OrderedBefore(u, d, l)
    BY DEF Awaited, M
  <2>2. CASE l = J
    <3>1. LeftAt(u, l) = m /\ l - 1 = K
      BY <1>1, <1>j, <2>2
    <3>2. \E i \in 1 .. l - 1 : LeftAt(u, i) = d
      BY <1>1, <2>1, <3>1
    <3> QED BY <3>2 DEF OrderedBefore
  <2>3. CASE l # J
    <3>1. l \notin 1 .. K
      BY <1>1, <2>1
    <3> DEFINE j == l - K
    <3>2. j \in 2 .. L /\ j \in 1 .. L /\ LeftAt(u, l) = LeftAt(w, j) /\ EndAt(w, j)
      BY <1>8, <2>1, <2>3, <3>1
    <3>3. j + K = l
      BY <1>6
    <3> HIDE DEF j
    <3>4. OrderedBefore(w, d, j)
      BY <1>4, <2>1, <3>2 DEF Awaited, L
    <3>5. j \in 2 .. L + 1
      BY <1>6, <3>2
    <3> QED BY <1>9, <3>3, <3>4, <3>5
  <2> QED BY <2>2, <2>3
<1>12. Leading(u, graph)
  <2>1. SUFFICES ASSUME NEW l \in 1 .. M, NEW i \in 1 .. l - 1, EndAt(u, l)
                 PROVE  Leads(graph, LeftAt(u, l), LeftAt(u, i))
    BY DEF Leading, M
  <2>2. ASSUME NEW d \in ToSet(graph[m]) PROVE d \in DOMAIN graph
    <3>1. ToSet(graph[m]) \subseteq DOMAIN graph
      BY <1>2, Successors
    <3> QED BY <3>1
  <2>3. CASE l = J
    <3>1. LeftAt(u, l) = m /\ i \in 1 .. K
      BY <1>1, <1>j, <2>3
    <3>2. LeftAt(u, i) \in ToSet(graph[m])
      BY <1>1, <3>1
    <3>3. Path(graph, LeftAt(u, i), LeftAt(u, i))
      BY <2>2, <3>2, PathReflexive
    <3> QED BY <3>1, <3>2, <3>3 DEF Leads
  <2>4. CASE l # J
    <3>1. l \notin 1 .. K
      BY <1>1, <2>1
    <3> DEFINE j == l - K
               x == LeftAt(w, j)
    <3>2. j \in 2 .. L /\ j \in 1 .. L /\ LeftAt(u, l) = x /\ EndAt(w, j)
      BY <1>8, <2>1, <2>4, <3>1
    <3>3. j + K = l /\ l \in Nat
      BY <1>6
    <3> HIDE DEF j
    <3>4. \A k \in 1 .. j - 1 : Leads(graph, x, LeftAt(w, k))
      BY <1>4, <3>2 DEF Leading, L
    <3>5. Leads(graph, x, m)
      <4>1. 1 \in 1 .. j - 1
        BY <1>6, <3>2
      <4> QED BY <3>4, <4>1 DEF m
    <3> HIDE DEF x
    <3>6. CASE i \in 1 .. K
      <4>1. LeftAt(u, i) \in ToSet(graph[m])
        BY <1>1, <3>6
      <4>2. Path(graph, m, LeftAt(u, i))
        BY <1>2, <4>1, PathEdge
      <4>3. PICK d \in ToSet(graph[x]) : Path(graph, d, m)
        BY <3>5 DEF Leads
      <4>4. Path(graph, d, LeftAt(u, i))
        BY <4>2, <4>3, PathTransitive
      <4> QED BY <3>2, <4>3, <4>4 DEF Leads
    <3>7. CASE i = J
      <4>1. LeftAt(u, i) = m
        BY <1>1, <1>j, <3>7
      <4> QED BY <3>2, <3>5, <4>1
    <3>8. CASE i \notin 1 .. K /\ i # J
      <4>1. i \in 1 .. M
        BY <1>6
      <4>2. i - K \in 2 .. L /\ LeftAt(u, i) = LeftAt(w, i - K)
        BY <1>8, <3>8, <4>1
      <4>3. i - K \in 1 .. j - 1
        BY <1>6, <3>2, <3>3, <4>2
      <4> QED BY <3>2, <3>4, <4>2, <4>3
    <3> QED BY <3>6, <3>7, <3>8
  <2> QED BY <2>3, <2>4
<1>13. DependenciesFirst(u.ordered, graph)
  BY <1>1, <1>4
<1>14. Covered(u)
  <2>1. L + 1 \in 2 .. L + 1 /\ (L + 1) + K = M + 1
    BY <1>6
  <2>2. \A x \in Modules : OrderedBefore(w, x, L + 1)
    BY <1>4 DEF Covered, L
  <2> QED BY <1>9, <2>1, <2>2 DEF Covered, M
<1> QED BY <1>10, <1>11, <1>12, <1>13, <1>14 DEF OrderInvariant

\* The modules are a graph without circles, and w is a walk over it that has not ended.
Walking(w, graph) ==
    /\ IsGraph(graph) /\ DOMAIN graph = Modules /\ NoCircle(graph)
    /\ w \in Orders /\ w.left # << >> /\ OrderInvariant(w, graph)

\* A step of a walk is the end of a visit, the start of one, or a visit that is not made again.
LEMMA VisitKinds ==
    ASSUME NEW graph, IsGraph(graph), DOMAIN graph = Modules, NEW w \in Orders, w.left # << >>,
           NEW u, u = Visit(w, graph)
    PROVE  /\ u \in Orders
           /\ \/ EndAt(w, 1) /\ VisitEnds(w, u)
              \/ ~ EndAt(w, 1) /\ LeftAt(w, 1) \in w.seen /\ VisitSkipped(w, u)
              \/ /\ ~ EndAt(w, 1) /\ LeftAt(w, 1) \notin w.seen
                 /\ \E K \in Nat : VisitStarts(w, u, graph, K)
<1>1. CASE EndAt(w, 1)
  BY <1>1, VisitEnded
<1>2. CASE ~ EndAt(w, 1) /\ LeftAt(w, 1) \in w.seen
  BY <1>2, VisitAgain
<1>3. CASE ~ EndAt(w, 1) /\ LeftAt(w, 1) \notin w.seen
  BY <1>3, VisitStarted
<1> QED BY <1>1, <1>2, <1>3

\* A step of a walk keeps the invariant.
LEMMA VisitKeeps ==
    ASSUME NEW graph, NEW w, Walking(w, graph)
    PROVE  OrderInvariant(Visit(w, graph), graph)
<1> DEFINE u == Visit(w, graph)
<1>1. /\ IsGraph(graph) /\ DOMAIN graph = Modules /\ NoCircle(graph)
      /\ w \in Orders /\ w.left # << >> /\ OrderInvariant(w, graph)
  BY DEF Walking
<1>2. /\ u \in Orders
      /\ \/ EndAt(w, 1) /\ VisitEnds(w, u)
         \/ ~ EndAt(w, 1) /\ LeftAt(w, 1) \in w.seen /\ VisitSkipped(w, u)
         \/ /\ ~ EndAt(w, 1) /\ LeftAt(w, 1) \notin w.seen
            /\ \E K \in Nat : VisitStarts(w, u, graph, K)
  BY <1>1, VisitKinds
<1> HIDE DEF u
<1> SUFFICES OrderInvariant(u, graph)
  BY DEF u
<1>3. CASE EndAt(w, 1) /\ VisitEnds(w, u)
  BY <1>1, <1>2, <1>3, VisitEndsKeeps
<1>4. CASE ~ EndAt(w, 1) /\ LeftAt(w, 1) \in w.seen /\ VisitSkipped(w, u)
  BY <1>1, <1>2, <1>4, VisitSkippedKeeps
<1>5. ASSUME ~ EndAt(w, 1), LeftAt(w, 1) \notin w.seen, NEW K \in Nat, VisitStarts(w, u, graph, K)
      PROVE  OrderInvariant(u, graph)
  BY <1>1, <1>2, <1>5, VisitStartsKeeps
<1> QED BY <1>2, <1>3, <1>4, <1>5

\* The steps of the modules that have not been seen
Unvisited(w, graph) == {p \in Items(graph) : p[1] \notin w.seen}

\* How much there is to do
Undone(w, graph) == Cardinality(Unvisited(w, graph)) + Len(w.left)

\* Things to do are counted by natural numbers.
LEMMA UndoneNat ==
    ASSUME NEW graph, IsGraph(graph), NEW w \in Orders
    PROVE  /\ IsFiniteSet(Unvisited(w, graph)) /\ Cardinality(Unvisited(w, graph)) \in Nat
           /\ Len(w.left) \in Nat
           /\ Undone(w, graph) \in Nat
<1>1. Unvisited(w, graph) \in SUBSET Items(graph)
  BY DEF Unvisited
<1>2. IsFiniteSet(Unvisited(w, graph)) /\ Cardinality(Unvisited(w, graph)) \in Nat
  BY <1>1, ItemsFinite, FS_Subset, FS_CardinalityType
<1>3. Len(w.left) \in Nat
  BY LeftEntries
<1> QED BY <1>2, <1>3 DEF Undone

\* A module has two steps more than dependencies, which are done when it has been seen.
LEMMA UnvisitedFewer ==
    ASSUME NEW graph, IsGraph(graph), NEW w \in Orders, NEW u \in Orders, NEW m \in DOMAIN graph,
           m \notin w.seen, u.seen = w.seen \cup {m}
    PROVE  Cardinality(Unvisited(w, graph)) = Cardinality(Unvisited(u, graph)) + Len(graph[m]) + 2
<1> DEFINE n == Len(graph[m]) + 1
           M == {m}
           J == 0 .. n
           I == M \X J
           W == Unvisited(w, graph)
           U == Unvisited(u, graph)
<1>1. graph[m] \in Seq(DOMAIN graph) /\ n \in Nat
  BY DEF IsGraph
<1>2. IsFiniteSet(J) /\ Cardinality(J) = n + 1
  <2> HIDE DEF n
  <2>1. 0 \in Int /\ n \in Int /\ ~ (0 > n) /\ n - 0 + 1 = n + 1
    BY <1>1
  <2> QED BY <2>1, FS_Interval
<1>3. IsFiniteSet(M) /\ Cardinality(M) = 1
  BY FS_Singleton
<1>4. IsFiniteSet(I) /\ Cardinality(I) = n + 1
  <2> HIDE DEF M, J, n
  <2>1. IsFiniteSet(M \X J) /\ Cardinality(M \X J) = Cardinality(M) * Cardinality(J)
    BY <1>2, <1>3, FS_Product
  <2>2. Cardinality(M) * Cardinality(J) = n + 1
    BY <1>1, <1>2, <1>3
  <2> QED BY <2>1, <2>2
<1>5. \A p : p \in Items(graph) <=>
                  \E x \in DOMAIN graph : \E j \in 0 .. Len(graph[x]) + 1 : p = <<x, j>>
  BY ItemsFinite
<1>6. ASSUME NEW p PROVE p \in I <=> p \in Items(graph) /\ p[1] = m
  <2>1. ASSUME p \in I PROVE p \in Items(graph) /\ p[1] = m
    <3>1. PICK j \in J : p = <<m, j>>
      BY <2>1
    <3> QED BY <1>5, <3>1
  <2>2. ASSUME p \in Items(graph), p[1] = m PROVE p \in I
    <3>1. PICK x \in DOMAIN graph : \E j \in 0 .. Len(graph[x]) + 1 : p = <<x, j>>
      BY <1>5, <2>2
    <3>2. PICK j \in 0 .. Len(graph[x]) + 1 : p = <<x, j>>
      BY <3>1
    <3>3. x = m /\ j \in J
      BY <2>2, <3>2
    <3> QED BY <3>2, <3>3
  <2> QED BY <2>1, <2>2
<1> HIDE DEF I, J, M, n
<1>7. I \subseteq W /\ U = W \ I /\ W \cap I = I
  <2>1. \A p : p \in W <=> p \in Items(graph) /\ p[1] \notin w.seen
    BY DEF Unvisited
  <2>2. \A p : p \in U <=> p \in Items(graph) /\ p[1] \notin w.seen /\ p[1] # m
    BY DEF Unvisited
  <2> HIDE DEF W, U
  <2>3. I \subseteq W
    BY <1>6, <2>1
  <2>4. U = W \ I
    BY <1>6, <2>1, <2>2
  <2> QED BY <2>3, <2>4
<1>8. IsFiniteSet(W) /\ Cardinality(W) \in Nat /\ Cardinality(U) \in Nat
  BY UndoneNat
<1> HIDE DEF W, U
<1>9. Cardinality(W \ I) = Cardinality(W) - Cardinality(W \cap I)
  BY <1>8, FS_Difference
<1>10. Cardinality(W) = Cardinality(U) + n + 1
  <2>1. Cardinality(U) = Cardinality(W) - Cardinality(I)
    <3>1. U = W \ I /\ W \cap I = I
      BY <1>7
    <3> QED BY <1>9, <3>1, Zenon
  <2> QED BY <1>1, <1>4, <1>8, <2>1
<1>11. n + 1 = Len(graph[m]) + 2 /\ Len(graph[m]) \in Nat
  BY <1>1 DEF n
<1>12. Cardinality(W) = Cardinality(U) + Len(graph[m]) + 2
  BY <1>8, <1>10, <1>11, <1>1
<1> QED BY <1>12 DEF W, U

\* With every step there is less to do.
LEMMA VisitDone ==
    ASSUME NEW graph, NEW w, Walking(w, graph)
    PROVE  /\ Undone(w, graph) \in Nat /\ Undone(Visit(w, graph), graph) \in Nat
           /\ Undone(Visit(w, graph), graph) < Undone(w, graph)
<1> DEFINE u == Visit(w, graph)
<1>1. /\ IsGraph(graph) /\ DOMAIN graph = Modules /\ NoCircle(graph)
      /\ w \in Orders /\ w.left # << >>
  BY DEF Walking
<1>2. /\ u \in Orders
      /\ \/ EndAt(w, 1) /\ VisitEnds(w, u)
         \/ ~ EndAt(w, 1) /\ LeftAt(w, 1) \in w.seen /\ VisitSkipped(w, u)
         \/ /\ ~ EndAt(w, 1) /\ LeftAt(w, 1) \notin w.seen
            /\ \E K \in Nat : VisitStarts(w, u, graph, K)
  BY <1>1, VisitKinds
<1> HIDE DEF u
<1> SUFFICES /\ Undone(w, graph) \in Nat /\ Undone(u, graph) \in Nat
             /\ Undone(u, graph) < Undone(w, graph)
  BY DEF u
<1>3. /\ Cardinality(Unvisited(w, graph)) \in Nat /\ Len(w.left) \in Nat /\ Undone(w, graph) \in Nat
      /\ Cardinality(Unvisited(u, graph)) \in Nat /\ Len(u.left) \in Nat /\ Undone(u, graph) \in Nat
  BY <1>1, <1>2, UndoneNat
<1>4. CASE u.seen = w.seen /\ Remains(w, u, 2, 0)
  <2>1. Unvisited(u, graph) = Unvisited(w, graph)
    BY <1>4 DEF Unvisited
  <2>2. Len(u.left) = Len(w.left) - 1
    BY <1>1, <1>2, <1>4, RestPlaces
  <2> QED BY <1>3, <2>1, <2>2 DEF Undone
<1>5. ASSUME LeftAt(w, 1) \notin w.seen, NEW K \in Nat, VisitStarts(w, u, graph, K)
      PROVE  Undone(u, graph) < Undone(w, graph)
  <2> DEFINE m == LeftAt(w, 1)
             J == K + 1
             l == Len(graph[m])
  <2>1. J \in Nat /\ Remains(w, u, 2, J) /\ u.seen = w.seen \cup {m} /\ K <= l
    BY <1>5 DEF VisitStarts
  <2>2. Len(w.left) # 0 /\ 1 \in 1 .. Len(w.left) /\ Len(u.left) = Len(w.left) - 1 + J
    <3> HIDE DEF J
    <3> QED BY <1>1, <1>2, <2>1, RemainsPlaces
  <2>3. m \in DOMAIN graph
    BY <1>1, <2>2, LeftEntries
  <2>4. l \in Nat
    BY <1>1, <2>3 DEF IsGraph
  <2>5. Cardinality(Unvisited(w, graph)) = Cardinality(Unvisited(u, graph)) + l + 2
    <3> HIDE DEF m
    <3> QED BY <1>1, <1>2, <1>5, <2>1, <2>3, UnvisitedFewer DEF m
  <2> DEFINE a == Cardinality(Unvisited(u, graph))
             b == Cardinality(Unvisited(w, graph))
             c == Len(w.left)
             d == Len(u.left)
  <2>6. a \in Nat /\ b \in Nat /\ c \in Nat /\ d \in Nat /\ b = a + l + 2 /\ d = c - 1 + (K + 1) /\ K <= l
    BY <1>3, <2>1, <2>2, <2>5
  <2>7. Undone(u, graph) = a + d /\ Undone(w, graph) = b + c
    BY DEF Undone
  <2> HIDE DEF a, b, c, d, l
  <2> QED BY <2>4, <2>6, <2>7
<1> QED BY <1>2, <1>3, <1>4, <1>5 DEF VisitEnds, VisitSkipped

\* The walk before its first step
Unordered == [seen |-> {}, ordered |-> << >>, left |-> Visits(Paths)]

\* f is the function that CheckedOrder computes by, up to N.
IsOrdering(f, graph, N) ==
    f = [n \in 0 .. N |-> IF n = 0 THEN [seen |-> {}, ordered |-> << >>, left |-> Visits(Paths)]
                          ELSE LET walk == f[n - 1]
                               IN  IF walk.left = << >> THEN walk ELSE Visit(walk, graph)]

\* Nothing has been visited before the first step, and everything is left.
LEMMA OrderingStarts ==
    ASSUME NEW graph, IsGraph(graph), DOMAIN graph = Modules
    PROVE  /\ Unordered \in Orders /\ OrderInvariant(Unordered, graph)
           /\ Undone(Unordered, graph) = Steps(Paths, graph)
<1> DEFINE w == Unordered
           v == Visits(Paths)
           L == Len(Paths)
<1>1. /\ Paths \in Seq(Modules) /\ L \in Nat /\ v \in Seq(Visitings) /\ Len(v) = L
      /\ \A i \in 1 .. L : v[i].module = Paths[i] /\ v[i].visited = FALSE
  <2>1. Paths \in Seq(Modules)
    BY PathsAssumption
  <2>2. L \in Nat
    BY <2>1
  <2> QED BY <2>1, <2>2, VisitsFound
<1> HIDE DEF v, L
<1>2. w \in Orders /\ w.seen = {} /\ w.ordered = << >> /\ w.left = v
  BY <1>1 DEF Unordered, Orders, v
<1> HIDE DEF w
<1>3. /\ \A i \in 1 .. Len(w.left) : ~ EndAt(w, i)
      /\ \A i \in 1 .. L : LeftAt(w, i) = Paths[i]
  BY <1>1, <1>2 DEF EndAt, LeftAt
<1>4. Len(w.ordered) = 0 /\ ToSet(w.ordered) = {} /\ DOMAIN w.ordered = {}
  BY <1>2 DEF ToSet
<1>5. SeenOnce(w)
  BY <1>2, <1>3, <1>4 DEF SeenOnce, IsInjective
<1>6. Awaited(w, graph) /\ Leading(w, graph)
  BY <1>3 DEF Awaited, Leading
<1>7. DependenciesFirst(w.ordered, graph)
  BY <1>4 DEF DependenciesFirst
<1>8. Covered(w)
  <2>1. SUFFICES ASSUME NEW m \in Modules PROVE \E i \in 1 .. (Len(w.left) + 1) - 1 : LeftAt(w, i) = m
    BY DEF Covered, OrderedBefore
  <2>2. PICK i \in 1 .. L : Paths[i] = m
    BY <1>1, SetOfSequence DEF Modules, L
  <2>3. i \in 1 .. (Len(w.left) + 1) - 1
    BY <1>1, <1>2
  <2> QED BY <1>3, <2>2, <2>3
<1>9. Undone(w, graph) = Steps(Paths, graph)
  <2>1. Unvisited(w, graph) = Items(graph)
    BY <1>2 DEF Unvisited
  <2>2. Undone(w, graph) = Cardinality(Items(graph)) + L
    BY <1>1, <1>2, <2>1 DEF Undone
  <2> QED BY <2>2 DEF Steps, Items, L
<1> QED BY <1>2, <1>5, <1>6, <1>7, <1>8, <1>9 DEF OrderInvariant, w

\* The recursion of CheckedOrder has a solution.
LEMMA OrderingExists ==
    ASSUME NEW graph, IsGraph(graph), DOMAIN graph = Modules, NEW N \in Nat
    PROVE  \E f : IsOrdering(f, graph, N)
<1> DEFINE S == Orders
           Turn(w) == IF w.left = << >> THEN w ELSE Visit(w, graph)
           F == [w \in S |-> Turn(w)]
           a == Unordered
<1>1. ASSUME NEW w \in S PROVE Turn(w) \in S
  <2>1. CASE w.left # << >>
    <3>1. Visit(w, graph) \in Orders
      BY <2>1, VisitKinds
    <3> QED BY <2>1, <3>1
  <2> QED BY <2>1
<1>2. F \in [S -> S]
  BY <1>1
<1>3. a \in S
  BY OrderingStarts
<1>4. \A w \in S : F[w] = Turn(w)
  OBVIOUS
<1> HIDE DEF S, F, a
<1>f. PICK f : IsIteration(f, S, F, a, N)
  BY <1>2, <1>3, IterationExists
<1>5. f \in [0 .. N -> S] /\ f[0] = a /\ \A n \in 1 .. N : f[n] = F[f[n - 1]]
  BY <1>f DEF IsIteration
<1>6. ASSUME NEW n \in 0 .. N
      PROVE  f[n] = IF n = 0 THEN a ELSE Turn(f[n - 1])
  <2>1. CASE n = 0
    BY <1>5, <2>1
  <2>2. CASE n # 0
    <3>1. n \in 1 .. N /\ n - 1 \in 0 .. N
      BY <2>2
    <3> HIDE DEF Turn
    <3> QED BY <1>4, <1>5, <2>2, <3>1
  <2> QED BY <2>1, <2>2
<1>7. f = [n \in 0 .. N |-> f[n]]
  BY <1>5
<1>8. IsOrdering(f, graph, N)
  BY <1>6, <1>7 DEF IsOrdering, a, Unordered
<1> QED BY <1>8

\* Along the walk the invariant holds, and there is less and less to do.
LEMMA OrderingSteps ==
    ASSUME NEW graph, IsGraph(graph), DOMAIN graph = Modules, NoCircle(graph), NEW N \in Nat,
           NEW f, IsOrdering(f, graph, N)
    PROVE  \A n \in Nat : n <= N =>
               /\ f[n] \in Orders /\ OrderInvariant(f[n], graph)
               /\ f[n].left # << >> => Undone(f[n], graph) + n <= Undone(Unordered, graph)
<1> DEFINE Good(n) == /\ f[n] \in Orders /\ OrderInvariant(f[n], graph)
                      /\ f[n].left # << >> => Undone(f[n], graph) + n <= Undone(Unordered, graph)
           C == {n \in Nat : n <= N => Good(n)}
<1>0. Undone(Unordered, graph) \in Nat
  BY OrderingStarts, UndoneNat
<1>1. 0 \in C
  <2>1. f[0] = Unordered
    BY DEF IsOrdering, Unordered
  <2>2. Undone(Unordered, graph) + 0 <= Undone(Unordered, graph)
    BY <1>0
  <2>3. Good(0)
    BY <2>1, <2>2, OrderingStarts
  <2> QED BY <2>3
<1>2. ASSUME NEW n \in Nat, n \in C PROVE n + 1 \in C
  <2>1. SUFFICES ASSUME n + 1 <= N PROVE Good(n + 1)
    OBVIOUS
  <2>2. Good(n)
    BY <1>2, <2>1
  <2> DEFINE w == f[n]
             u == f[n + 1]
             k == Undone(Unordered, graph)
  <2>3. u = IF w.left = << >> THEN w ELSE Visit(w, graph)
    <3>1. n + 1 \in 0 .. N /\ n + 1 # 0 /\ (n + 1) - 1 = n
      BY <2>1
    <3> QED BY <3>1 DEF IsOrdering
  <2>4. /\ w \in Orders /\ OrderInvariant(w, graph)
        /\ w.left # << >> => Undone(w, graph) + n <= k
    BY <2>2
  <2>5. SUFFICES /\ u \in Orders /\ OrderInvariant(u, graph)
                 /\ u.left # << >> => Undone(u, graph) + (n + 1) <= k
    OBVIOUS
  <2> HIDE DEF w, u, k
  <2>6. CASE w.left = << >>
    BY <2>3, <2>4, <2>6
  <2>7. CASE w.left # << >>
    <3>1. u = Visit(w, graph) /\ Walking(w, graph)
      BY <2>3, <2>4, <2>7 DEF Walking
    <3>2. u \in Orders
      BY <2>4, <2>7, <3>1, VisitKinds
    <3>3. OrderInvariant(u, graph)
      BY <3>1, VisitKeeps
    <3>4. Undone(w, graph) \in Nat /\ Undone(u, graph) \in Nat /\ Undone(u, graph) < Undone(w, graph)
      BY <3>1, VisitDone
    <3>5. Undone(u, graph) + (n + 1) <= k
      BY <1>0, <2>4, <2>7, <3>4 DEF k
    <3> QED BY <3>2, <3>3, <3>5
  <2> QED BY <2>6, <2>7
<1>3. C = Nat
  <2>1. C \in SUBSET Nat
    OBVIOUS
  <2> HIDE DEF C
  <2> QED BY <1>1, <1>2, <2>1, Counting
<1> HIDE DEF Good
<1>4. \A n \in Nat : n <= N => Good(n)
  BY <1>3
<1> QED BY <1>4 DEF Good

\* Without import cycles, CheckedOrder puts imports first.
LEMMA CheckedOrderFound ==
    ASSUME NEW p, Readable(p), CyclicComponents(p) = {}
    PROVE  IsImportOrder(p, CheckedOrder(Imports(p)))
<1> DEFINE graph == Imports(p)
           N == Steps(Paths, graph)
           f == CHOOSE g : IsOrdering(g, graph, N)
           s == CheckedOrder(graph)
<1>1. IsGraph(graph) /\ DOMAIN graph = Modules
  BY ImportsGraph
<1>2. NoCircle(graph)
  <2>1. Paths \in Seq(DOMAIN graph) /\ ToSet(Paths) = DOMAIN graph
    BY <1>1, PathsAssumption DEF Modules
  <2>2. {c \in ToSet(Components(Paths, graph)) : c.cyclic} = {}
    BY DEF CyclicComponents
  <2> HIDE DEF graph
  <2> QED BY <1>1, <2>1, <2>2, CirclesFound
<1>3. \A m \in Modules : graph[m] = p[m].imports
  BY DEF Imports
<1> HIDE DEF graph
<1>4. N = Undone(Unordered, graph) /\ N \in Nat
  BY <1>1, OrderingStarts, UndoneNat
<1>5. IsOrdering(f, graph, N)
  BY <1>1, <1>4, OrderingExists
<1>6. s = f[N].ordered
  BY DEF CheckedOrder, IsOrdering
<1> HIDE DEF f, N, s
<1> DEFINE w == f[N]
<1>7. /\ w \in Orders /\ OrderInvariant(w, graph)
      /\ w.left # << >> => Undone(w, graph) + N <= N
  BY <1>1, <1>2, <1>4, <1>5, OrderingSteps
<1>8. s = w.ordered
  BY <1>6
<1> HIDE DEF w
<1>9. w.left = << >>
  <2>1. SUFFICES ASSUME w.left # << >> PROVE FALSE
    OBVIOUS
  <2>2. Len(w.left) \in Nat /\ Len(w.left) # 0
    BY <1>7, <2>1, TailRemains
  <2>3. Cardinality(Unvisited(w, graph)) \in Nat
    BY <1>1, <1>7, UndoneNat
  <2>4. Undone(w, graph) \in Nat /\ Undone(w, graph) # 0
    BY <2>2, <2>3 DEF Undone
  <2> QED BY <1>4, <1>7, <2>1, <2>4
<1>10. s \in Seq(Modules)
  BY <1>7, <1>8, LeftEntries
<1>11. IsInjective(s)
  BY <1>7, <1>8 DEF OrderInvariant, SeenOnce
<1>12. ToSet(s) = Modules
  <2>1. Len(w.left) = 0
    BY <1>9
  <2>2. \A i \in 1 .. (Len(w.left) + 1) - 1 : FALSE
    BY <2>1
  <2>3. \A m \in Modules : m \in ToSet(s)
    BY <1>7, <1>8, <2>2 DEF OrderInvariant, Covered, OrderedBefore
  <2>4. ToSet(s) \subseteq Modules
    BY <1>10, SetOfSequence
  <2> QED BY <2>3, <2>4
<1>13. ImportsFirst(p, s)
  <2>1. SUFFICES ASSUME NEW i \in 1 .. Len(s), NEW j \in 1 .. Len(s), s[i] \in ToSet(p[s[j]].imports)
                 PROVE  i < j
    BY DEF ImportsFirst
  <2>2. s[j] \in Modules /\ Len(s) \in Nat
    BY <1>10
  <2>3. s[i] \in ToSet(graph[s[j]])
    BY <1>3, <2>1, <2>2
  <2>4. DependenciesFirst(s, graph)
    BY <1>7, <1>8 DEF OrderInvariant
  <2>5. PICK k \in 1 .. j - 1 : s[k] = s[i]
    BY <2>3, <2>4 DEF DependenciesFirst
  <2>6. k \in 1 .. Len(s) /\ DOMAIN s = 1 .. Len(s)
    BY <1>10, <2>2
  <2>7. k = i
    BY <1>11, <2>5, <2>6 DEF IsInjective
  <2> QED BY <2>2, <2>7
<1> QED BY <1>10, <1>11, <1>12, <1>13 DEF IsImportOrder, s, graph

-----------------------------------------------------------------------------
(* The first error of some stages                                          *)

\* n stages, of which number i has errors and those before it have none
FailsFirst(stages, n, i) ==
    /\ DOMAIN stages = 1 .. n /\ i \in 1 .. n
    /\ stages[i].modules # {}
    /\ \A j \in 1 .. i - 1 : stages[j].modules = {}

\* n stages without an error
Passes(stages, n) == DOMAIN stages = 1 .. n /\ \A i \in 1 .. n : stages[i].modules = {}

\* FirstError is the first stage that has an error.
LEMMA FirstErrorAt ==
    ASSUME NEW n \in Nat, NEW stages, NEW i, FailsFirst(stages, n, i)
    PROVE  FirstError(stages) = stages[i]
<1> DEFINE failing == {j \in DOMAIN stages : stages[j].modules # {}}
<1>1. i \in failing /\ failing \subseteq Nat
  BY DEF FailsFirst
<1>2. \A j \in failing : i <= j
  <2> SUFFICES ASSUME NEW j \in failing PROVE i <= j
    OBVIOUS
  <2>1. j \in 1 .. n /\ i \in 1 .. n /\ j \notin 1 .. i - 1
    BY DEF FailsFirst
  <2> QED BY <2>1
<1>3. FirstError(stages) = stages[Min(failing)]
  BY <1>1 DEF FirstError
<1> HIDE DEF failing
<1>4. Min(failing) = i
  <2>1. \A k \in failing : (\A j \in failing : k <= j) => k = i
    <3> SUFFICES ASSUME NEW k \in failing, \A j \in failing : k <= j PROVE k = i
      OBVIOUS
    <3>1. k <= i /\ i <= k /\ k \in Nat /\ i \in Nat
      BY <1>1, <1>2
    <3> QED BY <3>1
  <2>2. Min(failing) \in failing /\ \A j \in failing : Min(failing) <= j
    BY <1>1, <1>2 DEF Min
  <2> QED BY <2>1, <2>2
<1> QED BY <1>3, <1>4

\* Without errors there is no first one.
LEMMA FirstErrorNone ==
    ASSUME NEW n \in Nat, NEW stages, Passes(stages, n)
    PROVE  FirstError(stages) = [stage |-> "success", modules |-> {}]
<1>1. {i \in DOMAIN stages : stages[i].modules # {}} = {}
  BY DEF Passes
<1> QED BY <1>1 DEF FirstError

\* There is a first error, or none.
LEMMA FirstErrorFound ==
    ASSUME NEW n \in Nat, NEW stages, DOMAIN stages = 1 .. n
    PROVE  \/ Passes(stages, n) /\ FirstError(stages) = [stage |-> "success", modules |-> {}]
           \/ \E i \in 1 .. n : FailsFirst(stages, n, i) /\ FirstError(stages) = stages[i]
<1> DEFINE failing == {j \in 1 .. n : stages[j].modules # {}}
<1>1. CASE failing = {}
  <2>1. Passes(stages, n)
    BY <1>1 DEF Passes
  <2> QED BY <2>1, FirstErrorNone
<1>2. CASE failing # {}
  <2>1. failing \in SUBSET Nat
    OBVIOUS
  <2> HIDE DEF failing
  <2>2. PICK i \in failing : \A k \in failing : i <= k
    BY <1>2, <2>1, LeastElement
  <2> USE DEF failing
  <2>3. i \in 1 .. n /\ stages[i].modules # {}
    BY <2>2
  <2>4. ASSUME NEW j \in 1 .. i - 1 PROVE stages[j].modules = {}
    <3>1. j \in 1 .. n /\ ~ i <= j
      BY <2>3
    <3> QED BY <2>2, <3>1
  <2>5. FailsFirst(stages, n, i)
    BY <2>3, <2>4 DEF FailsFirst
  <2> HIDE DEF failing
  <2>6. FirstError(stages) = stages[i]
    BY <2>5, FirstErrorAt
  <2> QED BY <2>3, <2>5, <2>6
<1> QED BY <1>1, <1>2

-----------------------------------------------------------------------------
(* An analysis from nothing                                                *)

\* A function from the modules to texts that they can have
IsProject(p) == DOMAIN p = Modules /\ \A m \in Modules : p[m] \in Texts[m]

\* What the eight stages of an analysis from nothing find
FullStages(p, optionStrict, declared) ==
    << Stage("syntax",         SyntaxErrors(p, Modules)),
       Stage("catalog",        InheritanceCycles(p)),
       Stage("declarations",   LoadErrors(p, declared)),
       Stage("resolution",     Unresolvable(p, Modules)),
       Stage("main",           SecondMains(p)),
       Stage("types",          Rejected(CheckProjectComponents(p)) \cup
           {m \in Modules : Misused(p, Exports(p), declared, optionStrict, m)}),
       Stage("integrations",   RouteConflicts(p)),
       Stage("initialization", CircularValues(p)) >>

\* The types that checking finds, all of them
FullTypes(p) == [m \in Modules |-> CheckProjectComponents(p).checked[m].types]

\* The analysis of a project that is accepted
Analyzed(p, optionStrict, declared) ==
    FullSuccess(p, optionStrict, declared, Exports(p), FullTypes(p))

Accepted(p, optionStrict, declared) == Passes(FullStages(p, optionStrict, declared), 8)

\* Stages have names, but not that of success.
LEMMA StageNames ==
    ASSUME NEW p, NEW optionStrict, NEW declared, NEW stages,
           stages = FullStages(p, optionStrict, declared)
    PROVE  /\ DOMAIN stages = 1 .. 8
           /\ \A i \in 1 .. 8 : stages[i].stage \in Stages /\ stages[i].stage # "success"
<1>1. DOMAIN stages = 1 .. 8
  BY DEF FullStages
<1>2. ASSUME NEW i \in 1 .. 8 PROVE stages[i].stage \in Stages /\ stages[i].stage # "success"
  <2>1. i = 1 \/ i = 2 \/ i = 3 \/ i = 4 \/ i = 5 \/ i = 6 \/ i = 7 \/ i = 8
    OBVIOUS
  <2> QED BY <2>1 DEF FullStages, Stage, Stages
<1> QED BY <1>1, <1>2

\* An analysis from nothing ends with its first error, or with what it has found.
LEMMA FullEnds ==
    ASSUME NEW p, NEW optionStrict, NEW content, NEW declared, declared = Captured(p, content),
           NEW full, full = Full(p, optionStrict, content)
    PROVE  /\ full.outcome = FirstError(FullStages(p, optionStrict, declared))
           /\ Accepted(p, optionStrict, declared) =>
                  full.outcome.stage = "success" /\ full.analysis = Analyzed(p, optionStrict, declared)
           /\ ~ Accepted(p, optionStrict, declared) =>
                  full.outcome.stage # "success" /\ full.analysis = Fresh
<1> DEFINE stages == FullStages(p, optionStrict, declared)
           error == FirstError(stages)
<1>1. full = Ended(error, Analyzed(p, optionStrict, declared))
  BY DEF Full, FullFrom, FullError, FullStages, Analyzed, FullTypes
<1>2. /\ full.outcome = error
      /\ full.analysis = IF error.stage = "success" THEN Analyzed(p, optionStrict, declared) ELSE Fresh
  BY <1>1 DEF Ended
<1>3. DOMAIN stages = 1 .. 8 /\ \A i \in 1 .. 8 : stages[i].stage # "success"
  BY StageNames
<1>4. Accepted(p, optionStrict, declared) <=> Passes(stages, 8)
  BY DEF Accepted
<1> HIDE DEF stages
<1>5. \/ Passes(stages, 8) /\ error = [stage |-> "success", modules |-> {}]
      \/ \E i \in 1 .. 8 : FailsFirst(stages, 8, i) /\ error = stages[i]
  BY <1>3, FirstErrorFound
<1> HIDE DEF error
<1>6. CASE Passes(stages, 8) /\ error = [stage |-> "success", modules |-> {}]
  <2>1. error.stage = "success"
    BY <1>6
  <2> QED BY <1>2, <1>4, <1>6, <2>1 DEF stages, error
<1>7. ASSUME NEW i \in 1 .. 8, FailsFirst(stages, 8, i), error = stages[i]
      PROVE  ~ Passes(stages, 8) /\ error.stage # "success"
  BY <1>3, <1>7 DEF FailsFirst, Passes
<1> QED BY <1>2, <1>4, <1>5, <1>6, <1>7 DEF stages, error

\* What an initializer of a text reads is declared before, or is written as another module's.
LEMMA TextReads ==
    ASSUME NEW p, IsProject(p), NEW m \in Modules, NEW i \in DOMAIN p[m].constants,
           NEW c, c = p[m].constants[i].reads, c # << >>
    PROVE  \/ c[1] \in ToSet(p[m].imports) /\ c[2] \in Nat \ {0} /\ c = <<c[1], c[2]>>
           \/ c[1] = m /\ c[2] \in 1 .. i - 1 /\ c = <<c[1], c[2]>>
<1>1. c \in ToSet(p[m].imports) \X (Nat \ {0}) \/ c \in {m} \X (1 .. i - 1)
  BY TextsAssumption DEF IsProject
<1> QED BY <1>1

\* Each text is as the analyzer's model assumes it.
LEMMA TextTypes ==
    ASSUME NEW p, IsProject(p), NEW m \in Modules
    PROVE  /\ p[m].imports \in Seq(Modules) /\ ToSet(p[m].imports) \subseteq Modules
           /\ p[m].constants \in Seq(ToSet(p[m].constants))
           /\ DOMAIN p[m].constants = 1 .. Len(p[m].constants) /\ Len(p[m].constants) \in Nat
           /\ p[m].class \in BOOLEAN
           /\ \A need \in p[m].needs : need[1] \in ToSet(p[m].imports)
<1>1. /\ p[m].imports \in Seq(Modules)
      /\ p[m].constants \in Seq(ToSet(p[m].constants))
      /\ p[m].class \in BOOLEAN
      /\ \A need \in p[m].needs : need[1] \in ToSet(p[m].imports)
  BY TextsAssumption DEF IsProject
<1>2. ToSet(p[m].imports) \subseteq Modules
  BY <1>1, SetOfSequence
<1> DEFINE s == p[m].constants
           T == ToSet(s)
<1>3. DOMAIN s = 1 .. Len(s) /\ Len(s) \in Nat
  <2>1. s \in Seq(T)
    BY <1>1
  <2> HIDE DEF s, T
  <2> QED BY <2>1
<1> QED BY <1>1, <1>2, <1>3

\* The constants that have a written type, and the others, have types that are none of the marks.
LEMMA ProjectTyped ==
    ASSUME NEW p, IsProject(p)
    PROVE  Typed(p)
<1> SUFFICES ASSUME NEW c \in AllConstants(p), NEW k, k = Constant(p, c)
             PROVE  /\ k.type # Unknown /\ k.value \notin {Unknown, Inferred}
                    /\ k.value = Same => k.reads # << >>
  BY DEF Typed
<1>1. PICK m \in Modules : c \in ConstantsOf(p, m)
  BY DEF AllConstants
<1>2. PICK i \in DOMAIN p[m].constants : c = <<m, i>>
  BY <1>1 DEF ConstantsOf
<1>3. k = p[m].constants[i]
  BY <1>2 DEF Constant
<1>4. p[m] \in Texts[m]
  BY DEF IsProject
<1> QED BY <1>2, <1>3, <1>4, TextsAssumption

\* When every import is resolved, every initializer reads a constant that there is.
LEMMA ProjectReadable ==
    ASSUME NEW p, IsProject(p), Unresolvable(p, Modules) = {}
    PROVE  Readable(p)
<1>1. ASSUME NEW m \in Modules, NEW i \in DOMAIN p[m].constants, NEW c,
             c = p[m].constants[i].reads, c # << >>
      PROVE  c \in AllConstants(p) /\ (c[1] \in ToSet(p[m].imports) \/ (c[1] = m /\ c[2] < i))
  <2>1. c \in AllConstants(p)
    BY <1>1 DEF Unresolvable
  <2>2. \/ c[1] \in ToSet(p[m].imports)
        \/ c[1] = m /\ c[2] \in 1 .. i - 1
    BY <1>1, TextReads
  <2>3. i \in Nat
    <3>1. DOMAIN p[m].constants = 1 .. Len(p[m].constants) /\ Len(p[m].constants) \in Nat
      BY TextTypes
    <3> QED BY <3>1
  <2>4. c[2] \in 1 .. i - 1 => c[2] < i
    BY <2>3
  <2> QED BY <2>1, <2>2, <2>4
<1>2. ASSUME NEW m \in Modules
      PROVE  /\ p[m].imports \in Seq(Modules)
             /\ p[m].constants \in Seq(ToSet(p[m].constants))
             /\ p[m].class \in BOOLEAN
  BY TextTypes
<1> QED BY <1>1, <1>2 DEF Readable

\* Errors are reported in modules.
LEMMA ErrorsInModules ==
    ASSUME NEW p, IsProject(p), NEW content,
    NEW optionStrict, NEW stages, stages = FullStages(p, optionStrict, content)
    PROVE  /\ \A i \in 1 .. 5 : stages[i].modules \subseteq Modules
           /\ Readable(p) => \A i \in 1 .. 8 : stages[i].modules \subseteq Modules
<1>1. /\ SyntaxErrors(p, Modules) \subseteq Modules
      /\ InheritanceCycles(p) \subseteq Modules
      /\ LoadErrors(p, content) \subseteq Modules
      /\ Unresolvable(p, Modules) \subseteq Modules
      /\ RouteConflicts(p) \subseteq Modules
  BY DEF SyntaxErrors, InheritanceCycles, LoadErrors, Activating, Unresolvable, RouteConflicts
<1>2. SecondMains(p) \subseteq Modules
  <2> DEFINE mains == Sorted({m \in Modules : p[m].main})
  <2>1. mains \in Seq(Modules)
    BY AmongFound, PathsAssumption DEF Sorted
  <2>2. SecondMains(p) = ToSet(Tail(IF mains = << >> THEN <<"">> ELSE mains))
    BY DEF SecondMains
  <2> HIDE DEF mains
  <2>3. CASE mains = << >>
    <3>1. Tail(<<"">>) = << >>
      OBVIOUS
    <3> QED BY <2>2, <2>3, <3>1 DEF ToSet
  <2>4. CASE mains # << >>
    <3>1. Tail(mains) \in Seq(Modules)
      BY <2>1, <2>4
    <3>2. ToSet(Tail(mains)) \subseteq Modules
      BY <3>1, SetOfSequence
    <3> QED BY <2>2, <2>4, <3>2
  <2> QED BY <2>3, <2>4
<1>3. ASSUME NEW i \in 1 .. 5 PROVE stages[i].modules \subseteq Modules
  <2>1. i = 1 \/ i = 2 \/ i = 3 \/ i = 4 \/ i = 5
    OBVIOUS
  <2> QED BY <1>1, <1>2, <2>1 DEF FullStages, Stage
<1>4. ASSUME Readable(p), NEW i \in 1 .. 8 PROVE stages[i].modules \subseteq Modules
  <2>1. Rejected(CheckProjectComponents(p)) \subseteq Modules /\ CircularValues(p) \subseteq Modules
    BY <1>4, CheckedModules, CircularWithin
  <2>2. Rejected(CheckProjectComponents(p)) \cup
            {m \in Modules : Misused(p, Exports(p), content, optionStrict, m)} \subseteq Modules
    BY <2>1
  <2>3. i \in 1 .. 5 \/ i = 6 \/ i = 7 \/ i = 8
    OBVIOUS
  <2>4. stages[6].modules \subseteq Modules
    BY <2>2 DEF FullStages, Stage
  <2>5. stages[7].modules \subseteq Modules
    BY <1>1 DEF FullStages, Stage
  <2>6. stages[8].modules \subseteq Modules
    BY <2>1 DEF FullStages, Stage
  <2> QED BY <1>3, <2>3, <2>4, <2>5, <2>6
<1> QED BY <1>3, <1>4

\* What an analysis answers is a stage, and modules with errors.
LEMMA AnswerTyped ==
    ASSUME NEW p, IsProject(p), NEW optionStrict, NEW content, NEW given,
           given = Full(p, optionStrict, content).outcome
    PROVE  given.stage \in Stages /\ given.modules \subseteq Modules
<1> DEFINE declared == Captured(p, content)
           stages == FullStages(p, optionStrict, declared)
<1>1. given = FirstError(stages)
  BY FullEnds
<1>2. DOMAIN stages = 1 .. 8 /\ \A i \in 1 .. 8 : stages[i].stage \in Stages
  BY StageNames
<1>3. /\ \A i \in 1 .. 5 : stages[i].modules \subseteq Modules
      /\ Readable(p) => \A i \in 1 .. 8 : stages[i].modules \subseteq Modules
  BY ErrorsInModules
<1>4. stages[4].modules = {} => Readable(p)
  <2>1. stages[4].modules = Unresolvable(p, Modules)
    BY DEF FullStages, Stage
  <2> QED BY <2>1, ProjectReadable
<1> HIDE DEF stages
<1>5. \/ Passes(stages, 8) /\ FirstError(stages) = [stage |-> "success", modules |-> {}]
      \/ \E i \in 1 .. 8 : FailsFirst(stages, 8, i) /\ FirstError(stages) = stages[i]
  BY <1>2, FirstErrorFound
<1>6. CASE FirstError(stages) = [stage |-> "success", modules |-> {}]
  BY <1>1, <1>6 DEF Stages
<1>7. ASSUME NEW i \in 1 .. 8, FailsFirst(stages, 8, i), FirstError(stages) = stages[i]
      PROVE  given.stage \in Stages /\ given.modules \subseteq Modules
  <2>1. i \in 1 .. 5 \/ stages[4].modules = {}
    <3>1. i \in 1 .. 5 \/ 4 \in 1 .. i - 1
      OBVIOUS
    <3> QED BY <1>7, <3>1 DEF FailsFirst
  <2> QED BY <1>1, <1>2, <1>3, <1>4, <1>7, <2>1
<1> QED BY <1>5, <1>6, <1>7

\* What an analysis remembers, it has accepted: the project can be read and is well typed.
LEMMA AcceptedProject ==
    ASSUME NEW p, IsProject(p), NEW optionStrict, NEW declared, Accepted(p, optionStrict, declared)
    PROVE  /\ SyntaxErrors(p, Modules) = {} /\ InheritanceCycles(p) = {}
           /\ LoadErrors(p, declared) = {} /\ Unresolvable(p, Modules) = {}
           /\ SecondMains(p) = {} /\ RouteConflicts(p) = {} /\ CircularValues(p) = {}
           /\ \A m \in Modules : ~ Misused(p, Exports(p), declared, optionStrict, m)
           /\ Readable(p) /\ WellTyped(p, Typing(p))
           /\ FullTypes(p) = [m \in Modules |-> TypesIn(p, Typing(p), m)]
<1> DEFINE stages == FullStages(p, optionStrict, declared)
           checked == CheckProjectComponents(p)
           misused == {m \in Modules : Misused(p, Exports(p), declared, optionStrict, m)}
<1>1. \A i \in 1 .. 8 : stages[i].modules = {}
  BY DEF Accepted, Passes
<1>2. /\ stages[1].modules = {} /\ stages[2].modules = {} /\ stages[3].modules = {}
      /\ stages[4].modules = {} /\ stages[5].modules = {} /\ stages[6].modules = {}
      /\ stages[7].modules = {} /\ stages[8].modules = {}
  <2> HIDE DEF stages
  <2> QED BY <1>1
<1>3. /\ SyntaxErrors(p, Modules) = {} /\ InheritanceCycles(p) = {}
      /\ LoadErrors(p, declared) = {} /\ Unresolvable(p, Modules) = {}
      /\ SecondMains(p) = {} /\ Rejected(checked) \cup misused = {}
      /\ RouteConflicts(p) = {} /\ CircularValues(p) = {}
  BY <1>2 DEF FullStages, Stage
<1>4. Readable(p)
  BY <1>3, ProjectReadable
<1>5. AcceptedWhenTyped(p, checked.checked, Rejected(checked))
  BY <1>4, CheckedProjectAccepted
<1>6. WellTyped(p, Typing(p)) /\ \A m \in Modules : checked.checked[m].types = TypesIn(p, Typing(p), m)
  BY <1>3, <1>5 DEF AcceptedWhenTyped
<1>7. FullTypes(p) = [m \in Modules |-> TypesIn(p, Typing(p), m)]
  BY <1>6 DEF FullTypes
<1>8. \A m \in Modules : ~ Misused(p, Exports(p), declared, optionStrict, m)
  BY <1>3
<1> QED BY <1>3, <1>4, <1>6, <1>7, <1>8

-----------------------------------------------------------------------------
(* One change                                                              *)

\* p before and q now are projects that differ in nothing but the text of m.
Differ(p, q, m) ==
    IsProject(p) /\ IsProject(q) /\ m \in Modules /\ \A n \in Modules : n # m => q[n] = p[n]

\* The change shows to nobody: the same is exported, and the constants of m have written types.
Unnoticed(p, q, m) ==
    Exports(q) = Exports(p) /\ ~ HasInferred(p[m]) /\ ~ HasInferred(q[m])

\* Those outside A see what they have seen before: what they import exports the same, and is
\* not in A unless it is m and the change shows to nobody.
Unaffected(p, q, m, A) ==
    /\ A \in SUBSET Modules /\ m \in A
    /\ \A n \in Modules : n \notin A =>
           \A k \in ToSet(p[n].imports) :
               Exports(q)[k] = Exports(p)[k] /\ (k \in A => k = m /\ Unnoticed(p, q, m))

\* When m exports the same, then so does everything else.
LEMMA SameExports ==
    ASSUME NEW p, NEW q, NEW m, Differ(p, q, m), Exports(q)[m] = Exports(p)[m]
    PROVE  Exports(q) = Exports(p)
<1> DEFINE parents(r) == [k \in Modules |-> IF r[k].parent = None THEN << >> ELSE <<r[k].parent>>]
           line(g, n) == {n} \cup {k \in Modules : Reaches(g, n, k)}
           exported(r) == [n \in Modules |->
               [offers  |-> r[n].offers,
                types   |-> [i \in DOMAIN r[n].constants |-> r[n].constants[i].type],
                parent  |-> r[n].parent,
                members |-> {<<k, r[k].offers>> : k \in line(parents(r), n)}]]
<1>1. \A r, n : Line(r, n) = line(parents(r), n)
  BY DEF Line
<1>2. Exports(p) = exported(p) /\ Exports(q) = exported(q)
  BY <1>1 DEF Exports
<1>3. m \in Modules /\ \A n \in Modules : n # m => q[n] = p[n]
  BY DEF Differ
<1>4. /\ q[m].offers = p[m].offers /\ q[m].parent = p[m].parent
      /\ [i \in DOMAIN q[m].constants |-> q[m].constants[i].type]
             = [i \in DOMAIN p[m].constants |-> p[m].constants[i].type]
  <2> HIDE DEF line, parents
  <2>1. /\ exported(p)[m].offers = p[m].offers /\ exported(q)[m].offers = q[m].offers
        /\ exported(p)[m].parent = p[m].parent /\ exported(q)[m].parent = q[m].parent
        /\ exported(p)[m].types = [i \in DOMAIN p[m].constants |-> p[m].constants[i].type]
        /\ exported(q)[m].types = [i \in DOMAIN q[m].constants |-> q[m].constants[i].type]
    BY <1>3
  <2> HIDE DEF exported
  <2> QED BY <1>2, <2>1
<1>5. \A n \in Modules :
          /\ q[n].offers = p[n].offers /\ q[n].parent = p[n].parent
          /\ [i \in DOMAIN q[n].constants |-> q[n].constants[i].type]
                 = [i \in DOMAIN p[n].constants |-> p[n].constants[i].type]
  BY <1>3, <1>4
<1>6. parents(q) = parents(p)
  BY <1>5
<1>7. ASSUME NEW n \in Modules PROVE exported(q)[n] = exported(p)[n]
  <2>1. line(parents(p), n) \subseteq Modules
    OBVIOUS
  <2> HIDE DEF parents, line
  <2>2. {<<k, q[k].offers>> : k \in line(parents(q), n)} = {<<k, p[k].offers>> : k \in line(parents(p), n)}
    BY <1>5, <1>6, <2>1
  <2> QED BY <1>5, <2>2
<1>8. exported(q) = exported(p)
  <2>1. exported(q) = [n \in Modules |-> exported(q)[n]] /\ exported(p) = [n \in Modules |-> exported(p)[n]]
    OBVIOUS
  <2> HIDE DEF exported
  <2> QED BY <1>7, <2>1
<1> HIDE DEF exported
<1> QED BY <1>2, <1>8

\* What affectedProjectModules leaves out is not affected.
LEMMA AffectedFound ==
    ASSUME NEW p, NEW q, NEW m, Differ(p, q, m), Readable(p), NEW redeclared,
           NEW A, A = Affected(p, q, m, redeclared)
    PROVE  Unaffected(p, q, m, A) /\ (redeclared => A = Modules)
<1> DEFINE moved == Moved(Exports(p), Exports(q), m)
           inferred == HasInferred(p[m]) \/ HasInferred(q[m])
           targets == moved \cup (IF inferred THEN {m} ELSE {})
           graph == Imports(p)
<1>0. m \in Modules
  BY DEF Differ
<1>1. IsGraph(graph) /\ DOMAIN graph = Modules /\ \A n \in Modules : graph[n] = p[n].imports
  BY ImportsGraph DEF Imports
<1>2. moved \subseteq Modules
  BY DEF Moved
<1>3. CASE redeclared
  <2>1. A = Modules
    BY <1>3 DEF Affected
  <2> QED BY <1>0, <2>1 DEF Unaffected
<1>4. CASE ~ redeclared
  <2>1. A = {m} \cup Dependents(graph, targets)
    BY <1>4 DEF Affected
  <2>2. targets \in SUBSET DOMAIN graph
    BY <1>0, <1>1, <1>2
  <2>3. moved = IF Exports(p)[m] = Exports(q)[m] THEN {}
                ELSE {n \in Modules : Exports(p)[n] # Exports(q)[n]}
    BY DEF Moved
  <2> HIDE DEF graph, moved, inferred
  <2>4. Dependents(graph, targets) = {n \in DOMAIN graph : \E t \in targets : Path(graph, n, t)}
    BY <1>1, <2>2, DependentsArePaths
  <2>5. ASSUME NEW n \in Modules, n \notin A, NEW k \in ToSet(p[n].imports)
        PROVE  k \in Modules /\ k \notin targets /\ k \notin Dependents(graph, targets)
    <3>1. k \in ToSet(graph[n]) /\ n \in DOMAIN graph
      BY <1>1, <2>5
    <3>2. k \in DOMAIN graph
      BY <1>1, <3>1, Successors
    <3>3. Path(graph, n, k) /\ Path(graph, k, k)
      BY <3>1, <3>2, PathEdge, PathReflexive
    <3> HIDE DEF targets
    <3>4. ASSUME NEW t \in targets, Path(graph, k, t) PROVE FALSE
      <4>1. Path(graph, n, t)
        BY <3>3, <3>4, PathTransitive
      <4> QED BY <2>1, <2>4, <2>5, <3>1, <4>1
    <3> QED BY <1>1, <2>4, <3>2, <3>3, <3>4
  <2>6. m \notin targets => Unnoticed(p, q, m)
    <3> SUFFICES ASSUME m \notin targets PROVE Unnoticed(p, q, m)
      OBVIOUS
    <3>1. ~ inferred /\ m \notin moved
      OBVIOUS
    <3>2. Exports(q)[m] = Exports(p)[m]
      BY <1>0, <2>3, <3>1
    <3>3. Exports(q) = Exports(p)
      BY <3>2, SameExports
    <3> QED BY <3>1, <3>3 DEF Unnoticed, inferred
  <2>7. \A k \in Modules : k \notin targets => Exports(q)[k] = Exports(p)[k]
    <3>1. CASE Exports(p)[m] = Exports(q)[m]
      BY <3>1, SameExports
    <3>2. CASE Exports(p)[m] # Exports(q)[m]
      BY <2>3, <3>2
    <3> QED BY <3>1, <3>2
  <2>8. A \in SUBSET Modules /\ m \in A
    BY <1>0, <1>1, <2>1, <2>4
  <2> HIDE DEF targets
  <2>9. ASSUME NEW n \in Modules, n \notin A, NEW k \in ToSet(p[n].imports)
        PROVE  Exports(q)[k] = Exports(p)[k] /\ (k \in A => k = m /\ Unnoticed(p, q, m))
    BY <2>1, <2>5, <2>6, <2>7, <2>9
  <2> QED BY <1>4, <2>8, <2>9 DEF Unaffected
<1> QED BY <1>3, <1>4

\* When the change shows to nobody, the written types are the same.
LEMMA UnnoticedTypes ==
    ASSUME NEW p, NEW q, NEW m, Differ(p, q, m), Unnoticed(p, q, m)
    PROVE  /\ AllConstants(q) = AllConstants(p)
           /\ \A k \in Modules : /\ ConstantsOf(q, k) = ConstantsOf(p, k)
                                 /\ \A i \in DOMAIN p[k].constants :
                                        q[k].constants[i].type = p[k].constants[i].type
           /\ \A i \in DOMAIN p[m].constants : p[m].constants[i].type # Inferred
<1>1. ASSUME NEW k \in Modules
      PROVE  [i \in DOMAIN q[k].constants |-> q[k].constants[i].type]
                 = [i \in DOMAIN p[k].constants |-> p[k].constants[i].type]
  <2>1. \A r : Exports(r)[k].types = [i \in DOMAIN r[k].constants |-> r[k].constants[i].type]
    BY DEF Exports
  <2>2. Exports(q)[k] = Exports(p)[k]
    BY DEF Unnoticed
  <2>3. Exports(q)[k].types = Exports(p)[k].types
    BY <2>2
  <2> QED BY <2>1, <2>3
<1>2. ASSUME NEW k \in Modules
      PROVE  /\ DOMAIN q[k].constants = DOMAIN p[k].constants
             /\ \A i \in DOMAIN p[k].constants : q[k].constants[i].type = p[k].constants[i].type
  <2> DEFINE f == [i \in DOMAIN q[k].constants |-> q[k].constants[i].type]
             g == [i \in DOMAIN p[k].constants |-> p[k].constants[i].type]
  <2>1. f = g
    BY <1>1
  <2>2. DOMAIN f = DOMAIN q[k].constants /\ DOMAIN g = DOMAIN p[k].constants
    OBVIOUS
  <2>3. DOMAIN q[k].constants = DOMAIN p[k].constants
    <3> HIDE DEF f, g
    <3> QED BY <2>1, <2>2
  <2>4. \A i \in DOMAIN p[k].constants : f[i] = q[k].constants[i].type /\ g[i] = p[k].constants[i].type
    BY <2>3
  <2> HIDE DEF f, g
  <2> QED BY <2>1, <2>3, <2>4
<1>3. \A k \in Modules : ConstantsOf(q, k) = ConstantsOf(p, k)
  BY <1>2 DEF ConstantsOf
<1>4. AllConstants(q) = AllConstants(p)
  BY <1>3 DEF AllConstants
<1>5. \A i \in DOMAIN p[m].constants : p[m].constants[i].type # Inferred
  BY DEF Unnoticed, HasInferred
<1> QED BY <1>2, <1>3, <1>4, <1>5

\* The constant r is the same in both, or m's with the same written type.
Kept(p, q, m, A, r) ==
    /\ r \in AllConstants(p) /\ r \in AllConstants(q)
    /\ \/ r[1] \in Modules /\ r[1] \notin A /\ q[r[1]] = p[r[1]]
       \/ Unnoticed(p, q, m)

\* What is read by those who are not affected is kept.
LEMMA ReadsStay ==
    ASSUME NEW p, NEW q, NEW m, Differ(p, q, m), Readable(p), NEW A, Unaffected(p, q, m, A),
           NEW n \in Modules, n \notin A, NEW i \in DOMAIN p[n].constants,
           NEW r, r = p[n].constants[i].reads, r # << >>
    PROVE  Kept(p, q, m, A, r)
<1>1. r \in AllConstants(p) /\ (r[1] \in ToSet(p[n].imports) \/ r[1] = n)
  BY DEF Readable
<1>2. PICK k \in Modules : r \in ConstantsOf(p, k)
  BY <1>1 DEF AllConstants
<1>3. PICK j \in DOMAIN p[k].constants : r = <<k, j>>
  BY <1>2 DEF ConstantsOf
<1>4. r[1] = k
  BY <1>3
<1>5. m \in A /\ \A l \in Modules : l # m => q[l] = p[l]
  BY DEF Unaffected, Differ
<1>6. CASE k \notin A
  <2>1. q[k] = p[k]
    BY <1>5, <1>6
  <2>2. ConstantsOf(q, k) = ConstantsOf(p, k)
    BY <2>1 DEF ConstantsOf
  <2>3. r \in AllConstants(q)
    BY <1>2, <2>2 DEF AllConstants
  <2> QED BY <1>1, <1>4, <1>6, <2>1, <2>3 DEF Kept
<1>7. CASE k \in A
  <2>1. k \in ToSet(p[n].imports)
    BY <1>1, <1>4, <1>7
  <2>2. Unnoticed(p, q, m)
    BY <1>7, <2>1 DEF Unaffected
  <2>3. AllConstants(q) = AllConstants(p)
    BY <2>2, UnnoticedTypes
  <2> QED BY <1>1, <2>2, <2>3 DEF Kept
<1> QED BY <1>6, <1>7

\* Only those who are affected can import a name that is not exported any more.
LEMMA UnresolvableAffected ==
    ASSUME NEW p, NEW q, NEW m, Differ(p, q, m), Readable(p), NEW A, Unaffected(p, q, m, A)
    PROVE  Unresolvable(q, Modules) = Unresolvable(q, A)
<1>1. A \subseteq Modules
  BY DEF Unaffected
<1>2. ASSUME NEW n \in Modules, n \notin A, NEW i \in DOMAIN q[n].constants,
             q[n].constants[i].reads # << >>
      PROVE  q[n].constants[i].reads \in AllConstants(q)
  <2>1. q[n] = p[n]
    BY <1>2 DEF Differ, Unaffected
  <2>2. Kept(p, q, m, A, p[n].constants[i].reads)
    BY <1>2, <2>1, ReadsStay
  <2> QED BY <2>1, <2>2 DEF Kept
<1> QED BY <1>1, <1>2 DEF Unresolvable

\* The constants of a module that is not affected are the same.
LEMMA ConstantsStay ==
    ASSUME NEW p, NEW q, NEW m, Differ(p, q, m), NEW A, Unaffected(p, q, m, A),
           NEW n \in Modules, n \notin A
    PROVE  /\ q[n] = p[n] /\ ConstantsOf(q, n) = ConstantsOf(p, n)
           /\ ConstantsOf(q, n) \subseteq AllConstants(q) /\ ConstantsOf(p, n) \subseteq AllConstants(p)
           /\ \A c \in ConstantsOf(q, n) : c[1] = n /\ Constant(q, c) = Constant(p, c)
<1>1. q[n] = p[n]
  BY DEF Differ, Unaffected
<1>2. ConstantsOf(q, n) = ConstantsOf(p, n)
  BY <1>1 DEF ConstantsOf
<1>3. ConstantsOf(q, n) \subseteq AllConstants(q) /\ ConstantsOf(p, n) \subseteq AllConstants(p)
  BY DEF AllConstants
<1>4. \A c \in ConstantsOf(q, n) : c[1] = n
  BY DEF ConstantsOf
<1>5. \A c \in ConstantsOf(q, n) : Constant(q, c) = Constant(p, c)
  BY <1>1, <1>4 DEF Constant
<1> QED BY <1>1, <1>2, <1>3, <1>4, <1>5

\* A constant that is read by a module that is not affected is kept.
LEMMA ReadIsKept ==
    ASSUME NEW p, NEW q, NEW m, Differ(p, q, m), Readable(p), NEW A, Unaffected(p, q, m, A),
           NEW n \in Modules, n \notin A, NEW c \in ConstantsOf(q, n),
           NEW r, r = Constant(q, c).reads, r # << >>
    PROVE  Kept(p, q, m, A, r)
<1>1. PICK i \in DOMAIN q[n].constants : c = <<n, i>>
  BY DEF ConstantsOf
<1>2. q[n] = p[n] /\ r = q[n].constants[i].reads
  BY <1>1, ConstantsStay DEF Constant
<1> QED BY <1>1, <1>2, ReadsStay

\* Nothing is a constant that a text writes as none.
LEMMA NoConstant ==
    ASSUME NEW p
    PROVE  << >> \notin AllConstants(p)
<1>1. \A k \in Modules : \A i : <<k, i>> # << >>
  OBVIOUS
<1> QED BY <1>1 DEF AllConstants, ConstantsOf

\* There are constants that are alike before and now, those of the unaffected and what they
\* read among them.
LEMMA PartAlike ==
    ASSUME NEW p, NEW q, NEW m, Differ(p, q, m), Readable(p), Readable(q),
           NEW A, Unaffected(p, q, m, A)
    PROVE  \E C : /\ Alike(q, p, C)
                  /\ \A n \in Modules : n \notin A => ConstantsOf(q, n) \subseteq C
<1>0. m \in Modules /\ m \in A /\ \A l \in Modules : l # m => q[l] = p[l]
  BY DEF Unaffected, Differ
<1>1. CASE Unnoticed(p, q, m)
  <2> DEFINE C == AllConstants(q)
  <2>1. /\ C = AllConstants(p)
        /\ \A k \in Modules : ConstantsOf(q, k) = ConstantsOf(p, k)
        /\ \A k \in Modules : \A i \in DOMAIN p[k].constants :
               q[k].constants[i].type = p[k].constants[i].type
        /\ \A i \in DOMAIN p[m].constants : p[m].constants[i].type # Inferred
    BY <1>1, UnnoticedTypes
  <2>2. ReadsWithin(p, C) /\ ReadsWithin(q, C)
    BY <2>1 DEF ReadsWithin
  <2>3. ASSUME NEW c \in C
        PROVE  \/ Constant(q, c) = Constant(p, c)
               \/ /\ Constant(q, c).type # Inferred
                  /\ Constant(p, c).type = Constant(q, c).type
    <3>1. PICK k \in Modules : c \in ConstantsOf(p, k)
      BY <2>1 DEF AllConstants
    <3>2. PICK i \in DOMAIN p[k].constants : c = <<k, i>>
      BY <3>1 DEF ConstantsOf
    <3>3. Constant(q, c) = q[k].constants[i] /\ Constant(p, c) = p[k].constants[i]
      BY <3>2 DEF Constant
    <3>4. CASE k = m
      BY <2>1, <3>2, <3>3, <3>4
    <3>5. CASE k # m
      BY <1>0, <3>3, <3>5
    <3> QED BY <3>4, <3>5
  <2>4. \A n \in Modules : ConstantsOf(q, n) \subseteq C
    BY DEF AllConstants
  <2> HIDE DEF C
  <2>5. Alike(q, p, C)
    <3>1. C \subseteq AllConstants(q) /\ C \subseteq AllConstants(p)
      BY <2>1 DEF C
    <3> QED BY <2>2, <2>3, <3>1 DEF Alike
  <2> QED BY <2>4, <2>5
<1>2. CASE ~ Unnoticed(p, q, m)
  <2> DEFINE C == UNION {ConstantsOf(q, n) : n \in Modules \ A}
  <2>1. C \subseteq AllConstants(q) /\ C \subseteq AllConstants(p)
    <3>1. \A n \in Modules \ A : /\ ConstantsOf(q, n) \subseteq AllConstants(q)
                                 /\ ConstantsOf(q, n) \subseteq AllConstants(p)
      <4> SUFFICES ASSUME NEW n \in Modules \ A
                   PROVE  /\ ConstantsOf(q, n) \subseteq AllConstants(q)
                          /\ ConstantsOf(q, n) \subseteq AllConstants(p)
        OBVIOUS
      <4> QED BY ConstantsStay
    <3> QED BY <3>1
  <2>2. ASSUME NEW c \in C
        PROVE  /\ Constant(q, c) = Constant(p, c)
               /\ Constant(q, c).reads # << >> => Constant(q, c).reads \in C
    <3>1. PICK n \in Modules \ A : c \in ConstantsOf(q, n)
      OBVIOUS
    <3>2. Constant(q, c) = Constant(p, c)
      BY <3>1, ConstantsStay
    <3>3. ASSUME NEW r, r = Constant(q, c).reads, r # << >> PROVE r \in C
      <4>1. Kept(p, q, m, A, r)
        BY <3>1, <3>3, ReadIsKept
      <4>2. r \in AllConstants(q) /\ r[1] \in Modules \ A
        BY <1>2, <4>1 DEF Kept
      <4>3. PICK k \in Modules : r \in ConstantsOf(q, k)
        BY <4>2 DEF AllConstants
      <4>4. r[1] = k
        BY <4>3 DEF ConstantsOf
      <4> QED BY <4>2, <4>3, <4>4
    <3> QED BY <3>2, <3>3
  <2>3. \A n \in Modules : n \notin A => ConstantsOf(q, n) \subseteq C
    OBVIOUS
  <2> HIDE DEF C
  <2>4. ReadsWithin(q, C) /\ ReadsWithin(p, C)
    <3>1. << >> \notin AllConstants(q) /\ << >> \notin AllConstants(p)
      BY NoConstant
    <3>2. ReadsWithin(q, C)
      BY <2>2, <3>1 DEF ReadsWithin
    <3>3. ReadsWithin(p, C)
      BY <2>2, <3>1 DEF ReadsWithin
    <3> QED BY <3>2, <3>3
  <2>5. Alike(q, p, C)
    BY <2>1, <2>2, <2>4 DEF Alike
  <2> QED BY <2>3, <2>5
<1> QED BY <1>1, <1>2

\* The types of what is not affected, and of what it reads, stay.
LEMMA TypesStay ==
    ASSUME NEW p, NEW q, NEW m, Differ(p, q, m), Readable(p), Readable(q),
           NEW A, Unaffected(p, q, m, A), NEW n \in Modules, n \notin A, NEW c \in ConstantsOf(q, n)
    PROVE  /\ Typing(q)[c] = Typing(p)[c]
           /\ Constant(q, c).reads # << >> =>
                  Typing(q)[Constant(q, c).reads] = Typing(p)[Constant(q, c).reads]
<1>1. PICK C : /\ Alike(q, p, C)
               /\ \A k \in Modules : k \notin A => ConstantsOf(q, k) \subseteq C
  BY PartAlike
<1>2. c \in C
  BY <1>1
<1>3. \A d \in C : Typing(q)[d] = Typing(p)[d]
  BY <1>1, TypingSame
<1>4. Constant(q, c).reads # << >> => Constant(q, c).reads \in C
  <2> SUFFICES ASSUME Constant(q, c).reads # << >> PROVE Constant(q, c).reads \in C
    OBVIOUS
  <2>1. Kept(p, q, m, A, Constant(q, c).reads)
    BY ReadIsKept
  <2>2. Constant(q, c).reads \in AllConstants(q)
    BY <2>1 DEF Kept
  <2> QED BY <1>1, <1>2, <2>2 DEF Alike, ReadsWithin
<1> QED BY <1>2, <1>3, <1>4

-----------------------------------------------------------------------------
(* Checking the affected modules again                                     *)

\* What is known of q before the modules in A are checked again: the types of p for the others
TypesBefore(p, q, A) ==
    [c \in AllConstants(q) |-> IF c[1] \in A THEN Unknown ELSE Typing(p)[c]]

\* t knows of the unaffected what p gives them.
KnowsOthers(p, q, A, t) ==
    t \in Knowings(q) /\ \A c \in AllConstants(q) : c[1] \notin A => t[c] = Typing(p)[c]

\* The unaffected see what they read under the types that it has had.
LEMMA SeenStays ==
    ASSUME NEW p, NEW q, NEW m, Differ(p, q, m), Readable(p), Readable(q),
           NEW A, Unaffected(p, q, m, A), NEW t, KnowsOthers(p, q, A, t),
           NEW n \in Modules, n \notin A, NEW c \in ConstantsOf(q, n), NEW r, r = Constant(q, c).reads
    PROVE  Seen(q, t, r) = Seen(p, Typing(p), r)
<1>1. CASE r = << >>
  <2>1. r \notin AllConstants(q) /\ r \notin AllConstants(p)
    BY <1>1, NoConstant
  <2> QED BY <2>1 DEF Seen
<1>2. CASE r # << >>
  <2>1. Kept(p, q, m, A, r)
    BY <1>2, ReadIsKept
  <2>2. r \in AllConstants(p) /\ r \in AllConstants(q)
    BY <2>1 DEF Kept
  <2>3. CASE r[1] \in Modules /\ r[1] \notin A /\ q[r[1]] = p[r[1]]
    <3>1. Constant(q, r) = Constant(p, r)
      BY <2>3 DEF Constant
    <3>2. t[r] = Typing(p)[r]
      BY <2>2, <2>3 DEF KnowsOthers
    <3> QED BY <2>2, <3>1, <3>2 DEF Seen
  <2>4. CASE Unnoticed(p, q, m)
    <3>1. PICK k \in Modules : r \in ConstantsOf(p, k)
      BY <2>2 DEF AllConstants
    <3>2. PICK j \in DOMAIN p[k].constants : r = <<k, j>>
      BY <3>1 DEF ConstantsOf
    <3>3. Constant(q, r) = q[k].constants[j] /\ Constant(p, r) = p[k].constants[j]
      BY <3>2 DEF Constant
    <3>4. Constant(q, r).type = Constant(p, r).type
      BY <2>4, <3>2, <3>3, UnnoticedTypes
    <3>5. CASE k = m
      <4>1. Constant(p, r).type # Inferred
        BY <2>4, <3>2, <3>3, <3>5, UnnoticedTypes
      <4> QED BY <2>2, <3>4, <4>1 DEF Seen
    <3>6. CASE k # m /\ k \notin A
      <4>1. r[1] = k
        BY <3>2
      <4>2. t[r] = Typing(p)[r]
        BY <2>2, <3>6, <4>1 DEF KnowsOthers
      <4> QED BY <2>2, <3>4, <4>2 DEF Seen
    <3>7. CASE k # m /\ k \in A
      <4>1. PICK i \in DOMAIN q[n].constants : c = <<n, i>>
        BY DEF ConstantsOf
      <4>2. r = p[n].constants[i].reads /\ i \in DOMAIN p[n].constants
        BY <4>1, ConstantsStay DEF Constant
      <4>3. r[1] \in ToSet(p[n].imports) \/ r[1] = n
        BY <1>2, <4>2 DEF Readable
      <4>4. r[1] = k
        BY <3>2
      <4>5. k \in ToSet(p[n].imports)
        BY <3>7, <4>3, <4>4
      <4> QED BY <3>7, <4>5 DEF Unaffected
    <3> QED BY <3>5, <3>6, <3>7
  <2> QED BY <2>1, <2>3, <2>4 DEF Kept
<1> QED BY <1>1, <1>2

\* The unaffected have the types that a check would find, and are not rejected.
LEMMA OthersSettled ==
    ASSUME NEW p, NEW q, NEW m, Differ(p, q, m), Readable(p), Readable(q), WellTyped(p, Typing(p)),
           NEW A, Unaffected(p, q, m, A), NEW t, KnowsOthers(p, q, A, t),
           NEW n \in Modules, n \notin A
    PROVE  /\ Settled(q, t, n) /\ ~ Refused(q, t, n)
           /\ \A c \in ConstantsOf(q, n) : t[c] = Given(q, t, Constant(q, c))
<1>1. ASSUME NEW c \in ConstantsOf(q, n)
      PROVE  /\ t[c] = TypeOf(q, t, Constant(q, c)) /\ Admitted(q, t, Constant(q, c))
             /\ t[c] = Given(q, t, Constant(q, c))
  <2> DEFINE k == Constant(q, c)
             T == Typing(p)
  <2>1. /\ c \in AllConstants(q) /\ c \in AllConstants(p) /\ c[1] = n /\ k = Constant(p, c)
    BY ConstantsStay
  <2>2. Seen(q, t, k.reads) = Seen(p, T, k.reads)
    BY SeenStays
  <2>3. t[c] = T[c]
    BY <2>1 DEF KnowsOthers
  <2>4. T[c] = Given(p, T, k)
    BY <2>1, TypingGiven
  <2>5. Admitted(p, T, k)
    BY <2>1 DEF WellTyped
  <2> HIDE DEF k, T
  <2>6. TypeOf(p, T, k) = Given(p, T, k)
    BY <2>5, FoundOrNothing
  <2>7. /\ TypeOf(q, t, k) = TypeOf(p, T, k)
        /\ Given(q, t, k) = Given(p, T, k)
        /\ Admitted(q, t, k) <=> Admitted(p, T, k)
    BY <2>2, ReadsSame
  <2>8. t[c] = TypeOf(q, t, k) /\ Admitted(q, t, k) /\ t[c] = Given(q, t, k)
    BY <2>3, <2>4, <2>5, <2>6, <2>7
  <2> QED BY <2>8 DEF k
<1> QED BY <1>1 DEF Settled, Refused

\* What is kept can be where a check starts from.
LEMMA KeptWalk ==
    ASSUME NEW p, NEW q, NEW m, Differ(p, q, m), Readable(p), Readable(q), WellTyped(p, Typing(p)),
           NEW A, Unaffected(p, q, m, A)
    PROVE  /\ KnowsOthers(p, q, A, TypesBefore(p, q, A))
           /\ [Unseen(q) EXCEPT !.known = TypesBefore(p, q, A)] \in CheckWalks(q)
<1> DEFINE t == TypesBefore(p, q, A)
           T == Typing(p)
           U == Typing(q)
<1>1. U \in Knowings(q)
  BY TypingGiven
<1>2. Unknown \in TypesOf(q)
  BY DEF TypesOf
<1>3. /\ DOMAIN t = AllConstants(q)
      /\ \A c \in AllConstants(q) : t[c] = IF c[1] \in A THEN Unknown ELSE T[c]
      /\ t = [c \in AllConstants(q) |-> t[c]]
  BY DEF TypesBefore
<1>4. ASSUME NEW c \in AllConstants(q), c[1] \notin A
      PROVE  /\ \E n \in Modules : n \notin A /\ c \in ConstantsOf(q, n)
             /\ T[c] = U[c]
  <2>1. PICK n \in Modules : c \in ConstantsOf(q, n)
    BY DEF AllConstants
  <2>2. c[1] = n
    BY <2>1 DEF ConstantsOf
  <2>3. U[c] = T[c]
    BY <1>4, <2>1, <2>2, TypesStay
  <2> QED BY <1>4, <2>1, <2>2, <2>3
<1> HIDE DEF t, T, U
<1>5. t \in Knowings(q)
  BY <1>1, <1>2, <1>3, <1>4 DEF Knowings
<1>6. KnowsOthers(p, q, A, t)
  BY <1>3, <1>5 DEF KnowsOthers, T
<1>7. Below(t, U)
  BY <1>3, <1>4 DEF Below
<1>8. Supported(q, t)
  <2> SUFFICES ASSUME NEW c \in AllConstants(q), c[1] \notin A
               PROVE  t[c] = Given(q, t, Constant(q, c))
    BY <1>3 DEF Supported
  <2>1. PICK n \in Modules : n \notin A /\ c \in ConstantsOf(q, n)
    BY <1>4
  <2> QED BY <1>6, <2>1, OthersSettled
<1>9. Grounded(q, t)
  BY <1>5, <1>7, <1>8 DEF Grounded, U
<1>10. Unseen(q) \in CheckWalks(q)
  BY UnseenWalk
<1>11. [Unseen(q) EXCEPT !.known = t] \in CheckWalks(q)
  BY <1>5, <1>9, <1>10 DEF CheckWalks
<1> QED BY <1>6, <1>11 DEF t

\* Where no import leads back, to check the affected again is enough.
LEMMA CheckedAgain ==
    ASSUME NEW p, NEW q, NEW m, Differ(p, q, m), Readable(p), Readable(q), WellTyped(p, Typing(p)),
           NEW A, Unaffected(p, q, m, A), CyclicComponents(q) = {},
           NEW checked, checked = CheckInOrder(q, [Unseen(q) EXCEPT !.known = TypesBefore(p, q, A)],
                                               Among(CheckedOrder(Imports(q)), A)).checked
    PROVE  /\ Rejected(CheckProjectComponents(q)) = {n \in A : checked[n].rejected}
           /\ \A n \in A : CheckProjectComponents(q).checked[n].types = checked[n].types
           /\ \A n \in Modules : n \notin A =>
                  CheckProjectComponents(q).checked[n].types = TypesIn(p, Typing(p), n)
<1> DEFINE start == [Unseen(q) EXCEPT !.known = TypesBefore(p, q, A)]
           order == CheckedOrder(Imports(q))
           s == Among(order, A)
           full == CheckProjectComponents(q)
<1>0. A \in SUBSET Modules
  BY DEF Unaffected
<1>1. start \in CheckWalks(q) /\ KnowsOthers(p, q, A, TypesBefore(p, q, A))
  BY KeptWalk
<1>2. start.known = TypesBefore(p, q, A)
  BY DEF Unseen
<1>3. IsImportOrder(q, order)
  BY CheckedOrderFound
<1> HIDE DEF start, order
<1>4. s \in Seq(Modules) /\ IsInjective(s) /\ ToSet(s) = A /\ ImportsFirst(q, s)
  BY <1>0, <1>3, PartOfOrder
<1> HIDE DEF s
<1>5. PICK f : /\ f[0] = start
               /\ Takes(f, q, s)
               /\ CheckInOrder(q, start, s) = f[Len(s)]
  BY <1>1, <1>4, InOrderTakes
<1>6. \A c \in AllConstants(q) : c[1] \in ToSet(s) => f[0].known[c] = Unknown
  BY <1>2, <1>4, <1>5 DEF TypesBefore
<1>7. \A n \in 0 .. Len(s) : ExactAfter(f, q, s, n)
  BY <1>4, <1>5, <1>6, TakenExact
<1>8. Len(s) \in Nat /\ \A x : x \in A <=> \E i \in 1 .. Len(s) : x = s[i]
  BY <1>4, SetOfSequence
<1> DEFINE u == f[Len(s)]
           V == u.known
<1>9. /\ u \in CheckWalks(q)
      /\ \A c \in AllConstants(q) : c[1] \notin A => V[c] = TypesBefore(p, q, A)[c]
      /\ \A n \in A : Exact(q, V, u.checked[n], n)
  <2>1. Len(s) \in 0 .. Len(s)
    BY <1>8
  <2>2. ExactAfter(f, q, s, Len(s))
    BY <1>7, <2>1
  <2>3. \A c \in AllConstants(q) : c[1] \notin A => u.known[c] = start.known[c]
    BY <1>5, <1>8, <2>2 DEF ExactAfter
  <2>4. \A j \in 1 .. Len(s) : Exact(q, u.known, u.checked[s[j]], s[j])
    BY <2>2 DEF ExactAfter
  <2>5. \A n \in A : Exact(q, V, u.checked[n], n)
    BY <1>8, <2>4
  <2>6. u \in CheckWalks(q)
    BY <2>2 DEF ExactAfter
  <2> QED BY <1>2, <2>3, <2>5, <2>6
<1>10. checked = u.checked
  BY <1>5 DEF start, s, order
<1> HIDE DEF u
<1>11. KnowsOthers(p, q, A, V)
  <2>1. V \in Knowings(q)
    BY <1>9 DEF CheckWalks
  <2> QED BY <1>1, <1>9, <2>1 DEF KnowsOthers
<1> HIDE DEF V
<1>12. \A n \in Modules : n \notin A => Settled(q, V, n) /\ ~ Refused(q, V, n)
  BY <1>11, OthersSettled
<1>13. \A n \in Modules : Settled(q, V, n)
  BY <1>9, <1>12 DEF Exact
<1>14. PICK w : /\ ExactAbout(q, w)
                /\ full.checked = w.checked
                /\ Rejected(full) = {n \in Modules : w.checked[n].rejected}
  BY CheckedExact
<1>15. w \in CheckWalks(q) /\ \A n \in Modules : Exact(q, w.known, w.checked[n], n)
  BY <1>14 DEF ExactAbout
<1>16. w.known \in Knowings(q) /\ V \in Knowings(q)
  BY <1>11, <1>15 DEF CheckWalks, KnowsOthers
<1>17. w.known = V
  <2>1. \A n \in Modules : Settled(q, w.known, n)
    BY <1>15 DEF Exact
  <2> QED BY <1>3, <1>13, <1>16, <2>1, SettledUnique
<1>18. ASSUME NEW n \in Modules
       PROVE  w.checked[n] = [types |-> TypesIn(q, V, n), rejected |-> Refused(q, V, n)]
  BY <1>15, <1>17 DEF Exact
<1>19. ASSUME NEW n \in A
       PROVE  u.checked[n] = [types |-> TypesIn(q, V, n), rejected |-> Refused(q, V, n)]
  BY <1>9, <1>19 DEF Exact
<1>20. \A n \in A : full.checked[n] = checked[n]
  BY <1>0, <1>10, <1>14, <1>18, <1>19
<1>21. \A n \in Modules : n \notin A => ~ w.checked[n].rejected /\ w.checked[n].types = TypesIn(q, V, n)
  <2> SUFFICES ASSUME NEW n \in Modules, n \notin A
               PROVE  ~ w.checked[n].rejected /\ w.checked[n].types = TypesIn(q, V, n)
    OBVIOUS
  <2>1. ~ Refused(q, V, n)
    BY <1>12
  <2>2. w.checked[n] = [types |-> TypesIn(q, V, n), rejected |-> Refused(q, V, n)]
    BY <1>18
  <2>3. w.checked[n].types = TypesIn(q, V, n)
    BY <2>2
  <2>4. w.checked[n].rejected = Refused(q, V, n)
    BY <2>2
  <2> QED BY <2>1, <2>3, <2>4
<1>22. Rejected(full) = {n \in A : checked[n].rejected}
  BY <1>0, <1>14, <1>20, <1>21
<1>23. ASSUME NEW n \in Modules, n \notin A PROVE TypesIn(q, V, n) = TypesIn(p, Typing(p), n)
  <2>1. q[n] = p[n]
    BY <1>23, ConstantsStay
  <2>2. ASSUME NEW i \in 1 .. Len(q[n].constants) PROVE V[<<n, i>>] = Typing(p)[<<n, i>>]
    <3>1. <<n, i>> \in AllConstants(q)
      BY <2>2, ConstantAt
    <3>2. <<n, i>>[1] = n
      OBVIOUS
    <3> QED BY <1>11, <1>23, <3>1, <3>2 DEF KnowsOthers
  <2> QED BY <2>1, <2>2 DEF TypesIn
<1> QED BY <1>14, <1>20, <1>21, <1>22, <1>23

-----------------------------------------------------------------------------
(* What else an analysis finds of the unaffected                           *)

\* The unaffected use what they import as they have done.
LEMMA MisusedStays ==
    ASSUME NEW p, NEW q, NEW m, Differ(p, q, m), NEW A, Unaffected(p, q, m, A),
           NEW n \in Modules, n \notin A, NEW declared, NEW optionStrict
    PROVE  Misused(q, Exports(q), declared, optionStrict, n)
               <=> Misused(p, Exports(p), declared, optionStrict, n)
<1>1. q[n] = p[n]
  BY ConstantsStay
<1>2. \A need \in p[n].needs : need[1] \in ToSet(p[n].imports)
  <2>1. IsProject(p)
    BY DEF Differ
  <2> QED BY <2>1, TextTypes
<1>3. \A need \in p[n].needs : Exports(q)[need[1]] = Exports(p)[need[1]]
  BY <1>2 DEF Unaffected
<1>4. \A need \in p[n].needs : Offered(Exports(q), need[1]) = Offered(Exports(p), need[1])
  BY <1>3 DEF Offered
<1> QED BY <1>1, <1>4 DEF Misused

\* No declaration conflicts with a file that is given.
Undisputed == \A m \in Modules : \A text \in Texts[m], content \in Files : text.declares \cap Catalog(content) = {}

\* What has been captured, captured again
LEMMA CapturedTwice ==
    ASSUME NEW p, NEW content
    PROVE  Captured(p, Captured(p, content)) = Captured(p, content)
BY DEF Captured

\* The digest of a file that has loaded loads again, whatever has been changed.
LEMMA DeclarationsLoad ==
    ASSUME Undisputed, NEW p, IsProject(p), NEW q, IsProject(q), NEW before \in Files, NEW now \in Files,
           NEW declared, declared = Captured(p, before), declared = Captured(q, now),
           LoadErrors(p, declared) = {}
    PROVE  LoadErrors(q, declared) = {}
<1>1. CASE Activating(q) = {}
  BY <1>1 DEF LoadErrors
<1>2. CASE Activating(q) # {}
  <2>1. declared = now
    BY <1>2 DEF Captured
  <2>2. declared # Unreadable
    <3>1. CASE Activating(p) = {}
      <4>1. declared = {}
        BY <3>1 DEF Captured
      <4> QED BY <4>1 DEF Unreadable
    <3>2. CASE Activating(p) # {}
      BY <3>2 DEF LoadErrors
    <3> QED BY <3>1, <3>2
  <2>3. ~ Conflicts(q, declared)
    <3>1. \A k \in Modules : q[k].declares \cap Catalog(declared) = {}
      BY <2>1 DEF Undisputed, IsProject
    <3>2. ASSUME Conflicts(q, declared) PROVE FALSE
      <4>1. PICK x \in Catalog(declared) : x \in UNION {q[k].declares : k \in Modules}
        <5> DEFINE declares == UNION {q[k].declares : k \in Modules}
        <5>1. declares \cap Catalog(declared) # {}
          BY <3>2 DEF Conflicts
        <5> HIDE DEF declares
        <5>2. PICK x : x \in declares \cap Catalog(declared)
          BY <5>1
        <5> QED BY <5>2 DEF declares
      <4>2. PICK k \in Modules : x \in q[k].declares
        BY <4>1
      <4> QED BY <3>1, <4>1, <4>2
    <3> QED BY <3>2
  <2> QED BY <2>2, <2>3 DEF LoadErrors
<1> QED BY <1>1, <1>2

\* Lowered makes whole what is split.
LEMMA LoweredWhole ==
    ASSUME NEW text, NEW saw, NEW types, NEW read, NEW declared, NEW routes, NEW actions
    PROVE  Lowered([text |-> text, saw |-> saw, types |-> types, read |-> read,
                    declared |-> declared, routes |-> routes, actions |-> actions])
               = [text |-> text, saw |-> saw, types |-> types, read |-> read,
                  declared |-> declared, routes |-> routes, actions |-> "whole"]
BY DEF Lowered

\* The artifacts of two projects for the same module are the same, but for the way it is initialized.
LEMMA ArtifactStays ==
    ASSUME NEW p, NEW q, NEW m, Differ(p, q, m), Readable(p), Readable(q),
           NEW A, Unaffected(p, q, m, A), NEW n \in Modules, n \notin A, NEW declared,
           Routes(q) = Routes(p),
           FullTypes(p) = [k \in Modules |-> TypesIn(p, Typing(p), k)],
           FullTypes(q) = [k \in Modules |-> TypesIn(q, Typing(q), k)]
    PROVE  /\ Lowered(Artifact(q, Exports(q), declared, FullTypes(q), n))
                  = Lowered(Artifact(p, Exports(p), declared, FullTypes(p), n))
           /\ FullTypes(q)[n] = FullTypes(p)[n]
<1> DEFINE P == FullTypes(p)
           Q == FullTypes(q)
           saw(r) == [k \in ToSet(r[n].imports) |-> Exports(r)[k]]
           read(r, types) == [i \in DOMAIN r[n].constants |->
                                 LET c == r[n].constants[i].reads
                                 IN  IF c = << >> THEN Unknown ELSE types[c[1]][c[2]]]
<1>1. q[n] = p[n]
  BY ConstantsStay
<1>2. saw(q) = saw(p)
  <2>1. \A k \in ToSet(p[n].imports) : Exports(q)[k] = Exports(p)[k]
    BY DEF Unaffected
  <2> QED BY <1>1, <2>1
<1>3. /\ \A k \in Modules : P[k] = TypesIn(p, Typing(p), k)
      /\ \A k \in Modules : Q[k] = TypesIn(q, Typing(q), k)
  OBVIOUS
<1> HIDE DEF P, Q
<1>4. ASSUME NEW r, Readable(r), NEW types, \A k \in Modules : types[k] = TypesIn(r, Typing(r), k),
             NEW c \in AllConstants(r)
      PROVE  types[c[1]][c[2]] = Typing(r)[c]
  <2>1. /\ c[1] \in Modules /\ c[2] \in 1 .. Len(r[c[1]].constants) /\ c = <<c[1], c[2]>>
    BY <1>4, ConstantIs
  <2>2. types[c[1]] = TypesIn(r, Typing(r), c[1])
    BY <1>4, <2>1
  <2>3. TypesIn(r, Typing(r), c[1])[c[2]] = Typing(r)[<<c[1], c[2]>>]
    BY <2>1 DEF TypesIn
  <2> QED BY <2>1, <2>2, <2>3
<1>5. ASSUME NEW i \in DOMAIN p[n].constants, NEW c, c = p[n].constants[i].reads, c # << >>
      PROVE  Q[c[1]][c[2]] = P[c[1]][c[2]]
  <2>1. Kept(p, q, m, A, c)
    BY <1>5, ReadsStay
  <2>2. c \in AllConstants(p) /\ c \in AllConstants(q)
    BY <2>1 DEF Kept
  <2>3. Q[c[1]][c[2]] = Typing(q)[c] /\ P[c[1]][c[2]] = Typing(p)[c]
    BY <1>3, <1>4, <2>2
  <2>4. <<n, i>> \in ConstantsOf(q, n)
    BY <1>1 DEF ConstantsOf
  <2>5. Constant(q, <<n, i>>).reads = c
    BY <1>1, <1>5 DEF Constant
  <2>6. Typing(q)[c] = Typing(p)[c]
    BY <1>5, <2>4, <2>5, TypesStay
  <2> QED BY <2>3, <2>6
<1>6. read(q, Q) = read(p, P)
  BY <1>1, <1>5
<1>7. Q[n] = P[n]
  <2>1. ASSUME NEW i \in 1 .. Len(q[n].constants) PROVE Typing(q)[<<n, i>>] = Typing(p)[<<n, i>>]
    <3>1. <<n, i>> \in ConstantsOf(q, n)
      BY ConstantPlaces
    <3> QED BY <3>1, TypesStay
  <2>2. TypesIn(q, Typing(q), n) = TypesIn(p, Typing(p), n)
    BY <1>1, <2>1 DEF TypesIn
  <2> QED BY <1>3, <2>2
<1> DEFINE given(r) == IF r[n].activates THEN Catalog(declared) ELSE {}
           made(r, types, actions) ==
               [text     |-> r[n],
                saw      |-> saw(r),
                types    |-> types[n],
                read     |-> read(r, types),
                declared |-> given(r),
                routes   |-> IF r[n].main THEN Routes(r) ELSE {},
                actions  |-> actions]
           actionsOf(r) == IF OnCycle(Imports(r), n) THEN "split" ELSE "whole"
<1>8. \A r, types : Artifact(r, Exports(r), declared, types, n) = made(r, types, actionsOf(r))
  BY DEF Artifact
<1>9. made(q, Q, "whole") = made(p, P, "whole")
  <2> HIDE DEF saw, read
  <2> QED BY <1>1, <1>2, <1>6, <1>7
<1>10. \A r, types : Lowered(made(r, types, actionsOf(r))) = made(r, types, "whole")
  <2> HIDE DEF saw, read, given, actionsOf
  <2> QED BY LoweredWhole
<1>11. /\ Lowered(Artifact(q, Exports(q), declared, Q, n)) = Lowered(made(q, Q, actionsOf(q)))
       /\ Lowered(Artifact(p, Exports(p), declared, P, n)) = Lowered(made(p, P, actionsOf(p)))
  <2> HIDE DEF made, actionsOf
  <2> QED BY <1>8
<1>12. Lowered(made(q, Q, actionsOf(q))) = made(q, Q, "whole")
       /\ Lowered(made(p, P, actionsOf(p))) = made(p, P, "whole")
  <2> HIDE DEF made, actionsOf
  <2> QED BY <1>10
<1> HIDE DEF made, actionsOf
<1>13. Lowered(Artifact(q, Exports(q), declared, Q, n)) = Lowered(Artifact(p, Exports(p), declared, P, n))
  BY <1>9, <1>11, <1>12
<1> QED BY <1>7, <1>13 DEF P, Q

-----------------------------------------------------------------------------
(* An analysis after one change                                            *)

\* What is remembered is an analysis from nothing, but for the way modules are initialized.
Remembered(a) ==
    /\ IsProject(a.sources)
    /\ \E content \in Files : a.declared = Captured(a.sources, content)
    /\ Accepted(a.sources, a.strict, a.declared)
    /\ a.types = FullTypes(a.sources)
    /\ DOMAIN a.artifacts = Modules
    /\ \A n \in Modules :
           Lowered(a.artifacts[n])
               = Lowered(Artifact(a.sources, Exports(a.sources), a.declared, FullTypes(a.sources), n))

\* The source of m, and nothing else, has changed since the last analysis that succeeded.
ChangeOf(m, declared) ==
    /\ Remembered(state) /\ strict = state.strict /\ file \in Files
    /\ Differ(state.sources, sources, m) /\ declared = Captured(sources, file)

\* Stages that come to the same
SameStages(early, stages) ==
    /\ DOMAIN early = 1 .. 4
    /\ early[1] = stages[1] /\ early[2] = stages[2] /\ early[3] = stages[3] /\ early[4] = stages[4]

\* What the early stages find after a change
EarlyStages(m, declared, A) ==
    << Stage("syntax",       SyntaxErrors(sources, {m})),
       Stage("catalog",      InheritanceCycles(sources)),
       Stage("declarations", IF CanReuse(declared) THEN {} ELSE LoadErrors(sources, declared)),
       Stage("resolution",   Unresolvable(sources, A)) >>

\* The modules that are checked again are those that are affected.
LEMMA ChangeAffects ==
    ASSUME NEW m, NEW declared, ChangeOf(m, declared), NEW A,
           A = Affected(state.sources, sources, m, Redeclared(declared))
    PROVE  /\ Readable(state.sources) /\ WellTyped(state.sources, Typing(state.sources))
           /\ Unaffected(state.sources, sources, m, A)
           /\ Redeclared(declared) => A = Modules
<1>1. IsProject(state.sources) /\ Accepted(state.sources, state.strict, state.declared)
  BY DEF ChangeOf, Remembered
<1>2. Readable(state.sources) /\ WellTyped(state.sources, Typing(state.sources))
  BY <1>1, AcceptedProject
<1>3. Differ(state.sources, sources, m)
  BY DEF ChangeOf
<1>4. Unaffected(state.sources, sources, m, A) /\ (Redeclared(declared) => A = Modules)
  BY <1>2, <1>3, AffectedFound
<1> QED BY <1>2, <1>4

\* The early stages find what they find from nothing.
LEMMA EarlySame ==
    ASSUME Undisputed, NEW m, NEW declared, ChangeOf(m, declared), NEW A,
           A = Affected(state.sources, sources, m, Redeclared(declared))
    PROVE  SameStages(EarlyStages(m, declared, A), FullStages(sources, strict, declared))
<1> DEFINE p == state.sources
           q == sources
<1>1. /\ IsProject(p) /\ IsProject(q) /\ m \in Modules /\ \A n \in Modules : n # m => q[n] = p[n]
      /\ Accepted(p, state.strict, state.declared)
  BY DEF ChangeOf, Remembered, Differ
<1>2. /\ SyntaxErrors(p, Modules) = {}
      /\ LoadErrors(p, state.declared) = {}
      /\ Readable(p)
  BY <1>1, AcceptedProject
<1>3. SyntaxErrors(q, {m}) = SyntaxErrors(q, Modules)
  BY <1>1, <1>2 DEF SyntaxErrors
<1>4. CanReuse(declared) => LoadErrors(q, declared) = {}
  <2> SUFFICES ASSUME declared = state.declared PROVE LoadErrors(q, declared) = {}
    BY DEF CanReuse
  <2>1. PICK content \in Files : state.declared = Captured(p, content)
    BY DEF ChangeOf, Remembered
  <2>2. file \in Files /\ declared = Captured(q, file)
    BY DEF ChangeOf
  <2> QED BY <1>1, <1>2, <2>1, <2>2, DeclarationsLoad
<1>5. Unresolvable(q, A) = Unresolvable(q, Modules)
  <2>1. Unaffected(p, q, m, A)
    BY ChangeAffects
  <2>2. Differ(p, q, m)
    BY DEF ChangeOf
  <2> QED BY <1>2, <2>1, <2>2, UnresolvableAffected
<1>6. (IF CanReuse(declared) THEN {} ELSE LoadErrors(q, declared)) = LoadErrors(q, declared)
  BY <1>4
<1> DEFINE early == EarlyStages(m, declared, A)
           stages == FullStages(q, strict, declared)
<1>7. early = << Stage("syntax",       SyntaxErrors(q, Modules)),
                 Stage("catalog",      InheritanceCycles(q)),
                 Stage("declarations", LoadErrors(q, declared)),
                 Stage("resolution",   Unresolvable(q, Modules)) >>
  BY <1>3, <1>5, <1>6 DEF EarlyStages
<1>8. /\ stages[1] = Stage("syntax", SyntaxErrors(q, Modules))
      /\ stages[2] = Stage("catalog", InheritanceCycles(q))
      /\ stages[3] = Stage("declarations", LoadErrors(q, declared))
      /\ stages[4] = Stage("resolution", Unresolvable(q, Modules))
  BY DEF FullStages
<1> HIDE DEF early, stages
<1>9. SameStages(early, stages)
  BY <1>7, <1>8 DEF SameStages
<1> QED BY <1>9 DEF early, stages

\* The first error of the early stages is the first error of all, and none of them has one when
\* there is none.
LEMMA EarlyErrorFound ==
    ASSUME NEW early, NEW stages, DOMAIN stages = 1 .. 8, SameStages(early, stages),
           \A i \in 1 .. 8 : stages[i].stage # "success",
           NEW error, error = FirstError(early)
    PROVE  /\ error.stage # "success" => error = FirstError(stages)
           /\ error.stage = "success" => \A i \in 1 .. 4 : stages[i].modules = {}
<1>1. DOMAIN early = 1 .. 4
  BY DEF SameStages
<1>2. \A i \in 1 .. 4 : early[i] = stages[i]
  <2> SUFFICES ASSUME NEW i \in 1 .. 4 PROVE early[i] = stages[i]
    OBVIOUS
  <2>1. i = 1 \/ i = 2 \/ i = 3 \/ i = 4
    OBVIOUS
  <2> QED BY <2>1 DEF SameStages
<1>3. \/ Passes(early, 4) /\ FirstError(early) = [stage |-> "success", modules |-> {}]
      \/ \E i \in 1 .. 4 : FailsFirst(early, 4, i) /\ FirstError(early) = early[i]
  BY <1>1, FirstErrorFound
<1>4. CASE Passes(early, 4) /\ FirstError(early) = [stage |-> "success", modules |-> {}]
  <2>1. error.stage = "success"
    BY <1>4
  <2>2. \A i \in 1 .. 4 : stages[i].modules = {}
    BY <1>2, <1>4 DEF Passes
  <2> QED BY <2>1, <2>2
<1>5. ASSUME NEW i \in 1 .. 4, FailsFirst(early, 4, i), FirstError(early) = early[i]
      PROVE  error.stage # "success" /\ error = FirstError(stages)
  <2>1. i \in 1 .. 8 /\ \A j \in 1 .. i - 1 : j \in 1 .. 4
    OBVIOUS
  <2>2. FailsFirst(stages, 8, i)
    BY <1>2, <1>5, <2>1 DEF FailsFirst
  <2>3. FirstError(stages) = stages[i]
    BY <2>2, FirstErrorAt
  <2> QED BY <1>2, <1>5, <2>1, <2>3
<1> QED BY <1>3, <1>4, <1>5

\* When the early stages and the last one have no errors, the first error is that of the others.
LEMMA LateErrorFound ==
    ASSUME NEW late, NEW stages, DOMAIN stages = 1 .. 8, DOMAIN late = 1 .. 3,
           \A i \in 1 .. 4 : stages[i].modules = {}, stages[8].modules = {},
           late[1] = stages[5], late[2] = stages[6], late[3] = stages[7]
    PROVE  FirstError(late) = FirstError(stages)
<1>1. \A i \in 1 .. 3 : late[i] = stages[i + 4]
  <2> SUFFICES ASSUME NEW i \in 1 .. 3 PROVE late[i] = stages[i + 4]
    OBVIOUS
  <2>1. i = 1 \/ i = 2 \/ i = 3
    OBVIOUS
  <2> QED BY <2>1
<1>2. \/ Passes(late, 3) /\ FirstError(late) = [stage |-> "success", modules |-> {}]
      \/ \E i \in 1 .. 3 : FailsFirst(late, 3, i) /\ FirstError(late) = late[i]
  BY FirstErrorFound
<1>3. ASSUME NEW j \in 1 .. 8
      PROVE  j \in 1 .. 4 \/ j = 8 \/ (j - 4 \in 1 .. 3 /\ (j - 4) + 4 = j)
  OBVIOUS
<1>4. CASE Passes(late, 3) /\ FirstError(late) = [stage |-> "success", modules |-> {}]
  <2>1. \A j \in 1 .. 8 : stages[j].modules = {}
    <3> SUFFICES ASSUME NEW j \in 1 .. 8, j - 4 \in 1 .. 3, (j - 4) + 4 = j
                 PROVE  stages[j].modules = {}
      BY <1>3
    <3>1. late[j - 4].modules = {} /\ late[j - 4] = stages[(j - 4) + 4]
      BY <1>1, <1>4 DEF Passes
    <3> QED BY <3>1
  <2>2. FirstError(stages) = [stage |-> "success", modules |-> {}]
    BY <2>1, FirstErrorNone DEF Passes
  <2> QED BY <1>4, <2>2
<1>5. ASSUME NEW i \in 1 .. 3, FailsFirst(late, 3, i), FirstError(late) = late[i]
      PROVE  FirstError(stages) = FirstError(late)
  <2> DEFINE k == i + 4
  <2>1. k \in 1 .. 8 /\ k # 8
    OBVIOUS
  <2>2. stages[k].modules # {}
    BY <1>1, <1>5 DEF FailsFirst
  <2>3. ASSUME NEW j \in 1 .. k - 1 PROVE stages[j].modules = {}
    <3>1. j \in 1 .. 8 /\ j # 8
      OBVIOUS
    <3> SUFFICES ASSUME j - 4 \in 1 .. 3, (j - 4) + 4 = j PROVE stages[j].modules = {}
      BY <1>3, <3>1
    <3>2. j - 4 \in 1 .. i - 1
      OBVIOUS
    <3>3. late[j - 4].modules = {} /\ late[j - 4] = stages[(j - 4) + 4]
      BY <1>1, <1>5, <3>2 DEF FailsFirst
    <3> QED BY <3>3
  <2>4. stages[k] = FirstError(late)
    BY <1>1, <1>5
  <2> HIDE DEF k
  <2>5. FailsFirst(stages, 8, k)
    BY <2>1, <2>2, <2>3 DEF FailsFirst
  <2>6. FirstError(stages) = stages[k]
    BY <2>5, FirstErrorAt
  <2> QED BY <2>4, <2>6
<1> QED BY <1>2, <1>4, <1>5

\* The types that are known of the others when the affected are checked again
LEMMA RetainedTypes ==
    ASSUME NEW m, NEW declared, ChangeOf(m, declared), NEW A, Unaffected(state.sources, sources, m, A)
    PROVE  /\ \A n \in Modules : state.types[n] = TypesIn(state.sources, Typing(state.sources), n)
           /\ Retained(A) = TypesBefore(state.sources, sources, A)
<1> DEFINE p == state.sources
           q == sources
<1>1. /\ IsProject(p) /\ Accepted(p, state.strict, state.declared) /\ state.types = FullTypes(p)
      /\ Differ(p, q, m)
  BY DEF ChangeOf, Remembered
<1>2. Readable(p) /\ FullTypes(p) = [n \in Modules |-> TypesIn(p, Typing(p), n)]
  BY <1>1, AcceptedProject
<1>3. \A n \in Modules : state.types[n] = TypesIn(p, Typing(p), n)
  BY <1>1, <1>2
<1>4. ASSUME NEW c \in AllConstants(q), c[1] \notin A
      PROVE  state.types[c[1]][c[2]] = Typing(p)[c]
  <2>1. PICK n \in Modules : c \in ConstantsOf(q, n)
    BY DEF AllConstants
  <2>2. c[1] = n
    BY <2>1 DEF ConstantsOf
  <2>3. c \in AllConstants(p)
    BY <1>1, <1>4, <2>1, <2>2, ConstantsStay
  <2>4. c[1] \in Modules /\ c[2] \in 1 .. Len(p[c[1]].constants) /\ c = <<c[1], c[2]>>
    BY <1>2, <2>3, ConstantIs
  <2>5. TypesIn(p, Typing(p), c[1])[c[2]] = Typing(p)[<<c[1], c[2]>>]
    BY <2>4 DEF TypesIn
  <2> QED BY <1>3, <2>4, <2>5
<1>5. Retained(A) = TypesBefore(p, q, A)
  BY <1>4 DEF Retained, TypesBefore
<1> QED BY <1>3, <1>5

\* What the affected are found to be is what they are found to be from nothing.
LEMMA CheckedAffected ==
    ASSUME NEW m, NEW declared, ChangeOf(m, declared), NEW A, Unaffected(state.sources, sources, m, A),
           Readable(sources), CyclicComponents(sources) = {}, NEW checked, checked = CheckAffected(A)
    PROVE  /\ Rejected(CheckProjectComponents(sources)) = {n \in A : checked[n].rejected}
           /\ [n \in Modules |-> IF n \in A THEN checked[n].types ELSE state.types[n]]
                  = FullTypes(sources)
<1> DEFINE p == state.sources
           q == sources
           full == CheckProjectComponents(q)
<1>1. IsProject(p) /\ Accepted(p, state.strict, state.declared) /\ Differ(p, q, m)
  BY DEF ChangeOf, Remembered
<1>2. Readable(p) /\ WellTyped(p, Typing(p))
  BY <1>1, AcceptedProject
<1>3. /\ \A n \in Modules : state.types[n] = TypesIn(p, Typing(p), n)
      /\ Retained(A) = TypesBefore(p, q, A)
  BY RetainedTypes
<1>4. checked = CheckInOrder(q, [Unseen(q) EXCEPT !.known = TypesBefore(p, q, A)],
                             Among(CheckedOrder(Imports(q)), A)).checked
  BY <1>3 DEF CheckAffected
<1>5. /\ Rejected(full) = {n \in A : checked[n].rejected}
      /\ \A n \in A : full.checked[n].types = checked[n].types
      /\ \A n \in Modules : n \notin A => full.checked[n].types = TypesIn(p, Typing(p), n)
  BY <1>1, <1>2, <1>4, CheckedAgain
<1>6. \A n \in Modules :
          (IF n \in A THEN checked[n].types ELSE state.types[n]) = full.checked[n].types
  BY <1>3, <1>5
<1>7. [n \in Modules |-> IF n \in A THEN checked[n].types ELSE state.types[n]] = FullTypes(q)
  BY <1>6 DEF FullTypes
<1> QED BY <1>5, <1>7

\* What the late stages find after a change
LateStages(declared, A, checked) ==
    << Stage("main",         SecondMains(sources)),
       Stage("types",        {n \in A : checked[n].rejected
                                  \/ Misused(sources, Exports(sources), declared, strict, n)}),
       Stage("integrations", RouteConflicts(sources)) >>

\* Files that declare the same are the same to a module.
LEMMA CatalogsMatter ==
    ASSUME NEW p, NEW exports, NEW types, NEW optionStrict, NEW n,
           NEW before, NEW now, Catalog(before) = Catalog(now)
    PROVE  /\ Misused(p, exports, before, optionStrict, n) <=> Misused(p, exports, now, optionStrict, n)
           /\ Artifact(p, exports, before, types, n) = Artifact(p, exports, now, types, n)
<1>1. Misused(p, exports, before, optionStrict, n) <=> Misused(p, exports, now, optionStrict, n)
  BY DEF Misused
<1>2. Artifact(p, exports, before, types, n) = Artifact(p, exports, now, types, n)
  BY Zenon DEF Artifact
<1> QED BY <1>1, <1>2

\* None but the affected use wrongly what they import.
LEMMA MisusedAffected ==
    ASSUME NEW m, NEW declared, ChangeOf(m, declared), NEW A, Unaffected(state.sources, sources, m, A),
           Redeclared(declared) => A = Modules,
           NEW n \in Modules, n \notin A
    PROVE  ~ Misused(sources, Exports(sources), declared, strict, n)
<1>1. Catalog(declared) = Catalog(state.declared)
  BY DEF Redeclared
<1>2. /\ IsProject(state.sources) /\ Accepted(state.sources, strict, state.declared)
      /\ Differ(state.sources, sources, m)
  BY DEF ChangeOf, Remembered
<1>3. ~ Misused(state.sources, Exports(state.sources), declared, strict, n)
  <2>1. ~ Misused(state.sources, Exports(state.sources), state.declared, strict, n)
    BY <1>2, AcceptedProject
  <2> QED BY <1>1, <2>1, CatalogsMatter
<1> QED BY <1>2, <1>3, MisusedStays

\* The late stages find what they find from nothing.
LEMMA LateSame ==
    ASSUME NEW m, NEW declared, ChangeOf(m, declared), NEW A, Unaffected(state.sources, sources, m, A),
           Redeclared(declared) => A = Modules,
           Readable(sources), CyclicComponents(sources) = {}, NEW checked, checked = CheckAffected(A),
           NEW late, late = LateStages(declared, A, checked),
           NEW stages, stages = FullStages(sources, strict, declared)
    PROVE  /\ DOMAIN late = 1 .. 3 /\ stages[8].modules = {}
           /\ late[1] = stages[5] /\ late[2] = stages[6] /\ late[3] = stages[7]
<1> DEFINE q == sources
           misused(n) == Misused(q, Exports(q), declared, strict, n)
           full == CheckProjectComponents(q)
<1>1. Rejected(full) = {n \in A : checked[n].rejected}
  BY CheckedAffected
<1>2. \A n \in Modules : n \notin A => ~ misused(n)
  BY MisusedAffected
<1>3. A \subseteq Modules
  BY DEF Unaffected
<1>4. Rejected(full) \cup {n \in Modules : misused(n)} = {n \in A : checked[n].rejected \/ misused(n)}
  <2> HIDE DEF misused, full
  <2> QED BY <1>1, <1>2, <1>3
<1>5. CircularValues(q) = {}
  BY CircularWithin
<1>6. /\ stages[5] = Stage("main", SecondMains(q))
      /\ stages[6] = Stage("types", Rejected(full) \cup {n \in Modules : misused(n)})
      /\ stages[7] = Stage("integrations", RouteConflicts(q))
      /\ stages[8] = Stage("initialization", CircularValues(q))
  BY DEF FullStages
<1>7. late = << Stage("main",         SecondMains(q)),
                Stage("types",        {n \in A : checked[n].rejected \/ misused(n)}),
                Stage("integrations", RouteConflicts(q)) >>
  BY DEF LateStages
<1> HIDE DEF misused, full
<1>8. stages[8].modules = {}
  BY <1>5, <1>6 DEF Stage
<1> DEFINE x1 == Stage("main", SecondMains(q))
           x2 == Stage("types", {n \in A : checked[n].rejected \/ misused(n)})
           x3 == Stage("integrations", RouteConflicts(q))
<1>9. late = <<x1, x2, x3>> /\ stages[5] = x1 /\ stages[6] = x2 /\ stages[7] = x3
  BY <1>4, <1>6, <1>7
<1> HIDE DEF x1, x2, x3
<1>10. DOMAIN late = 1 .. 3 /\ late[1] = x1 /\ late[2] = x2 /\ late[3] = x3
  BY <1>9
<1> QED BY <1>8, <1>9, <1>10

\* What is made whole stays so.
LEMMA ArtifactLowered ==
    ASSUME NEW p, NEW exports, NEW declared, NEW types, NEW n, NEW made,
           made = Lowered(Artifact(p, exports, declared, types, n))
    PROVE  Lowered(made) = made
<1> DEFINE x1 == p[n]
           x2 == [k \in ToSet(p[n].imports) |-> exports[k]]
           x3 == types[n]
           x4 == [i \in DOMAIN p[n].constants |->
                     LET c == p[n].constants[i].reads
                     IN  IF c = << >> THEN Unknown ELSE types[c[1]][c[2]]]
           x5 == IF p[n].activates THEN Catalog(declared) ELSE {}
           x6 == IF p[n].main THEN Routes(p) ELSE {}
           x7 == IF OnCycle(Imports(p), n) THEN "split" ELSE "whole"
<1>1. Artifact(p, exports, declared, types, n)
          = [text |-> x1, saw |-> x2, types |-> x3, read |-> x4, declared |-> x5, routes |-> x6,
             actions |-> x7]
  BY DEF Artifact
<1> HIDE DEF x1, x2, x3, x4, x5, x6, x7
<1>2. made = [text |-> x1, saw |-> x2, types |-> x3, read |-> x4, declared |-> x5, routes |-> x6,
              actions |-> "whole"]
  BY <1>1, LoweredWhole
<1>3. Lowered([text |-> x1, saw |-> x2, types |-> x3, read |-> x4, declared |-> x5, routes |-> x6,
               actions |-> "whole"])
          = [text |-> x1, saw |-> x2, types |-> x3, read |-> x4, declared |-> x5, routes |-> x6,
             actions |-> "whole"]
  BY LoweredWhole
<1> QED BY <1>2, <1>3

\* What is remembered after a change is what an analysis from nothing would have made.
LEMMA AgainRemembered ==
    ASSUME NEW m, NEW declared, ChangeOf(m, declared), NEW A, Unaffected(state.sources, sources, m, A),
           Redeclared(declared) => A = Modules, Accepted(sources, strict, declared),
           NEW a, a = Again(declared, Exports(sources), A, FullTypes(sources))
    PROVE  Remembered(a) /\ a.analyzed = TRUE
<1> DEFINE p == state.sources
           q == sources
           whole(n) == [Artifact(q, Exports(q), declared, FullTypes(q), n) EXCEPT !.actions = "whole"]
           artifacts == [n \in Modules |->
                            IF n \notin A /\ SameLowering THEN state.artifacts[n] ELSE whole(n)]
<1>1. a = Success(q, strict, declared, FullTypes(q), artifacts)
  BY DEF Again
<1>2. /\ a.sources = q /\ a.strict = strict /\ a.declared = declared
      /\ a.types = FullTypes(q) /\ a.artifacts = artifacts /\ a.analyzed = TRUE
  <2> HIDE DEF artifacts
  <2> QED BY <1>1 DEF Success
<1>3. /\ IsProject(p) /\ IsProject(q) /\ Differ(p, q, m) /\ Accepted(p, state.strict, state.declared)
      /\ \A n \in Modules :
             Lowered(state.artifacts[n]) = Lowered(Artifact(p, Exports(p), state.declared, FullTypes(p), n))
      /\ file \in Files /\ declared = Captured(q, file)
  BY DEF ChangeOf, Remembered, Differ
<1>4. /\ Readable(p) /\ FullTypes(p) = [n \in Modules |-> TypesIn(p, Typing(p), n)]
      /\ Readable(q) /\ FullTypes(q) = [n \in Modules |-> TypesIn(q, Typing(q), n)]
  BY <1>3, AcceptedProject
<1>5. ASSUME NEW n \in Modules
      PROVE  Lowered(artifacts[n]) = Lowered(Artifact(q, Exports(q), declared, FullTypes(q), n))
  <2>1. CASE n \notin A /\ SameLowering
    <3>1. artifacts[n] = state.artifacts[n]
      BY <2>1
    <3>2. Artifact(p, Exports(p), declared, FullTypes(p), n)
              = Artifact(p, Exports(p), state.declared, FullTypes(p), n)
      <4>1. Catalog(declared) = Catalog(state.declared)
        BY <2>1 DEF Redeclared
      <4> QED BY <4>1, CatalogsMatter
    <3>3. Routes(q) = Routes(p)
      BY <2>1 DEF SameLowering
    <3>4. Lowered(Artifact(q, Exports(q), declared, FullTypes(q), n))
              = Lowered(Artifact(p, Exports(p), declared, FullTypes(p), n))
      BY <1>3, <1>4, <2>1, <3>3, ArtifactStays
    <3> QED BY <1>3, <3>1, <3>2, <3>4
  <2>2. CASE ~ (n \notin A /\ SameLowering)
    <3> DEFINE made == Artifact(q, Exports(q), declared, FullTypes(q), n)
    <3>1. artifacts[n] = Lowered(made)
      BY <2>2 DEF Lowered
    <3>2. Lowered(Lowered(made)) = Lowered(made)
      BY ArtifactLowered
    <3> QED BY <3>1, <3>2
  <2> QED BY <2>1, <2>2
<1>6. DOMAIN artifacts = Modules
  OBVIOUS
<1> HIDE DEF artifacts, whole
<1> QED BY <1>2, <1>3, <1>5, <1>6 DEF Remembered

\* What an analysis leaves to be remembered: nothing, or what an analysis from nothing makes
Memory(analysis) == analysis = Fresh \/ (analysis.analyzed = TRUE /\ Remembered(analysis))

\* Nothing has been analyzed when nothing is remembered.
LEMMA MemoryKinds ==
    ASSUME NEW analysis, Memory(analysis)
    PROVE  /\ analysis.analyzed \in BOOLEAN
           /\ analysis.analyzed => Remembered(analysis)
           /\ ~ analysis.analyzed => analysis = Fresh
<1>1. Fresh.analyzed = FALSE
  BY DEF Fresh
<1> QED BY <1>1 DEF Memory

\* An analysis from nothing leaves such.
LEMMA FullRemembered ==
    ASSUME NEW p, IsProject(p), NEW optionStrict, NEW content \in Files,
           NEW full, full = Full(p, optionStrict, content)
    PROVE  Memory(full.analysis)
<1> DEFINE declared == Captured(p, content)
           a == Analyzed(p, optionStrict, declared)
           artifacts == [n \in Modules |-> Artifact(p, Exports(p), declared, FullTypes(p), n)]
<1>1. /\ Accepted(p, optionStrict, declared) => full.analysis = a
      /\ ~ Accepted(p, optionStrict, declared) => full.analysis = Fresh
  BY FullEnds
<1>2. a = Success(p, optionStrict, declared, FullTypes(p), artifacts)
  BY DEF Analyzed, FullSuccess
<1>3. /\ DOMAIN artifacts = Modules
      /\ \A n \in Modules : artifacts[n] = Artifact(p, Exports(p), declared, FullTypes(p), n)
  OBVIOUS
<1> HIDE DEF a, artifacts
<1>4. /\ a.sources = p /\ a.strict = optionStrict /\ a.declared = declared
      /\ a.types = FullTypes(p) /\ a.artifacts = artifacts /\ a.analyzed = TRUE
  BY <1>2 DEF Success
<1>5. Accepted(p, optionStrict, declared) => Remembered(a)
  BY <1>3, <1>4 DEF Remembered
<1> QED BY <1>1, <1>4, <1>5 DEF Memory

\* After one change an analysis answers what an analysis from nothing answers, and remembers
\* what that would have made.
LEMMA ChangeAnalyzed ==
    ASSUME Undisputed, NEW m, NEW declared, ChangeOf(m, declared),
           NEW found, found = Changed(m, declared),
           NEW full, full = Full(sources, strict, file)
    PROVE  found.outcome = full.outcome /\ Memory(found.analysis)
<1> DEFINE A == Affected(state.sources, sources, m, Redeclared(declared))
           checked == CheckAffected(A)
           early == EarlyError(m, declared, A)
           late == LateError(declared, Exports(sources), A, checked)
           types == [n \in Modules |-> IF n \in A THEN checked[n].types ELSE state.types[n]]
           again == Again(declared, Exports(sources), A, types)
           stages == FullStages(sources, strict, declared)
<1>1. found = IF early.stage # "success" THEN Ended(early, Fresh)
              ELSE IF CyclicComponents(sources) # {} THEN full
              ELSE Ended(late, again)
  BY DEF Changed, ChangedWith, ChangedFrom
<1>2. /\ IsProject(sources) /\ file \in Files /\ declared = Captured(sources, file)
  BY DEF ChangeOf, Differ
<1>3. /\ full.outcome = FirstError(stages)
      /\ ~ Accepted(sources, strict, declared) => full.outcome.stage # "success"
  BY <1>2, FullEnds
<1>4. /\ Unaffected(state.sources, sources, m, A)
      /\ Redeclared(declared) => A = Modules
  BY ChangeAffects
<1>5. DOMAIN stages = 1 .. 8 /\ \A i \in 1 .. 8 : stages[i].stage # "success"
  BY StageNames
<1>6. SameStages(EarlyStages(m, declared, A), stages)
  BY EarlySame
<1>7. early = FirstError(EarlyStages(m, declared, A))
  BY DEF EarlyError, EarlyStages
<1>8. stages[4].modules = Unresolvable(sources, Modules)
  BY DEF FullStages, Stage
<1>9. late = FirstError(LateStages(declared, A, checked))
  BY DEF LateError, LateStages
<1> HIDE DEF stages, early, late
<1>10. /\ early.stage # "success" => early = FirstError(stages)
       /\ early.stage = "success" => \A i \in 1 .. 4 : stages[i].modules = {}
  BY <1>5, <1>6, <1>7, EarlyErrorFound
<1>11. CASE early.stage # "success"
  <2>1. found.outcome = early /\ found.analysis = Fresh
    BY <1>1, <1>11 DEF Ended
  <2> QED BY <1>3, <1>10, <1>11, <2>1 DEF Memory
<1>12. CASE early.stage = "success" /\ CyclicComponents(sources) # {}
  <2>1. found = full
    BY <1>1, <1>12
  <2> QED BY <1>2, <2>1, FullRemembered
<1>13. CASE early.stage = "success" /\ CyclicComponents(sources) = {}
  <2>1. stages[4].modules = {}
    BY <1>10, <1>13
  <2>2. Readable(sources)
    BY <1>2, <1>8, <2>1, ProjectReadable
  <2>3. types = FullTypes(sources)
    BY <1>4, <1>13, <2>2, CheckedAffected
  <2> HIDE DEF A, checked, types
  <2> DEFINE lates == LateStages(declared, A, checked)
  <2>4. /\ DOMAIN lates = 1 .. 3 /\ stages[8].modules = {}
        /\ lates[1] = stages[5] /\ lates[2] = stages[6] /\ lates[3] = stages[7]
    BY <1>4, <1>13, <2>2, LateSame DEF stages, checked
  <2> HIDE DEF lates
  <2>5. FirstError(lates) = FirstError(stages)
    BY <1>5, <1>10, <1>13, <2>4, LateErrorFound
  <2>6. late = FirstError(stages)
    BY <1>9, <2>5 DEF lates
  <2>7. found = Ended(late, again)
    BY <1>1, <1>13
  <2>8. Accepted(sources, strict, declared) => Memory(again)
    <3>1. again = Again(declared, Exports(sources), A, FullTypes(sources))
      BY <2>3
    <3> HIDE DEF again
    <3> QED BY <1>4, <3>1, AgainRemembered DEF Memory
  <2> HIDE DEF again
  <2>9. found.outcome = late /\ found.analysis = IF late.stage = "success" THEN again ELSE Fresh
    BY <2>7 DEF Ended
  <2>10. late.stage = "success" => Accepted(sources, strict, declared)
    BY <1>3, <2>6
  <2> QED BY <1>3, <2>6, <2>8, <2>9, <2>10 DEF Memory
<1> QED BY <1>11, <1>12, <1>13

-----------------------------------------------------------------------------
(* The analyzer                                                            *)

\* The inputs are a project, options and a file; what is remembered is an analysis that
\* succeeded, as one from nothing would have made it; an answer is that of one from nothing.
IInv ==
    /\ IsProject(sources) /\ strict \in BOOLEAN /\ file \in Files
    /\ Memory(state)
    /\ answer # Unasked => answer = Full(sources, strict, file).outcome

\* Whatever AnalyzeProject finds, it answers what an analysis from nothing answers.
LEMMA FoundSame ==
    ASSUME Undisputed, IInv, NEW found, found = Found
    PROVE  found.outcome = Full(sources, strict, file).outcome /\ Memory(found.analysis)
<1>1. CASE ~ SingleChange
  <2>1. found = Full(sources, strict, file)
    BY <1>1 DEF Found
  <2>2. IsProject(sources) /\ file \in Files
    BY DEF IInv
  <2> QED BY <2>1, <2>2, FullRemembered
<1>2. CASE SingleChange
  <2>1. state.analyzed /\ strict = state.strict /\ Cardinality(ChangedSources) = 1
    BY <1>2 DEF SingleChange
  <2>2. Remembered(state)
    BY <2>1, MemoryKinds DEF IInv
  <2>3. ChangedSources = {n \in Modules : sources[n] # state.sources[n]}
    BY <2>1 DEF ChangedSources
  <2>4. IsFiniteSet(ChangedSources)
    BY <2>3, ModulesFinite, FS_Subset
  <2>5. PICK k : ChangedSources = {k}
    BY <2>1, <2>4, FS_Singleton
  <2> DEFINE m == CHOOSE n \in ChangedSources : TRUE
  <2>6. m = k
    BY <2>5
  <2>7. found = Changed(m, Captured(sources, file))
    BY <1>2 DEF Found
  <2> HIDE DEF m
  <2>8. IsProject(state.sources) /\ IsProject(sources) /\ file \in Files
    BY <2>2 DEF IInv, Remembered
  <2>9. m \in Modules /\ \A n \in Modules : n # m => sources[n] = state.sources[n]
    BY <2>3, <2>5, <2>6
  <2>10. ChangeOf(m, Captured(sources, file))
    BY <2>1, <2>2, <2>8, <2>9 DEF ChangeOf, Differ
  <2> QED BY <2>7, <2>10, ChangeAnalyzed
<1> QED BY <1>1, <1>2

\* The invariant holds at first.
LEMMA InitInvariant ==
    ASSUME Init
    PROVE  IInv
<1>1. IsProject(sources)
  BY TextsAssumption DEF Init, IsProject
<1> QED BY <1>1 DEF Init, IInv, Memory

\* An analysis keeps it.
LEMMA AnalyzeKeeps ==
    ASSUME Undisputed, IInv, AnalyzeProject
    PROVE  IInv'
<1> DEFINE found == Found
<1>1. /\ answer' = found.outcome
      /\ state' = IF found.analysis.analyzed THEN found.analysis ELSE state
      /\ UNCHANGED <<sources, strict, file>>
  BY DEF AnalyzeProject, Keep
<1>2. found.outcome = Full(sources, strict, file).outcome /\ Memory(found.analysis)
  BY FoundSame
<1> HIDE DEF found
<1>3. Memory(state')
  <2>1. CASE found.analysis.analyzed
    BY <1>1, <1>2, <2>1
  <2>2. CASE ~ found.analysis.analyzed
    BY <1>1, <2>2 DEF IInv
  <2> QED BY <2>1, <2>2
<1>4. answer' = Full(sources, strict, file)'.outcome
  BY <1>1, <1>2
<1> QED BY <1>1, <1>3, <1>4 DEF IInv

\* Nothing is asked yet when the inputs have changed.
LEMMA InputsKeep ==
    ASSUME IInv, (IsProject(sources) /\ strict \in BOOLEAN /\ file \in Files)',
           answer' = Unasked, UNCHANGED state
    PROVE  IInv'
<1>1. Memory(state)'
  BY DEF IInv, Memory, Remembered
<1> QED BY <1>1 DEF IInv

\* The invariant of the analyzer is kept by every step.
LEMMA StepInvariant ==
    ASSUME Undisputed, IInv, [Next]_vars
    PROVE  IInv'
<1>1. CASE AnalyzeProject
  BY <1>1, AnalyzeKeeps
<1>2. ASSUME NEW m \in Modules, NEW text \in Texts[m], Edit(m, text)
      PROVE  IInv'
  <2>1. /\ sources' = [sources EXCEPT ![m] = text] /\ answer' = Unasked
        /\ UNCHANGED <<strict, file, state>>
    BY <1>2 DEF Edit
  <2>2. IsProject(sources)'
    BY <1>2, <2>1 DEF IInv, IsProject
  <2> QED BY <2>1, <2>2, InputsKeep DEF IInv
<1>3. CASE ChangeOptions
  <2>1. strict' = ~ strict /\ answer' = Unasked /\ UNCHANGED <<sources, file, state>>
    BY <1>3 DEF ChangeOptions
  <2>2. strict' \in BOOLEAN
    BY <2>1
  <2>3. IsProject(sources)'
    BY <2>1 DEF IInv, IsProject
  <2> QED BY <2>1, <2>2, <2>3, InputsKeep DEF IInv
<1>4. ASSUME NEW content \in Files, ChangeFile(content)
      PROVE  IInv'
  <2>1. file' = content /\ answer' = Unasked /\ UNCHANGED <<sources, strict, state>>
    BY <1>4 DEF ChangeFile
  <2>2. IsProject(sources)'
    BY <2>1 DEF IInv, IsProject
  <2> QED BY <2>1, <2>2, InputsKeep DEF IInv
<1>5. CASE UNCHANGED vars
  <2>1. UNCHANGED <<sources, strict, file, state, answer>>
    BY <1>5 DEF vars
  <2>2. Full(sources, strict, file)' = Full(sources, strict, file)
    BY <2>1
  <2>3. Memory(state)' /\ IsProject(sources)'
    BY <2>1 DEF IInv, Memory, Remembered, IsProject
  <2> QED BY <2>1, <2>2, <2>3 DEF IInv
<1> QED BY <1>1, <1>2, <1>3, <1>4, <1>5 DEF Next

\* It says that answers are those of an analysis from nothing,
LEMMA InvariantAnswers ==
    ASSUME IInv
    PROVE  SameAnswer
BY DEF IInv, SameAnswer

\* that what is remembered is what such an analysis makes,
LEMMA InvariantRemembers ==
    ASSUME IInv
    PROVE  StateIsFull
<1> SUFFICES ASSUME state.analyzed, NEW full,
                    full = Full(state.sources, state.strict, state.declared).analysis
             PROVE  /\ full.analyzed
                    /\ full.types = state.types
                    /\ \A m \in Modules : Lowered(full.artifacts[m]) = Lowered(state.artifacts[m])
  BY DEF StateIsFull
<1> DEFINE p == state.sources
           d == state.declared
           artifacts == [n \in Modules |-> Artifact(p, Exports(p), d, FullTypes(p), n)]
<1>1. Remembered(state)
  BY MemoryKinds DEF IInv
<1>2. PICK content \in Files : d = Captured(p, content)
  BY <1>1 DEF Remembered
<1>3. Captured(p, d) = d
  BY <1>2, CapturedTwice
<1>4. Accepted(p, state.strict, d)
  BY <1>1 DEF Remembered
<1>5. full = Analyzed(p, state.strict, d)
  BY <1>3, <1>4, FullEnds
<1>6. full = Success(p, state.strict, d, FullTypes(p), artifacts)
  BY <1>5 DEF Analyzed, FullSuccess
<1>7. \A n \in Modules : artifacts[n] = Artifact(p, Exports(p), d, FullTypes(p), n)
  OBVIOUS
<1> HIDE DEF artifacts
<1>8. full.analyzed = TRUE /\ full.types = FullTypes(p) /\ full.artifacts = artifacts
  BY <1>6 DEF Success
<1> QED BY <1>1, <1>7, <1>8 DEF Remembered

\* and that inputs, answers and what is remembered are typed.
LEMMA InvariantTyped ==
    ASSUME IInv
    PROVE  TypeOK
<1>1. /\ IsProject(sources) /\ strict \in BOOLEAN /\ file \in Files
      /\ answer # Unasked => answer = Full(sources, strict, file).outcome
  BY DEF IInv
<1>2. answer.stage \in Stages /\ answer.modules \subseteq Modules
  <2>1. CASE answer = Unasked
    BY <2>1 DEF Unasked, Stages
  <2>2. CASE answer # Unasked
    BY <1>1, <2>2, AnswerTyped
  <2> QED BY <2>1, <2>2
<1>3. ASSUME state.analyzed
      PROVE  /\ DOMAIN state.artifacts = Modules
             /\ \A m \in Modules : \A i \in DOMAIN state.types[m] :
                    state.types[m][i] \notin {Unknown, Inferred}
  <2> DEFINE p == state.sources
             T == Typing(p)
  <2>1. Remembered(state)
    BY <1>3, MemoryKinds DEF IInv
  <2>2. /\ IsProject(p) /\ Accepted(p, state.strict, state.declared) /\ state.types = FullTypes(p)
        /\ DOMAIN state.artifacts = Modules
    BY <2>1 DEF Remembered
  <2>3. /\ Readable(p) /\ WellTyped(p, T)
        /\ FullTypes(p) = [m \in Modules |-> TypesIn(p, T, m)]
    BY <2>2, AcceptedProject
  <2>4. \A c \in AllConstants(p) : T[c] \notin {Unknown, Inferred}
    BY <2>2, <2>3, ProjectTyped, TypesKnown
  <2> HIDE DEF T
  <2>5. ASSUME NEW m \in Modules, NEW i \in DOMAIN state.types[m]
        PROVE  state.types[m][i] \notin {Unknown, Inferred}
    <3>1. state.types[m] = TypesIn(p, T, m)
      BY <2>2, <2>3
    <3>2. i \in 1 .. Len(p[m].constants) /\ state.types[m][i] = T[<<m, i>>]
      BY <2>5, <3>1 DEF TypesIn
    <3>3. <<m, i>> \in AllConstants(p)
      BY <2>3, <3>2, ConstantAt
    <3> QED BY <2>4, <3>2, <3>3
  <2> QED BY <2>2, <2>5
<1> QED BY <1>1, <1>2, <1>3 DEF TypeOK, IsProject

(* When no text declares a name that a declaration file has, an analysis   *)
(* after any edits, failures and successes answers what it would have      *)
(* answered from nothing (AnalyzeProject of analyzer.go).                  *)
THEOREM AnswersAreSame ==
    ASSUME Undisputed
    PROVE  Spec => []SameAnswer
<1>1. Init => IInv
  BY InitInvariant
<1>2. IInv /\ [Next]_vars => IInv'
  BY StepInvariant
<1>3. IInv => SameAnswer
  BY InvariantAnswers
<1> QED BY <1>1, <1>2, <1>3, PTL DEF Spec

(* What the analyzer remembers is then what an analysis of the remembered  *)
(* sources from nothing would have made, except that modules of an import  *)
(* cycle that has been broken may still be split into actions or not.      *)
THEOREM StatesAreFull ==
    ASSUME Undisputed
    PROVE  Spec => []StateIsFull
<1>1. Init => IInv
  BY InitInvariant
<1>2. IInv /\ [Next]_vars => IInv'
  BY StepInvariant
<1>3. IInv => StateIsFull
  BY InvariantRemembers
<1> QED BY <1>1, <1>2, <1>3, PTL DEF Spec

(* Inputs, answers and what is remembered are then typed, and nothing that *)
(* is remembered has a type left open (AnalyzeProject).                    *)
THEOREM AnalyzerTypesAreRight ==
    ASSUME Undisputed
    PROVE  Spec => []TypeOK
<1>1. Init => IInv
  BY InitInvariant
<1>2. IInv /\ [Next]_vars => IInv'
  BY StepInvariant
<1>3. IInv => TypeOK
  BY InvariantTyped
<1> QED BY <1>1, <1>2, <1>3, PTL DEF Spec
=============================================================================

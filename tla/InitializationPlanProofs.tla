------------------------ MODULE InitializationPlanProofs ------------------------
(***************************************************************************)
(* What checking and planning compute, for every readable project.  The    *)
(* actions of an import cycle have an order exactly when there is no       *)
(* circle among them (EmitComplete), and so a plan respects what its       *)
(* actions need (PlanInitializes).  Checks only add types that the project *)
(* has as a whole, and a turn that is not the last one adds another, so    *)
(* that checking accepts the projects that are well typed                  *)
(* (CheckedProjectAccepted).                                               *)
(***************************************************************************)
EXTENDS InitializationPlan, ModuleGraphProofs

\* The imports of a resolved project are a graph.
LEMMA ImportsGraph ==
    ASSUME NEW p, Readable(p)
    PROVE  IsGraph(Imports(p)) /\ DOMAIN Imports(p) = Modules
<1>1. \A m \in Modules : p[m].imports \in Seq(Modules)
  BY DEF Readable
<1> QED BY <1>1, ModulesFinite DEF IsGraph, Imports

-----------------------------------------------------------------------------
(* Sequences, one after the other                                          *)

\* a occurs before b in s.
Follows(s, a, b) == \E i, j \in 1 .. Len(s) : i < j /\ s[i] = a /\ s[j] = b

\* One sequence after the other
LEMMA Concatenated ==
    ASSUME NEW S, NEW s \in Seq(S), NEW t \in Seq(S)
    PROVE  /\ s \o t \in Seq(S)
           /\ ToSet(s \o t) = ToSet(s) \cup ToSet(t)
           /\ \A a, b : Follows(s, a, b) \/ Follows(t, a, b) => Follows(s \o t, a, b)
           /\ \A a \in ToSet(s), b \in ToSet(t) : Follows(s \o t, a, b)
           /\ IsInjective(s) /\ IsInjective(t) /\ ToSet(s) \cap ToSet(t) = {} => IsInjective(s \o t)
<1> DEFINE u == s \o t
<1>1. /\ u \in Seq(S)
      /\ Len(u) = Len(s) + Len(t)
      /\ Len(s) \in Nat /\ Len(t) \in Nat
      /\ \A i \in 1 .. Len(s) : u[i] = s[i]
      /\ \A i \in 1 .. Len(t) : u[Len(s) + i] = t[i]
  OBVIOUS
<1> HIDE DEF u
<1>2. /\ \A i \in 1 .. Len(s) : i \in 1 .. Len(u)
      /\ \A i \in 1 .. Len(t) : Len(s) + i \in 1 .. Len(u)
      /\ \A i \in 1 .. Len(u) : i \in 1 .. Len(s) \/ \E k \in 1 .. Len(t) : i = Len(s) + k
  <2>1. ASSUME NEW i \in 1 .. Len(u), i \notin 1 .. Len(s)
        PROVE  \E k \in 1 .. Len(t) : i = Len(s) + k
    <3>1. i - Len(s) \in 1 .. Len(t) /\ i = Len(s) + (i - Len(s))
      BY <1>1, <2>1
    <3> QED BY <3>1
  <2> QED BY <1>1, <2>1
<1>3. /\ \A x : x \in ToSet(s) <=> \E i \in 1 .. Len(s) : x = s[i]
      /\ \A x : x \in ToSet(t) <=> \E i \in 1 .. Len(t) : x = t[i]
      /\ \A x : x \in ToSet(u) <=> \E i \in 1 .. Len(u) : x = u[i]
  BY <1>1, SetOfSequence
<1>4. ToSet(u) = ToSet(s) \cup ToSet(t)
  <2>1. ASSUME NEW x \in ToSet(u) PROVE x \in ToSet(s) \cup ToSet(t)
    <3>1. PICK i \in 1 .. Len(u) : x = u[i]
      BY <1>3
    <3>2. CASE i \in 1 .. Len(s)
      BY <1>1, <1>3, <3>1, <3>2
    <3>3. CASE i \notin 1 .. Len(s)
      <4>1. PICK k \in 1 .. Len(t) : i = Len(s) + k
        BY <1>2, <3>3
      <4>2. x = t[k]
        BY <1>1, <3>1, <4>1
      <4> QED BY <1>3, <4>2
    <3> QED BY <3>2, <3>3
  <2>2. ASSUME NEW x \in ToSet(s) PROVE x \in ToSet(u)
    BY <1>1, <1>2, <1>3
  <2>3. ASSUME NEW x \in ToSet(t) PROVE x \in ToSet(u)
    <3>1. PICK i \in 1 .. Len(t) : x = t[i]
      BY <1>3
    <3> QED BY <1>1, <1>2, <1>3, <3>1
  <2> QED BY <2>1, <2>2, <2>3
<1>5. ASSUME NEW a, NEW b, Follows(s, a, b) \/ Follows(t, a, b) PROVE Follows(u, a, b)
  <2>1. CASE Follows(s, a, b)
    BY <1>1, <1>2, <2>1 DEF Follows
  <2>2. CASE Follows(t, a, b)
    <3>1. PICK i, j \in 1 .. Len(t) : i < j /\ t[i] = a /\ t[j] = b
      BY <2>2 DEF Follows
    <3>2. Len(s) + i < Len(s) + j
      BY <1>1, <3>1
    <3> QED BY <1>1, <1>2, <3>1, <3>2 DEF Follows
  <2> QED BY <1>5, <2>1, <2>2
<1>6. ASSUME NEW a \in ToSet(s), NEW b \in ToSet(t) PROVE Follows(u, a, b)
  <2>1. PICK i \in 1 .. Len(s) : a = s[i]
    BY <1>3
  <2>2. PICK j \in 1 .. Len(t) : b = t[j]
    BY <1>3
  <2>3. i < Len(s) + j
    BY <1>1
  <2> QED BY <1>1, <1>2, <2>1, <2>2, <2>3 DEF Follows
<1>7. ASSUME IsInjective(s), IsInjective(t), ToSet(s) \cap ToSet(t) = {} PROVE IsInjective(u)
  <2>0. DOMAIN s = 1 .. Len(s) /\ DOMAIN t = 1 .. Len(t) /\ DOMAIN u = 1 .. Len(u)
    BY <1>1
  <2>1. SUFFICES ASSUME NEW i \in 1 .. Len(u), NEW j \in 1 .. Len(u), u[i] = u[j] PROVE i = j
    BY <2>0 DEF IsInjective
  <2>2. CASE i \in 1 .. Len(s) /\ j \in 1 .. Len(s)
    BY <1>1, <1>7, <2>0, <2>1, <2>2 DEF IsInjective
  <2>3. CASE i \notin 1 .. Len(s) /\ j \notin 1 .. Len(s)
    <3>1. PICK k \in 1 .. Len(t) : i = Len(s) + k
      BY <1>2, <2>3
    <3>2. PICK l \in 1 .. Len(t) : j = Len(s) + l
      BY <1>2, <2>3
    <3>3. t[k] = t[l]
      BY <1>1, <2>1, <3>1, <3>2
    <3>4. k = l
      BY <1>7, <2>0, <3>3 DEF IsInjective
    <3> QED BY <3>1, <3>2, <3>4
  <2>4. CASE i \in 1 .. Len(s) /\ j \notin 1 .. Len(s)
    <3>1. PICK l \in 1 .. Len(t) : j = Len(s) + l
      BY <1>2, <2>4
    <3>2. s[i] \in ToSet(s) /\ t[l] \in ToSet(t) /\ s[i] = t[l]
      BY <1>1, <1>3, <2>1, <2>4, <3>1
    <3> QED BY <1>7, <3>2
  <2>5. CASE i \notin 1 .. Len(s) /\ j \in 1 .. Len(s)
    <3>1. PICK l \in 1 .. Len(t) : i = Len(s) + l
      BY <1>2, <2>5
    <3>2. s[j] \in ToSet(s) /\ t[l] \in ToSet(t) /\ s[j] = t[l]
      BY <1>1, <1>3, <2>1, <2>5, <3>1
    <3> QED BY <1>7, <3>2
  <2> QED BY <2>2, <2>3, <2>4, <2>5
<1> QED BY <1>1, <1>4, <1>5, <1>6, <1>7 DEF u

\* g is the function that FlattenSeq computes by.
IsFlattening(g, seqs) ==
    g = [i \in 1 .. Len(seqs) |-> IF i = 1 THEN seqs[i] ELSE g[i - 1] \o seqs[i]]

\* The recursion of FlattenSeq has a solution.
LEMMA FlatteningExists ==
    ASSUME NEW S, NEW seqs \in Seq(Seq(S))
    PROVE  \E g : IsFlattening(g, seqs)
<1> DEFINE N == Len(seqs)
           P == Nat \X Seq(S)
           F == [p \in P |-> <<p[1] + 1, IF p[1] + 1 \in 1 .. N THEN p[2] \o seqs[p[1] + 1] ELSE p[2]>>]
           a == <<0, << >>>>
<1>0. N \in Nat
  OBVIOUS
<1>1. F \in [P -> P]
  <2>1. ASSUME NEW p \in P
        PROVE  <<p[1] + 1, IF p[1] + 1 \in 1 .. N THEN p[2] \o seqs[p[1] + 1] ELSE p[2]>> \in P
    <3> DEFINE t == IF p[1] + 1 \in 1 .. N THEN p[2] \o seqs[p[1] + 1] ELSE p[2]
    <3>1. p[1] \in Nat /\ p[2] \in Seq(S)
      OBVIOUS
    <3>2. p[1] + 1 \in 1 .. N => p[2] \o seqs[p[1] + 1] \in Seq(S)
      <4>1. SUFFICES ASSUME p[1] + 1 \in 1 .. N PROVE p[2] \o seqs[p[1] + 1] \in Seq(S)
        OBVIOUS
      <4>2. seqs[p[1] + 1] \in Seq(S)
        BY <4>1
      <4> QED BY <3>1, <4>2
    <3>3. t \in Seq(S)
      BY <3>1, <3>2
    <3>4. <<p[1] + 1, t>> \in P
      <4> HIDE DEF t
      <4> QED BY <3>1, <3>3
    <3> QED BY <3>4
  <2> HIDE DEF P
  <2> QED BY <2>1
<1>2. a \in P
  <2>1. << >> \in Seq(S)
    OBVIOUS
  <2> DEFINE e == << >>
  <2>2. e \in Seq(S)
    BY <2>1
  <2> HIDE DEF e
  <2>3. <<0, e>> \in P
    BY <2>2
  <2> QED BY <2>3 DEF e
<1>3. \A p \in P : F[p] = <<p[1] + 1, IF p[1] + 1 \in 1 .. N THEN p[2] \o seqs[p[1] + 1] ELSE p[2]>>
  <2> HIDE DEF P
  <2> QED OBVIOUS
<1> HIDE DEF F, N, P
<1>4. PICK f : IsIteration(f, P, F, a, N)
  BY <1>0, <1>1, <1>2, IterationExists
<1>5. f \in [0 .. N -> P] /\ f[0] = a /\ \A n \in 1 .. N : f[n] = F[f[n - 1]]
  BY <1>4 DEF IsIteration
<1>6. \A n \in Nat : n <= N => f[n][1] = n
  <2> DEFINE C == {n \in Nat : n <= N => f[n][1] = n}
  <2>1. 0 \in C
    BY <1>5
  <2>2. ASSUME NEW n \in Nat, n \in C PROVE n + 1 \in C
    <3>1. SUFFICES ASSUME n + 1 <= N PROVE f[n + 1][1] = n + 1
      OBVIOUS
    <3>2. n + 1 \in 1 .. N /\ (n + 1) - 1 = n /\ n \in 0 .. N
      BY <1>0, <3>1
    <3>3. f[n + 1] = F[f[n]] /\ f[n] \in P
      BY <1>5, <3>2
    <3>4. f[n][1] = n
      BY <1>0, <2>2, <3>1
    <3> QED BY <1>3, <3>3, <3>4
  <2>3. C = Nat
    <3>1. C \in SUBSET Nat
      OBVIOUS
    <3> HIDE DEF C
    <3> QED BY <2>1, <2>2, <3>1, Counting
  <2> QED BY <2>3
<1>7. ASSUME NEW n \in 1 .. N PROVE f[n][2] = f[n - 1][2] \o seqs[n]
  <2>1. n - 1 \in Nat /\ n - 1 \in 0 .. N /\ n - 1 <= N /\ (n - 1) + 1 = n
    BY <1>0
  <2>2. f[n - 1] \in P /\ f[n] = F[f[n - 1]] /\ f[n - 1][1] = n - 1
    BY <1>5, <1>6, <2>1
  <2> DEFINE p == f[n - 1]
  <2>3. p \in P /\ f[n] = F[p] /\ p[1] = n - 1
    BY <2>2
  <2> HIDE DEF p
  <2>4. f[n] = <<p[1] + 1, IF p[1] + 1 \in 1 .. N THEN p[2] \o seqs[p[1] + 1] ELSE p[2]>>
    BY <1>3, <2>3
  <2>5. p[1] + 1 = n
    BY <2>1, <2>3
  <2> DEFINE q == p[2] \o seqs[n]
  <2>6. f[n] = <<n, q>>
    BY <2>4, <2>5
  <2>7. f[n][2] = q
    <3> HIDE DEF q
    <3> QED BY <2>6
  <2> QED BY <2>7 DEF p
<1> DEFINE g == [i \in 1 .. N |-> f[i][2]]
<1>8. ASSUME NEW i \in 1 .. N
      PROVE  g[i] = IF i = 1 THEN seqs[i] ELSE g[i - 1] \o seqs[i]
  <2>1. CASE i = 1
    <3>1. i - 1 = 0 /\ f[0][2] = << >>
      BY <1>5, <2>1
    <3>2. g[i] = << >> \o seqs[i]
      BY <1>7, <3>1
    <3>3. seqs[i] \in Seq(S)
      BY DEF N
    <3>4. << >> \o seqs[i] = seqs[i]
      BY <3>3
    <3> QED BY <2>1, <3>2, <3>4
  <2>2. CASE i # 1
    <3>1. i - 1 \in 1 .. N
      BY <1>0, <2>2
    <3>2. g[i - 1] = f[i - 1][2] /\ g[i] = f[i][2]
      BY <3>1
    <3> QED BY <1>7, <2>2, <3>2
  <2> QED BY <2>1, <2>2
<1>9. g = [i \in 1 .. N |-> g[i]]
  OBVIOUS
<1> HIDE DEF g
<1>10. IsFlattening(g, seqs)
  BY <1>8, <1>9 DEF IsFlattening, N
<1> QED BY <1>10

\* No element occurs twice in the sequences.
Separate(seqs) ==
    /\ \A i \in 1 .. Len(seqs) : IsInjective(seqs[i])
    /\ \A i, j \in 1 .. Len(seqs) : i < j => ToSet(seqs[i]) \cap ToSet(seqs[j]) = {}

\* f is the first n of the sequences, one after the other.
Flattens(f, seqs, n) ==
    /\ \A x : x \in ToSet(f) <=> \E i \in 1 .. n : x \in ToSet(seqs[i])
    /\ \A i \in 1 .. n : \A a, b : Follows(seqs[i], a, b) => Follows(f, a, b)
    /\ \A i, j \in 1 .. n : i < j => \A a \in ToSet(seqs[i]), b \in ToSet(seqs[j]) : Follows(f, a, b)
    /\ Separate(seqs) => IsInjective(f)

\* The first sequences, when they are none
LEMMA FlattensNothing ==
    ASSUME NEW seqs PROVE Flattens(<< >>, seqs, 0)
BY DEF Flattens, ToSet, IsInjective

\* The first sequences and one more
LEMMA FlattensNext ==
    ASSUME NEW S, NEW seqs \in Seq(Seq(S)), NEW f \in Seq(S), NEW n \in Nat, n + 1 <= Len(seqs),
           Flattens(f, seqs, n)
    PROVE  f \o seqs[n + 1] \in Seq(S) /\ Flattens(f \o seqs[n + 1], seqs, n + 1)
<1> DEFINE s == seqs[n + 1]
           u == f \o s
<1>0. n + 1 \in 1 .. Len(seqs) /\ Len(seqs) \in Nat
  OBVIOUS
<1>1. s \in Seq(S)
  BY <1>0
<1>s. s = seqs[n + 1]
  OBVIOUS
<1> HIDE DEF s
<1>2. /\ u \in Seq(S)
      /\ ToSet(u) = ToSet(f) \cup ToSet(s)
      /\ \A a, b : Follows(f, a, b) \/ Follows(s, a, b) => Follows(u, a, b)
      /\ \A a \in ToSet(f), b \in ToSet(s) : Follows(u, a, b)
      /\ IsInjective(f) /\ IsInjective(s) /\ ToSet(f) \cap ToSet(s) = {} => IsInjective(u)
  BY <1>1, Concatenated
<1> HIDE DEF u
<1>3. /\ \A i \in 1 .. n + 1 : i \in 1 .. n \/ i = n + 1
      /\ \A i \in 1 .. n : i \in 1 .. n + 1 /\ i < n + 1 /\ i \in 1 .. Len(seqs)
      /\ n + 1 \in 1 .. n + 1
  BY <1>0
<1>4. ASSUME NEW x PROVE x \in ToSet(u) <=> \E i \in 1 .. n + 1 : x \in ToSet(seqs[i])
  <2>1. x \in ToSet(f) <=> \E i \in 1 .. n : x \in ToSet(seqs[i])
    BY DEF Flattens
  <2> QED BY <1>2, <1>3, <1>s, <2>1
<1>5. ASSUME NEW i \in 1 .. n + 1, NEW a, NEW b, Follows(seqs[i], a, b) PROVE Follows(u, a, b)
  <2>1. CASE i \in 1 .. n
    <3>1. Follows(f, a, b)
      BY <1>5, <2>1 DEF Flattens
    <3> QED BY <1>2, <3>1
  <2>2. CASE i = n + 1
    BY <1>2, <1>5, <1>s, <2>2
  <2> QED BY <1>3, <2>1, <2>2
<1>6. ASSUME NEW i \in 1 .. n + 1, NEW j \in 1 .. n + 1, i < j,
             NEW a \in ToSet(seqs[i]), NEW b \in ToSet(seqs[j])
      PROVE  Follows(u, a, b)
  <2>1. i \in 1 .. n
    BY <1>6
  <2>2. CASE j \in 1 .. n
    <3>1. Follows(f, a, b)
      BY <1>6, <2>1, <2>2 DEF Flattens
    <3> QED BY <1>2, <3>1
  <2>3. CASE j = n + 1
    <3>1. a \in ToSet(f)
      BY <2>1 DEF Flattens
    <3> QED BY <1>2, <1>s, <2>3, <3>1
  <2> QED BY <1>3, <2>2, <2>3
<1>7. ASSUME Separate(seqs) PROVE IsInjective(u)
  <2>1. IsInjective(f) /\ IsInjective(s)
    BY <1>0, <1>7, <1>s DEF Flattens, Separate
  <2>2. ASSUME NEW x \in ToSet(f), x \in ToSet(s) PROVE FALSE
    <3>1. PICK i \in 1 .. n : x \in ToSet(seqs[i])
      BY DEF Flattens
    <3> QED BY <1>0, <1>3, <1>7, <1>s, <2>2, <3>1 DEF Separate
  <2> QED BY <1>2, <2>1, <2>2
<1>8. Flattens(u, seqs, n + 1)
  BY <1>4, <1>5, <1>6, <1>7 DEF Flattens
<1> QED BY <1>2, <1>8, <1>s DEF u

\* FlattenSeq puts the sequences one after the other.
LEMMA Flattened ==
    ASSUME NEW S, NEW seqs \in Seq(Seq(S))
    PROVE  FlattenSeq(seqs) \in Seq(S) /\ Flattens(FlattenSeq(seqs), seqs, Len(seqs))
<1> DEFINE N == Len(seqs)
<1>0. N \in Nat
  OBVIOUS
<1>1. CASE N = 0
  <2>1. seqs = << >>
    BY <1>1
  <2>2. FlattenSeq(seqs) = << >>
    BY <1>1, <2>1 DEF FlattenSeq
  <2>3. << >> \in Seq(S)
    OBVIOUS
  <2>4. Flattens(<< >>, seqs, 0)
    BY FlattensNothing
  <2> QED BY <1>1, <2>2, <2>3, <2>4
<1>2. CASE N # 0
  <2> DEFINE g == CHOOSE h : IsFlattening(h, seqs)
  <2>1. IsFlattening(g, seqs)
    BY FlatteningExists
  <2>2. FlattenSeq(seqs) = g[N]
    BY <1>2 DEF FlattenSeq, IsFlattening
  <2> HIDE DEF g
  <2>3. \A i \in 1 .. N : g[i] = IF i = 1 THEN seqs[i] ELSE g[i - 1] \o seqs[i]
    BY <2>1 DEF IsFlattening
  <2> DEFINE Good(n) == g[n] \in Seq(S) /\ Flattens(g[n], seqs, n)
             C == {n \in Nat : n + 1 <= N => Good(n + 1)}
  <2>4. 0 \in C
    <3>1. 0 + 1 = 1 /\ 1 \in 1 .. N
      BY <1>0, <1>2
    <3>2. g[1] = seqs[1] /\ seqs[1] \in Seq(S)
      BY <2>3, <3>1
    <3>3. << >> \o seqs[1] = seqs[1]
      BY <3>2
    <3>4. << >> \in Seq(S)
      OBVIOUS
    <3>5. << >> \o seqs[0 + 1] \in Seq(S) /\ Flattens(<< >> \o seqs[0 + 1], seqs, 0 + 1)
      <4>1. 0 \in Nat /\ 0 + 1 <= N
        BY <3>1
      <4> QED BY <3>4, <4>1, FlattensNothing, FlattensNext
    <3>6. Good(0 + 1)
      BY <3>1, <3>2, <3>3, <3>5
    <3> QED BY <3>6
  <2>5. ASSUME NEW n \in Nat, n \in C PROVE n + 1 \in C
    <3>1. SUFFICES ASSUME (n + 1) + 1 <= N PROVE Good((n + 1) + 1)
      OBVIOUS
    <3>2. n + 1 \in Nat /\ n + 1 <= N /\ (n + 1) + 1 \in 1 .. N /\ (n + 1) + 1 # 1
          /\ ((n + 1) + 1) - 1 = n + 1
      BY <1>0, <3>1
    <3>3. Good(n + 1)
      BY <2>5, <3>2
    <3>4. g[(n + 1) + 1] = g[n + 1] \o seqs[(n + 1) + 1]
      BY <2>3, <3>2
    <3>5. g[n + 1] \o seqs[(n + 1) + 1] \in Seq(S)
          /\ Flattens(g[n + 1] \o seqs[(n + 1) + 1], seqs, (n + 1) + 1)
      BY <3>1, <3>2, <3>3, FlattensNext
    <3> QED BY <3>4, <3>5
  <2>6. C = Nat
    <3>1. C \in SUBSET Nat
      OBVIOUS
    <3> HIDE DEF C
    <3> QED BY <2>4, <2>5, <3>1, Counting
  <2>7. Good(N)
    <3>1. N - 1 \in Nat /\ (N - 1) + 1 = N /\ N <= N
      BY <1>0, <1>2
    <3>2. N - 1 \in C
      BY <2>6, <3>1
    <3> HIDE DEF N
    <3> QED BY <3>1, <3>2
  <2> QED BY <2>2, <2>7
<1> QED BY <1>1, <1>2

-----------------------------------------------------------------------------
(* The actions of modules                                                  *)

\* Where actions can be
Places == Modules \X Nat

\* The actions of module m
Tasks(p, m) == ConstantsOf(p, m) \cup ToSet(Preparation(p, m))

\* The actions of the modules in S
TasksAmong(p, S) == UNION {Tasks(p, m) : m \in S}

\* A module is prepared once, when it has a class.
LEMMA PreparationOnce ==
    ASSUME NEW p, Readable(p), NEW m \in Modules
    PROVE  /\ Preparation(p, m) \in Seq(Places)
           /\ IsInjective(Preparation(p, m))
           /\ \A c : c \in ToSet(Preparation(p, m)) <=> p[m].class /\ c = <<m, 0>>
<1>1. p[m].class \in BOOLEAN
  BY DEF Readable
<1> DEFINE a == <<m, 0>>
<1>2. a \in Places
  BY DEF Places
<1> HIDE DEF a
<1>3. CASE p[m].class
  <2>1. Preparation(p, m) = <<a>>
    BY <1>3 DEF Preparation, a
  <2>2. <<a>> \in Seq(Places) /\ IsInjective(<<a>>) /\ ToSet(<<a>>) = {a}
    BY <1>2 DEF IsInjective, ToSet
  <2> QED BY <1>3, <2>1, <2>2 DEF a
<1>4. CASE ~ p[m].class
  <2>1. Preparation(p, m) = << >>
    BY <1>4 DEF Preparation
  <2>2. << >> \in Seq(Places) /\ IsInjective(<< >>) /\ ToSet(<< >>) = {}
    BY DEF IsInjective, ToSet
  <2> QED BY <1>4, <2>1, <2>2
<1> QED BY <1>1, <1>3, <1>4

\* The constants of a module are numbered from 1.
LEMMA ConstantPlaces ==
    ASSUME NEW p, Readable(p), NEW m \in Modules
    PROVE  /\ Len(p[m].constants) \in Nat
           /\ DOMAIN p[m].constants = 1 .. Len(p[m].constants)
           /\ ConstantsOf(p, m) = {<<m, i>> : i \in 1 .. Len(p[m].constants)}
<1>1. p[m].constants \in Seq(ToSet(p[m].constants))
  BY DEF Readable
<1> DEFINE s == p[m].constants
           T == ToSet(p[m].constants)
<1>2. s \in Seq(T)
  BY <1>1
<1> HIDE DEF s, T
<1>3. Len(s) \in Nat /\ DOMAIN s = 1 .. Len(s)
  BY <1>2
<1> QED BY <1>3 DEF ConstantsOf, s

\* The constants of a module are computed once, in their order.
LEMMA ValuesOnce ==
    ASSUME NEW p, Readable(p), NEW m \in Modules
    PROVE  /\ Values(p, m) \in Seq(Places)
           /\ IsInjective(Values(p, m))
           /\ ToSet(Values(p, m)) = ConstantsOf(p, m)
           /\ \A i, j \in 1 .. Len(p[m].constants) : i < j => Follows(Values(p, m), <<m, i>>, <<m, j>>)
<1> DEFINE n == Len(p[m].constants)
           v == Values(p, m)
<1>1. n \in Nat /\ DOMAIN p[m].constants = 1 .. n /\ ConstantsOf(p, m) = {<<m, i>> : i \in 1 .. n}
  BY ConstantPlaces
<1>2. v = [i \in 1 .. n |-> <<m, i>>]
  BY <1>1 DEF Values
<1> HIDE DEF n, v
<1>3. \A i \in 1 .. n : <<m, i>> \in Places
  BY <1>1 DEF Places
<1>4. v \in Seq(Places) /\ Len(v) = n /\ \A i \in 1 .. n : v[i] = <<m, i>>
  BY <1>1, <1>2, <1>3
<1>5. IsInjective(v)
  BY <1>2 DEF IsInjective
<1>6. ToSet(v) = ConstantsOf(p, m)
  BY <1>1, <1>2 DEF ToSet
<1>7. \A i, j \in 1 .. n : i < j => Follows(v, <<m, i>>, <<m, j>>)
  BY <1>4 DEF Follows
<1> QED BY <1>4, <1>5, <1>6, <1>7 DEF v, n

\* The actions of a module are those of its constants and of its class.
LEMMA TaskPlaces ==
    ASSUME NEW p, Readable(p), NEW m \in Modules, NEW c
    PROVE  /\ c \in ConstantsOf(p, m) <=> \E i \in 1 .. Len(p[m].constants) : c = <<m, i>>
           /\ c \in Tasks(p, m) <=> c \in ConstantsOf(p, m) \/ (p[m].class /\ c = <<m, 0>>)
           /\ c \in Tasks(p, m) => c \in Places /\ c[1] = m
<1>1. c \in ConstantsOf(p, m) <=> \E i \in 1 .. Len(p[m].constants) : c = <<m, i>>
  BY ConstantPlaces
<1>2. c \in Tasks(p, m) <=> c \in ConstantsOf(p, m) \/ (p[m].class /\ c = <<m, 0>>)
  BY PreparationOnce DEF Tasks
<1>3. c \in Tasks(p, m) => c \in Places /\ c[1] = m
  BY <1>1, <1>2, ConstantPlaces DEF Places
<1> QED BY <1>1, <1>2, <1>3

\* The preparations of some modules, each once
LEMMA PreparationsFirst ==
    ASSUME NEW p, Readable(p), NEW modules \in Seq(Modules)
    PROVE  /\ Preparations(p, modules) \in Seq(Places)
           /\ \A c : c \in ToSet(Preparations(p, modules))
                         <=> \E m \in ToSet(modules) : p[m].class /\ c = <<m, 0>>
           /\ IsInjective(modules) => IsInjective(Preparations(p, modules))
<1> DEFINE seqs == [i \in DOMAIN modules |-> Preparation(p, modules[i])]
<1>1. DOMAIN modules = 1 .. Len(modules) /\ Len(modules) \in Nat /\ \A i \in DOMAIN modules : modules[i] \in Modules
  OBVIOUS
<1>2. \A i \in DOMAIN modules : Preparation(p, modules[i]) \in Seq(Places)
  BY <1>1, PreparationOnce
<1>3. seqs \in Seq(Seq(Places)) /\ Len(seqs) = Len(modules)
      /\ \A i \in 1 .. Len(modules) : seqs[i] = Preparation(p, modules[i])
  BY <1>1, <1>2
<1>4. Preparations(p, modules) = FlattenSeq(seqs)
  BY DEF Preparations
<1> HIDE DEF seqs
<1>5. FlattenSeq(seqs) \in Seq(Places) /\ Flattens(FlattenSeq(seqs), seqs, Len(modules))
  BY <1>3, Flattened
<1>6. ASSUME NEW c
      PROVE  c \in ToSet(FlattenSeq(seqs)) <=> \E m \in ToSet(modules) : p[m].class /\ c = <<m, 0>>
  <2>1. c \in ToSet(FlattenSeq(seqs)) <=> \E i \in 1 .. Len(modules) : c \in ToSet(seqs[i])
    BY <1>5 DEF Flattens
  <2>2. \A i \in 1 .. Len(modules) : c \in ToSet(seqs[i]) <=> p[modules[i]].class /\ c = <<modules[i], 0>>
    BY <1>1, <1>3, PreparationOnce
  <2>3. \A m : m \in ToSet(modules) <=> \E i \in 1 .. Len(modules) : m = modules[i]
    BY SetOfSequence
  <2> QED BY <2>1, <2>2, <2>3
<1>7. ASSUME IsInjective(modules) PROVE IsInjective(FlattenSeq(seqs))
  <2>1. \A i \in 1 .. Len(modules) : IsInjective(seqs[i])
    BY <1>1, <1>3, PreparationOnce
  <2>2. ASSUME NEW i \in 1 .. Len(modules), NEW j \in 1 .. Len(modules), i < j, NEW c,
               c \in ToSet(seqs[i]), c \in ToSet(seqs[j])
        PROVE  FALSE
    <3>1. c = <<modules[i], 0>> /\ c = <<modules[j], 0>>
      BY <1>1, <1>3, <2>2, PreparationOnce
    <3>2. modules[i] = modules[j]
      BY <3>1
    <3> QED BY <1>1, <1>7, <2>2, <3>2 DEF IsInjective
  <2>3. Separate(seqs)
    BY <1>3, <2>1, <2>2 DEF Separate
  <2> QED BY <1>5, <2>3 DEF Flattens
<1> QED BY <1>4, <1>5, <1>6, <1>7

\* The constants of some modules, each once and in their order
LEMMA ValuesNext ==
    ASSUME NEW p, Readable(p), NEW modules \in Seq(Modules), NEW f,
           f = FlattenSeq([i \in DOMAIN modules |-> Values(p, modules[i])])
    PROVE  /\ f \in Seq(Places)
           /\ \A c : c \in ToSet(f) <=> \E m \in ToSet(modules) : c \in ConstantsOf(p, m)
           /\ IsInjective(modules) => IsInjective(f)
           /\ \A m \in ToSet(modules) : \A i, j \in 1 .. Len(p[m].constants) :
                  i < j => Follows(f, <<m, i>>, <<m, j>>)
<1> DEFINE seqs == [i \in DOMAIN modules |-> Values(p, modules[i])]
<1>1. DOMAIN modules = 1 .. Len(modules) /\ Len(modules) \in Nat /\ \A i \in DOMAIN modules : modules[i] \in Modules
  OBVIOUS
<1>2. \A i \in DOMAIN modules : Values(p, modules[i]) \in Seq(Places)
  BY <1>1, ValuesOnce
<1>3. seqs \in Seq(Seq(Places)) /\ Len(seqs) = Len(modules)
      /\ \A i \in 1 .. Len(modules) : seqs[i] = Values(p, modules[i])
  BY <1>1, <1>2
<1>4. f = FlattenSeq(seqs)
  OBVIOUS
<1> HIDE DEF seqs
<1>5. f \in Seq(Places) /\ Flattens(f, seqs, Len(modules))
  BY <1>3, <1>4, Flattened
<1>6. \A m : m \in ToSet(modules) <=> \E i \in 1 .. Len(modules) : m = modules[i]
  BY SetOfSequence
<1>7. \A i \in 1 .. Len(modules) : ToSet(seqs[i]) = ConstantsOf(p, modules[i])
  BY <1>1, <1>3, ValuesOnce
<1>8. ASSUME NEW c PROVE c \in ToSet(f) <=> \E m \in ToSet(modules) : c \in ConstantsOf(p, m)
  <2>1. c \in ToSet(f) <=> \E i \in 1 .. Len(modules) : c \in ToSet(seqs[i])
    BY <1>5 DEF Flattens
  <2> QED BY <1>6, <1>7, <2>1
<1>9. ASSUME IsInjective(modules) PROVE IsInjective(f)
  <2>1. \A i \in 1 .. Len(modules) : IsInjective(seqs[i])
    BY <1>1, <1>3, ValuesOnce
  <2>2. ASSUME NEW i \in 1 .. Len(modules), NEW j \in 1 .. Len(modules), i < j, NEW c,
               c \in ToSet(seqs[i]), c \in ToSet(seqs[j])
        PROVE  FALSE
    <3>1. c[1] = modules[i]
      <4>1. c \in ConstantsOf(p, modules[i]) /\ modules[i] \in Modules
        BY <1>1, <1>7, <2>2
      <4> QED BY <4>1, TaskPlaces
    <3>2. c[1] = modules[j]
      <4>1. c \in ConstantsOf(p, modules[j]) /\ modules[j] \in Modules
        BY <1>1, <1>7, <2>2
      <4> QED BY <4>1, TaskPlaces
    <3>3. modules[i] = modules[j]
      BY <3>1, <3>2
    <3> QED BY <1>1, <1>9, <2>2, <3>3 DEF IsInjective
  <2>3. Separate(seqs)
    BY <1>3, <2>1, <2>2 DEF Separate
  <2> QED BY <1>5, <2>3 DEF Flattens
<1>10. ASSUME NEW m \in ToSet(modules), NEW i \in 1 .. Len(p[m].constants),
              NEW j \in 1 .. Len(p[m].constants), i < j
       PROVE  Follows(f, <<m, i>>, <<m, j>>)
  <2>1. PICK k \in 1 .. Len(modules) : m = modules[k]
    BY <1>6
  <2>2. Follows(seqs[k], <<m, i>>, <<m, j>>)
    BY <1>1, <1>3, <1>10, <2>1, ValuesOnce
  <2> QED BY <1>5, <2>2 DEF Flattens
<1> QED BY <1>5, <1>8, <1>9, <1>10

\* The actions of some modules
LEMMA TasksFound ==
    ASSUME NEW p, Readable(p), NEW modules \in Seq(Modules), NEW c
    PROVE  c \in TasksAmong(p, ToSet(modules))
               <=> \/ \E m \in ToSet(modules) : c \in ConstantsOf(p, m)
                   \/ \E m \in ToSet(modules) : p[m].class /\ c = <<m, 0>>
<1>1. \A m \in ToSet(modules) : m \in Modules
  BY SetOfSequence
<1>2. \A m \in ToSet(modules) : c \in Tasks(p, m) <=> c \in ConstantsOf(p, m) \/ (p[m].class /\ c = <<m, 0>>)
  BY <1>1, TaskPlaces
<1> QED BY <1>2 DEF TasksAmong

\* ActionsInOrder has the actions of its modules once, the constants in their order.
LEMMA ActionsOrdered ==
    ASSUME NEW p, Readable(p), NEW modules \in Seq(Modules), IsInjective(modules)
    PROVE  /\ ActionsInOrder(p, modules) \in Seq(Places)
           /\ IsInjective(ActionsInOrder(p, modules))
           /\ ToSet(ActionsInOrder(p, modules)) = TasksAmong(p, ToSet(modules))
           /\ \A m \in ToSet(modules) : \A i, j \in 1 .. Len(p[m].constants) :
                  i < j => Follows(ActionsInOrder(p, modules), <<m, i>>, <<m, j>>)
<1> DEFINE f == FlattenSeq([i \in DOMAIN modules |-> Values(p, modules[i])])
           e == Preparations(p, modules)
<1>1. /\ e \in Seq(Places)
      /\ \A c : c \in ToSet(e) <=> \E m \in ToSet(modules) : p[m].class /\ c = <<m, 0>>
      /\ IsInjective(e)
  BY PreparationsFirst
<1>2. /\ f \in Seq(Places)
      /\ \A c : c \in ToSet(f) <=> \E m \in ToSet(modules) : c \in ConstantsOf(p, m)
      /\ IsInjective(f)
      /\ \A m \in ToSet(modules) : \A i, j \in 1 .. Len(p[m].constants) :
             i < j => Follows(f, <<m, i>>, <<m, j>>)
  BY ValuesNext
<1>3. ActionsInOrder(p, modules) = e \o f
  BY DEF ActionsInOrder
<1> HIDE DEF e, f
<1>4. ToSet(e) \cap ToSet(f) = {}
  <2>1. SUFFICES ASSUME NEW c, c \in ToSet(e), c \in ToSet(f) PROVE FALSE
    OBVIOUS
  <2>2. PICK m \in ToSet(modules) : c = <<m, 0>>
    BY <1>1, <2>1
  <2>3. PICK n \in ToSet(modules) : c \in ConstantsOf(p, n)
    BY <1>2, <2>1
  <2>4. n \in Modules
    BY SetOfSequence
  <2>5. PICK i \in 1 .. Len(p[n].constants) : c = <<n, i>>
    BY <2>3, <2>4, TaskPlaces
  <2> QED BY <2>2, <2>5
<1>5. /\ e \o f \in Seq(Places)
      /\ ToSet(e \o f) = ToSet(e) \cup ToSet(f)
      /\ \A a, b : Follows(e, a, b) \/ Follows(f, a, b) => Follows(e \o f, a, b)
      /\ IsInjective(e \o f)
  BY <1>1, <1>2, <1>4, Concatenated
<1>6. ToSet(e \o f) = TasksAmong(p, ToSet(modules))
  <2>1. ASSUME NEW c PROVE c \in ToSet(e \o f) <=> c \in TasksAmong(p, ToSet(modules))
    BY <1>1, <1>2, <1>5, TasksFound
  <2> QED BY <2>1
<1> QED BY <1>2, <1>3, <1>5, <1>6

\* ActionsByModule has the same actions.
LEMMA ActionsListed ==
    ASSUME NEW p, Readable(p), NEW modules \in Seq(Modules)
    PROVE  /\ ActionsByModule(p, modules) \in Seq(Places)
           /\ ToSet(ActionsByModule(p, modules)) = TasksAmong(p, ToSet(modules))
<1> DEFINE seqs == [i \in DOMAIN modules |-> Preparation(p, modules[i]) \o Values(p, modules[i])]
           f == FlattenSeq(seqs)
<1>1. DOMAIN modules = 1 .. Len(modules) /\ Len(modules) \in Nat /\ \A i \in DOMAIN modules : modules[i] \in Modules
  OBVIOUS
<1>2. ASSUME NEW m \in Modules
      PROVE  /\ Preparation(p, m) \o Values(p, m) \in Seq(Places)
             /\ ToSet(Preparation(p, m) \o Values(p, m)) = Tasks(p, m)
  <2>1. Preparation(p, m) \in Seq(Places) /\ Values(p, m) \in Seq(Places)
    BY PreparationOnce, ValuesOnce
  <2>2. /\ Preparation(p, m) \o Values(p, m) \in Seq(Places)
        /\ ToSet(Preparation(p, m) \o Values(p, m)) = ToSet(Preparation(p, m)) \cup ToSet(Values(p, m))
    BY <2>1, Concatenated
  <2> QED BY <2>2, ValuesOnce DEF Tasks
<1>3. seqs \in Seq(Seq(Places)) /\ Len(seqs) = Len(modules)
      /\ \A i \in 1 .. Len(modules) : ToSet(seqs[i]) = Tasks(p, modules[i])
  BY <1>1, <1>2
<1>4. ActionsByModule(p, modules) = f
  BY DEF ActionsByModule
<1> HIDE DEF seqs
<1>5. f \in Seq(Places) /\ Flattens(f, seqs, Len(modules))
  BY <1>3, Flattened
<1> HIDE DEF f
<1>6. ASSUME NEW c PROVE c \in ToSet(f) <=> c \in TasksAmong(p, ToSet(modules))
  <2>1. c \in ToSet(f) <=> \E i \in 1 .. Len(modules) : c \in Tasks(p, modules[i])
    BY <1>3, <1>5 DEF Flattens
  <2>2. \A m : m \in ToSet(modules) <=> \E i \in 1 .. Len(modules) : m = modules[i]
    BY SetOfSequence
  <2> QED BY <2>1, <2>2 DEF TasksAmong
<1>7. ToSet(f) = TasksAmong(p, ToSet(modules))
  BY <1>6
<1> QED BY <1>4, <1>5, <1>7

\* Within keeps a dependency that is among the actions.
LEMMA WithinActions ==
    ASSUME NEW actions, NEW a
    PROVE  /\ Within(actions, a) \in Seq(actions)
           /\ \A x : x \in ToSet(Within(actions, a)) <=> x = a /\ a \in actions
<1>1. CASE a \in actions
  <2>1. Within(actions, a) = <<a>>
    BY <1>1 DEF Within
  <2>2. <<a>> \in Seq(actions) /\ ToSet(<<a>>) = {a}
    BY <1>1 DEF ToSet
  <2> QED BY <1>1, <2>1, <2>2
<1>2. CASE a \notin actions
  <2>1. Within(actions, a) = << >>
    BY <1>2 DEF Within
  <2>2. << >> \in Seq(actions) /\ ToSet(<< >>) = {}
    BY DEF ToSet
  <2> QED BY <1>2, <2>1, <2>2
<1> QED BY <1>1, <1>2

\* What an action of module m depends on, among the actions of the modules in S
Needed(p, S, a) ==
    IF a[2] = 0 THEN {<<p[a[1]].parent, 0>>} \cap TasksAmong(p, S)
    ELSE (({<<a[1], a[2] - 1>>, p[a[1]].constants[a[2]].reads} \cap TasksAmong(p, S))
             \cup {c \in TasksAmong(p, S) : c[2] = 0})

\* The dependencies of an action are what it needs among the actions.
LEMMA DependenciesNeeded ==
    ASSUME NEW p, Readable(p), NEW modules \in Seq(Modules), NEW a
    PROVE  /\ Dependencies(p, modules, TasksAmong(p, ToSet(modules)), a[1], a[2])
                  \in Seq(TasksAmong(p, ToSet(modules)))
           /\ ToSet(Dependencies(p, modules, TasksAmong(p, ToSet(modules)), a[1], a[2]))
                  = Needed(p, ToSet(modules), a)
<1> DEFINE actions == TasksAmong(p, ToSet(modules))
           D == Dependencies(p, modules, actions, a[1], a[2])
           N == Needed(p, ToSet(modules), a)
<1>a. actions = TasksAmong(p, ToSet(modules))
  OBVIOUS
<1>1. CASE a[2] = 0
  <2>1. D = Within(actions, <<p[a[1]].parent, 0>>)
    BY <1>1 DEF Dependencies
  <2>2. N = {<<p[a[1]].parent, 0>>} \cap actions
    BY <1>1 DEF Needed
  <2> HIDE DEF actions, D, N
  <2>3. D \in Seq(actions)
    BY <2>1, WithinActions
  <2>4. \A x : x \in ToSet(D) <=> x \in N
    BY <2>1, <2>2, WithinActions
  <2>5. ToSet(D) = N
    BY <2>4
  <2> QED BY <2>3, <2>5 DEF D, N, actions
<1>2. CASE a[2] # 0
  <2> DEFINE b == <<a[1], a[2] - 1>>
             r == p[a[1]].constants[a[2]].reads
             s == Within(actions, b)
             e == Preparations(p, modules)
             t == Within(actions, r)
  <2>1. D = s \o e \o t
    BY <1>2 DEF Dependencies
  <2>2. N = ({b, r} \cap actions)
                \cup {c \in actions : c[2] = 0}
    BY <1>2 DEF Needed
  <2>3. \A x : x \in ToSet(e) <=> \E m \in ToSet(modules) : p[m].class /\ x = <<m, 0>>
    BY PreparationsFirst
  <2>4. \A x : x \in ToSet(e) <=> x \in actions /\ x[2] = 0
    <3>1. ASSUME NEW x \in actions, x[2] = 0 PROVE x \in ToSet(e)
      <4>1. CASE \E m \in ToSet(modules) : p[m].class /\ x = <<m, 0>>
        BY <2>3, <4>1
      <4>2. CASE \E m \in ToSet(modules) : x \in ConstantsOf(p, m)
        <5>1. PICK m \in ToSet(modules) : x \in ConstantsOf(p, m)
          BY <4>2
        <5>2. m \in Modules
          BY SetOfSequence
        <5>3. PICK i \in 1 .. Len(p[m].constants) : x = <<m, i>>
          BY <5>1, <5>2, TaskPlaces
        <5> QED BY <3>1, <5>3
      <4> QED BY <3>1, <4>1, <4>2, TasksFound
    <3>2. ASSUME NEW x \in ToSet(e) PROVE x \in actions /\ x[2] = 0
      <4>1. PICK m \in ToSet(modules) : p[m].class /\ x = <<m, 0>>
        BY <2>3
      <4>2. x \in actions
        BY <4>1, TasksFound
      <4> QED BY <4>1, <4>2
    <3> HIDE DEF e
    <3> QED BY <3>1, <3>2
  <2>5. e \in Seq(actions)
    <3>1. e \in Seq(Places)
      BY PreparationsFirst
    <3> HIDE DEF e, actions
    <3>2. \A i \in 1 .. Len(e) : e[i] \in actions
      BY <2>4, <3>1, SetOfSequence
    <3> QED BY <3>1, <3>2
  <2> HIDE DEF actions, b, r
  <2>6. s \in Seq(actions) /\ \A x : x \in ToSet(s) <=> x = b /\ b \in actions
    BY WithinActions
  <2>7. t \in Seq(actions) /\ \A x : x \in ToSet(t) <=> x = r /\ r \in actions
    BY WithinActions
  <2> DEFINE d == s \o e
  <2>d. d = s \o e
    OBVIOUS
  <2> HIDE DEF s, e, t, D, N
  <2>8. d \in Seq(actions) /\ ToSet(d) = ToSet(s) \cup ToSet(e)
    BY <2>5, <2>6, Concatenated
  <2>x. D = d \o t
    BY <2>1
  <2> HIDE DEF d
  <2>9. d \o t \in Seq(actions) /\ ToSet(d \o t) = ToSet(d) \cup ToSet(t)
    BY <2>7, <2>8, Concatenated
  <2>10. \A x : x \in ToSet(D) <=> x \in N
    BY <2>x, <2>2, <2>4, <2>6, <2>7, <2>8, <2>9
  <2>11. ToSet(D) = N
    BY <2>10
  <2> QED BY <2>x, <2>9, <2>11 DEF D, N, actions
<1> QED BY <1>1, <1>2

\* A sequence has finitely many elements, and as many as positions when none is repeated.
LEMMA ElementsCounted ==
    ASSUME NEW S, NEW s \in Seq(S)
    PROVE  /\ IsFiniteSet(ToSet(s))
           /\ IsInjective(s) => Cardinality(ToSet(s)) = Len(s)
<1> DEFINE n == Len(s)
           D == 1 .. n
           T == ToSet(s)
           f == [i \in D |-> s[i]]
<1>1. n \in Nat /\ DOMAIN s = D
  OBVIOUS
<1>2. IsFiniteSet(D) /\ Cardinality(D) = n
  <2>1. 1 \in Int /\ n \in Int
    BY <1>1
  <2>2. IsFiniteSet(1 .. n) /\ Cardinality(1 .. n) = IF 1 > n THEN 0 ELSE n - 1 + 1
    <3> HIDE DEF n
    <3> QED BY <2>1, FS_Interval
  <2> HIDE DEF n
  <2> QED BY <1>1, <2>2
<1>3. f \in Surjection(D, T)
  <2>1. \A x : x \in T <=> \E i \in D : x = s[i]
    BY SetOfSequence
  <2> QED BY <2>1 DEF Surjection
<1>4. IsInjective(s) => f \in Injection(D, T)
  <2>1. f \in [D -> T]
    BY <1>3 DEF Surjection
  <2>2. \A i \in D : f[i] = s[i]
    OBVIOUS
  <2> HIDE DEF f
  <2> QED BY <1>1, <2>1, <2>2 DEF IsInjective, Injection
<1> HIDE DEF f, D
<1>5. IsFiniteSet(T) /\ (Cardinality(T) = Cardinality(D) <=> f \in Injection(D, T))
  BY <1>2, <1>3, FS_Surjection
<1> QED BY <1>2, <1>4, <1>5

\* The actions of some modules with their dependencies are a graph.
LEMMA ActionGraphNeeds ==
    ASSUME NEW p, Readable(p), NEW modules \in Seq(Modules), IsInjective(modules), NEW actions,
           actions = TasksAmong(p, ToSet(modules))
    PROVE  /\ IsGraph(ActionGraph(p, modules))
           /\ DOMAIN ActionGraph(p, modules) = actions
           /\ \A a \in actions : ToSet(ActionGraph(p, modules)[a]) = Needed(p, ToSet(modules), a)
<1>1. ToSet(ActionsInOrder(p, modules)) = actions
  BY ActionsOrdered
<1>2. IsFiniteSet(actions)
  <2>1. ActionsInOrder(p, modules) \in Seq(Places)
    BY ActionsOrdered
  <2> QED BY <1>1, <2>1, ElementsCounted
<1>3. ActionGraph(p, modules) = [a \in actions |-> Dependencies(p, modules, actions, a[1], a[2])]
  BY <1>1 DEF ActionGraph
<1>4. \A a \in actions : /\ Dependencies(p, modules, actions, a[1], a[2]) \in Seq(actions)
                         /\ ToSet(Dependencies(p, modules, actions, a[1], a[2])) = Needed(p, ToSet(modules), a)
  BY DependenciesNeeded
<1> DEFINE g == ActionGraph(p, modules)
<1>5. DOMAIN g = actions /\ \A a \in actions : g[a] = Dependencies(p, modules, actions, a[1], a[2])
  BY <1>3
<1> HIDE DEF g
<1>6. DOMAIN g = actions /\ \A a \in actions : g[a] \in Seq(actions) /\ ToSet(g[a]) = Needed(p, ToSet(modules), a)
  BY <1>4, <1>5
<1> QED BY <1>2, <1>6 DEF IsGraph, g

-----------------------------------------------------------------------------
(* Circles                                                                 *)

\* No node of the graph depends on itself, directly or not.
NoCircle(graph) == \A m \in DOMAIN graph : ~ OnCircle(graph, m)

\* Whether there is a circle does not depend on the order of the dependencies.
LEMMA SameCircles ==
    ASSUME NEW g, NEW h, DOMAIN g = DOMAIN h, \A m \in DOMAIN g : ToSet(g[m]) = ToSet(h[m])
    PROVE  NoCircle(g) <=> NoCircle(h)
<1>1. \A S \in SUBSET DOMAIN g : Closed(g, S) <=> Closed(h, S)
  BY DEF Closed
<1>2. \A m, n : Path(g, m, n) <=> Path(h, m, n)
  BY <1>1 DEF Path
<1> QED BY <1>2 DEF NoCircle, OnCircle

\* A graph has a cyclic component when a node of it depends on itself.
LEMMA CirclesFound ==
    ASSUME NEW graph, IsGraph(graph), NEW roots \in Seq(DOMAIN graph), ToSet(roots) = DOMAIN graph
    PROVE  {c \in ToSet(Components(roots, graph)) : c.cyclic} = {} <=> NoCircle(graph)
<1> DEFINE found == Components(roots, graph)
<1>1. /\ found \in Seq(ComponentsOver(DOMAIN graph))
      /\ Groups(found, graph)
      /\ Gathered(found) = {m \in DOMAIN graph : \E r \in ToSet(roots) : Path(graph, r, m)}
  BY ComponentsFound
<1> HIDE DEF found
<1>2. Gathered(found) = DOMAIN graph
  BY <1>1, PathReflexive
<1>3. DOMAIN found = 1 .. Len(found) /\ \A c : c \in ToSet(found) <=> \E k \in 1 .. Len(found) : c = found[k]
  BY <1>1, SetOfSequence
<1>4. \A k \in 1 .. Len(found) : \A m \in ToSet(found[k].modules) : found[k].cyclic = OnCircle(graph, m)
  BY <1>1 DEF Groups
<1>5. ASSUME NoCircle(graph), NEW c \in ToSet(found), c.cyclic PROVE FALSE
  <2>1. PICK k \in 1 .. Len(found) : c = found[k]
    BY <1>3
  <2>2. found[k].modules # << >> /\ found[k].modules \in Seq(DOMAIN graph)
    <3>1. found[k] \in ComponentsOver(DOMAIN graph)
      BY <1>1
    <3> QED BY <1>1, <3>1 DEF Groups, ComponentsOver
  <2>3. \E m : m \in ToSet(found[k].modules)
    <3> DEFINE s == found[k].modules
    <3>1. s # << >> /\ s \in Seq(DOMAIN graph)
      BY <2>2
    <3> HIDE DEF s
    <3>2. 1 \in 1 .. Len(s)
      BY <3>1
    <3>3. s[1] \in ToSet(s)
      BY <3>1, <3>2, SetOfSequence
    <3> QED BY <3>3 DEF s
  <2>4. PICK m : m \in ToSet(found[k].modules)
    BY <2>3
  <2>5. m \in DOMAIN graph
    BY <2>2, <2>4, SetOfSequence
  <2>6. OnCircle(graph, m)
    BY <1>4, <1>5, <2>1, <2>4
  <2> QED BY <1>5, <2>5, <2>6 DEF NoCircle
<1>6. ASSUME \A c \in ToSet(found) : ~ c.cyclic, NEW m \in DOMAIN graph, OnCircle(graph, m) PROVE FALSE
  <2>1. PICK k \in 1 .. Len(found) : m \in ToSet(found[k].modules)
    BY <1>2, <1>3 DEF Gathered
  <2>2. found[k].cyclic
    BY <1>4, <1>6, <2>1
  <2> QED BY <1>3, <1>6, <2>2
<1>7. (\A c \in ToSet(found) : ~ c.cyclic) <=> NoCircle(graph)
  BY <1>5, <1>6 DEF NoCircle
<1> QED BY <1>7 DEF found

-----------------------------------------------------------------------------
(* Emit                                                                    *)

\* A part of a plan: nothing twice, and nothing before what it depends on
Emission(e, graph) ==
    /\ e \in Seq(DOMAIN graph)
    /\ IsInjective(e)
    /\ \A a \in ToSet(e) : \A d \in ToSet(graph[a]) : Follows(e, d, a)

\* Nothing is ready.
Stuck(e, order, graph) == \A i \in DOMAIN order : ~ Ready(graph, e, order[i])

\* f is the function that Emit computes by.
IsEmission(f, order, graph) ==
    f = [n \in 0 .. Len(order) |->
            IF n = 0 THEN << >>
            ELSE LET before == f[n - 1]
                     ready == {i \in DOMAIN order : Ready(graph, before, order[i])}
                 IN  IF ready = {} THEN before ELSE Append(before, order[Min(ready)])]

\* One turn of Emit
EmitNext(before, order, graph) ==
    LET ready == {i \in DOMAIN order : Ready(graph, before, order[i])}
    IN  IF ready = {} THEN before ELSE Append(before, order[Min(ready)])

\* An action that is ready can come next.
LEMMA EmittedOne ==
    ASSUME NEW graph, NEW e, Emission(e, graph), NEW a \in DOMAIN graph, Ready(graph, e, a)
    PROVE  Emission(Append(e, a), graph) /\ Len(Append(e, a)) = Len(e) + 1
<1> DEFINE t == Append(e, a)
<1>1. e \in Seq(DOMAIN graph) /\ DOMAIN e = 1 .. Len(e) /\ Len(e) \in Nat
  BY DEF Emission
<1>2. /\ t \in Seq(DOMAIN graph)
      /\ Len(t) = Len(e) + 1
      /\ \A i \in 1 .. Len(e) : t[i] = e[i]
      /\ t[Len(e) + 1] = a
      /\ ToSet(t) = ToSet(e) \cup {a}
  BY <1>1, AppendedElements
<1>3. a \notin ToSet(e) /\ ToSet(graph[a]) \subseteq ToSet(e)
  BY DEF Ready
<1> HIDE DEF t
<1>4. DOMAIN t = 1 .. Len(e) + 1 /\ \A i \in 1 .. Len(e) + 1 : i \in 1 .. Len(e) \/ i = Len(e) + 1
  BY <1>1, <1>2
<1>5. \A i \in 1 .. Len(e) : e[i] # a
  BY <1>1, <1>3, SetOfSequence
<1>6. IsInjective(t)
  BY <1>1, <1>2, <1>4, <1>5 DEF Emission, IsInjective
<1>7. ASSUME NEW x \in ToSet(t), NEW d \in ToSet(graph[x]) PROVE Follows(t, d, x)
  <2>1. CASE x \in ToSet(e)
    <3>1. PICK i, j \in 1 .. Len(e) : i < j /\ e[i] = d /\ e[j] = x
      BY <2>1 DEF Emission, Follows
    <3>2. i \in 1 .. Len(t) /\ j \in 1 .. Len(t)
      BY <1>1, <1>2
    <3> QED BY <1>2, <3>1, <3>2 DEF Follows
  <2>2. CASE x = a
    <3>1. d \in ToSet(e)
      BY <1>3, <2>2
    <3>2. PICK i \in 1 .. Len(e) : e[i] = d
      BY <1>1, <3>1, SetOfSequence
    <3>3. i \in 1 .. Len(t) /\ Len(e) + 1 \in 1 .. Len(t) /\ i < Len(e) + 1
      BY <1>1, <1>2
    <3> QED BY <1>2, <2>2, <3>2, <3>3 DEF Follows
  <2> QED BY <1>2, <2>1, <2>2
<1> QED BY <1>2, <1>6, <1>7 DEF Emission, t

\* A turn of Emit adds an action that is ready, if there is one.
LEMMA EmitKeeps ==
    ASSUME NEW graph, NEW order \in Seq(DOMAIN graph), NEW e, Emission(e, graph)
    PROVE  /\ Emission(EmitNext(e, order, graph), graph)
           /\ Stuck(e, order, graph) => EmitNext(e, order, graph) = e
           /\ ~ Stuck(e, order, graph) => Len(EmitNext(e, order, graph)) = Len(e) + 1
<1> DEFINE ready == {i \in DOMAIN order : Ready(graph, e, order[i])}
           t == EmitNext(e, order, graph)
<1>1. t = IF ready = {} THEN e ELSE Append(e, order[Min(ready)])
  BY DEF EmitNext
<1>2. ready = {} <=> Stuck(e, order, graph)
  BY DEF Stuck
<1>3. ready \in SUBSET Nat /\ \A i \in ready : order[i] \in DOMAIN graph /\ Ready(graph, e, order[i])
  OBVIOUS
<1> HIDE DEF ready, t
<1>4. CASE ready = {}
  BY <1>1, <1>2, <1>4 DEF t
<1>5. CASE ready # {}
  <2>1. \E n \in ready : \A k \in ready : n <= k
    BY <1>3, <1>5, LeastElement
  <2>2. Min(ready) \in ready
    BY <2>1 DEF Min
  <2>3. order[Min(ready)] \in DOMAIN graph /\ Ready(graph, e, order[Min(ready)])
    BY <1>3, <2>2
  <2> DEFINE a == order[Min(ready)]
  <2>4. a \in DOMAIN graph /\ Ready(graph, e, a) /\ t = Append(e, a)
    BY <1>1, <1>5, <2>3
  <2> HIDE DEF a
  <2>5. Emission(t, graph) /\ Len(t) = Len(e) + 1
    BY <2>4, EmittedOne
  <2> QED BY <1>2, <1>5, <2>5 DEF t
<1> QED BY <1>4, <1>5 DEF t

\* The recursion of Emit has a solution.
LEMMA EmissionExists ==
    ASSUME NEW graph, NEW order \in Seq(DOMAIN graph)
    PROVE  \E f : IsEmission(f, order, graph)
<1> DEFINE S == {e \in Seq(DOMAIN graph) : Emission(e, graph)}
           F == [e \in S |-> EmitNext(e, order, graph)]
           N == Len(order)
           a == << >>
<1>0. N \in Nat
  OBVIOUS
<1>1. ASSUME NEW e \in S PROVE EmitNext(e, order, graph) \in S
  <2>1. Emission(EmitNext(e, order, graph), graph)
    BY EmitKeeps
  <2> QED BY <2>1 DEF Emission
<1>2. F \in [S -> S]
  BY <1>1
<1>3. a \in S
  BY DEF Emission, ToSet, IsInjective
<1>4. \A e \in S : F[e] = EmitNext(e, order, graph)
  OBVIOUS
<1> HIDE DEF S, F, N, a
<1>f. PICK f : IsIteration(f, S, F, a, N)
  BY <1>0, <1>2, <1>3, IterationExists
<1>5. f \in [0 .. N -> S] /\ f[0] = a /\ \A n \in 1 .. N : f[n] = F[f[n - 1]]
  BY <1>f DEF IsIteration
<1>6. ASSUME NEW n \in 0 .. N
      PROVE  f[n] = IF n = 0 THEN a ELSE EmitNext(f[n - 1], order, graph)
  <2>1. CASE n = 0
    BY <1>5, <2>1
  <2>2. CASE n # 0
    <3>1. n \in 1 .. N /\ n - 1 \in 0 .. N
      BY <1>0, <2>2
    <3> QED BY <1>4, <1>5, <2>2, <3>1
  <2> QED BY <2>1, <2>2
<1>7. f = [n \in 0 .. N |-> f[n]]
  BY <1>5
<1>8. IsEmission(f, order, graph)
  BY <1>6, <1>7 DEF IsEmission, EmitNext, a, N
<1> QED BY <1>8

\* Emit puts actions in an order that respects their dependencies, until none is ready.
LEMMA EmitOrders ==
    ASSUME NEW graph, NEW order \in Seq(DOMAIN graph)
    PROVE  /\ Emission(Emit(order, graph), graph)
           /\ Len(Emit(order, graph)) = Len(order) \/ Stuck(Emit(order, graph), order, graph)
<1> DEFINE f == CHOOSE g : IsEmission(g, order, graph)
           N == Len(order)
<1>0. N \in Nat
  OBVIOUS
<1>1. IsEmission(f, order, graph)
  BY EmissionExists
<1>2. Emit(order, graph) = f[N]
  BY DEF Emit, IsEmission
<1> HIDE DEF f
<1>3. \A n \in 0 .. N : f[n] = IF n = 0 THEN << >> ELSE EmitNext(f[n - 1], order, graph)
  BY <1>1 DEF IsEmission, EmitNext
<1> DEFINE Good(n) == /\ Emission(f[n], graph)
                      /\ Len(f[n]) = n \/ Stuck(f[n], order, graph)
           C == {n \in Nat : n <= N => Good(n)}
<1>4. 0 \in C
  <2>1. f[0] = << >>
    BY <1>0, <1>3
  <2>2. Emission(<< >>, graph) /\ Len(<< >>) = 0
    BY DEF Emission, ToSet, IsInjective
  <2> QED BY <2>1, <2>2
<1>5. ASSUME NEW n \in Nat, n \in C PROVE n + 1 \in C
  <2>1. SUFFICES ASSUME n + 1 <= N PROVE Good(n + 1)
    OBVIOUS
  <2>2. n + 1 \in 0 .. N /\ n + 1 # 0 /\ (n + 1) - 1 = n /\ n <= N
    BY <1>0, <2>1
  <2>3. Good(n)
    BY <1>5, <2>2
  <2>4. f[n + 1] = EmitNext(f[n], order, graph)
    BY <1>3, <2>2
  <2> DEFINE e == f[n]
             t == f[n + 1]
  <2>5. Emission(e, graph) /\ (Len(e) = n \/ Stuck(e, order, graph)) /\ t = EmitNext(e, order, graph)
    BY <2>3, <2>4
  <2> HIDE DEF e, t
  <2>6. /\ Emission(t, graph)
        /\ Stuck(e, order, graph) => t = e
        /\ ~ Stuck(e, order, graph) => Len(t) = Len(e) + 1
    BY <2>5, EmitKeeps
  <2>7. Emission(t, graph) /\ (Len(t) = n + 1 \/ Stuck(t, order, graph))
    BY <2>5, <2>6
  <2> QED BY <2>7 DEF t
<1>6. C = Nat
  <2>1. C \in SUBSET Nat
    OBVIOUS
  <2> HIDE DEF C
  <2> QED BY <1>4, <1>5, <2>1, Counting
<1>7. Good(N)
  <2>1. N \in C /\ N <= N
    BY <1>0, <1>6
  <2> HIDE DEF N
  <2> QED BY <2>1
<1> QED BY <1>2, <1>7

\* In an order that respects them no dependencies run in a circle.
LEMMA OrderedNoCircle ==
    ASSUME NEW graph, IsGraph(graph), NEW e, Emission(e, graph), ToSet(e) = DOMAIN graph
    PROVE  NoCircle(graph)
<1>1. e \in Seq(DOMAIN graph) /\ DOMAIN e = 1 .. Len(e) /\ Len(e) \in Nat
  BY DEF Emission
<1>2. SUFFICES ASSUME NEW m \in DOMAIN graph, OnCircle(graph, m) PROVE FALSE
  BY DEF NoCircle
<1>3. PICK q \in DOMAIN graph : Path(graph, m, q) /\ m \in ToSet(graph[q])
  BY <1>2 DEF OnCircle
<1>4. PICK k \in 1 .. Len(e) : e[k] = m
  BY <1>1, SetOfSequence
<1> DEFINE T == {e[i] : i \in 1 .. k}
<1>5. ASSUME NEW x \in T, NEW y \in ToSet(graph[x]) PROVE y \in T
  <2>1. PICK i \in 1 .. k : x = e[i]
    OBVIOUS
  <2>2. i \in 1 .. Len(e)
    BY <1>1
  <2>3. x \in ToSet(e)
    BY <1>1, <2>1, <2>2, SetOfSequence
  <2>4. PICK u, v \in 1 .. Len(e) : u < v /\ e[u] = y /\ e[v] = x
    BY <1>5, <2>3 DEF Emission, Follows
  <2>5. v = i
    BY <1>1, <2>1, <2>2, <2>4 DEF Emission, IsInjective
  <2>6. u \in 1 .. k
    BY <1>1, <2>4, <2>5
  <2> QED BY <2>4, <2>6
<1>6. T \in SUBSET DOMAIN graph /\ Closed(graph, T)
  <2>1. \A i \in 1 .. k : e[i] \in DOMAIN graph
    BY <1>1
  <2> QED BY <1>5, <2>1 DEF Closed
<1>7. m \in T
  BY <1>1, <1>4
<1>8. q \in T
  <2> HIDE DEF T
  <2> QED BY <1>3, <1>6, <1>7, PathInside
<1>9. PICK i \in 1 .. k : q = e[i]
  BY <1>8
<1>10. PICK u, v \in 1 .. Len(e) : u < v /\ e[u] = m /\ e[v] = q
  BY <1>3 DEF Emission, Follows
<1>11. u = k
  BY <1>1, <1>4, <1>10 DEF Emission, IsInjective
<1>12. v = i
  <2>1. i \in 1 .. Len(e)
    BY <1>1
  <2> QED BY <1>1, <1>9, <1>10, <2>1 DEF Emission, IsInjective
<1> QED BY <1>1, <1>10, <1>11, <1>12

\* Without circles there is always an action that is ready.
LEMMA NoCircleNotStuck ==
    ASSUME NEW graph, IsGraph(graph), NoCircle(graph), NEW order \in Seq(DOMAIN graph),
           ToSet(order) = DOMAIN graph, NEW e, Stuck(e, order, graph)
    PROVE  DOMAIN graph \subseteq ToSet(e)
<1>1. SUFFICES ASSUME ~ (DOMAIN graph \subseteq ToSet(e)) PROVE FALSE
  OBVIOUS
<1> DEFINE found == Components(order, graph)
<1>2. /\ found \in Seq(ComponentsOver(DOMAIN graph))
      /\ Groups(found, graph)
      /\ Gathered(found) = {m \in DOMAIN graph : \E r \in ToSet(order) : Path(graph, r, m)}
  BY ComponentsFound
<1> HIDE DEF found
<1>3. Gathered(found) = DOMAIN graph
  BY <1>2, PathReflexive
<1>4. DOMAIN found = 1 .. Len(found) /\ Len(found) \in Nat
  BY <1>2
<1> DEFINE T == {k \in 1 .. Len(found) : ~ (ToSet(found[k].modules) \subseteq ToSet(e))}
<1>5. T \in SUBSET Nat /\ T # {}
  <2>1. PICK m \in DOMAIN graph : m \notin ToSet(e)
    BY <1>1
  <2>2. PICK k \in 1 .. Len(found) : m \in ToSet(found[k].modules)
    BY <1>3, <1>4 DEF Gathered
  <2> QED BY <1>4, <2>1, <2>2
<1>6. PICK k \in T : \A l \in T : k <= l
  <2> HIDE DEF T
  <2> QED BY <1>5, LeastElement
<1>7. k \in 1 .. Len(found) /\ k \in Nat
  OBVIOUS
<1>8. PICK m \in ToSet(found[k].modules) : m \notin ToSet(e)
  BY <1>6
<1>9. m \in DOMAIN graph
  BY <1>3, <1>4, <1>7 DEF Gathered
<1>10. ASSUME NEW d \in ToSet(graph[m]) PROVE d \in ToSet(e)
  <2>1. ToSet(graph[m]) \subseteq UNION {ToSet(found[l].modules) : l \in 1 .. k}
    BY <1>2, <1>7 DEF Groups
  <2>2. PICK l \in 1 .. k : d \in ToSet(found[l].modules)
    BY <2>1
  <2>3. CASE l = k
    <3>1. Path(graph, d, m)
      BY <1>2, <1>7, <2>2, <2>3 DEF Groups
    <3>2. d \in DOMAIN graph
      BY <1>9, Successors
    <3>3. OnCircle(graph, m)
      <4>1. CASE d = m
        BY <1>9, <4>1, PathReflexive DEF OnCircle
      <4>2. CASE d # m
        <5>1. PICK q \in DOMAIN graph : Path(graph, d, q) /\ m \in ToSet(graph[q])
          BY <3>1, <3>2, <4>2, PathThrough
        <5>2. Path(graph, m, q)
          BY <1>9, <5>1, PathEdge, PathTransitive
        <5> QED BY <5>1, <5>2 DEF OnCircle
      <4> QED BY <4>1, <4>2
    <3> QED BY <1>9, <3>3 DEF NoCircle
  <2>4. CASE l # k
    <3>1. l \in 1 .. Len(found) /\ ~ (k <= l)
      BY <1>4, <1>7, <2>4
    <3>2. l \notin T
      BY <1>6, <3>1
    <3> QED BY <2>2, <3>1, <3>2
  <2> QED BY <2>3, <2>4
<1>11. PICK i \in 1 .. Len(order) : order[i] = m
  BY <1>9, SetOfSequence
<1>12. i \in DOMAIN order /\ Ready(graph, e, order[i])
  BY <1>8, <1>10, <1>11 DEF Ready
<1> QED BY <1>12 DEF Stuck

\* Emit gets to the end exactly when there is no circle, and then has every action.
THEOREM EmitComplete ==
    ASSUME NEW graph, IsGraph(graph), NEW order \in Seq(DOMAIN graph), IsInjective(order),
           ToSet(order) = DOMAIN graph
    PROVE  /\ Len(Emit(order, graph)) = Len(order) <=> NoCircle(graph)
           /\ NoCircle(graph) => ToSet(Emit(order, graph)) = DOMAIN graph
<1> DEFINE e == Emit(order, graph)
<1>1. Emission(e, graph) /\ (Len(e) = Len(order) \/ Stuck(e, order, graph))
  BY EmitOrders
<1> HIDE DEF e
<1>2. e \in Seq(DOMAIN graph) /\ IsInjective(e) /\ ToSet(e) \subseteq DOMAIN graph
  BY <1>1, SetOfSequence DEF Emission
<1>3. Cardinality(ToSet(e)) = Len(e) /\ Cardinality(DOMAIN graph) = Len(order)
  BY <1>2, ElementsCounted
<1>4. IsFiniteSet(DOMAIN graph)
  BY DEF IsGraph
<1>5. Len(e) = Len(order) => ToSet(e) = DOMAIN graph
  BY <1>2, <1>3, <1>4, FS_Subset
<1>6. ToSet(e) = DOMAIN graph => NoCircle(graph)
  BY <1>1, OrderedNoCircle
<1>7. ASSUME NoCircle(graph) PROVE Len(e) = Len(order)
  <2>1. CASE Stuck(e, order, graph)
    <3>1. DOMAIN graph \subseteq ToSet(e)
      BY <1>7, <2>1, NoCircleNotStuck
    <3>2. ToSet(e) = DOMAIN graph
      BY <1>2, <3>1
    <3> QED BY <1>3, <3>2
  <2> QED BY <1>1, <2>1
<1> QED BY <1>5, <1>6, <1>7 DEF e

-----------------------------------------------------------------------------
(* Plans                                                                   *)

\* A sequence is one of its own elements.
LEMMA ListedWithin ==
    ASSUME NEW S, NEW s \in Seq(S)
    PROVE  s \in Seq(ToSet(s))
<1>1. \A i \in 1 .. Len(s) : s[i] \in ToSet(s)
  BY SetOfSequence
<1> DEFINE T == ToSet(s)
<1>2. \A i \in 1 .. Len(s) : s[i] \in T
  BY <1>1
<1> HIDE DEF T
<1>3. s \in Seq(T)
  BY <1>2
<1> QED BY <1>3 DEF T

\* Both algorithms of the analysis and of the plan find whether there is a circle.
LEMMA CircleFound ==
    ASSUME NEW p, Readable(p), NEW modules \in Seq(Modules), IsInjective(modules)
    PROVE  /\ Circles(p, modules) = {} <=> NoCircle(ActionGraph(p, modules))
           /\ Len(Emit(ActionsInOrder(p, modules), ActionGraph(p, modules)))
                  = Len(ActionsInOrder(p, modules))
                  <=> NoCircle(ActionGraph(p, modules))
           /\ Emission(Emit(ActionsInOrder(p, modules), ActionGraph(p, modules)), ActionGraph(p, modules))
           /\ NoCircle(ActionGraph(p, modules)) =>
                  ToSet(Emit(ActionsInOrder(p, modules), ActionGraph(p, modules)))
                      = TasksAmong(p, ToSet(modules))
<1> DEFINE g == ActionGraph(p, modules)
           order == ActionsInOrder(p, modules)
           listed == ActionsByModule(p, modules)
           actions == TasksAmong(p, ToSet(modules))
<1>1. IsGraph(g) /\ DOMAIN g = actions
  <2> HIDE DEF actions
  <2> QED BY ActionGraphNeeds DEF actions
<1>2. order \in Seq(Places) /\ IsInjective(order) /\ ToSet(order) = actions
  BY ActionsOrdered
<1>3. listed \in Seq(Places) /\ ToSet(listed) = actions
  BY ActionsListed
<1>4. Circles(p, modules) = {c \in ToSet(Components(listed, g)) : c.cyclic}
  BY DEF Circles
<1> HIDE DEF g, order, listed, actions
<1>5. order \in Seq(DOMAIN g) /\ ToSet(order) = DOMAIN g
  BY <1>1, <1>2, ListedWithin
<1>6. listed \in Seq(DOMAIN g) /\ ToSet(listed) = DOMAIN g
  BY <1>1, <1>3, ListedWithin
<1>7. Circles(p, modules) = {} <=> NoCircle(g)
  BY <1>1, <1>4, <1>6, CirclesFound
<1>8. /\ Len(Emit(order, g)) = Len(order) <=> NoCircle(g)
      /\ NoCircle(g) => ToSet(Emit(order, g)) = actions
  BY <1>1, <1>2, <1>5, EmitComplete
<1>9. Emission(Emit(order, g), g)
  BY <1>5, EmitOrders
<1> QED BY <1>7, <1>8, <1>9 DEF g, order, actions

\* The modules of a component that Components finds among those of a project
LEMMA ComponentModules ==
    ASSUME NEW p, Readable(p), NEW roots \in Seq(Modules), NEW found,
           found = Components(roots, Imports(p))
    PROVE  /\ found \in Seq(ComponentsOver(Modules))
           /\ Groups(found, Imports(p))
           /\ \A k \in 1 .. Len(found) : /\ found[k].modules \in Seq(Modules)
                                         /\ IsInjective(found[k].modules)
                                         /\ found[k].cyclic \in BOOLEAN
<1>1. IsGraph(Imports(p)) /\ DOMAIN Imports(p) = Modules
  BY ImportsGraph
<1>2. found \in Seq(ComponentsOver(Modules)) /\ Groups(found, Imports(p))
  BY <1>1, ComponentsFound
<1>3. \A k \in 1 .. Len(found) : found[k] \in ComponentsOver(Modules)
  BY <1>2
<1>4. \A k \in 1 .. Len(found) : found[k].modules \in Seq(Modules) /\ found[k].cyclic \in BOOLEAN
  BY <1>3 DEF ComponentsOver
<1>5. \A k \in 1 .. Len(found) : IsInjective(found[k].modules)
  BY <1>2 DEF Groups
<1> QED BY <1>2, <1>4, <1>5

\* Every import cycle can be put in an order.
Orderly(p, found) == \A k \in 1 .. Len(found) : found[k].cyclic => NoCircle(ActionGraph(p, found[k].modules))

\* A plan is valid when the actions of every cyclic component have an order.
LEMMA PlanValid ==
    ASSUME NEW p, Readable(p), NEW roots \in Seq(Modules), NEW found,
           found = Components(roots, Imports(p))
    PROVE  OrderedInitializationSteps(p, roots).valid <=> Orderly(p, found)
<1>1. /\ found \in Seq(ComponentsOver(Modules))
      /\ \A k \in 1 .. Len(found) : /\ found[k].modules \in Seq(Modules)
                                    /\ IsInjective(found[k].modules)
                                    /\ found[k].cyclic \in BOOLEAN
  BY ComponentModules
<1>2. DOMAIN found = 1 .. Len(found)
  BY <1>1
<1>3. OrderedInitializationSteps(p, roots).valid
          <=> \A k \in 1 .. Len(found) :
                  Len(ComponentSteps(p, found[k])) = Len(ActionsInOrder(p, found[k].modules))
  BY <1>2 DEF OrderedInitializationSteps
<1>4. ASSUME NEW k \in 1 .. Len(found)
      PROVE  Len(ComponentSteps(p, found[k])) = Len(ActionsInOrder(p, found[k].modules))
                 <=> (found[k].cyclic => NoCircle(ActionGraph(p, found[k].modules)))
  <2>1. CASE found[k].cyclic
    <3>1. ComponentSteps(p, found[k])
              = Emit(ActionsInOrder(p, found[k].modules), ActionGraph(p, found[k].modules))
      BY <2>1 DEF ComponentSteps
    <3> QED BY <1>1, <2>1, <3>1, CircleFound
  <2>2. CASE ~ found[k].cyclic
    BY <2>2 DEF ComponentSteps
  <2> QED BY <2>1, <2>2
<1> QED BY <1>3, <1>4 DEF Orderly

\* The analysis reports no circle when the actions of every cyclic component have an order.
LEMMA CircularValuesFound ==
    ASSUME NEW p, Readable(p), NEW found, found = Components(Paths, Imports(p))
    PROVE  CircularValues(p) = {} <=> Orderly(p, found)
<1>0. Paths \in Seq(Modules)
  BY ModulesFinite
<1>1. /\ found \in Seq(ComponentsOver(Modules))
      /\ \A k \in 1 .. Len(found) : found[k].modules \in Seq(Modules) /\ IsInjective(found[k].modules)
  BY <1>0, ComponentModules
<1>2. CircularValues(p) = {} <=> \A c \in CyclicComponents(p) : Circles(p, c.modules) = {}
  <2> DEFINE Where(c) == {circle.modules[1][1] : circle \in Circles(p, c.modules)}
  <2>1. CircularValues(p) = UNION {Where(c) : c \in CyclicComponents(p)}
    BY DEF CircularValues
  <2>2. \A c : Where(c) = {} <=> Circles(p, c.modules) = {}
    OBVIOUS
  <2> HIDE DEF Where
  <2>3. CircularValues(p) = {} <=> \A c \in CyclicComponents(p) : Where(c) = {}
    BY <2>1
  <2> QED BY <2>2, <2>3
<1>3. \A c : c \in CyclicComponents(p) <=> \E k \in 1 .. Len(found) : c = found[k] /\ found[k].cyclic
  <2>1. CyclicComponents(p) = {c \in ToSet(found) : c.cyclic}
    BY DEF CyclicComponents
  <2>2. \A c : c \in ToSet(found) <=> \E k \in 1 .. Len(found) : c = found[k]
    BY <1>1, SetOfSequence
  <2> QED BY <2>1, <2>2
<1>4. \A k \in 1 .. Len(found) :
          Circles(p, found[k].modules) = {} <=> NoCircle(ActionGraph(p, found[k].modules))
  BY <1>1, CircleFound
<1>5. CircularValues(p) = {} <=>
          \A k \in 1 .. Len(found) : found[k].cyclic => Circles(p, found[k].modules) = {}
  BY <1>2, <1>3
<1> QED BY <1>4, <1>5 DEF Orderly

\* What a project is accepted for holds in the components found from any root.
LEMMA OrderlyEverywhere ==
    ASSUME NEW p, Readable(p), Resolved(p), CircularValues(p) = {}, NEW roots \in Seq(Modules), NEW found,
           found = Components(roots, Imports(p))
    PROVE  Orderly(p, found)
<1> DEFINE graph == Imports(p)
           all == Components(Paths, graph)
<1>1. IsGraph(graph) /\ DOMAIN graph = Modules
  BY ImportsGraph
<1>2. Paths \in Seq(DOMAIN graph) /\ ToSet(Paths) = DOMAIN graph /\ roots \in Seq(DOMAIN graph)
  BY <1>1, ModulesFinite DEF Modules
<1>3. found = Components(roots, graph)
  OBVIOUS
<1>4. Orderly(p, all)
  BY CircularValuesFound
<1>5. \A k \in 1 .. Len(found) : found[k].modules \in Seq(Modules) /\ IsInjective(found[k].modules)
  BY ComponentModules
<1>6. \A k \in 1 .. Len(all) : all[k].modules \in Seq(Modules) /\ IsInjective(all[k].modules)
  BY ComponentModules, ModulesFinite
<1> HIDE DEF graph
<1>7. found \in Seq(ComponentsOver(DOMAIN graph)) /\ Groups(found, graph)
  BY <1>1, <1>2, <1>3, ComponentsFound
<1>8. /\ all \in Seq(ComponentsOver(DOMAIN graph)) /\ Groups(all, graph)
      /\ Gathered(all) = {m \in DOMAIN graph : \E r \in ToSet(Paths) : Path(graph, r, m)}
  BY <1>1, <1>2, ComponentsFound
<1> HIDE DEF all
<1>9. Gathered(all) = DOMAIN graph
  BY <1>2, <1>8, PathReflexive
<1>10. SUFFICES ASSUME NEW k \in 1 .. Len(found), found[k].cyclic
                PROVE  NoCircle(ActionGraph(p, found[k].modules))
  BY DEF Orderly
<1>11. PICK m : m \in ToSet(found[k].modules)
  <2> DEFINE s == found[k].modules
  <2>1. s # << >> /\ s \in Seq(Modules)
    BY <1>5, <1>7 DEF Groups
  <2> HIDE DEF s
  <2>2. 1 \in 1 .. Len(s)
    BY <2>1
  <2>3. s[1] \in ToSet(s)
    BY <2>1, <2>2, SetOfSequence
  <2> QED BY <2>3 DEF s
<1>12. m \in DOMAIN graph
  BY <1>1, <1>5, <1>11, SetOfSequence
<1>13. DOMAIN all = 1 .. Len(all)
  BY <1>8
<1>14. PICK j \in 1 .. Len(all) : m \in ToSet(all[j].modules)
  BY <1>9, <1>12, <1>13 DEF Gathered
<1>15. \A n : n \in ToSet(all[j].modules) <=> n \in ToSet(found[k].modules)
  <2>1. \A n : n \in ToSet(all[j].modules) <=> Path(graph, m, n) /\ Path(graph, n, m)
    BY <1>8, <1>14, ComponentIs
  <2>2. \A n : n \in ToSet(found[k].modules) <=> Path(graph, m, n) /\ Path(graph, n, m)
    BY <1>7, <1>11, ComponentIs
  <2> QED BY <2>1, <2>2
<1>16. ToSet(all[j].modules) = ToSet(found[k].modules)
  BY <1>15
<1>17. found[k].cyclic = OnCircle(graph, m) /\ all[j].cyclic = OnCircle(graph, m)
  BY <1>7, <1>8, <1>11, <1>14 DEF Groups
<1>18. NoCircle(ActionGraph(p, all[j].modules))
  BY <1>4, <1>10, <1>17 DEF Orderly
<1> DEFINE S == ToSet(found[k].modules)
           actions == TasksAmong(p, S)
           g == ActionGraph(p, all[j].modules)
           h == ActionGraph(p, found[k].modules)
<1>19. DOMAIN g = actions /\ \A a \in actions : ToSet(g[a]) = Needed(p, S, a)
  <2> HIDE DEF actions
  <2>1. actions = TasksAmong(p, ToSet(all[j].modules))
    BY <1>16 DEF actions
  <2>2. all[j].modules \in Seq(Modules) /\ IsInjective(all[j].modules)
    BY <1>6
  <2>3. /\ DOMAIN g = actions
        /\ \A a \in actions : ToSet(g[a]) = Needed(p, ToSet(all[j].modules), a)
    BY <2>1, <2>2, ActionGraphNeeds
  <2> QED BY <1>16, <2>3
<1>20. DOMAIN h = actions /\ \A a \in actions : ToSet(h[a]) = Needed(p, S, a)
  <2> HIDE DEF actions
  <2>1. actions = TasksAmong(p, ToSet(found[k].modules))
    BY DEF actions
  <2>2. found[k].modules \in Seq(Modules) /\ IsInjective(found[k].modules)
    BY <1>5
  <2> QED BY <2>1, <2>2, ActionGraphNeeds
<1>21. NoCircle(g)
  BY <1>18
<1> HIDE DEF g, h, actions
<1>22. NoCircle(h)
  BY <1>19, <1>20, <1>21, SameCircles
<1> QED BY <1>22 DEF h

\* What action c is not to be computed before
Requires(p, c, d) ==
    \/ c[2] > 1 /\ d = <<c[1], c[2] - 1>>
    \/ c[2] > 0 /\ p[c[1]].constants[c[2]].reads # << >> /\ d = p[c[1]].constants[c[2]].reads
    \/ c[2] = 0 /\ p[c[1]].parent # None /\ d = <<p[c[1]].parent, 0>>

\* What an action requires is an action of an imported module or an earlier one of its own.
LEMMA RequiredPlaces ==
    ASSUME NEW p, Readable(p), Resolved(p), NEW m \in Modules, NEW c \in Tasks(p, m), NEW d, Requires(p, c, d)
    PROVE  \E n \in Modules :
               /\ d \in Tasks(p, n)
               /\ \/ n \in ToSet(p[m].imports)
                  \/ n = m /\ \E i, j \in 1 .. Len(p[m].constants) : i < j /\ d = <<m, i>> /\ c = <<m, j>>
<1>1. Len(p[m].constants) \in Nat /\ DOMAIN p[m].constants = 1 .. Len(p[m].constants)
  BY ConstantPlaces
<1>2. CASE p[m].class /\ c = <<m, 0>>
  <2>1. p[m].parent # None /\ d = <<p[m].parent, 0>>
    BY <1>2 DEF Requires
  <2>2. p[m].parent \in ToSet(p[m].imports) /\ p[p[m].parent].class /\ p[m].imports \in Seq(Modules)
    BY <2>1 DEF Readable, Resolved
  <2>3. p[m].parent \in Modules
    BY <2>2, SetOfSequence
  <2>4. d \in Tasks(p, p[m].parent)
    BY <2>1, <2>2, <2>3, TaskPlaces
  <2> QED BY <2>2, <2>3, <2>4
<1>3. CASE c \in ConstantsOf(p, m)
  <2>1. PICK j \in 1 .. Len(p[m].constants) : c = <<m, j>>
    BY <1>3, TaskPlaces
  <2>2. CASE j > 1 /\ d = <<m, j - 1>>
    <3>1. j - 1 \in 1 .. Len(p[m].constants) /\ j - 1 < j
      BY <1>1, <2>2
    <3>2. d \in Tasks(p, m)
      BY <2>2, <3>1, TaskPlaces
    <3> QED BY <2>1, <2>2, <3>1, <3>2
  <2>3. CASE p[m].constants[j].reads # << >> /\ d = p[m].constants[j].reads
    <3>1. /\ d \in AllConstants(p)
          /\ d[1] \in ToSet(p[m].imports) \/ (d[1] = m /\ d[2] < j)
      BY <1>1, <2>3 DEF Readable
    <3>2. PICK n \in Modules : d \in ConstantsOf(p, n)
      BY <3>1 DEF AllConstants
    <3>3. PICK i \in 1 .. Len(p[n].constants) : d = <<n, i>>
      BY <3>2, TaskPlaces
    <3>4. d \in Tasks(p, n)
      BY <3>2, TaskPlaces
    <3> QED BY <2>1, <3>1, <3>3, <3>4
  <2>4. (j > 1 /\ d = <<m, j - 1>>) \/ (p[m].constants[j].reads # << >> /\ d = p[m].constants[j].reads)
    BY <2>1 DEF Requires
  <2> QED BY <2>2, <2>3, <2>4
<1> QED BY <1>2, <1>3, TaskPlaces

\* What an action requires among others is one of its dependencies.
LEMMA RequiredNeeded ==
    ASSUME NEW p, NEW S, NEW c, NEW d \in TasksAmong(p, S), c[2] \in Nat, Requires(p, c, d)
    PROVE  d \in Needed(p, S, c)
<1>1. CASE c[2] = 0
  BY <1>1 DEF Requires, Needed
<1>2. CASE c[2] # 0
  BY <1>2 DEF Requires, Needed
<1> QED BY <1>1, <1>2

\* s initializes the modules of a component, what each action requires of them first.
Initializes(p, component, s) ==
    /\ s \in Seq(Places)
    /\ IsInjective(s)
    /\ ToSet(s) = TasksAmong(p, ToSet(component.modules))
    /\ \A m, n \in ToSet(component.modules) : \A c \in Tasks(p, m), d \in Tasks(p, n) :
           Requires(p, c, d) => Follows(s, d, c)

\* The steps of an import cycle without circles of values
LEMMA CycleInitialized ==
    ASSUME NEW p, Readable(p), Resolved(p), NEW component, component.modules \in Seq(Modules),
           IsInjective(component.modules), component.cyclic,
           NoCircle(ActionGraph(p, component.modules))
    PROVE  Initializes(p, component, ComponentSteps(p, component))
<1> DEFINE modules == component.modules
           S == ToSet(modules)
           actions == TasksAmong(p, S)
           g == ActionGraph(p, modules)
           s == ComponentSteps(p, component)
<1>1. s = Emit(ActionsInOrder(p, modules), g)
  BY DEF ComponentSteps
<1>2. Emission(s, g) /\ ToSet(s) = actions
  BY <1>1, CircleFound
<1>a. actions = TasksAmong(p, S)
  OBVIOUS
<1>3. DOMAIN g = actions /\ \A a \in actions : ToSet(g[a]) = Needed(p, S, a)
  <2> HIDE DEF actions
  <2> QED BY <1>a, ActionGraphNeeds
<1> HIDE DEF s, g, actions
<1>4. \A a \in actions : a \in Places
  <2>1. \A m \in S : m \in Modules
    BY SetOfSequence
  <2>2. \A m \in S : \A a \in Tasks(p, m) : a \in Places
    BY <2>1, TaskPlaces
  <2> QED BY <1>a, <2>2 DEF TasksAmong
<1>5. s \in Seq(Places) /\ IsInjective(s)
  <2>1. s \in Seq(actions) /\ IsInjective(s)
    BY <1>2, <1>3 DEF Emission
  <2> QED BY <1>4, <2>1
<1>6. ASSUME NEW m \in S, NEW n \in S, NEW c \in Tasks(p, m), NEW d \in Tasks(p, n), Requires(p, c, d)
      PROVE  Follows(s, d, c)
  <2>1. c \in actions /\ d \in actions
    BY <1>a DEF TasksAmong
  <2>2. c[2] \in Nat
    BY <1>4, <2>1 DEF Places
  <2>3. d \in Needed(p, S, c)
    BY <1>6, <1>a, <2>1, <2>2, RequiredNeeded
  <2>4. d \in ToSet(g[c]) /\ c \in ToSet(s)
    BY <1>2, <1>3, <2>1, <2>3
  <2> QED BY <1>2, <2>4 DEF Emission
<1>7. ToSet(s) = TasksAmong(p, S)
  BY <1>2, <1>a
<1> QED BY <1>5, <1>6, <1>7 DEF Initializes, s

\* The steps of a module outside import cycles
LEMMA ModuleInitialized ==
    ASSUME NEW p, Readable(p), Resolved(p), NEW found \in Seq(ComponentsOver(Modules)), Groups(found, Imports(p)),
           NEW k \in 1 .. Len(found), found[k].modules \in Seq(Modules),
           IsInjective(found[k].modules), ~ found[k].cyclic
    PROVE  Initializes(p, found[k], ComponentSteps(p, found[k]))
<1> DEFINE component == found[k]
           modules == component.modules
           S == ToSet(modules)
           s == ComponentSteps(p, component)
           graph == Imports(p)
<1>1. s = ActionsInOrder(p, modules)
  BY DEF ComponentSteps
<1>2. /\ s \in Seq(Places)
      /\ IsInjective(s)
      /\ ToSet(s) = TasksAmong(p, S)
      /\ \A m \in S : \A i, j \in 1 .. Len(p[m].constants) : i < j => Follows(s, <<m, i>>, <<m, j>>)
  BY <1>1, ActionsOrdered
<1>3. IsGraph(graph) /\ DOMAIN graph = Modules /\ \A m \in Modules : graph[m] = p[m].imports
  <2>1. \A m \in Modules : graph[m] = p[m].imports
    BY DEF Imports
  <2> HIDE DEF graph
  <2> QED BY <2>1, ImportsGraph DEF graph
<1>4. \A m \in S : m \in Modules
  BY SetOfSequence
<1>5. \A m, n \in S : Path(graph, n, m)
  BY DEF Groups
<1>6. \A m \in S : component.cyclic = OnCircle(graph, m)
  BY DEF Groups
<1> HIDE DEF graph, s
<1>7. ASSUME NEW m \in S, NEW n \in S, NEW c \in Tasks(p, m), NEW d \in Tasks(p, n), Requires(p, c, d)
      PROVE  Follows(s, d, c)
  <2>1. PICK l \in Modules :
            /\ d \in Tasks(p, l)
            /\ \/ l \in ToSet(p[m].imports)
               \/ l = m /\ \E i, j \in 1 .. Len(p[m].constants) : i < j /\ d = <<m, i>> /\ c = <<m, j>>
    BY <1>4, <1>7, RequiredPlaces
  <2>2. d[1] = l /\ d[1] = n
    BY <1>4, <2>1, TaskPlaces
  <2>3. CASE l \in ToSet(p[m].imports)
    <3>1. m \in DOMAIN graph /\ n \in ToSet(graph[m]) /\ Path(graph, n, m)
      BY <1>3, <1>4, <1>5, <2>2, <2>3
    <3>2. OnCircle(graph, m)
      BY <1>3, <3>1, BackEdgeCircle
    <3> QED BY <1>6, <3>2
  <2>4. CASE \E i, j \in 1 .. Len(p[m].constants) : i < j /\ d = <<m, i>> /\ c = <<m, j>>
    BY <1>2, <2>4
  <2> QED BY <2>1, <2>3, <2>4
<1> QED BY <1>2, <1>7 DEF Initializes, s

\* The steps of a plan for a project without circles
LEMMA PlanInitializes ==
    ASSUME NEW p, Readable(p), Resolved(p), CircularValues(p) = {}, NEW roots \in Seq(Modules), NEW found,
           found = Components(roots, Imports(p)), NEW f, f = OrderedInitializationSteps(p, roots).steps
    PROVE  /\ f \in Seq(Places)
           /\ IsInjective(f)
           /\ ToSet(f) = TasksAmong(p, Gathered(found))
           /\ \A c \in ToSet(f) : \A d : Requires(p, c, d) => Follows(f, d, c)
<1> DEFINE seqs == [k \in DOMAIN found |-> ComponentSteps(p, found[k])]
           graph == Imports(p)
<1>1. /\ found \in Seq(ComponentsOver(Modules))
      /\ Groups(found, graph)
      /\ \A k \in 1 .. Len(found) : /\ found[k].modules \in Seq(Modules)
                                    /\ IsInjective(found[k].modules)
                                    /\ found[k].cyclic \in BOOLEAN
  BY ComponentModules
<1>2. Orderly(p, found)
  BY OrderlyEverywhere
<1>3. ASSUME NEW k \in 1 .. Len(found) PROVE Initializes(p, found[k], ComponentSteps(p, found[k]))
  <2>1. CASE found[k].cyclic
    <3> DEFINE component == found[k]
    <3>1. /\ component.modules \in Seq(Modules) /\ IsInjective(component.modules) /\ component.cyclic
          /\ NoCircle(ActionGraph(p, component.modules))
      BY <1>1, <1>2, <2>1 DEF Orderly
    <3> HIDE DEF component
    <3>2. Initializes(p, component, ComponentSteps(p, component))
      BY <3>1, CycleInitialized
    <3> QED BY <3>2 DEF component
  <2>2. CASE ~ found[k].cyclic
    BY <1>1, <2>2, ModuleInitialized
  <2> QED BY <2>1, <2>2
<1>4. DOMAIN found = 1 .. Len(found) /\ Len(found) \in Nat
  BY <1>1
<1>5. f = FlattenSeq(seqs)
  BY DEF OrderedInitializationSteps
<1>6. /\ seqs \in Seq(Seq(Places)) /\ Len(seqs) = Len(found)
      /\ \A k \in 1 .. Len(found) : seqs[k] = ComponentSteps(p, found[k])
  <2>1. \A k \in 1 .. Len(found) : ComponentSteps(p, found[k]) \in Seq(Places)
    BY <1>3 DEF Initializes
  <2> QED BY <1>4, <2>1
<1> HIDE DEF seqs
<1>7. \A k \in 1 .. Len(found) : Initializes(p, found[k], seqs[k])
  BY <1>3, <1>6
<1>t. \A k \in 1 .. Len(found) : \A c :
          c \in ToSet(seqs[k]) <=> \E m \in ToSet(found[k].modules) : c \in Tasks(p, m)
  <2>1. \A k \in 1 .. Len(found) : ToSet(seqs[k]) = TasksAmong(p, ToSet(found[k].modules))
    BY <1>7 DEF Initializes
  <2> QED BY <2>1 DEF TasksAmong
<1>8. f \in Seq(Places) /\ Flattens(f, seqs, Len(found))
  BY <1>5, <1>6, Flattened
<1>9. \A k \in 1 .. Len(found) : \A m \in ToSet(found[k].modules) : m \in Modules
  BY <1>1, SetOfSequence
<1>10. IsGraph(graph) /\ DOMAIN graph = Modules /\ \A m \in Modules : graph[m] = p[m].imports
  <2>1. \A m \in Modules : graph[m] = p[m].imports
    BY DEF Imports
  <2> HIDE DEF graph
  <2> QED BY <2>1, ImportsGraph DEF graph
<1> HIDE DEF graph
<1>11. found \in Seq(ComponentsOver(DOMAIN graph)) /\ Groups(found, graph)
  BY <1>1, <1>10
<1>12. IsInjective(f)
  <2>1. \A k \in 1 .. Len(found) : IsInjective(seqs[k])
    BY <1>7 DEF Initializes
  <2>2. ASSUME NEW k \in 1 .. Len(found), NEW l \in 1 .. Len(found), k < l, NEW c,
               c \in ToSet(seqs[k]), c \in ToSet(seqs[l])
        PROVE  FALSE
    <3>1. PICK m \in ToSet(found[k].modules) : c \in Tasks(p, m)
      BY <1>t, <2>2
    <3>2. PICK n \in ToSet(found[l].modules) : c \in Tasks(p, n)
      BY <1>t, <2>2
    <3>3. c[1] = m
      BY <1>9, <3>1, TaskPlaces
    <3>4. c[1] = n
      BY <1>9, <3>2, TaskPlaces
    <3>5. m \in ToSet(found[l].modules)
      BY <3>3, <3>4
    <3>6. k = l
      BY <1>11, <3>5, ComponentUnique
    <3> QED BY <2>2, <3>6
  <2>3. Separate(seqs)
    BY <1>6, <2>1, <2>2 DEF Separate
  <2> QED BY <1>8, <2>3 DEF Flattens
<1>13. ToSet(f) = TasksAmong(p, Gathered(found))
  <2>1. ASSUME NEW c PROVE c \in ToSet(f) <=> c \in TasksAmong(p, Gathered(found))
    <3>1. c \in ToSet(f) <=> \E k \in 1 .. Len(found) : c \in ToSet(seqs[k])
      BY <1>8 DEF Flattens
    <3>2. \A k \in 1 .. Len(found) :
              c \in ToSet(seqs[k]) <=> \E m \in ToSet(found[k].modules) : c \in Tasks(p, m)
      BY <1>t
    <3>3. \A m : m \in Gathered(found) <=> \E k \in 1 .. Len(found) : m \in ToSet(found[k].modules)
      BY <1>4 DEF Gathered
    <3> QED BY <3>1, <3>2, <3>3 DEF TasksAmong
  <2> QED BY <2>1
<1>14. ASSUME NEW c \in ToSet(f), NEW d, Requires(p, c, d) PROVE Follows(f, d, c)
  <2>1. PICK k \in 1 .. Len(found) : c \in ToSet(seqs[k])
    BY <1>8 DEF Flattens
  <2>2. PICK m \in ToSet(found[k].modules) : c \in Tasks(p, m)
    BY <1>t, <2>1
  <2>3. m \in Modules
    BY <1>9
  <2>4. PICK n \in Modules :
            /\ d \in Tasks(p, n)
            /\ n \in ToSet(p[m].imports) \/ n = m
    BY <1>14, <2>2, <2>3, RequiredPlaces
  <2>5. PICK l \in 1 .. k : n \in ToSet(found[l].modules)
    <3>1. ToSet(graph[m]) \subseteq UNION {ToSet(found[l].modules) : l \in 1 .. k}
      BY <1>11 DEF Groups
    <3>2. k \in 1 .. k
      BY <1>4
    <3> QED BY <1>10, <2>3, <2>4, <3>1, <3>2
  <2>6. l \in 1 .. Len(found) /\ l \in Nat /\ k \in Nat
    BY <1>4
  <2>7. d \in ToSet(seqs[l])
    BY <1>t, <2>4, <2>5, <2>6
  <2>8. CASE l = k
    <3>1. n \in ToSet(found[k].modules)
      BY <2>5, <2>8
    <3>2. Follows(seqs[k], d, c)
      BY <1>7, <1>14, <2>2, <2>4, <3>1 DEF Initializes
    <3> QED BY <1>8, <3>2 DEF Flattens
  <2>9. CASE l < k
    BY <1>8, <2>1, <2>6, <2>7, <2>9 DEF Flattens
  <2> QED BY <2>6, <2>8, <2>9
<1> QED BY <1>8, <1>12, <1>13, <1>14

-----------------------------------------------------------------------------
(* What the constants are known by                                         *)

\* All that a constant of p can be taken for
TypesOf(p) ==
    {Unknown} \cup {Constant(p, c).type : c \in AllConstants(p)}
              \cup {Constant(p, c).value : c \in AllConstants(p)}

\* What can be known of the constants of p
Knowings(p) == [AllConstants(p) -> TypesOf(p)]

\* Whatever t knows, u knows as well.
Below(t, u) == \A c \in DOMAIN t : t[c] = Unknown \/ t[c] = u[c]

\* What is seen is one of the types, and with more known it is the same or was not known.
LEMMA SeenBelow ==
    ASSUME NEW p, NEW t \in Knowings(p), NEW u \in Knowings(p), Below(t, u), NEW c
    PROVE  Seen(p, t, c) \in TypesOf(p) /\ Seen(p, t, c) \in {Unknown, Seen(p, u, c)}
<1>1. Unknown \in TypesOf(p)
  BY DEF TypesOf
<1>2. CASE c \notin AllConstants(p)
  BY <1>1, <1>2 DEF Seen
<1>3. CASE c \in AllConstants(p) /\ Constant(p, c).type # Inferred
  <2>1. Constant(p, c).type \in TypesOf(p)
    BY <1>3 DEF TypesOf
  <2> QED BY <2>1, <1>3 DEF Seen
<1>4. CASE c \in AllConstants(p) /\ Constant(p, c).type = Inferred
  <2>1. t[c] \in TypesOf(p) /\ t[c] \in {Unknown, u[c]}
    BY <1>4 DEF Knowings, Below
  <2> QED BY <2>1, <1>4 DEF Seen
<1> QED BY <1>2, <1>3, <1>4

\* The same of what a constant is given
LEMMA GivenBelow ==
    ASSUME NEW p, NEW t \in Knowings(p), NEW u \in Knowings(p), Below(t, u), NEW c \in AllConstants(p)
    PROVE  /\ Given(p, t, Constant(p, c)) \in TypesOf(p)
           /\ Given(p, t, Constant(p, c)) \in {Unknown, Given(p, u, Constant(p, c))}
<1> DEFINE k == Constant(p, c)
<1>1. k.type \in TypesOf(p) /\ k.value \in TypesOf(p)
  BY DEF TypesOf
<1>2. Seen(p, t, k.reads) \in TypesOf(p) /\ Seen(p, t, k.reads) \in {Unknown, Seen(p, u, k.reads)}
  BY SeenBelow
<1> HIDE DEF k
<1>3. Given(p, t, k) \in TypesOf(p) /\ Given(p, t, k) \in {Unknown, Given(p, u, k)}
  BY <1>1, <1>2 DEF Given
<1> QED BY <1>3 DEF k

\* What is admitted with more known is admitted.
LEMMA AdmittedBelow ==
    ASSUME NEW p, NEW t \in Knowings(p), NEW u \in Knowings(p), Below(t, u), NEW constant,
           Admitted(p, u, constant)
    PROVE  Admitted(p, t, constant)
<1>1. Seen(p, t, constant.reads) \in {Unknown, Seen(p, u, constant.reads)}
  BY SeenBelow
<1> QED BY <1>1 DEF Admitted

\* Checking finds for a constant what it is given, or nothing when it is not admitted.
LEMMA FoundOrNothing ==
    ASSUME NEW p, NEW t, NEW constant
    PROVE  /\ TypeOf(p, t, constant) \in {Unknown, Given(p, t, constant)}
           /\ Admitted(p, t, constant) => TypeOf(p, t, constant) = Given(p, t, constant)
<1>1. CASE constant.type # Inferred
  BY <1>1 DEF TypeOf, Given
<1>2. CASE constant.type = Inferred /\ ~ Admitted(p, t, constant)
  BY <1>2 DEF TypeOf, Given
<1>3. CASE constant.type = Inferred /\ Admitted(p, t, constant)
  BY <1>3 DEF TypeOf, Given
<1> QED BY <1>1, <1>2, <1>3

\* Knowledge grows along a chain.
LEMMA BelowTransitive ==
    ASSUME NEW p, NEW t \in Knowings(p), NEW u \in Knowings(p), NEW v \in Knowings(p),
           Below(t, u), Below(u, v)
    PROVE  Below(t, v)
BY DEF Below, Knowings

\* When each of two knows what the other does, they are the same.
LEMMA BelowEachOther ==
    ASSUME NEW p, NEW t \in Knowings(p), NEW u \in Knowings(p), Below(t, u), Below(u, t)
    PROVE  t = u
<1>1. \A c \in AllConstants(p) : t[c] = u[c]
  BY DEF Below, Knowings
<1> QED BY <1>1 DEF Knowings

\* Nothing is below everything.
LEMMA NothingBelow ==
    ASSUME NEW p, NEW t \in Knowings(p)
    PROVE  Nothing(p) \in Knowings(p) /\ Below(Nothing(p), t)
BY DEF Nothing, Knowings, Below, TypesOf

\* A module has finitely many constants, and so have all of them.
LEMMA ConstantsFinite ==
    ASSUME NEW p, Readable(p), NEW M \in SUBSET Modules
    PROVE  IsFiniteSet(UNION {ConstantsOf(p, m) : m \in M})
<1> DEFINE f == [m \in M |-> ConstantsOf(p, m)]
           T == {ConstantsOf(p, m) : m \in M}
<1>1. f \in Surjection(M, T)
  BY DEF Surjection
<1>0. IsFiniteSet(M)
  BY ModulesFinite, FS_Subset
<1>2. IsFiniteSet(T)
  <2> HIDE DEF f, T
  <2> QED BY <1>0, <1>1, FS_Surjection
<1>3. ASSUME NEW S \in T PROVE IsFiniteSet(S)
  <2>1. PICK m \in M : S = ConstantsOf(p, m)
    OBVIOUS
  <2> DEFINE n == Len(p[m].constants)
             I == 1 .. n
             h == [i \in I |-> <<m, i>>]
  <2>2. n \in Nat /\ S = {<<m, i>> : i \in I}
    BY <2>1, ConstantPlaces
  <2>3. h \in Surjection(I, S)
    BY <2>2 DEF Surjection
  <2>4. IsFiniteSet(I)
    <3> HIDE DEF n
    <3> QED BY <2>2, FS_Interval
  <2> HIDE DEF h, I
  <2> QED BY <2>3, <2>4, FS_Surjection
<1> HIDE DEF T
<1>4. IsFiniteSet(UNION T)
  BY <1>2, <1>3, FS_UNION
<1> QED BY <1>4 DEF T

\* What is given when t is known
GivenAll(p, t) == [c \in AllConstants(p) |-> Given(p, t, Constant(p, c))]

\* With more known, more is given.
LEMMA GivenAllBelow ==
    ASSUME NEW p, NEW t \in Knowings(p), NEW u \in Knowings(p), Below(t, u)
    PROVE  GivenAll(p, t) \in Knowings(p) /\ Below(GivenAll(p, t), GivenAll(p, u))
<1>1. ASSUME NEW c \in AllConstants(p)
      PROVE  /\ Given(p, t, Constant(p, c)) \in TypesOf(p)
             /\ Given(p, t, Constant(p, c)) \in {Unknown, Given(p, u, Constant(p, c))}
  BY GivenBelow
<1>2. GivenAll(p, t) \in Knowings(p)
  BY <1>1 DEF GivenAll, Knowings
<1>3. Below(GivenAll(p, t), GivenAll(p, u))
  BY <1>1 DEF GivenAll, Below
<1> QED BY <1>2, <1>3

\* f is the function that Typing computes by, up to N.
IsTyping(f, p, N) ==
    f = [n \in 0 .. N |-> IF n = 0 THEN Nothing(p)
                          ELSE LET before == f[n - 1]
                               IN  [c \in AllConstants(p) |-> Given(p, before, Constant(p, c))]]

\* The recursion of Typing has a solution.
LEMMA TypingExists ==
    ASSUME NEW p, NEW N \in Nat
    PROVE  \E f : IsTyping(f, p, N)
<1> DEFINE S == Knowings(p)
           F == [t \in S |-> GivenAll(p, t)]
           a == Nothing(p)
<1>1. ASSUME NEW t \in S PROVE GivenAll(p, t) \in S
  <2>1. Below(t, t)
    BY DEF Below
  <2> QED BY <2>1, GivenAllBelow
<1>2. F \in [S -> S]
  BY <1>1
<1>3. a \in S
  BY NothingBelow DEF Nothing, Knowings, TypesOf
<1>4. \A t \in S : F[t] = GivenAll(p, t)
  OBVIOUS
<1> HIDE DEF S, F, a
<1>f. PICK f : IsIteration(f, S, F, a, N)
  BY <1>2, <1>3, IterationExists
<1>5. f \in [0 .. N -> S] /\ f[0] = a /\ \A n \in 1 .. N : f[n] = F[f[n - 1]]
  BY <1>f DEF IsIteration
<1>6. ASSUME NEW n \in 0 .. N
      PROVE  f[n] = IF n = 0 THEN a ELSE GivenAll(p, f[n - 1])
  <2>1. CASE n = 0
    BY <1>5, <2>1
  <2>2. CASE n # 0
    <3>1. n \in 1 .. N /\ n - 1 \in 0 .. N
      BY <2>2
    <3> QED BY <1>4, <1>5, <2>2, <3>1
  <2> QED BY <2>1, <2>2
<1>7. f = [n \in 0 .. N |-> f[n]]
  BY <1>5
<1>8. IsTyping(f, p, N)
  BY <1>6, <1>7 DEF IsTyping, GivenAll, a
<1> QED BY <1>8

-----------------------------------------------------------------------------
(* The types of a project as a whole                                       *)

\* Every round is given by the one before, and knows what that knew.
LEMMA TypingRounds ==
    ASSUME NEW p, NEW N \in Nat, NEW f, IsTyping(f, p, N)
    PROVE  /\ f[0] = Nothing(p)
           /\ \A n \in 0 .. N : f[n] \in Knowings(p)
           /\ \A n \in 0 .. N - 1 : f[n + 1] = GivenAll(p, f[n]) /\ Below(f[n], f[n + 1])
<1>1. f[0] = Nothing(p)
  BY DEF IsTyping
<1>2. ASSUME NEW n \in Nat, n + 1 <= N PROVE f[n + 1] = GivenAll(p, f[n])
  <2>1. n + 1 \in 0 .. N /\ n + 1 # 0 /\ (n + 1) - 1 = n
    BY <1>2
  <2> QED BY <2>1 DEF IsTyping, GivenAll
<1> DEFINE C == {n \in Nat : n <= N => f[n] \in Knowings(p)}
<1>3. 0 \in C
  BY <1>1 DEF Nothing, Knowings, TypesOf
<1>4. ASSUME NEW n \in Nat, n \in C PROVE n + 1 \in C
  <2>1. SUFFICES ASSUME n + 1 <= N PROVE f[n + 1] \in Knowings(p)
    OBVIOUS
  <2>2. f[n] \in Knowings(p) /\ f[n + 1] = GivenAll(p, f[n])
    BY <1>2, <1>4, <2>1
  <2>3. Below(f[n], f[n])
    BY DEF Below
  <2> QED BY <2>2, <2>3, GivenAllBelow
<1>5. C = Nat
  <2>1. C \in SUBSET Nat
    OBVIOUS
  <2> HIDE DEF C
  <2> QED BY <1>3, <1>4, <2>1, Counting
<1>6. ASSUME NEW n \in Nat, n <= N PROVE f[n] \in Knowings(p)
  BY <1>5, <1>6
<1> HIDE DEF C
<1> DEFINE D == {n \in Nat : n + 1 <= N => Below(f[n], f[n + 1])}
<1>7. 0 \in D
  <2>1. SUFFICES ASSUME 0 + 1 <= N PROVE Below(f[0], f[0 + 1])
    OBVIOUS
  <2>2. f[0 + 1] \in Knowings(p)
    BY <1>6, <2>1
  <2> QED BY <1>1, <2>2, NothingBelow
<1>8. ASSUME NEW n \in Nat, n \in D PROVE n + 1 \in D
  <2>1. SUFFICES ASSUME (n + 1) + 1 <= N PROVE Below(f[n + 1], f[(n + 1) + 1])
    OBVIOUS
  <2>2. n + 1 \in Nat /\ n <= N /\ n + 1 <= N
    BY <2>1
  <2>3. f[n + 1] = GivenAll(p, f[n]) /\ f[(n + 1) + 1] = GivenAll(p, f[n + 1])
    BY <1>2, <2>1, <2>2
  <2>4. f[n] \in Knowings(p) /\ f[n + 1] \in Knowings(p) /\ Below(f[n], f[n + 1])
    BY <1>6, <1>8, <2>2
  <2> QED BY <2>3, <2>4, GivenAllBelow
<1>9. D = Nat
  <2>1. D \in SUBSET Nat
    OBVIOUS
  <2> HIDE DEF D
  <2> QED BY <1>7, <1>8, <2>1, Counting
<1>10. ASSUME NEW n \in Nat, n + 1 <= N PROVE Below(f[n], f[n + 1])
  BY <1>9, <1>10
<1> HIDE DEF D
<1>11. \A n \in 0 .. N : f[n] \in Knowings(p)
  BY <1>6
<1>12. \A n \in 0 .. N - 1 : f[n + 1] = GivenAll(p, f[n]) /\ Below(f[n], f[n + 1])
  <2>1. SUFFICES ASSUME NEW n \in 0 .. N - 1
                 PROVE  f[n + 1] = GivenAll(p, f[n]) /\ Below(f[n], f[n + 1])
    OBVIOUS
  <2>2. n \in Nat /\ n + 1 <= N
    OBVIOUS
  <2> QED BY <1>2, <1>10, <2>2
<1> QED BY <1>1, <1>11, <1>12

\* The constants of C of which something is known
KnownAmong(t, C) == {c \in C : t[c] # Unknown}

\* When more is known than before, there is one more constant of which something is known.
LEMMA MoreKnown ==
    ASSUME NEW p, NEW t \in Knowings(p), NEW u \in Knowings(p), Below(t, u),
           NEW C \in SUBSET AllConstants(p), IsFiniteSet(C), \E c \in C : t[c] # u[c]
    PROVE  /\ Cardinality(KnownAmong(t, C)) \in Nat
           /\ Cardinality(KnownAmong(u, C)) \in Nat
           /\ Cardinality(KnownAmong(t, C)) < Cardinality(KnownAmong(u, C))
           /\ Cardinality(KnownAmong(u, C)) <= Cardinality(C)
<1>1. /\ KnownAmong(t, C) \in SUBSET C /\ KnownAmong(u, C) \in SUBSET C
      /\ KnownAmong(t, C) \subseteq KnownAmong(u, C)
      /\ KnownAmong(t, C) # KnownAmong(u, C)
  <2>1. \A c \in C : t[c] = Unknown \/ t[c] = u[c]
    BY DEF Below, Knowings
  <2> QED BY <2>1 DEF KnownAmong
<1>2. /\ IsFiniteSet(KnownAmong(u, C)) /\ Cardinality(KnownAmong(u, C)) \in Nat
      /\ Cardinality(KnownAmong(u, C)) <= Cardinality(C)
  BY <1>1, FS_Subset, FS_CardinalityType
<1>3. Cardinality(KnownAmong(t, C)) \in Nat /\ Cardinality(KnownAmong(t, C)) <= Cardinality(KnownAmong(u, C))
  BY <1>1, <1>2, FS_Subset, FS_CardinalityType
<1>4. Cardinality(KnownAmong(t, C)) # Cardinality(KnownAmong(u, C))
  BY <1>1, <1>2, FS_Subset
<1> QED BY <1>2, <1>3, <1>4

\* After as many rounds as there are constants, nothing more is given.
LEMMA TypingSettles ==
    ASSUME NEW p, IsFiniteSet(AllConstants(p)), NEW f,
           IsTyping(f, p, Cardinality(AllConstants(p)) + 1)
    PROVE  /\ f[Cardinality(AllConstants(p)) + 1] \in Knowings(p)
           /\ GivenAll(p, f[Cardinality(AllConstants(p)) + 1]) = f[Cardinality(AllConstants(p)) + 1]
<1> DEFINE A == AllConstants(p)
           K == Cardinality(A)
           N == K + 1
           Settled(n) == GivenAll(p, f[n]) = f[n]
           Size(n) == Cardinality(KnownAmong(f[n], A))
<1>1. K \in Nat /\ N \in Nat /\ IsFiniteSet(A)
  BY FS_CardinalityType
<1>2. /\ \A n \in 0 .. N : f[n] \in Knowings(p)
      /\ \A n \in 0 .. N - 1 : f[n + 1] = GivenAll(p, f[n]) /\ Below(f[n], f[n + 1])
  BY <1>1, TypingRounds
<1>3. ASSUME NEW n \in 0 .. N PROVE Size(n) \in Nat /\ Size(n) <= K
  <2>1. KnownAmong(f[n], A) \in SUBSET A
    BY DEF KnownAmong
  <2> QED BY <1>1, <2>1, FS_Subset, FS_CardinalityType
<1> DEFINE C == {n \in Nat : n <= N => Settled(n) \/ Size(n) >= n}
<1> HIDE DEF K
<1>4. 0 \in C
  BY <1>1, <1>3
<1>5. ASSUME NEW n \in Nat, n \in C PROVE n + 1 \in C
  <2>1. SUFFICES ASSUME n + 1 <= N PROVE Settled(n + 1) \/ Size(n + 1) >= n + 1
    OBVIOUS
  <2>2. n \in 0 .. N /\ n + 1 \in 0 .. N /\ n \in 0 .. N - 1 /\ n <= N
    BY <1>1, <2>1
  <2>3. /\ f[n] \in Knowings(p) /\ f[n + 1] \in Knowings(p)
        /\ f[n + 1] = GivenAll(p, f[n]) /\ Below(f[n], f[n + 1])
    BY <1>2, <2>2
  <2>4. CASE f[n + 1] = f[n]
    BY <2>3, <2>4
  <2>5. CASE f[n + 1] # f[n]
    <3>1. \E c \in A : f[n][c] # f[n + 1][c]
      BY <2>3, <2>5 DEF Knowings
    <3>2. Size(n) \in Nat /\ Size(n + 1) \in Nat /\ Size(n) < Size(n + 1)
      BY <1>1, <2>3, <3>1, MoreKnown
    <3>3. Size(n) >= n
      <4>1. ~ Settled(n)
        BY <2>3, <2>5
      <4> QED BY <1>5, <2>2, <4>1
    <3> HIDE DEF Size
    <3> QED BY <3>2, <3>3
  <2> QED BY <2>4, <2>5
<1>6. C = Nat
  <2>1. C \in SUBSET Nat
    OBVIOUS
  <2> HIDE DEF C
  <2> QED BY <1>4, <1>5, <2>1, Counting
<1>7. Settled(N) \/ Size(N) >= N
  BY <1>1, <1>6
<1>8. N \in 0 .. N
  BY <1>1
<1>9. ~ (Size(N) >= N)
  <2> HIDE DEF Size
  <2> QED BY <1>1, <1>3, <1>8
<1> QED BY <1>2, <1>7, <1>8, <1>9 DEF K

\* The constants of C read constants of C only.
ReadsWithin(p, C) ==
    \A c \in C : Constant(p, c).reads \in AllConstants(p) => Constant(p, c).reads \in C

\* No round gives a constant of C a type that it has not by t, when t gives C the types it has.
LEMMA TypingLeast ==
    ASSUME NEW p, NEW N \in Nat, NEW f, IsTyping(f, p, N), NEW t \in Knowings(p),
           NEW C \in SUBSET AllConstants(p), ReadsWithin(p, C),
           \A c \in C : Given(p, t, Constant(p, c)) \in {Unknown, t[c]}
    PROVE  \A c \in C : f[N][c] \in {Unknown, t[c]}
<1>1. /\ f[0] = Nothing(p)
      /\ \A n \in 0 .. N : f[n] \in Knowings(p)
      /\ \A n \in 0 .. N - 1 : f[n + 1] = GivenAll(p, f[n])
  BY TypingRounds
<1> DEFINE Held(n) == \A c \in C : f[n][c] \in {Unknown, t[c]}
           I == {n \in Nat : n <= N => Held(n)}
<1>2. 0 \in I
  BY <1>1 DEF Nothing
<1>3. ASSUME NEW n \in Nat, n \in I PROVE n + 1 \in I
  <2>1. SUFFICES ASSUME n + 1 <= N, NEW c \in C PROVE f[n + 1][c] \in {Unknown, t[c]}
    OBVIOUS
  <2>2. n \in 0 .. N - 1 /\ n <= N
    BY <2>1
  <2> DEFINE k == Constant(p, c)
  <2>3. f[n + 1][c] = Given(p, f[n], k)
    BY <1>1, <2>2 DEF GivenAll
  <2>4. \A d \in C : f[n][d] \in {Unknown, t[d]}
    BY <1>3, <2>2
  <2>5. k.reads \in AllConstants(p) => k.reads \in C
    BY DEF ReadsWithin
  <2>6. Given(p, t, k) \in {Unknown, t[c]}
    OBVIOUS
  <2> HIDE DEF k, I
  <2>7. Seen(p, f[n], k.reads) \in {Unknown, Seen(p, t, k.reads)}
    BY <2>4, <2>5 DEF Seen
  <2>8. Given(p, f[n], k) \in {Unknown, Given(p, t, k)}
    BY <2>7 DEF Given
  <2> QED BY <2>3, <2>6, <2>8
<1>4. I = Nat
  <2>1. I \in SUBSET Nat
    OBVIOUS
  <2> HIDE DEF I
  <2> QED BY <1>2, <1>3, <2>1, Counting
<1> QED BY <1>4

\* Typing gives each constant what it is given by the others, and no more than that.
LEMMA TypingGiven ==
    ASSUME NEW p, Readable(p)
    PROVE  /\ Typing(p) \in Knowings(p)
           /\ \A c \in AllConstants(p) : Typing(p)[c] = Given(p, Typing(p), Constant(p, c))
           /\ \A t \in Knowings(p) : \A C \in SUBSET AllConstants(p) :
                  ReadsWithin(p, C) /\ (\A c \in C : Given(p, t, Constant(p, c)) \in {Unknown, t[c]})
                      => \A c \in C : Typing(p)[c] \in {Unknown, t[c]}
<1> DEFINE N == Cardinality(AllConstants(p)) + 1
           f == CHOOSE g : IsTyping(g, p, N)
<1>1. IsFiniteSet(AllConstants(p))
  BY ConstantsFinite DEF AllConstants
<1>2. N \in Nat
  BY <1>1, FS_CardinalityType
<1>3. IsTyping(f, p, N)
  <2> HIDE DEF N
  <2> QED BY <1>2, TypingExists
<1>4. Typing(p) = f[N]
  BY DEF Typing, IsTyping
<1> HIDE DEF f
<1>5. f[N] \in Knowings(p) /\ GivenAll(p, f[N]) = f[N]
  BY <1>1, <1>3, TypingSettles
<1> HIDE DEF N
<1>6. ASSUME NEW c \in AllConstants(p) PROVE f[N][c] = Given(p, f[N], Constant(p, c))
  BY <1>5 DEF GivenAll
<1>7. ASSUME NEW t \in Knowings(p), NEW C \in SUBSET AllConstants(p), ReadsWithin(p, C),
             \A c \in C : Given(p, t, Constant(p, c)) \in {Unknown, t[c]}
      PROVE  \A c \in C : f[N][c] \in {Unknown, t[c]}
  BY <1>2, <1>3, <1>7, TypingLeast
<1> QED BY <1>4, <1>5, <1>6, <1>7

-----------------------------------------------------------------------------
(* Checking a module                                                       *)

\* t with what checking finds for constant i of m
FoundNext(p, t, m, i) == [t EXCEPT ![<<m, i>>] = TypeOf(p, t, p[m].constants[i])]

\* f is the function that CheckModule computes by.
IsFinding(f, p, known, m) ==
    f = [i \in 0 .. Len(p[m].constants) |->
            IF i = 0 THEN known
            ELSE LET before == f[i - 1]
                 IN  [before EXCEPT ![<<m, i>>] = TypeOf(p, before, p[m].constants[i])]]

\* A constant of m and its definition
LEMMA ConstantAt ==
    ASSUME NEW p, Readable(p), NEW m \in Modules, NEW i \in 1 .. Len(p[m].constants)
    PROVE  <<m, i>> \in AllConstants(p) /\ Constant(p, <<m, i>>) = p[m].constants[i]
<1>1. <<m, i>> \in ConstantsOf(p, m)
  BY ConstantPlaces
<1> QED BY <1>1 DEF AllConstants, Constant

\* What is known stays well typed.
LEMMA FoundNextTyped ==
    ASSUME NEW p, Readable(p), NEW m \in Modules, NEW t \in Knowings(p),
           NEW i \in 1 .. Len(p[m].constants)
    PROVE  FoundNext(p, t, m, i) \in Knowings(p)
<1> DEFINE k == p[m].constants[i]
           c == <<m, i>>
<1>1. c \in AllConstants(p) /\ Constant(p, c) = k
  BY ConstantAt
<1>2. Below(t, t)
  BY DEF Below
<1> HIDE DEF c, k
<1>3. Given(p, t, k) \in TypesOf(p)
  BY <1>1, <1>2, GivenBelow
<1>4. TypeOf(p, t, k) \in TypesOf(p)
  <2>1. Unknown \in TypesOf(p)
    BY DEF TypesOf
  <2> QED BY <1>3, <2>1, FoundOrNothing
<1>5. [t EXCEPT ![c] = TypeOf(p, t, k)] \in Knowings(p)
  BY <1>4 DEF Knowings
<1> QED BY <1>5 DEF FoundNext, c, k

\* The recursion of CheckModule has a solution.
LEMMA FindingExists ==
    ASSUME NEW p, Readable(p), NEW m \in Modules, NEW known \in Knowings(p)
    PROVE  \E f : IsFinding(f, p, known, m)
<1> DEFINE S == Knowings(p)
           N == Len(p[m].constants)
           Next1(n, t) == IF n \in 1 .. N THEN FoundNext(p, t, m, n) ELSE t
           F == [q \in Nat \X S |-> Next1(q[1], q[2])]
<1>0. N \in Nat
  BY ConstantPlaces
<1>1. ASSUME NEW n \in Nat, NEW t \in S PROVE Next1(n, t) \in S
  BY FoundNextTyped
<1>2. \A q \in Nat \X S : q[1] \in Nat /\ q[2] \in S
  OBVIOUS
<1>3. F \in [Nat \X S -> S]
  <2> HIDE DEF Next1, S
  <2> QED BY <1>1, <1>2
<1>4. \A n \in Nat, t \in S : F[<<n, t>>] = Next1(n, t)
  <2> HIDE DEF Next1, S
  <2> QED OBVIOUS
<1> HIDE DEF F
<1>f. PICK f : IsStepping(f, S, F, known, N)
  <2> HIDE DEF S, N
  <2>1. known \in S
    BY DEF S
  <2> QED BY <1>0, <1>3, <2>1, StepsExist
<1>5. f \in [0 .. N -> S] /\ f[0] = known /\ \A n \in 1 .. N : f[n] = F[<<n, f[n - 1]>>]
  BY <1>f DEF IsStepping
<1>6. ASSUME NEW n \in 0 .. N
      PROVE  f[n] = IF n = 0 THEN known ELSE FoundNext(p, f[n - 1], m, n)
  <2>1. CASE n = 0
    BY <1>5, <2>1
  <2>2. CASE n # 0
    <3>1. n \in 1 .. N /\ n - 1 \in 0 .. N /\ n \in Nat
      BY <1>0, <2>2
    <3>2. f[n - 1] \in S /\ f[n] = F[<<n, f[n - 1]>>]
      BY <1>5, <3>1
    <3>3. f[n] = Next1(n, f[n - 1])
      <4> HIDE DEF Next1, S
      <4> QED BY <1>4, <3>1, <3>2
    <3> QED BY <2>2, <3>1, <3>3
  <2> QED BY <2>1, <2>2
<1>7. f = [n \in 0 .. N |-> f[n]]
  BY <1>5
<1>8. IsFinding(f, p, known, m)
  BY <1>6, <1>7 DEF IsFinding, FoundNext
<1> QED BY <1>8

\* What checking a module finds is what such a function finds.
LEMMA CheckedBy ==
    ASSUME NEW p, Readable(p), NEW m \in Modules, NEW known \in Knowings(p)
    PROVE  \E f : /\ IsFinding(f, p, known, m)
                  /\ CheckModule(p, known, m) =
                         [types    |-> [i \in 1 .. Len(p[m].constants) |-> f[i][<<m, i>>]],
                          rejected |-> \E i \in 1 .. Len(p[m].constants) :
                                           ~ Admitted(p, f[i - 1], p[m].constants[i])]
<1> DEFINE f == CHOOSE g : IsFinding(g, p, known, m)
<1>1. IsFinding(f, p, known, m)
  BY FindingExists
<1>2. CheckModule(p, known, m) =
          [types    |-> [i \in 1 .. Len(p[m].constants) |-> f[i][<<m, i>>]],
           rejected |-> \E i \in 1 .. Len(p[m].constants) :
                            ~ Admitted(p, f[i - 1], p[m].constants[i])]
  BY DEF CheckModule, IsFinding
<1> HIDE DEF f
<1> QED BY <1>1, <1>2

\* Whatever t knows is given by what t knows.
Supported(p, t) == \A c \in AllConstants(p) : t[c] \in {Unknown, Given(p, t, Constant(p, c))}

\* What is known while a module is checked
LEMMA FindingSteps ==
    ASSUME NEW p, Readable(p), NEW m \in Modules, NEW known \in Knowings(p),
           NEW f, IsFinding(f, p, known, m)
    PROVE  /\ f[0] = known
           /\ \A i \in 1 .. Len(p[m].constants) : f[i] = FoundNext(p, f[i - 1], m, i)
           /\ \A i \in 0 .. Len(p[m].constants) : f[i] \in Knowings(p)
<1> DEFINE N == Len(p[m].constants)
<1>0. N \in Nat
  BY ConstantPlaces
<1>1. f[0] = known
  BY <1>0 DEF IsFinding
<1>2. ASSUME NEW i \in 1 .. N PROVE f[i] = FoundNext(p, f[i - 1], m, i)
  <2>1. i \in 0 .. N /\ i # 0
    BY <1>0
  <2> QED BY <2>1 DEF IsFinding, FoundNext
<1> DEFINE C == {i \in Nat : i <= N => f[i] \in Knowings(p)}
<1>3. 0 \in C
  BY <1>1
<1>4. ASSUME NEW i \in Nat, i \in C PROVE i + 1 \in C
  <2>1. SUFFICES ASSUME i + 1 <= N PROVE f[i + 1] \in Knowings(p)
    OBVIOUS
  <2>2. i + 1 \in 1 .. N /\ (i + 1) - 1 = i /\ i <= N
    BY <1>0, <2>1
  <2>3. f[i] \in Knowings(p) /\ f[i + 1] = FoundNext(p, f[i], m, i + 1)
    BY <1>2, <1>4, <2>2
  <2> QED BY <2>2, <2>3, FoundNextTyped
<1>5. C = Nat
  <2>1. C \in SUBSET Nat
    OBVIOUS
  <2> HIDE DEF C
  <2> QED BY <1>3, <1>4, <2>1, Counting
<1>6. \A i \in 0 .. N : f[i] \in Knowings(p)
  BY <1>0, <1>5
<1> QED BY <1>1, <1>2, <1>6

\* A constant is a module and a number.
LEMMA ConstantIs ==
    ASSUME NEW p, Readable(p), NEW c \in AllConstants(p)
    PROVE  /\ c[1] \in Modules
           /\ c[2] \in 1 .. Len(p[c[1]].constants)
           /\ c = <<c[1], c[2]>>
           /\ Constant(p, c) = p[c[1]].constants[c[2]]
<1>1. PICK m \in Modules : c \in ConstantsOf(p, m)
  BY DEF AllConstants
<1>2. PICK i \in 1 .. Len(p[m].constants) : c = <<m, i>>
  BY <1>1, ConstantPlaces
<1> QED BY <1>2 DEF Constant

\* A constant is read by one that comes after it in its module, or imports it.
LEMMA ReadFrom ==
    ASSUME NEW p, Readable(p), NEW c \in AllConstants(p), Constant(p, c).reads \in AllConstants(p)
    PROVE  /\ Constant(p, c).reads[1] \in Modules
           /\ Constant(p, c).reads[2] \in Nat
           /\ \/ Constant(p, c).reads[1] \in ToSet(p[c[1]].imports)
              \/ Constant(p, c).reads[1] = c[1] /\ Constant(p, c).reads[2] < c[2]
<1> DEFINE d == Constant(p, c).reads
           a == d[1]
           b == d[2]
<1>1. a \in Modules /\ b \in 1 .. Len(p[d[1]].constants) /\ d = <<a, b>>
  BY ConstantIs
<1>2. b \in Nat
  BY <1>1
<1>3. d # << >>
  <2> HIDE DEF a, b, d
  <2> QED BY <1>1
<1>4. /\ c[1] \in Modules
      /\ c[2] \in DOMAIN p[c[1]].constants
      /\ d = p[c[1]].constants[c[2]].reads
  BY ConstantIs, ConstantPlaces
<1>5. d \in AllConstants(p)
  OBVIOUS
<1> HIDE DEF d
<1>6. d[1] \in ToSet(p[c[1]].imports) \/ (d[1] = c[1] /\ d[2] < c[2])
  BY <1>3, <1>4, <1>5 DEF Readable
<1> QED BY <1>1, <1>2, <1>6 DEF d

\* c is constant i of m.
At(c, m, i) == c[1] = m /\ c[2] = i

\* What has been found for the constant
LEMMA FoundNextAt ==
    ASSUME NEW p, Readable(p), NEW m \in Modules, NEW t \in Knowings(p),
           NEW i \in 1 .. Len(p[m].constants)
    PROVE  FoundNext(p, t, m, i)[<<m, i>>] = TypeOf(p, t, Constant(p, <<m, i>>))
<1> DEFINE a == <<m, i>>
<1>1. a \in AllConstants(p) /\ Constant(p, a) = p[m].constants[i]
  BY ConstantAt
<1>2. DOMAIN t = AllConstants(p)
  BY DEF Knowings
<1> HIDE DEF a
<1>3. [t EXCEPT ![a] = TypeOf(p, t, p[m].constants[i])][a] = TypeOf(p, t, Constant(p, a))
  BY <1>1, <1>2
<1> QED BY <1>3 DEF FoundNext, a

\* Nothing is found for another constant.
LEMMA FoundNextElsewhere ==
    ASSUME NEW p, NEW m, NEW i, NEW t \in Knowings(p), NEW c \in AllConstants(p), ~ At(c, m, i)
    PROVE  FoundNext(p, t, m, i)[c] = t[c]
<1> DEFINE a == <<m, i>>
<1>1. c # a
  BY DEF At
<1>2. DOMAIN t = AllConstants(p)
  BY DEF Knowings
<1> HIDE DEF a
<1>3. [t EXCEPT ![a] = TypeOf(p, t, p[m].constants[i])][c] = t[c]
  BY <1>1, <1>2
<1> QED BY <1>3 DEF FoundNext, a

\* c is one of the first i constants of m.
Early(c, m, i) == c[1] = m /\ c[2] <= i

\* A type that has been found is kept while the others are looked for.
LEMMA FindingKeeps ==
    ASSUME NEW p, Readable(p), NEW m \in Modules, NEW known \in Knowings(p),
           NEW f, IsFinding(f, p, known, m)
    PROVE  \A i \in 0 .. Len(p[m].constants) : \A c \in AllConstants(p) :
               f[i][c] = IF Early(c, m, i) THEN f[c[2]][c] ELSE known[c]
<1> DEFINE N == Len(p[m].constants)
           Kept(i) == \A c \in AllConstants(p) :
                          f[i][c] = IF Early(c, m, i) THEN f[c[2]][c] ELSE known[c]
           C == {i \in Nat : i <= N => Kept(i)}
<1>0. N \in Nat
  BY ConstantPlaces
<1>1. /\ f[0] = known
      /\ \A i \in 1 .. N : f[i] = FoundNext(p, f[i - 1], m, i)
      /\ \A i \in 0 .. N : f[i] \in Knowings(p)
  BY FindingSteps
<1>2. 0 \in C
  <2>1. ASSUME NEW c \in AllConstants(p) PROVE ~ Early(c, m, 0)
    <3>1. c[1] \in Modules /\ c[2] \in 1 .. Len(p[c[1]].constants)
      BY ConstantIs
    <3> QED BY <3>1 DEF Early
  <2> QED BY <1>1, <2>1
<1>3. ASSUME NEW i \in Nat, i \in C PROVE i + 1 \in C
  <2>1. SUFFICES ASSUME i + 1 <= N, NEW c \in AllConstants(p)
                 PROVE  f[i + 1][c] = IF Early(c, m, i + 1) THEN f[c[2]][c] ELSE known[c]
    OBVIOUS
  <2>2. i + 1 \in 1 .. N /\ (i + 1) - 1 = i /\ i <= N /\ i \in 0 .. N
    BY <1>0, <2>1
  <2>3. f[i] \in Knowings(p) /\ f[i + 1] = FoundNext(p, f[i], m, i + 1)
    BY <1>1, <2>2
  <2>4. f[i][c] = IF Early(c, m, i) THEN f[c[2]][c] ELSE known[c]
    BY <1>3, <2>2
  <2>5. c[2] \in Nat
    <3>1. c[2] \in 1 .. Len(p[c[1]].constants)
      BY ConstantIs
    <3> QED BY <3>1
  <2>6. CASE c[1] = m /\ c[2] = i + 1
    BY <2>6, <2>5 DEF Early
  <2>7. CASE c[1] # m \/ c[2] # i + 1
    <3>a. ~ At(c, m, i + 1)
      BY <2>7 DEF At
    <3>1. f[i + 1][c] = f[i][c]
      BY <2>3, <3>a, FoundNextElsewhere
    <3>2. Early(c, m, i) <=> Early(c, m, i + 1)
      BY <2>5, <2>7 DEF Early
    <3> QED BY <2>4, <3>1, <3>2
  <2> QED BY <2>6, <2>7
<1>4. C = Nat
  <2>1. C \in SUBSET Nat
    OBVIOUS
  <2> HIDE DEF C
  <2> QED BY <1>2, <1>3, <2>1, Counting
<1> QED BY <1>0, <1>4

\* What is found is below the typing when what was known is.
LEMMA FindingSound ==
    ASSUME NEW p, Readable(p), NEW m \in Modules, NEW known \in Knowings(p), Below(known, Typing(p)),
           NEW f, IsFinding(f, p, known, m)
    PROVE  \A i \in 0 .. Len(p[m].constants) : Below(f[i], Typing(p))
<1> DEFINE N == Len(p[m].constants)
           C == {i \in Nat : i <= N => Below(f[i], Typing(p))}
<1>0. N \in Nat
  BY ConstantPlaces
<1>1. /\ f[0] = known
      /\ \A i \in 1 .. N : f[i] = FoundNext(p, f[i - 1], m, i)
      /\ \A i \in 0 .. N : f[i] \in Knowings(p)
  BY FindingSteps
<1>t. /\ Typing(p) \in Knowings(p)
      /\ \A c \in AllConstants(p) : Typing(p)[c] = Given(p, Typing(p), Constant(p, c))
  BY TypingGiven
<1>2. 0 \in C
  BY <1>1
<1>3. ASSUME NEW i \in Nat, i \in C PROVE i + 1 \in C
  <2>1. SUFFICES ASSUME i + 1 <= N PROVE Below(f[i + 1], Typing(p))
    OBVIOUS
  <2>2. i + 1 \in 1 .. N /\ i + 1 \in 0 .. N /\ (i + 1) - 1 = i /\ i <= N /\ i \in 0 .. N
    BY <1>0, <2>1
  <2>3. f[i] \in Knowings(p) /\ f[i + 1] \in Knowings(p) /\ f[i + 1] = FoundNext(p, f[i], m, i + 1)
    BY <1>1, <2>2
  <2>4. Below(f[i], Typing(p))
    BY <1>3, <2>2
  <2>5. ASSUME NEW c \in AllConstants(p) PROVE f[i + 1][c] \in {Unknown, Typing(p)[c]}
    <3>1. CASE c[1] = m /\ c[2] = i + 1
      <4>1. c = <<m, i + 1>>
        BY <3>1, ConstantIs
      <4>2. f[i + 1][c] = TypeOf(p, f[i], Constant(p, c))
        BY <2>2, <2>3, <4>1, FoundNextAt
      <4>3. TypeOf(p, f[i], Constant(p, c)) \in {Unknown, Given(p, f[i], Constant(p, c))}
        BY FoundOrNothing
      <4>4. Given(p, f[i], Constant(p, c)) \in {Unknown, Given(p, Typing(p), Constant(p, c))}
        BY <1>t, <2>3, <2>4, GivenBelow
      <4> QED BY <1>t, <4>2, <4>3, <4>4
    <3>2. CASE c[1] # m \/ c[2] # i + 1
      <4>a. ~ At(c, m, i + 1)
        BY <3>2 DEF At
      <4>1. f[i + 1][c] = f[i][c]
        BY <2>3, <4>a, FoundNextElsewhere
      <4> QED BY <2>3, <2>4, <4>1 DEF Below, Knowings
    <3> QED BY <3>1, <3>2
  <2> QED BY <2>3, <2>5 DEF Below, Knowings
<1>4. C = Nat
  <2>1. C \in SUBSET Nat
    OBVIOUS
  <2> HIDE DEF C
  <2> QED BY <1>2, <1>3, <2>1, Counting
<1> QED BY <1>0, <1>4

\* Nothing that was known is lost while the constants are admitted.
LEMMA FindingGrows ==
    ASSUME NEW p, Readable(p), NEW m \in Modules, NEW known \in Knowings(p), Supported(p, known),
           NEW f, IsFinding(f, p, known, m),
           \A i \in 1 .. Len(p[m].constants) : Admitted(p, f[i - 1], p[m].constants[i])
    PROVE  \A i \in 0 .. Len(p[m].constants) : Below(known, f[i])
<1> DEFINE N == Len(p[m].constants)
           C == {i \in Nat : i <= N => Below(known, f[i])}
<1>0. N \in Nat
  BY ConstantPlaces
<1>1. /\ f[0] = known
      /\ \A i \in 1 .. N : f[i] = FoundNext(p, f[i - 1], m, i)
      /\ \A i \in 0 .. N : f[i] \in Knowings(p)
  BY FindingSteps
<1>2. 0 \in C
  BY <1>1 DEF Below
<1>3. ASSUME NEW i \in Nat, i \in C PROVE i + 1 \in C
  <2>1. SUFFICES ASSUME i + 1 <= N PROVE Below(known, f[i + 1])
    OBVIOUS
  <2>2. i + 1 \in 1 .. N /\ i + 1 \in 0 .. N /\ (i + 1) - 1 = i /\ i <= N /\ i \in 0 .. N
    BY <1>0, <2>1
  <2>3. f[i] \in Knowings(p) /\ f[i + 1] = FoundNext(p, f[i], m, i + 1)
    BY <1>1, <2>2
  <2>4. Below(known, f[i])
    BY <1>3, <2>2
  <2>5. ASSUME NEW c \in AllConstants(p) PROVE known[c] \in {Unknown, f[i + 1][c]}
    <3>1. CASE c[1] = m /\ c[2] = i + 1
      <4>1. c = <<m, i + 1>> /\ Constant(p, c) = p[m].constants[i + 1]
        BY <3>1, ConstantIs
      <4>2. f[i + 1][c] = TypeOf(p, f[i], Constant(p, c))
        BY <2>2, <2>3, <4>1, FoundNextAt
      <4>3. TypeOf(p, f[i], Constant(p, c)) = Given(p, f[i], Constant(p, c))
        BY <2>2, <4>1, FoundOrNothing
      <4>4. Given(p, known, Constant(p, c)) \in {Unknown, Given(p, f[i], Constant(p, c))}
        BY <2>3, <2>4, GivenBelow
      <4>5. known[c] \in {Unknown, Given(p, known, Constant(p, c))}
        BY DEF Supported
      <4> QED BY <4>2, <4>3, <4>4, <4>5
    <3>2. CASE c[1] # m \/ c[2] # i + 1
      <4>a. ~ At(c, m, i + 1)
        BY <3>2 DEF At
      <4>1. f[i + 1][c] = f[i][c]
        BY <2>3, <4>a, FoundNextElsewhere
      <4> QED BY <2>4, <4>1 DEF Below, Knowings
    <3> QED BY <3>1, <3>2
  <2> QED BY <2>5 DEF Below, Knowings
<1>4. C = Nat
  <2>1. C \in SUBSET Nat
    OBVIOUS
  <2> HIDE DEF C
  <2> QED BY <1>2, <1>3, <2>1, Counting
<1> QED BY <1>0, <1>4

\* All that t knows is right, and is given by what t knows.
Grounded(p, t) == t \in Knowings(p) /\ Below(t, Typing(p)) /\ Supported(p, t)

\* The types that the constants of m have in t
TypesIn(p, t, m) == [i \in 1 .. Len(p[m].constants) |-> t[<<m, i>>]]

\* What has been found for m is what is known, what is given by it, and all is admitted.
Fits(p, known, checked, m) ==
    /\ checked.types = TypesIn(p, known, m)
    /\ \A c \in ConstantsOf(p, m) :
           /\ checked.types[c[2]] = known[c]
           /\ known[c] = Given(p, known, Constant(p, c))
           /\ Admitted(p, known, Constant(p, c))

\* What checking m, with this known before, adds to it and finds
Checked(p, known, m, checked, after) ==
    /\ Grounded(p, after)
    /\ Below(known, after)
    /\ \A c \in AllConstants(p) : c[1] # m => after[c] = known[c]
    /\ checked.rejected \in BOOLEAN
    /\ ~ checked.rejected /\ (after = known \/ m \notin ToSet(p[m].imports)) => Fits(p, after, checked, m)
    /\ WellTyped(p, Typing(p)) => ~ checked.rejected

\* A check of a module only adds what is right, and finds what fits unless it rejects.
LEMMA ModuleChecked ==
    ASSUME NEW p, Readable(p), NEW m \in Modules, NEW known, Grounded(p, known)
    PROVE  Checked(p, known, m, CheckModule(p, known, m), Learnt(known, m, CheckModule(p, known, m)))
<1> DEFINE R == Typing(p)
           n == Len(p[m].constants)
           checked == CheckModule(p, known, m)
           types == checked.types
           after == Learnt(known, m, checked)
<1>0. known \in Knowings(p) /\ Below(known, R) /\ Supported(p, known) /\ R \in Knowings(p) /\ n \in Nat
  BY TypingGiven, ConstantPlaces DEF Grounded
<1>1. PICK f : /\ IsFinding(f, p, known, m)
               /\ checked = [types    |-> [i \in 1 .. n |-> f[i][<<m, i>>]],
                             rejected |-> \E i \in 1 .. n : ~ Admitted(p, f[i - 1], p[m].constants[i])]
  BY <1>0, CheckedBy
<1>2. /\ f[0] = known
      /\ \A i \in 1 .. n : f[i] = FoundNext(p, f[i - 1], m, i)
      /\ \A i \in 0 .. n : f[i] \in Knowings(p)
  BY <1>0, <1>1, FindingSteps
<1>3. \A i \in 0 .. n : \A c \in AllConstants(p) :
          f[i][c] = IF Early(c, m, i) THEN f[c[2]][c] ELSE known[c]
  BY <1>0, <1>1, FindingKeeps
<1>4. \A i \in 0 .. n : Below(f[i], R)
  BY <1>0, <1>1, FindingSound
<1>5. checked.rejected = \E i \in 1 .. n : ~ Admitted(p, f[i - 1], p[m].constants[i])
  BY <1>1
<1>6. \A i \in 1 .. n : types[i] = f[i][<<m, i>>]
  BY <1>1
<1>7. after = [c \in AllConstants(p) |-> IF c[1] = m /\ types[c[2]] # Unknown THEN types[c[2]] ELSE known[c]]
  BY <1>0 DEF Learnt, Knowings
<1> HIDE DEF checked, types, after
<1>8. ASSUME NEW c \in AllConstants(p), c[1] = m
      PROVE  /\ c[2] \in 1 .. n /\ c[2] \in 0 .. n /\ c[2] - 1 \in 0 .. n
             /\ Constant(p, c) = p[m].constants[c[2]]
             /\ types[c[2]] = f[c[2]][c]
             /\ types[c[2]] = TypeOf(p, f[c[2] - 1], Constant(p, c))
  <2>1. c = <<m, c[2]>> /\ c[2] \in 1 .. n /\ Constant(p, c) = p[m].constants[c[2]]
    BY <1>8, ConstantIs
  <2> DEFINE i == c[2]
  <2>2. i \in 1 .. n /\ i \in 0 .. n /\ i - 1 \in 0 .. n
    BY <1>0, <2>1
  <2>3. c = <<m, i>>
    BY <2>1
  <2> HIDE DEF i
  <2>4. types[i] = f[i][c]
    BY <1>6, <2>2, <2>3
  <2>5. f[i] = FoundNext(p, f[i - 1], m, i) /\ f[i - 1] \in Knowings(p)
    BY <1>2, <2>2
  <2>6. f[i][c] = TypeOf(p, f[i - 1], Constant(p, c))
    BY <2>2, <2>3, <2>5, FoundNextAt
  <2> QED BY <2>1, <2>2, <2>4, <2>6 DEF i
<1>9. ASSUME NEW c \in AllConstants(p), c[1] = m
      PROVE  types[c[2]] \in TypesOf(p) /\ types[c[2]] \in {Unknown, R[c]}
  <2>1. f[c[2]] \in Knowings(p) /\ Below(f[c[2]], R) /\ types[c[2]] = f[c[2]][c]
    BY <1>2, <1>4, <1>8, <1>9
  <2> HIDE DEF R
  <2> QED BY <2>1 DEF Knowings, Below
<1>10. ASSUME NEW c \in AllConstants(p)
       PROVE  /\ after[c] = IF c[1] = m /\ types[c[2]] # Unknown THEN types[c[2]] ELSE known[c]
              /\ known[c] \in TypesOf(p) /\ known[c] \in {Unknown, R[c]}
  BY <1>0, <1>7 DEF Knowings, Below
<1> HIDE DEF R
<1>11. after \in Knowings(p) /\ Below(after, R) /\ Below(known, after)
  <2>1. ASSUME NEW c \in AllConstants(p)
        PROVE  after[c] \in TypesOf(p) /\ after[c] \in {Unknown, R[c]} /\ known[c] \in {Unknown, after[c]}
    <3>1. CASE c[1] = m /\ types[c[2]] # Unknown
      BY <1>9, <1>10, <3>1
    <3>2. CASE ~ (c[1] = m /\ types[c[2]] # Unknown)
      BY <1>10, <3>2
    <3> QED BY <3>1, <3>2
  <2>2. after \in Knowings(p)
    BY <1>7, <2>1 DEF Knowings
  <2> QED BY <1>0, <2>1, <2>2 DEF Knowings, Below
<1>12. ASSUME NEW i \in 0 .. n PROVE Below(f[i], after)
  <2>1. ASSUME NEW c \in AllConstants(p) PROVE f[i][c] \in {Unknown, after[c]}
    <3>1. CASE Early(c, m, i)
      <4>1. c[1] = m /\ f[i][c] = f[c[2]][c]
        BY <1>3, <3>1 DEF Early
      <4>2. types[c[2]] = f[c[2]][c]
        BY <1>8, <4>1
      <4> QED BY <1>10, <4>1, <4>2
    <3>2. CASE ~ Early(c, m, i)
      <4>1. f[i][c] = known[c]
        BY <1>3, <3>2
      <4>2. known[c] \in {Unknown, after[c]}
        BY <1>0, <1>11 DEF Below, Knowings
      <4> QED BY <4>1, <4>2
    <3> QED BY <3>1, <3>2
  <2>2. f[i] \in Knowings(p)
    BY <1>2
  <2> QED BY <2>1, <2>2 DEF Below, Knowings
<1>13. ASSUME NEW c \in AllConstants(p) PROVE after[c] \in {Unknown, Given(p, after, Constant(p, c))}
  <2>1. CASE c[1] = m /\ types[c[2]] # Unknown
    <3> DEFINE t == f[c[2] - 1]
    <3>1. t \in Knowings(p) /\ Below(t, after) /\ types[c[2]] = TypeOf(p, t, Constant(p, c))
      BY <1>2, <1>8, <1>12, <2>1
    <3> HIDE DEF t
    <3>2. types[c[2]] = Given(p, t, Constant(p, c))
      BY <2>1, <3>1, FoundOrNothing
    <3>3. Given(p, t, Constant(p, c)) \in {Unknown, Given(p, after, Constant(p, c))}
      BY <1>11, <3>1, GivenBelow
    <3> QED BY <1>10, <2>1, <3>2, <3>3
  <2>2. CASE ~ (c[1] = m /\ types[c[2]] # Unknown)
    <3>1. after[c] = known[c]
      BY <1>10, <2>2
    <3>2. known[c] \in {Unknown, Given(p, known, Constant(p, c))}
      BY <1>0 DEF Supported
    <3>3. Given(p, known, Constant(p, c)) \in {Unknown, Given(p, after, Constant(p, c))}
      BY <1>0, <1>11, GivenBelow
    <3> QED BY <3>1, <3>2, <3>3
  <2> QED BY <2>1, <2>2
<1>14. Grounded(p, after)
  BY <1>11, <1>13 DEF Grounded, Supported, R
<1>15. ASSUME ~ checked.rejected, after = known \/ m \notin ToSet(p[m].imports)
       PROVE  Fits(p, after, checked, m)
  <2>1. \A i \in 1 .. n : Admitted(p, f[i - 1], p[m].constants[i])
    BY <1>5, <1>15
  <2>2. \A i \in 0 .. n : Below(known, f[i])
    BY <1>0, <1>1, <2>1, FindingGrows
  <2>3. ASSUME NEW c \in AllConstants(p), c[1] = m
        PROVE  /\ types[c[2]] = Given(p, f[c[2] - 1], Constant(p, c))
               /\ types[c[2]] = after[c]
    <3> DEFINE t == f[c[2] - 1]
    <3>1. t \in Knowings(p) /\ Below(known, t) /\ types[c[2]] = TypeOf(p, t, Constant(p, c))
      BY <1>2, <1>8, <2>2, <2>3
    <3>2. Admitted(p, t, Constant(p, c))
      BY <1>8, <2>1, <2>3
    <3> HIDE DEF t
    <3>3. types[c[2]] = Given(p, t, Constant(p, c))
      BY <3>1, <3>2, FoundOrNothing
    <3>4. Given(p, known, Constant(p, c)) \in {Unknown, Given(p, t, Constant(p, c))}
      BY <1>0, <3>1, GivenBelow
    <3>5. known[c] \in {Unknown, Given(p, known, Constant(p, c))}
      BY <1>0 DEF Supported
    <3>6. types[c[2]] = after[c]
      BY <1>10, <2>3, <3>3, <3>4, <3>5
    <3> QED BY <3>3, <3>6 DEF t
  <2>4. ASSUME NEW c \in AllConstants(p), c[1] = m
        PROVE  Seen(p, f[c[2] - 1], Constant(p, c).reads) = Seen(p, after, Constant(p, c).reads)
    <3> DEFINE d == Constant(p, c).reads
               i == c[2] - 1
    <3>1. c[2] \in 1 .. n /\ i \in 0 .. n /\ Constant(p, c) = p[m].constants[c[2]]
      BY <1>8, <2>4
    <3>2. ASSUME d \in AllConstants(p) PROVE f[i][d] = after[d]
      <4>1. d[2] \in Nat /\ (d[1] \in ToSet(p[m].imports) \/ (d[1] = m /\ d[2] < c[2]))
        BY <2>4, <3>2, ReadFrom
      <4> HIDE DEF d
      <4>3. CASE d[1] # m
        <5>1. ~ Early(d, m, i)
          BY <4>3 DEF Early
        <5> QED BY <1>3, <1>10, <3>1, <3>2, <4>3, <5>1
      <4>4. CASE d[1] = m /\ d[2] < c[2]
        <5>1. Early(d, m, i)
          BY <3>1, <4>1, <4>4 DEF Early
        <5>2. f[i][d] = f[d[2]][d]
          BY <1>3, <3>1, <3>2, <5>1
        <5>3. types[d[2]] = f[d[2]][d]
          BY <1>8, <3>2, <4>4
        <5> QED BY <2>3, <3>2, <4>4, <5>2, <5>3
      <4>5. CASE d[1] = m /\ ~ (d[2] < c[2])
        <5>1. after = known
          BY <1>15, <4>1, <4>5
        <5>2. ~ Early(d, m, i)
          BY <3>1, <4>1, <4>5 DEF Early
        <5> QED BY <1>3, <3>1, <3>2, <5>1, <5>2
      <4> QED BY <4>3, <4>4, <4>5
    <3>3. Seen(p, f[i], d) = Seen(p, after, d)
      <4> HIDE DEF d, i
      <4> QED BY <3>2 DEF Seen
    <3> QED BY <3>3
  <2>5. ASSUME NEW c \in AllConstants(p), c[1] = m
        PROVE  /\ types[c[2]] = after[c]
               /\ after[c] = Given(p, after, Constant(p, c))
               /\ Admitted(p, after, Constant(p, c))
    <3> DEFINE t == f[c[2] - 1]
               k == Constant(p, c)
    <3>1. Seen(p, t, k.reads) = Seen(p, after, k.reads)
      BY <2>4, <2>5
    <3>2. types[c[2]] = Given(p, t, k) /\ types[c[2]] = after[c]
      BY <2>3, <2>5
    <3>3. Admitted(p, t, k)
      BY <1>8, <2>1, <2>5
    <3> HIDE DEF t, k
    <3>4. Given(p, t, k) = Given(p, after, k)
      BY <3>1 DEF Given
    <3>5. Admitted(p, after, k)
      BY <3>1, <3>3 DEF Admitted
    <3> QED BY <3>2, <3>4, <3>5 DEF k
  <2>6. \A c \in ConstantsOf(p, m) : c \in AllConstants(p) /\ c[1] = m
    BY DEF AllConstants, ConstantsOf
  <2>7. checked.types = TypesIn(p, after, m)
    <3>1. ASSUME NEW i \in 1 .. n PROVE f[i][<<m, i>>] = after[<<m, i>>]
      <4>1. <<m, i>> \in AllConstants(p)
        BY ConstantAt
      <4>2. types[i] = after[<<m, i>>]
        BY <2>5, <4>1
      <4> QED BY <1>6, <4>2
    <3>2. checked.types = [i \in 1 .. n |-> f[i][<<m, i>>]]
      BY <1>1
    <3> QED BY <3>1, <3>2 DEF TypesIn
  <2> QED BY <2>5, <2>6, <2>7 DEF Fits, types
<1>16. ASSUME WellTyped(p, R) PROVE ~ checked.rejected
  <2>1. ASSUME NEW i \in 1 .. n PROVE Admitted(p, f[i - 1], p[m].constants[i])
    <3>1. i - 1 \in 0 .. n
      BY <1>0
    <3>2. <<m, i>> \in AllConstants(p) /\ Constant(p, <<m, i>>) = p[m].constants[i]
      BY ConstantAt
    <3>3. Admitted(p, R, p[m].constants[i])
      BY <1>16, <3>2 DEF WellTyped
    <3> QED BY <1>0, <1>2, <1>4, <3>1, <3>3, AdmittedBelow
  <2> QED BY <1>5, <2>1
<1>17. \A c \in AllConstants(p) : c[1] # m => after[c] = known[c]
  BY <1>10
<1>18. checked.rejected \in BOOLEAN
  BY <1>5
<1>19. Checked(p, known, m, checked, after)
  BY <1>11, <1>14, <1>15, <1>16, <1>17, <1>18 DEF Checked, R
<1> QED BY <1>19 DEF checked, after

\* What fits does so as long as nothing is learnt about what it reads.
LEMMA FitsKept ==
    ASSUME NEW p, Readable(p), NEW m \in Modules, NEW known, NEW after, NEW checked,
           Fits(p, known, checked, m),
           \A c \in AllConstants(p) :
               c[1] = m \/ c[1] \in ToSet(p[m].imports) => after[c] = known[c]
    PROVE  Fits(p, after, checked, m)
<1>1. ASSUME NEW c \in ConstantsOf(p, m)
      PROVE  /\ checked.types[c[2]] = after[c]
             /\ after[c] = Given(p, after, Constant(p, c))
             /\ Admitted(p, after, Constant(p, c))
  <2> DEFINE k == Constant(p, c)
  <2>1. c \in AllConstants(p) /\ c[1] = m
    BY DEF AllConstants, ConstantsOf
  <2>2. checked.types[c[2]] = known[c] /\ known[c] = Given(p, known, k) /\ Admitted(p, known, k)
    BY DEF Fits
  <2>3. after[c] = known[c]
    BY <2>1
  <2>4. k.reads \in AllConstants(p) => after[k.reads] = known[k.reads]
    BY <2>1, ReadFrom
  <2> HIDE DEF k
  <2>5. Seen(p, after, k.reads) = Seen(p, known, k.reads)
    BY <2>4 DEF Seen
  <2>6. Given(p, after, k) = Given(p, known, k)
    BY <2>5 DEF Given
  <2>7. Admitted(p, after, k)
    BY <2>2, <2>5 DEF Admitted
  <2> QED BY <2>2, <2>3, <2>6, <2>7 DEF k
<1>2. checked.types = TypesIn(p, after, m)
  <2>1. checked.types = TypesIn(p, known, m)
    BY DEF Fits
  <2>2. ASSUME NEW i \in 1 .. Len(p[m].constants) PROVE after[<<m, i>>] = known[<<m, i>>]
    BY ConstantAt
  <2> QED BY <2>1, <2>2 DEF TypesIn
<1> QED BY <1>1, <1>2 DEF Fits

\* When the modules fit together, what has been found is the typing, which is admitted.
LEMMA FitsTyping ==
    ASSUME NEW p, Readable(p), NEW known, Grounded(p, known), NEW checked,
           \A m \in Modules : Fits(p, known, checked[m], m)
    PROVE  /\ \A c \in AllConstants(p) : /\ checked[c[1]].types[c[2]] = Typing(p)[c]
                                         /\ Admitted(p, Typing(p), Constant(p, c))
           /\ \A m \in Modules : checked[m].types = TypesIn(p, Typing(p), m)
<1> DEFINE R == Typing(p)
           A == AllConstants(p)
<1>1. known \in Knowings(p) /\ Below(known, R) /\ R \in Knowings(p)
  BY TypingGiven DEF Grounded
<1>2. ASSUME NEW c \in A
      PROVE  /\ checked[c[1]].types[c[2]] = known[c]
             /\ known[c] = Given(p, known, Constant(p, c))
             /\ Admitted(p, known, Constant(p, c))
  <2>1. PICK m \in Modules : c \in ConstantsOf(p, m)
    BY DEF AllConstants
  <2>2. c[1] = m
    BY <2>1 DEF ConstantsOf
  <2> QED BY <2>1, <2>2 DEF Fits
<1>3. ReadsWithin(p, A) /\ A \in SUBSET A
  BY DEF ReadsWithin
<1>4. \A c \in A : R[c] \in {Unknown, known[c]}
  BY <1>1, <1>2, <1>3, TypingGiven
<1>5. \A c \in A : known[c] \in {Unknown, R[c]}
  BY <1>1 DEF Below, Knowings
<1>6. \A c \in A : known[c] = R[c]
  BY <1>4, <1>5
<1>7. known = R
  <2> HIDE DEF R
  <2> QED BY <1>1, <1>6 DEF Knowings
<1>8. \A m \in Modules : checked[m].types = TypesIn(p, known, m)
  BY DEF Fits
<1> QED BY <1>2, <1>7, <1>8

-----------------------------------------------------------------------------
(* Checking modules one after the other, and again                         *)

\* All that a check of a module can find
Findings(p) ==
    {[types |-> << >>, rejected |-> FALSE]}
        \cup {CheckModule(p, known, m) : known \in {t \in Knowings(p) : Grounded(p, t)}, m \in Modules}

\* What is known, and what has been found for each module
CheckWalks(p) ==
    [known : {t \in Knowings(p) : Grounded(p, t)}, checked : [Modules -> Findings(p)]]

\* u is w after a check of m.
TurnOf(p, w, u, m) ==
    /\ u \in CheckWalks(p)
    /\ u.checked[m] = CheckModule(p, w.known, m)
    /\ Checked(p, w.known, m, u.checked[m], u.known)
    /\ \A n \in Modules : n # m => u.checked[n] = w.checked[n]

\* CheckInTurn is such a check.
LEMMA CheckedInTurn ==
    ASSUME NEW p, Readable(p), NEW w \in CheckWalks(p), NEW m \in Modules
    PROVE  TurnOf(p, w, CheckInTurn(p, w, m), m)
<1> DEFINE found == CheckModule(p, w.known, m)
           after == Learnt(w.known, m, found)
           checked == [w.checked EXCEPT ![m] = found]
           u == CheckInTurn(p, w, m)
<1>1. w.known \in Knowings(p) /\ Grounded(p, w.known) /\ w.checked \in [Modules -> Findings(p)]
  BY DEF CheckWalks
<1>2. Checked(p, w.known, m, found, after)
  BY <1>1, ModuleChecked
<1>3. found \in Findings(p)
  BY <1>1 DEF Findings
<1>4. u = [known |-> after, checked |-> checked]
  BY DEF CheckInTurn
<1> HIDE DEF found, after
<1>5. checked \in [Modules -> Findings(p)] /\ checked[m] = found
      /\ \A n \in Modules : n # m => checked[n] = w.checked[n]
  BY <1>1, <1>3
<1> HIDE DEF checked, u
<1>6. u.known = after /\ u.checked = checked
  BY <1>4
<1>7. after \in Knowings(p) /\ Grounded(p, after)
  BY <1>2 DEF Checked, Grounded
<1>8. u \in CheckWalks(p)
  BY <1>4, <1>5, <1>7 DEF CheckWalks
<1>9. TurnOf(p, w, u, m)
  BY <1>2, <1>5, <1>6, <1>8 DEF TurnOf, found
<1> QED BY <1>9 DEF u

\* f is the function that CheckInOrder computes by.
IsOrdered(f, p, w, modules) ==
    f = [i \in 0 .. Len(modules) |->
            IF i = 0 THEN w
            ELSE LET before == f[i - 1] IN CheckInTurn(p, before, modules[i])]

\* The recursion of CheckInOrder has a solution.
LEMMA OrderedExists ==
    ASSUME NEW p, Readable(p), NEW w \in CheckWalks(p), NEW modules \in Seq(Modules)
    PROVE  \E f : IsOrdered(f, p, w, modules)
<1> DEFINE S == CheckWalks(p)
           N == Len(modules)
           Turn(n, v) == IF n \in 1 .. N THEN CheckInTurn(p, v, modules[n]) ELSE v
           F == [q \in Nat \X S |-> Turn(q[1], q[2])]
<1>0. N \in Nat
  OBVIOUS
<1>1. ASSUME NEW n \in Nat, NEW v \in S PROVE Turn(n, v) \in S
  <2>1. CASE n \in 1 .. N
    <3>1. modules[n] \in Modules
      BY <2>1
    <3>2. TurnOf(p, v, CheckInTurn(p, v, modules[n]), modules[n])
      BY <3>1, CheckedInTurn
    <3> QED BY <2>1, <3>2 DEF TurnOf
  <2>2. CASE n \notin 1 .. N
    BY <2>2
  <2> QED BY <2>1, <2>2
<1>2. \A q \in Nat \X S : q[1] \in Nat /\ q[2] \in S
  OBVIOUS
<1>3. F \in [Nat \X S -> S]
  <2> HIDE DEF Turn, S
  <2> QED BY <1>1, <1>2
<1>4. \A n \in Nat, v \in S : F[<<n, v>>] = Turn(n, v)
  <2> HIDE DEF Turn, S
  <2> QED OBVIOUS
<1> HIDE DEF F
<1>f. PICK f : IsStepping(f, S, F, w, N)
  <2> HIDE DEF S, N
  <2>1. w \in S
    BY DEF S
  <2> QED BY <1>0, <1>3, <2>1, StepsExist
<1>5. f \in [0 .. N -> S] /\ f[0] = w /\ \A n \in 1 .. N : f[n] = F[<<n, f[n - 1]>>]
  BY <1>f DEF IsStepping
<1>6. ASSUME NEW n \in 0 .. N
      PROVE  f[n] = IF n = 0 THEN w ELSE CheckInTurn(p, f[n - 1], modules[n])
  <2>1. CASE n = 0
    BY <1>5, <2>1
  <2>2. CASE n # 0
    <3>1. n \in 1 .. N /\ n - 1 \in 0 .. N /\ n \in Nat
      BY <1>0, <2>2
    <3>2. f[n - 1] \in S /\ f[n] = F[<<n, f[n - 1]>>]
      BY <1>5, <3>1
    <3>3. f[n] = Turn(n, f[n - 1])
      <4> HIDE DEF Turn, S
      <4> QED BY <1>4, <3>1, <3>2
    <3> QED BY <2>2, <3>1, <3>3
  <2> QED BY <2>1, <2>2
<1>7. f = [n \in 0 .. N |-> f[n]]
  BY <1>5
<1>8. IsOrdered(f, p, w, modules)
  BY <1>6, <1>7 DEF IsOrdered
<1> QED BY <1>8

\* What holds after the first n modules have been checked one after the other
InOrder(f, p, w, modules, n) ==
    /\ \A j \in 0 .. n : f[j] \in CheckWalks(p) /\ Below(f[j].known, f[n].known)
    /\ \A c \in AllConstants(p) :
           (\A j \in 1 .. n : modules[j] # c[1]) => f[n].known[c] = w.known[c]
    /\ \A m \in Modules : (\A j \in 1 .. n : modules[j] # m) => f[n].checked[m] = w.checked[m]
    /\ \A j \in 1 .. n : /\ f[n].checked[modules[j]] = f[j].checked[modules[j]]
                         /\ Checked(p, f[j - 1].known, modules[j], f[j].checked[modules[j]], f[j].known)

\* It does, when no module is checked twice.
LEMMA CheckedInOrder ==
    ASSUME NEW p, Readable(p), NEW w \in CheckWalks(p), NEW modules \in Seq(Modules),
           IsInjective(modules), NEW f, IsOrdered(f, p, w, modules)
    PROVE  f[0] = w /\ \A n \in 0 .. Len(modules) : InOrder(f, p, w, modules, n)
<1> DEFINE N == Len(modules)
           C == {n \in Nat : n <= N => InOrder(f, p, w, modules, n)}
<1>0. N \in Nat /\ DOMAIN modules = 1 .. N
  OBVIOUS
<1>1. f[0] = w
  BY <1>0 DEF IsOrdered
<1>2. 0 \in C
  <2>1. Below(w.known, w.known)
    BY DEF Below
  <2>2. InOrder(f, p, w, modules, 0)
    BY <1>1, <2>1 DEF InOrder
  <2> QED BY <2>2
<1>3. ASSUME NEW n \in Nat, n \in C PROVE n + 1 \in C
  <2>1. SUFFICES ASSUME n + 1 <= N PROVE InOrder(f, p, w, modules, n + 1)
    OBVIOUS
  <2>2. n + 1 \in 0 .. N /\ n + 1 # 0 /\ (n + 1) - 1 = n /\ n <= N /\ n + 1 \in 1 .. N
    BY <1>0, <2>1
  <2>3. InOrder(f, p, w, modules, n)
    BY <1>3, <2>2
  <2>4. f[n + 1] = CheckInTurn(p, f[n], modules[n + 1])
    BY <2>2 DEF IsOrdered
  <2> DEFINE v == f[n]
             u == f[n + 1]
             m == modules[n + 1]
  <2>5. m \in Modules /\ v \in CheckWalks(p)
    BY <2>2, <2>3 DEF InOrder
  <2>6. TurnOf(p, v, u, m)
    BY <2>4, <2>5, CheckedInTurn
  <2>7. /\ u \in CheckWalks(p)
        /\ Checked(p, v.known, m, u.checked[m], u.known)
        /\ \A k \in Modules : k # m => u.checked[k] = v.checked[k]
    BY <2>6 DEF TurnOf
  <2>8. /\ Below(v.known, u.known) /\ v.known \in Knowings(p) /\ u.known \in Knowings(p)
        /\ \A c \in AllConstants(p) : c[1] # m => u.known[c] = v.known[c]
    BY <2>5, <2>7 DEF Checked, CheckWalks
  <2>9. ASSUME NEW j \in 1 .. n PROVE modules[j] # m /\ modules[j] \in Modules
    <3>1. j \in DOMAIN modules /\ n + 1 \in DOMAIN modules /\ j # n + 1
      BY <1>0, <2>1
    <3> QED BY <3>1 DEF IsInjective
  <2>10. ASSUME NEW j \in 0 .. n + 1 PROVE f[j] \in CheckWalks(p) /\ Below(f[j].known, u.known)
    <3>1. CASE j = n + 1
      BY <2>7, <3>1 DEF Below
    <3>2. CASE j # n + 1
      <4>1. j \in 0 .. n
        BY <3>2
      <4>2. f[j] \in CheckWalks(p) /\ Below(f[j].known, v.known)
        BY <2>3, <4>1 DEF InOrder
      <4>3. f[j].known \in Knowings(p)
        BY <4>2 DEF CheckWalks
      <4> HIDE DEF v, u
      <4>4. Below(f[j].known, u.known)
        BY <2>8, <4>2, <4>3, BelowTransitive
      <4> QED BY <4>2, <4>4
    <3> QED BY <3>1, <3>2
  <2>11. ASSUME NEW c \in AllConstants(p), \A j \in 1 .. n + 1 : modules[j] # c[1]
         PROVE  u.known[c] = w.known[c]
    <3>1. m # c[1]
      BY <2>2, <2>11
    <3>2. \A j \in 1 .. n : modules[j] # c[1]
      BY <2>11
    <3>3. v.known[c] = w.known[c]
      BY <2>3, <3>2 DEF InOrder
    <3> HIDE DEF v, u, m
    <3> QED BY <2>8, <3>1, <3>3
  <2>12. ASSUME NEW k \in Modules, \A j \in 1 .. n + 1 : modules[j] # k
         PROVE  u.checked[k] = w.checked[k]
    <3>1. m # k
      BY <2>2, <2>12
    <3>2. \A j \in 1 .. n : modules[j] # k
      BY <2>12
    <3>3. v.checked[k] = w.checked[k]
      BY <2>3, <3>2 DEF InOrder
    <3> HIDE DEF v, u, m
    <3> QED BY <2>7, <3>1, <3>3
  <2>13. ASSUME NEW j \in 1 .. n + 1
         PROVE  /\ u.checked[modules[j]] = f[j].checked[modules[j]]
                /\ Checked(p, f[j - 1].known, modules[j], f[j].checked[modules[j]], f[j].known)
    <3>1. CASE j = n + 1
      BY <2>2, <2>7, <3>1
    <3>2. CASE j # n + 1
      <4>1. j \in 1 .. n
        BY <3>2
      <4>2. /\ v.checked[modules[j]] = f[j].checked[modules[j]]
            /\ Checked(p, f[j - 1].known, modules[j], f[j].checked[modules[j]], f[j].known)
        BY <2>3, <4>1 DEF InOrder
      <4>3. u.checked[modules[j]] = v.checked[modules[j]]
        BY <2>7, <2>9, <4>1
      <4> QED BY <4>2, <4>3
    <3> QED BY <3>1, <3>2
  <2> QED BY <2>10, <2>11, <2>12, <2>13 DEF InOrder
<1>4. C = Nat
  <2>1. C \in SUBSET Nat
    OBVIOUS
  <2> HIDE DEF C
  <2> QED BY <1>2, <1>3, <2>1, Counting
<1>5. \A n \in 0 .. N : InOrder(f, p, w, modules, n)
  BY <1>0, <1>4
<1> QED BY <1>1, <1>5

\* What a check may leave of m: it rejects no module of a well-typed project, and finds what fits.
Right(p, known, checked, m) ==
    /\ WellTyped(p, Typing(p)) => ~ checked.rejected
    /\ ~ checked.rejected => Fits(p, known, checked, m)

\* u is w after these modules have been checked once: all that was to learn has been learnt
\* when nothing has, or when there is only one module and it reads nothing of its own before.
PassOf(p, w, u, modules) ==
    /\ u \in CheckWalks(p)
    /\ Below(w.known, u.known)
    /\ \A c \in AllConstants(p) : c[1] \notin ToSet(modules) => u.known[c] = w.known[c]
    /\ \A m \in Modules : m \notin ToSet(modules) => u.checked[m] = w.checked[m]
    /\ \A m \in ToSet(modules) :
           u.known = w.known \/ (Len(modules) = 1 /\ m \notin ToSet(p[m].imports))
               => Right(p, u.known, u.checked[m], m)

\* CheckInOrder is such a pass.
LEMMA PassMade ==
    ASSUME NEW p, Readable(p), NEW w \in CheckWalks(p), NEW modules \in Seq(Modules),
           IsInjective(modules)
    PROVE  PassOf(p, w, CheckInOrder(p, w, modules), modules)
<1> DEFINE N == Len(modules)
           f == CHOOSE g : IsOrdered(g, p, w, modules)
           u == f[N]
<1>0. N \in Nat /\ N \in 0 .. N /\ 0 \in 0 .. N /\ DOMAIN modules = 1 .. N
  OBVIOUS
<1>1. IsOrdered(f, p, w, modules)
  BY OrderedExists
<1>2. CheckInOrder(p, w, modules) = u
  BY DEF CheckInOrder, IsOrdered
<1> HIDE DEF f
<1>3. f[0] = w /\ \A n \in 0 .. N : InOrder(f, p, w, modules, n)
  BY <1>1, CheckedInOrder
<1>4. InOrder(f, p, w, modules, N)
  BY <1>0, <1>3
<1>5. ToSet(modules) = {modules[j] : j \in 1 .. N}
  BY <1>0 DEF ToSet
<1>6. u \in CheckWalks(p) /\ Below(w.known, u.known)
  BY <1>0, <1>3, <1>4 DEF InOrder
<1>7. ASSUME NEW c \in AllConstants(p), c[1] \notin ToSet(modules) PROVE u.known[c] = w.known[c]
  <2>1. \A j \in 1 .. N : modules[j] # c[1]
    BY <1>5, <1>7
  <2> QED BY <1>4, <2>1 DEF InOrder
<1>8. ASSUME NEW m \in Modules, m \notin ToSet(modules) PROVE u.checked[m] = w.checked[m]
  <2>1. \A j \in 1 .. N : modules[j] # m
    BY <1>5, <1>8
  <2> QED BY <1>4, <2>1 DEF InOrder
<1>9. ASSUME NEW m \in ToSet(modules),
             u.known = w.known \/ (Len(modules) = 1 /\ m \notin ToSet(p[m].imports))
      PROVE  Right(p, u.known, u.checked[m], m)
  <2>1. PICK j \in 1 .. N : modules[j] = m
    BY <1>5, <1>9
  <2> DEFINE before == f[j - 1].known
             after == f[j].known
             found == f[j].checked[m]
  <2>2. j \in 0 .. N /\ j - 1 \in 0 .. N
    BY <1>0
  <2>3. u.checked[m] = found /\ Checked(p, before, m, found, after)
    BY <1>4, <2>1 DEF InOrder
  <2>4. /\ before \in Knowings(p) /\ after \in Knowings(p)
        /\ u.known \in Knowings(p) /\ w.known \in Knowings(p)
        /\ Below(before, u.known) /\ Below(after, u.known) /\ Below(before, after)
    BY <1>0, <1>4, <1>6, <2>2, <2>3 DEF InOrder, CheckWalks, Checked
  <2>5. Below(w.known, before) /\ Below(w.known, after)
    <3>1. InOrder(f, p, w, modules, j - 1) /\ InOrder(f, p, w, modules, j)
      BY <1>3, <2>2
    <3>2. 0 \in 0 .. j - 1 /\ 0 \in 0 .. j
      BY <2>2
    <3> QED BY <1>3, <3>1, <3>2 DEF InOrder
  <2>6. after = u.known /\ (after = before \/ m \notin ToSet(p[m].imports))
    <3>1. CASE u.known = w.known
      <4> HIDE DEF before, after, u
      <4>1. before = u.known
        BY <2>4, <2>5, <3>1, BelowEachOther
      <4>2. after = u.known
        BY <2>4, <2>5, <3>1, BelowEachOther
      <4> QED BY <4>1, <4>2
    <3>2. CASE Len(modules) = 1 /\ m \notin ToSet(p[m].imports)
      <4>1. j = N
        BY <2>1, <3>2
      <4> QED BY <3>2, <4>1
    <3> QED BY <1>9, <3>1, <3>2
  <2>7. ~ found.rejected => Fits(p, after, found, m)
    <3> HIDE DEF before, after, found
    <3> QED BY <2>3, <2>6 DEF Checked
  <2>8. WellTyped(p, Typing(p)) => ~ found.rejected
    BY <2>3 DEF Checked
  <2> HIDE DEF before, after, found, u
  <2> QED BY <2>3, <2>6, <2>7, <2>8 DEF Right
<1>10. PassOf(p, w, u, modules)
  BY <1>6, <1>7, <1>8, <1>9 DEF PassOf
<1> QED BY <1>2, <1>10

\* What the turns of Attempts hold
Turns(p) == [walk : CheckWalks(p), settled : BOOLEAN]

\* What another turn makes of them
NextTurn(p, modules, before) ==
    LET after == CheckInOrder(p, before.walk, modules)
    IN  IF before.settled THEN before
        ELSE [walk |-> after, settled |-> after.known = before.walk.known]

\* It makes such again.
LEMMA TurnMade ==
    ASSUME NEW p, Readable(p), NEW modules \in Seq(Modules), IsInjective(modules),
           NEW before \in Turns(p)
    PROVE  NextTurn(p, modules, before) \in Turns(p)
<1>1. before.walk \in CheckWalks(p)
  BY DEF Turns
<1>2. PassOf(p, before.walk, CheckInOrder(p, before.walk, modules), modules)
  BY <1>1, PassMade
<1>3. CheckInOrder(p, before.walk, modules) \in CheckWalks(p)
  BY <1>2 DEF PassOf
<1> QED BY <1>3 DEF NextTurn, Turns

\* g is the function that Attempts computes by.
IsTurns(g, p, modules, w, limit) ==
    g = [n \in 0 .. limit |->
            IF n = 0 THEN [walk |-> w, settled |-> FALSE]
            ELSE LET before == g[n - 1]
                     after == CheckInOrder(p, before.walk, modules)
                 IN  IF before.settled THEN before
                     ELSE [walk |-> after, settled |-> after.known = before.walk.known]]

\* g[n] is what the first n turns make of w.
TurnsFrom(g, p, modules, w, limit) ==
    /\ g[0] = [walk |-> w, settled |-> FALSE]
    /\ \A n \in 0 .. limit : g[n] \in Turns(p)
    /\ \A n \in 1 .. limit : g[n] = NextTurn(p, modules, g[n - 1])

\* The recursion of Attempts has a solution.
LEMMA TurnsExist ==
    ASSUME NEW p, Readable(p), NEW modules \in Seq(Modules), IsInjective(modules),
           NEW w \in CheckWalks(p), NEW limit \in Nat
    PROVE  \E g : IsTurns(g, p, modules, w, limit)
<1> DEFINE S == Turns(p)
           F == [t \in S |-> NextTurn(p, modules, t)]
           a == [walk |-> w, settled |-> FALSE]
<1>1. F \in [S -> S]
  BY TurnMade
<1>2. a \in S
  BY DEF Turns
<1>3. \A t \in S : F[t] = NextTurn(p, modules, t)
  OBVIOUS
<1> HIDE DEF F, S, a
<1>g. PICK g : IsIteration(g, S, F, a, limit)
  BY <1>1, <1>2, IterationExists
<1>4. g \in [0 .. limit -> S] /\ g[0] = a /\ \A n \in 1 .. limit : g[n] = F[g[n - 1]]
  BY <1>g DEF IsIteration
<1>5. ASSUME NEW n \in 0 .. limit PROVE g[n] = IF n = 0 THEN a ELSE NextTurn(p, modules, g[n - 1])
  <2>1. CASE n = 0
    BY <1>4, <2>1
  <2>2. CASE n # 0
    <3>1. n \in 1 .. limit /\ n - 1 \in 0 .. limit
      BY <2>2
    <3>2. g[n - 1] \in S /\ g[n] = F[g[n - 1]]
      BY <1>4, <3>1
    <3> QED BY <1>3, <2>2, <3>2
  <2> QED BY <2>1, <2>2
<1>6. g = [n \in 0 .. limit |-> IF n = 0 THEN a ELSE NextTurn(p, modules, g[n - 1])]
  BY <1>4, <1>5
<1>7. IsTurns(g, p, modules, w, limit)
  BY <1>6 DEF IsTurns, NextTurn, a
<1> QED BY <1>7

\* A solution is what the turns make.
LEMMA TurnsSolved ==
    ASSUME NEW p, Readable(p), NEW modules \in Seq(Modules), IsInjective(modules),
           NEW w \in CheckWalks(p), NEW limit \in Nat, NEW g, IsTurns(g, p, modules, w, limit)
    PROVE  TurnsFrom(g, p, modules, w, limit)
<1>1. g[0] = [walk |-> w, settled |-> FALSE]
  BY DEF IsTurns
<1>2. ASSUME NEW n \in 1 .. limit PROVE g[n] = NextTurn(p, modules, g[n - 1])
  <2>1. n \in 0 .. limit /\ n # 0
    OBVIOUS
  <2> QED BY <2>1 DEF IsTurns, NextTurn
<1> DEFINE C == {n \in Nat : n <= limit => g[n] \in Turns(p)}
<1>3. 0 \in C
  <2>1. [walk |-> w, settled |-> FALSE] \in Turns(p)
    BY DEF Turns
  <2> QED BY <1>1, <2>1
<1>4. ASSUME NEW n \in Nat, n \in C PROVE n + 1 \in C
  <2>1. SUFFICES ASSUME n + 1 <= limit PROVE g[n + 1] \in Turns(p)
    OBVIOUS
  <2>2. n + 1 \in 1 .. limit /\ (n + 1) - 1 = n /\ n <= limit
    BY <2>1
  <2>3. g[n] \in Turns(p) /\ g[n + 1] = NextTurn(p, modules, g[n])
    BY <1>2, <1>4, <2>2
  <2> QED BY <2>3, TurnMade
<1>5. C = Nat
  <2>1. C \in SUBSET Nat
    OBVIOUS
  <2> HIDE DEF C
  <2> QED BY <1>3, <1>4, <2>1, Counting
<1> QED BY <1>1, <1>2, <1>5 DEF TurnsFrom

\* The constants of some modules
ConstantsAmong(p, modules) == UNION {ConstantsOf(p, m) : m \in ToSet(modules)}

\* u is w with these modules changed only, and with what is right about them.
RightOf(p, w, u, modules) ==
    /\ u \in CheckWalks(p)
    /\ \A c \in AllConstants(p) : c[1] \notin ToSet(modules) => u.known[c] = w.known[c]
    /\ \A m \in Modules : m \notin ToSet(modules) => u.checked[m] = w.checked[m]
    /\ \A m \in ToSet(modules) : Right(p, u.known, u.checked[m], m)

\* The same, except that the last turn may still have learnt something: then each turn has.
TurnedTo(p, w, t, modules, n) ==
    /\ \A c \in AllConstants(p) : c[1] \notin ToSet(modules) => t.walk.known[c] = w.known[c]
    /\ \A m \in Modules : m \notin ToSet(modules) => t.walk.checked[m] = w.checked[m]
    /\ t.settled => \A m \in ToSet(modules) : Right(p, t.walk.known, t.walk.checked[m], m)
    /\ ~ t.settled => Cardinality(KnownAmong(t.walk.known, ConstantsAmong(p, modules))) >= n

\* Another turn keeps it so.
LEMMA TurnKeeps ==
    ASSUME NEW p, Readable(p), NEW modules \in Seq(Modules), IsInjective(modules),
           NEW w \in CheckWalks(p), NEW n \in Nat,
           NEW t \in Turns(p), TurnedTo(p, w, t, modules, n)
    PROVE  TurnedTo(p, w, NextTurn(p, modules, t), modules, n + 1)
<1> DEFINE v == t.walk
           u == CheckInOrder(p, v, modules)
           next == NextTurn(p, modules, t)
           C == ConstantsAmong(p, modules)
<1>1. CASE t.settled
  <2>1. next = t
    BY <1>1 DEF NextTurn
  <2> QED BY <1>1, <2>1 DEF TurnedTo
<1>2. CASE ~ t.settled
  <2>1. v \in CheckWalks(p)
    BY DEF Turns
  <2>2. PassOf(p, v, u, modules)
    BY <2>1, PassMade
  <2>3. next = [walk |-> u, settled |-> u.known = v.known]
    BY <1>2 DEF NextTurn
  <2>4. next.walk = u /\ (next.settled <=> u.known = v.known)
    <3> HIDE DEF u, v, next
    <3>1. CASE u.known = v.known
      <4>1. next = [walk |-> u, settled |-> TRUE]
        BY <2>3, <3>1
      <4> QED BY <3>1, <4>1
    <3>2. CASE u.known # v.known
      <4>1. next = [walk |-> u, settled |-> FALSE]
        BY <2>3, <3>2
      <4> QED BY <3>2, <4>1
    <3> QED BY <3>1, <3>2
  <2> HIDE DEF u, v, next
  <2>5. ASSUME NEW c \in AllConstants(p), c[1] \notin ToSet(modules) PROVE u.known[c] = w.known[c]
    BY <2>2, <2>5 DEF PassOf, TurnedTo, v
  <2>6. ASSUME NEW m \in Modules, m \notin ToSet(modules) PROVE u.checked[m] = w.checked[m]
    BY <2>2, <2>6 DEF PassOf, TurnedTo, v
  <2>7. ASSUME u.known = v.known, NEW m \in ToSet(modules) PROVE Right(p, u.known, u.checked[m], m)
    BY <2>2, <2>7 DEF PassOf
  <2>8. ASSUME u.known # v.known PROVE Cardinality(KnownAmong(u.known, C)) >= n + 1
    <3>1. v.known \in Knowings(p) /\ u.known \in Knowings(p) /\ Below(v.known, u.known)
      BY <2>1, <2>2 DEF PassOf, CheckWalks
    <3>2. PICK c \in AllConstants(p) : v.known[c] # u.known[c]
      BY <2>8, <3>1 DEF Knowings
    <3>3. c[1] \in ToSet(modules)
      BY <2>2, <3>2 DEF PassOf
    <3>4. PICK m \in Modules : c \in ConstantsOf(p, m)
      BY DEF AllConstants
    <3>5. c[1] = m
      BY <3>4 DEF ConstantsOf
    <3>6. c \in C
      BY <3>3, <3>4, <3>5 DEF ConstantsAmong
    <3>7. ToSet(modules) \in SUBSET Modules
      BY DEF ToSet
    <3>8. C \in SUBSET AllConstants(p) /\ IsFiniteSet(C)
      <4>1. IsFiniteSet(C)
        BY <3>7, ConstantsFinite DEF ConstantsAmong
      <4> QED BY <3>7, <4>1 DEF ConstantsAmong, AllConstants
    <3> HIDE DEF C
    <3>9. /\ Cardinality(KnownAmong(v.known, C)) \in Nat
          /\ Cardinality(KnownAmong(u.known, C)) \in Nat
          /\ Cardinality(KnownAmong(v.known, C)) < Cardinality(KnownAmong(u.known, C))
      BY <3>1, <3>2, <3>6, <3>8, MoreKnown
    <3>10. Cardinality(KnownAmong(v.known, C)) >= n
      BY <1>2 DEF TurnedTo, v, C
    <3> QED BY <3>9, <3>10
  <2> HIDE DEF C
  <2>9. TurnedTo(p, w, next, modules, n + 1)
    BY <2>4, <2>5, <2>6, <2>7, <2>8 DEF TurnedTo, C
  <2> QED BY <2>9 DEF next
<1> QED BY <1>1, <1>2

\* The turns are enough for a component: what is right about it has then been found.
LEMMA AttemptsMade ==
    ASSUME NEW p, Readable(p), NEW component \in ComponentsOver(Modules),
           IsInjective(component.modules), NEW w \in CheckWalks(p),
           \/ component.cyclic
           \/ /\ Len(component.modules) = 1
              /\ \A m \in ToSet(component.modules) : m \notin ToSet(p[m].imports)
    PROVE  RightOf(p, w, Attempts(p, component, w, Limit(p, component)), component.modules)
<1> DEFINE modules == component.modules
           C == ConstantsAmong(p, modules)
           L == Limit(p, component)
           g == CHOOSE h : IsTurns(h, p, modules, w, L)
<1>1. modules \in Seq(Modules) /\ component.cyclic \in BOOLEAN /\ ToSet(modules) \in SUBSET Modules
  BY DEF ComponentsOver, ToSet
<1>2. IsFiniteSet(C) /\ Cardinality(C) \in Nat /\ C \in SUBSET AllConstants(p)
  <2>1. IsFiniteSet(C)
    BY <1>1, ConstantsFinite DEF ConstantsAmong
  <2> QED BY <1>1, <2>1, FS_CardinalityType DEF ConstantsAmong, AllConstants
<1>3. L = IF component.cyclic THEN 2 + Cardinality(C) ELSE 1
  BY DEF Limit, ConstantsAmong
<1> HIDE DEF L
<1>4. L \in Nat /\ L >= 1
  <2> HIDE DEF C
  <2> QED BY <1>2, <1>3
<1>5. IsTurns(g, p, modules, w, L)
  BY <1>1, <1>4, TurnsExist
<1>6. Attempts(p, component, w, L) = g[L].walk
  BY DEF Attempts, IsTurns
<1> HIDE DEF g
<1>7. TurnsFrom(g, p, modules, w, L)
  BY <1>1, <1>4, <1>5, TurnsSolved
<1>8. /\ g[0] = [walk |-> w, settled |-> FALSE]
      /\ \A n \in 0 .. L : g[n] \in Turns(p)
      /\ \A n \in 1 .. L : g[n] = NextTurn(p, modules, g[n - 1])
  BY <1>7 DEF TurnsFrom
<1> DEFINE D == {n \in Nat : n <= L => TurnedTo(p, w, g[n], modules, n)}
<1>9. 0 \in D
  <2>1. KnownAmong(w.known, C) \in SUBSET C
    BY DEF KnownAmong
  <2>2. Cardinality(KnownAmong(w.known, C)) \in Nat
    <3> HIDE DEF C
    <3> QED BY <1>2, <2>1, FS_Subset, FS_CardinalityType
  <2>3. TurnedTo(p, w, g[0], modules, 0)
    BY <1>8, <2>2 DEF TurnedTo
  <2> QED BY <2>3
<1>10. ASSUME NEW n \in Nat, n \in D PROVE n + 1 \in D
  <2>1. SUFFICES ASSUME n + 1 <= L PROVE TurnedTo(p, w, g[n + 1], modules, n + 1)
    OBVIOUS
  <2>2. n + 1 \in 1 .. L /\ (n + 1) - 1 = n /\ n <= L /\ n \in 0 .. L
    BY <1>4, <2>1
  <2>3. g[n] \in Turns(p) /\ g[n + 1] = NextTurn(p, modules, g[n]) /\ TurnedTo(p, w, g[n], modules, n)
    BY <1>8, <1>10, <2>2
  <2> HIDE DEF modules
  <2>4. TurnedTo(p, w, NextTurn(p, modules, g[n]), modules, n + 1)
    BY <1>1, <2>3, TurnKeeps DEF modules
  <2> QED BY <2>3, <2>4
<1>11. D = Nat
  <2>1. D \in SUBSET Nat
    OBVIOUS
  <2> HIDE DEF D
  <2> QED BY <1>9, <1>10, <2>1, Counting
<1>12. g[L] \in Turns(p) /\ TurnedTo(p, w, g[L], modules, L)
  BY <1>4, <1>8, <1>11
<1> DEFINE u == g[L].walk
<1>13. u \in CheckWalks(p)
  BY <1>12 DEF Turns
<1>14. ASSUME NEW m \in ToSet(modules) PROVE Right(p, u.known, u.checked[m], m)
  <2>1. CASE component.cyclic
    <3>1. KnownAmong(u.known, C) \in SUBSET C
      BY DEF KnownAmong
    <3>2. Cardinality(KnownAmong(u.known, C)) <= Cardinality(C)
          /\ Cardinality(KnownAmong(u.known, C)) \in Nat
      <4> HIDE DEF C
      <4> QED BY <1>2, <3>1, FS_Subset, FS_CardinalityType
    <3>3. L = 2 + Cardinality(C)
      BY <1>3, <2>1
    <3>4. g[L].settled
      <4>1. SUFFICES ASSUME ~ g[L].settled PROVE FALSE
        OBVIOUS
      <4>2. Cardinality(KnownAmong(u.known, C)) >= L
        BY <1>12, <4>1 DEF TurnedTo
      <4> HIDE DEF C, u
      <4> QED BY <1>2, <3>2, <3>3, <4>2
    <3> QED BY <1>12, <3>4 DEF TurnedTo
  <2>2. CASE ~ component.cyclic
    <3>1. L = 1 /\ 1 \in 1 .. L /\ 1 - 1 = 0
      BY <1>3, <2>2
    <3>2. g[1] = NextTurn(p, modules, g[0]) /\ g[0].walk = w /\ ~ g[0].settled
      BY <1>8, <3>1
    <3>3. u = CheckInOrder(p, w, modules)
      <4> HIDE DEF modules
      <4> QED BY <3>1, <3>2 DEF NextTurn
    <3>4. PassOf(p, w, u, modules)
      <4> HIDE DEF modules, u
      <4> QED BY <1>1, <3>3, PassMade DEF modules
    <3>5. Len(modules) = 1 /\ m \notin ToSet(p[m].imports)
      BY <1>14, <2>2
    <3> QED BY <1>14, <3>4, <3>5 DEF PassOf
  <2> QED BY <2>1, <2>2
<1>15. RightOf(p, w, u, modules)
  BY <1>12, <1>13, <1>14 DEF RightOf, TurnedTo
<1> QED BY <1>6, <1>15 DEF L

-----------------------------------------------------------------------------
(* Checking the components                                                 *)

\* Before anything has been checked, nothing wrong is known or has been found.
LEMMA UnseenWalk ==
    ASSUME NEW p, Readable(p)
    PROVE  Unseen(p) \in CheckWalks(p)
<1>1. Nothing(p) \in Knowings(p)
  BY DEF Nothing, Knowings, TypesOf
<1>2. Typing(p) \in Knowings(p)
  BY TypingGiven
<1>3. Grounded(p, Nothing(p))
  BY <1>1, <1>2, NothingBelow DEF Grounded, Supported, Nothing
<1>4. [m \in Modules |-> [types |-> << >>, rejected |-> FALSE]] \in [Modules -> Findings(p)]
  BY DEF Findings
<1> QED BY <1>1, <1>3, <1>4 DEF Unseen, CheckWalks

\* f is the function that CheckComponents computes by.
IsChecking(f, p, found) ==
    f = [k \in 0 .. Len(found) |->
            IF k = 0 THEN Unseen(p)
            ELSE LET before == f[k - 1] IN Attempts(p, found[k], before, Limit(p, found[k]))]

\* Checking component k finds what is right about it.
LEMMA ComponentChecked ==
    ASSUME NEW p, Readable(p), NEW found \in Seq(ComponentsOver(Modules)), Groups(found, Imports(p)),
           NEW k \in 1 .. Len(found), NEW w \in CheckWalks(p)
    PROVE  RightOf(p, w, Attempts(p, found[k], w, Limit(p, found[k])), found[k].modules)
<1> DEFINE graph == Imports(p)
<1>1. IsGraph(graph) /\ DOMAIN graph = Modules /\ \A m \in Modules : graph[m] = p[m].imports
  BY ImportsGraph DEF Imports
<1>2. found[k] \in ComponentsOver(Modules) /\ IsInjective(found[k].modules)
  BY DEF Groups
<1> HIDE DEF graph
<1>3. \/ found[k].cyclic
      \/ /\ Len(found[k].modules) = 1
         /\ \A m \in ToSet(found[k].modules) : m \notin ToSet(graph[m])
  BY <1>1, CyclicOrAlone DEF graph
<1>4. \A m \in ToSet(found[k].modules) : m \in Modules
  BY <1>2 DEF ComponentsOver, ToSet
<1>5. \/ found[k].cyclic
      \/ /\ Len(found[k].modules) = 1
         /\ \A m \in ToSet(found[k].modules) : m \notin ToSet(p[m].imports)
  BY <1>1, <1>3, <1>4
<1> DEFINE component == found[k]
<1>6. component \in ComponentsOver(Modules) /\ IsInjective(component.modules)
  BY <1>2
<1>7. \/ component.cyclic
      \/ /\ Len(component.modules) = 1
         /\ \A m \in ToSet(component.modules) : m \notin ToSet(p[m].imports)
  BY <1>5
<1> HIDE DEF component
<1>8. RightOf(p, w, Attempts(p, component, w, Limit(p, component)), component.modules)
  BY <1>6, <1>7, AttemptsMade
<1> QED BY <1>8 DEF component

\* The recursion of CheckComponents has a solution.
LEMMA CheckingExists ==
    ASSUME NEW p, Readable(p), NEW found \in Seq(ComponentsOver(Modules)), Groups(found, Imports(p))
    PROVE  \E f : IsChecking(f, p, found)
<1> DEFINE S == CheckWalks(p)
           N == Len(found)
           Turn(n, v) == IF n \in 1 .. N THEN Attempts(p, found[n], v, Limit(p, found[n])) ELSE v
           F == [q \in Nat \X S |-> Turn(q[1], q[2])]
           w == Unseen(p)
<1>0. N \in Nat
  OBVIOUS
<1>1. ASSUME NEW n \in Nat, NEW v \in S PROVE Turn(n, v) \in S
  <2>1. CASE n \in 1 .. N
    <3>1. RightOf(p, v, Attempts(p, found[n], v, Limit(p, found[n])), found[n].modules)
      BY <2>1, ComponentChecked
    <3> QED BY <2>1, <3>1 DEF RightOf
  <2>2. CASE n \notin 1 .. N
    BY <2>2
  <2> QED BY <2>1, <2>2
<1>2. \A q \in Nat \X S : q[1] \in Nat /\ q[2] \in S
  OBVIOUS
<1>3. F \in [Nat \X S -> S]
  <2> HIDE DEF Turn, S
  <2> QED BY <1>1, <1>2
<1>4. \A n \in Nat, v \in S : F[<<n, v>>] = Turn(n, v)
  <2> HIDE DEF Turn, S
  <2> QED OBVIOUS
<1>w. w \in S
  BY UnseenWalk
<1> HIDE DEF F, w
<1>f. PICK f : IsStepping(f, S, F, w, N)
  <2> HIDE DEF S, N
  <2> QED BY <1>0, <1>3, <1>w, StepsExist
<1>5. f \in [0 .. N -> S] /\ f[0] = w /\ \A n \in 1 .. N : f[n] = F[<<n, f[n - 1]>>]
  BY <1>f DEF IsStepping
<1>6. ASSUME NEW n \in 0 .. N
      PROVE  f[n] = IF n = 0 THEN w ELSE Attempts(p, found[n], f[n - 1], Limit(p, found[n]))
  <2>1. CASE n = 0
    BY <1>5, <2>1
  <2>2. CASE n # 0
    <3>1. n \in 1 .. N /\ n - 1 \in 0 .. N /\ n \in Nat
      BY <1>0, <2>2
    <3>2. f[n - 1] \in S /\ f[n] = F[<<n, f[n - 1]>>]
      BY <1>5, <3>1
    <3>3. f[n] = Turn(n, f[n - 1])
      <4> HIDE DEF Turn, S
      <4> QED BY <1>4, <3>1, <3>2
    <3> QED BY <2>2, <3>1, <3>3
  <2> QED BY <2>1, <2>2
<1>7. f = [n \in 0 .. N |-> f[n]]
  BY <1>5
<1>8. IsChecking(f, p, found)
  BY <1>6, <1>7 DEF IsChecking, w
<1> QED BY <1>8

\* What has been found of these modules is right.
RightAbout(p, w, M) == w \in CheckWalks(p) /\ \A m \in M : Right(p, w.known, w.checked[m], m)

\* What has been found of the first components is right, and stays so.
LEMMA FirstChecked ==
    ASSUME NEW p, Readable(p), NEW found \in Seq(ComponentsOver(Modules)), Groups(found, Imports(p)),
           NEW f, IsChecking(f, p, found)
    PROVE  \A k \in 0 .. Len(found) : RightAbout(p, f[k], FirstOf(found, k))
<1> DEFINE N == Len(found)
           C == {k \in Nat : k <= N => RightAbout(p, f[k], FirstOf(found, k))}
<1>0. N \in Nat
  OBVIOUS
<1>1. 0 \in C
  <2>1. f[0] = Unseen(p)
    BY <1>0 DEF IsChecking
  <2>2. FirstOf(found, 0) = {}
    BY DEF FirstOf
  <2>3. RightAbout(p, f[0], FirstOf(found, 0))
    BY <2>1, <2>2, UnseenWalk DEF RightAbout
  <2> QED BY <2>3
<1>2. ASSUME NEW k \in Nat, k \in C PROVE k + 1 \in C
  <2>1. SUFFICES ASSUME k + 1 <= N PROVE RightAbout(p, f[k + 1], FirstOf(found, k + 1))
    OBVIOUS
  <2>2. k + 1 \in 0 .. N /\ k + 1 \in 1 .. N /\ k + 1 # 0 /\ (k + 1) - 1 = k /\ k <= N
    BY <1>0, <2>1
  <2> DEFINE w == f[k]
             u == f[k + 1]
             modules == found[k + 1].modules
             M == FirstOf(found, k)
  <2>3. RightAbout(p, w, M)
    BY <1>2, <2>2
  <2>4. u = Attempts(p, found[k + 1], w, Limit(p, found[k + 1]))
    BY <2>2 DEF IsChecking
  <2>5. w \in CheckWalks(p) /\ \A m \in M : Right(p, w.known, w.checked[m], m)
    BY <2>3 DEF RightAbout
  <2>6. RightOf(p, w, u, modules)
    <3> HIDE DEF w, u
    <3> QED BY <2>2, <2>4, <2>5, ComponentChecked
  <2>7. DOMAIN Imports(p) = Modules /\ \A m \in Modules : Imports(p)[m] = p[m].imports
    BY DEF Imports
  <2>8. M \in SUBSET Modules /\ Closed(Imports(p), M)
    BY <2>2, <2>7, FirstClosed
  <2>9. ASSUME NEW m \in M PROVE m \notin ToSet(modules)
    <3>1. PICK l \in 1 .. k : m \in ToSet(found[l].modules)
      BY DEF FirstOf
    <3>2. l \in 1 .. (k + 1) - 1
      BY <2>2
    <3> QED BY <2>2, <3>1, <3>2 DEF Groups
  <2>10. FirstOf(found, k + 1) = M \cup ToSet(modules)
    <3>1. 1 .. k + 1 = (1 .. k) \cup {k + 1}
      OBVIOUS
    <3> QED BY <3>1 DEF FirstOf
  <2> HIDE DEF M, w, u, modules
  <2>11. ASSUME NEW m \in M PROVE Right(p, u.known, u.checked[m], m)
    <3>1. m \in Modules /\ m \notin ToSet(modules) /\ Right(p, w.known, w.checked[m], m)
      BY <2>5, <2>8, <2>9
    <3>2. u.checked[m] = w.checked[m]
      BY <2>6, <3>1 DEF RightOf
    <3>3. ASSUME NEW c \in AllConstants(p), c[1] = m \/ c[1] \in ToSet(p[m].imports)
          PROVE  u.known[c] = w.known[c]
      <4>1. c[1] \in M
        BY <2>7, <2>8, <3>1, <3>3 DEF Closed
      <4>2. c[1] \notin ToSet(modules)
        BY <2>9, <4>1
      <4> QED BY <2>6, <4>2 DEF RightOf
    <3>4. ASSUME ~ w.checked[m].rejected PROVE Fits(p, u.known, w.checked[m], m)
      <4>1. Fits(p, w.known, w.checked[m], m)
        BY <3>1, <3>4 DEF Right
      <4> QED BY <3>1, <3>3, <4>1, FitsKept
    <3> QED BY <3>1, <3>2, <3>4 DEF Right
  <2>12. u \in CheckWalks(p) /\ \A m \in ToSet(modules) : Right(p, u.known, u.checked[m], m)
    BY <2>6 DEF RightOf
  <2>13. RightAbout(p, u, FirstOf(found, k + 1))
    BY <2>10, <2>11, <2>12 DEF RightAbout
  <2> QED BY <2>13 DEF u
<1>3. C = Nat
  <2>1. C \in SUBSET Nat
    OBVIOUS
  <2> HIDE DEF C
  <2> QED BY <1>1, <1>2, <2>1, Counting
<1> QED BY <1>0, <1>3

\* When all components have been checked, what has been found is right about every module.
LEMMA AllChecked ==
    ASSUME NEW p, Readable(p)
    PROVE  RightAbout(p, CheckComponents(p, Components(Paths, Imports(p))), Modules)
<1> DEFINE graph == Imports(p)
           found == Components(Paths, graph)
           f == CHOOSE g : IsChecking(g, p, found)
<1>1. IsGraph(graph) /\ DOMAIN graph = Modules
  BY ImportsGraph
<1>2. Paths \in Seq(DOMAIN graph) /\ ToSet(Paths) = DOMAIN graph
  BY <1>1, ModulesFinite DEF Modules
<1> HIDE DEF graph
<1>3. /\ found \in Seq(ComponentsOver(Modules))
      /\ Groups(found, graph)
      /\ Gathered(found) = {m \in DOMAIN graph : \E r \in ToSet(Paths) : Path(graph, r, m)}
  BY <1>1, <1>2, ComponentsFound
<1> HIDE DEF found
<1>4. Gathered(found) = Modules
  BY <1>1, <1>2, <1>3, PathReflexive
<1>5. FirstOf(found, Len(found)) = Modules
  <2>1. DOMAIN found = 1 .. Len(found)
    BY <1>3
  <2> QED BY <1>4, <2>1 DEF Gathered, FirstOf
<1>6. Groups(found, Imports(p))
  BY <1>3 DEF graph
<1>7. IsChecking(f, p, found)
  BY <1>3, <1>6, CheckingExists
<1>8. CheckComponents(p, found) = f[Len(found)]
  BY DEF CheckComponents, IsChecking
<1> HIDE DEF f
<1>9. RightAbout(p, f[Len(found)], FirstOf(found, Len(found)))
  <2>1. Len(found) \in 0 .. Len(found)
    BY <1>3
  <2> QED BY <1>3, <1>6, <1>7, <2>1, FirstChecked
<1>10. RightAbout(p, CheckComponents(p, found), Modules)
  BY <1>5, <1>8, <1>9
<1> QED BY <1>10 DEF found, graph

\* An accepted project is well typed, its constants have been given the types they have as a
\* whole, and a well-typed project is accepted.
AcceptedWhenTyped(p, checked, rejected) ==
    /\ (rejected = {}) = WellTyped(p, Typing(p))
    /\ rejected = {} => /\ \A c \in AllConstants(p) : checked[c[1]].types[c[2]] = Typing(p)[c]
                        /\ \A m \in Modules : checked[m].types = TypesIn(p, Typing(p), m)

\* When what has been found is right, the modules rejected and the types left open are those
\* that a project is not well typed for.
LEMMA RightAccepted ==
    ASSUME NEW p, Readable(p), NEW after, RightAbout(p, after, Modules), NEW components,
           components = Components(Paths, Imports(p)), NEW open,
           open = UNION {Unresolved(p, c, after.checked) : c \in ToSet(components)}
    PROVE  AcceptedWhenTyped(p, after.checked, Rejected([checked |-> after.checked, open |-> open]))
<1> DEFINE R == Typing(p)
           A == AllConstants(p)
           checked == after.checked
           known == after.known
           rejected == Rejected([checked |-> checked, open |-> open])
           graph == Imports(p)
<1>1. /\ Grounded(p, known)
      /\ DOMAIN checked = Modules
      /\ \A m \in Modules : Right(p, known, checked[m], m)
  BY DEF RightAbout, CheckWalks
<1>2. rejected = open \cup {m \in Modules : checked[m].rejected}
  BY <1>1 DEF Rejected
<1>3. IsGraph(graph) /\ DOMAIN graph = Modules
  BY ImportsGraph
<1>4. Paths \in Seq(DOMAIN graph) /\ ToSet(Paths) = DOMAIN graph
  BY <1>3, ModulesFinite DEF Modules
<1>5. /\ components \in Seq(ComponentsOver(DOMAIN graph))
      /\ Groups(components, graph)
      /\ Gathered(components) = {m \in DOMAIN graph : \E r \in ToSet(Paths) : Path(graph, r, m)}
  BY <1>3, <1>4, ComponentsFound
<1>6. Gathered(components) = Modules
  <2> HIDE DEF graph
  <2> QED BY <1>3, <1>4, <1>5, PathReflexive
<1>7. \A i \in DOMAIN components : \A m \in ToSet(components[i].modules) :
          components[i].cyclic = OnCycle(graph, m)
  BY <1>3, <1>4, ComponentsDivide
<1>8. ToSet(components) = {components[i] : i \in DOMAIN components}
  BY <1>5 DEF ToSet
<1> HIDE DEF rejected, R, known, checked, graph
<1>9. ASSUME NEW c \in A
      PROVE  /\ c[1] \in Modules /\ c[2] \in DOMAIN p[c[1]].constants /\ c = <<c[1], c[2]>>
             /\ Constant(p, c) = p[c[1]].constants[c[2]]
  BY DEF AllConstants, ConstantsOf, Constant
<1>10. ASSUME NEW m \in Modules, NEW i \in DOMAIN p[m].constants
       PROVE  /\ <<m, i>> \in A /\ Constant(p, <<m, i>>) = p[m].constants[i]
              /\ <<m, i>>[1] = m /\ <<m, i>>[2] = i
  BY DEF AllConstants, ConstantsOf, Constant
<1>11. ASSUME \A m \in Modules : ~ checked[m].rejected
       PROVE  /\ \A c \in A : checked[c[1]].types[c[2]] = R[c] /\ Admitted(p, R, Constant(p, c))
              /\ \A m \in Modules : checked[m].types = TypesIn(p, R, m)
  <2>1. \A m \in Modules : Fits(p, known, checked[m], m)
    BY <1>1, <1>11 DEF Right
  <2> QED BY <1>1, <2>1, FitsTyping DEF R
<1>12. ASSUME rejected = {}
       PROVE  /\ WellTyped(p, R)
              /\ \A c \in A : checked[c[1]].types[c[2]] = R[c]
              /\ \A m \in Modules : checked[m].types = TypesIn(p, R, m)
  <2>1. \A m \in Modules : ~ checked[m].rejected
    BY <1>2, <1>12
  <2>2. /\ \A c \in A : checked[c[1]].types[c[2]] = R[c] /\ Admitted(p, R, Constant(p, c))
        /\ \A m \in Modules : checked[m].types = TypesIn(p, R, m)
    BY <1>11, <2>1
  <2>3. ASSUME NEW c \in A, Constant(p, c).type = Inferred, OnCycle(graph, c[1])
        PROVE  R[c] # Unknown
    <3>1. SUFFICES ASSUME R[c] = Unknown PROVE FALSE
      OBVIOUS
    <3>2. /\ c[1] \in Modules /\ c[2] \in DOMAIN p[c[1]].constants
          /\ Constant(p, c) = p[c[1]].constants[c[2]]
      BY <1>9
    <3>3. PICK i \in DOMAIN components : c[1] \in ToSet(components[i].modules)
      BY <1>6, <3>2 DEF Gathered
    <3>4. components[i].cyclic
      BY <1>7, <2>3, <3>3
    <3>5. checked[c[1]].types[c[2]] = Unknown
      BY <2>2, <3>1
    <3>6. c[1] \in Unresolved(p, components[i], checked)
      BY <2>3, <3>2, <3>3, <3>4, <3>5 DEF Unresolved
    <3>7. c[1] \in open
      BY <1>8, <3>6 DEF checked
    <3> QED BY <1>2, <1>12, <3>7
  <2> QED BY <2>2, <2>3 DEF WellTyped, graph
<1>13. ASSUME WellTyped(p, R) PROVE rejected = {}
  <2>1. \A m \in Modules : ~ checked[m].rejected
    BY <1>1, <1>13 DEF Right, R
  <2>2. \A c \in A : checked[c[1]].types[c[2]] = R[c]
    BY <1>11, <2>1
  <2>3. ASSUME NEW m \in open PROVE FALSE
    <3>1. PICK k \in DOMAIN components : m \in Unresolved(p, components[k], checked)
      BY <1>8, <2>3 DEF checked
    <3>2. m \in ToSet(components[k].modules) /\ components[k].cyclic
      BY <3>1 DEF Unresolved
    <3>3. PICK i \in DOMAIN p[m].constants :
              p[m].constants[i].type = Inferred /\ checked[m].types[i] = Unknown
      BY <3>1 DEF Unresolved
    <3>4. m \in Modules /\ OnCycle(graph, m)
      BY <1>6, <1>7, <3>2 DEF Gathered
    <3>5. /\ <<m, i>> \in A /\ Constant(p, <<m, i>>) = p[m].constants[i]
          /\ <<m, i>>[1] = m /\ <<m, i>>[2] = i
      BY <1>10, <3>4
    <3> DEFINE c == <<m, i>>
    <3>6. c \in A /\ Constant(p, c).type = Inferred /\ c[1] = m /\ c[2] = i
      BY <3>3, <3>5
    <3> HIDE DEF c
    <3>7. R[c] # Unknown
      BY <1>13, <3>4, <3>6 DEF WellTyped, graph
    <3>8. checked[c[1]].types[c[2]] = R[c]
      BY <2>2, <3>6
    <3> QED BY <3>3, <3>6, <3>7, <3>8
  <2> QED BY <1>2, <2>1, <2>3
<1>14. (rejected = {}) = WellTyped(p, R)
  <2>1. WellTyped(p, R) \in BOOLEAN
    BY DEF WellTyped
  <2> QED BY <1>12, <1>13, <2>1
<1>15. AcceptedWhenTyped(p, checked, rejected)
  BY <1>12, <1>14 DEF AcceptedWhenTyped, R
<1> QED BY <1>15 DEF rejected, checked

\* CheckProjectComponents accepts the projects that are well typed.
LEMMA CheckedProjectAccepted ==
    ASSUME NEW p, Readable(p), NEW found, found = CheckProjectComponents(p)
    PROVE  AcceptedWhenTyped(p, found.checked, Rejected(found))
<1> DEFINE components == Components(Paths, Imports(p))
           after == CheckComponents(p, components)
           open == UNION {Unresolved(p, c, after.checked) : c \in ToSet(components)}
<1>1. found = [checked |-> after.checked, open |-> open]
  BY DEF CheckProjectComponents
<1>2. RightAbout(p, after, Modules)
  BY AllChecked
<1>3. components = Components(Paths, Imports(p))
  OBVIOUS
<1> HIDE DEF components, after
<1>4. open = UNION {Unresolved(p, c, after.checked) : c \in ToSet(components)}
  OBVIOUS
<1> HIDE DEF open
<1>5. AcceptedWhenTyped(p, after.checked, Rejected([checked |-> after.checked, open |-> open]))
  BY <1>2, <1>3, <1>4, RightAccepted
<1>6. found.checked = after.checked
  BY <1>1
<1> QED BY <1>1, <1>5, <1>6

-----------------------------------------------------------------------------
(* What checking finds where no import leads back                          *)

\* A definition depends on the types of others by what it reads.
LEMMA ReadsSame ==
    ASSUME NEW p, NEW q, NEW t, NEW u, NEW constant,
           Seen(p, t, constant.reads) = Seen(q, u, constant.reads)
    PROVE  /\ TypeOf(p, t, constant) = TypeOf(q, u, constant)
           /\ Given(p, t, constant) = Given(q, u, constant)
           /\ Admitted(p, t, constant) <=> Admitted(q, u, constant)
<1>1. Admitted(p, t, constant) <=> Admitted(q, u, constant)
  BY DEF Admitted
<1>2. Given(p, t, constant) = Given(q, u, constant)
  BY DEF Given
<1>3. TypeOf(p, t, constant) = TypeOf(q, u, constant)
  BY <1>1 DEF TypeOf
<1> QED BY <1>1, <1>2, <1>3

\* The constants of m have the types that checks find when the types are t.
Settled(p, t, m) == \A c \in ConstantsOf(p, m) : t[c] = TypeOf(p, t, Constant(p, c))

\* Some constant of m is not admitted when the types are t.
Refused(p, t, m) == \E c \in ConstantsOf(p, m) : ~ Admitted(p, t, Constant(p, c))

\* What has been found of m is what the types t say of it, rejections included.
Exact(p, t, checked, m) ==
    /\ Settled(p, t, m)
    /\ checked = [types |-> TypesIn(p, t, m), rejected |-> Refused(p, t, m)]

\* A check of a module that does not import itself and is not known yet is exact.
LEMMA ModuleExact ==
    ASSUME NEW p, Readable(p), NEW m \in Modules, m \notin ToSet(p[m].imports),
           NEW known \in Knowings(p), \A c \in AllConstants(p) : c[1] = m => known[c] = Unknown
    PROVE  Exact(p, Learnt(known, m, CheckModule(p, known, m)), CheckModule(p, known, m), m)
<1> DEFINE n == Len(p[m].constants)
           checked == CheckModule(p, known, m)
           types == checked.types
           after == Learnt(known, m, checked)
<1>0. n \in Nat
  BY ConstantPlaces
<1>1. PICK f : /\ IsFinding(f, p, known, m)
               /\ checked = [types    |-> [i \in 1 .. n |-> f[i][<<m, i>>]],
                             rejected |-> \E i \in 1 .. n : ~ Admitted(p, f[i - 1], p[m].constants[i])]
  BY CheckedBy
<1>2. /\ \A i \in 1 .. n : f[i] = FoundNext(p, f[i - 1], m, i)
      /\ \A i \in 0 .. n : f[i] \in Knowings(p)
  BY <1>1, FindingSteps
<1>3. \A i \in 0 .. n : \A c \in AllConstants(p) :
          f[i][c] = IF Early(c, m, i) THEN f[c[2]][c] ELSE known[c]
  BY <1>1, FindingKeeps
<1>4. \A i \in 1 .. n : types[i] = f[i][<<m, i>>]
  BY <1>1
<1>5. after = [c \in AllConstants(p) |-> IF c[1] = m /\ types[c[2]] # Unknown THEN types[c[2]] ELSE known[c]]
  BY DEF Learnt, Knowings
<1>6. checked = [types |-> [i \in 1 .. n |-> f[i][<<m, i>>]],
                 rejected |-> \E i \in 1 .. n : ~ Admitted(p, f[i - 1], p[m].constants[i])]
  BY <1>1
<1> HIDE DEF checked, types, after
<1>7. ASSUME NEW c \in AllConstants(p), c[1] = m
      PROVE  /\ c[2] \in 1 .. n /\ c[2] - 1 \in 0 .. n /\ c = <<m, c[2]>>
             /\ Constant(p, c) = p[m].constants[c[2]]
             /\ types[c[2]] = f[c[2]][c]
             /\ types[c[2]] = TypeOf(p, f[c[2] - 1], Constant(p, c))
  <2>1. c = <<m, c[2]>> /\ c[2] \in 1 .. n /\ Constant(p, c) = p[m].constants[c[2]]
    BY <1>7, ConstantIs
  <2> DEFINE i == c[2]
  <2>2. i \in 1 .. n /\ i - 1 \in 0 .. n
    BY <1>0, <2>1
  <2>3. c = <<m, i>>
    BY <2>1
  <2> HIDE DEF i
  <2>4. types[i] = f[i][c]
    BY <1>4, <2>2, <2>3
  <2>5. f[i] = FoundNext(p, f[i - 1], m, i) /\ f[i - 1] \in Knowings(p)
    BY <1>2, <2>2
  <2>6. f[i][c] = TypeOf(p, f[i - 1], Constant(p, c))
    BY <2>2, <2>3, <2>5, FoundNextAt
  <2> QED BY <2>1, <2>2, <2>4, <2>6 DEF i
<1>8. ASSUME NEW c \in AllConstants(p)
      PROVE  after[c] = IF c[1] = m THEN types[c[2]] ELSE known[c]
  BY <1>5
<1>9. ASSUME NEW c \in AllConstants(p), c[1] = m
      PROVE  Seen(p, f[c[2] - 1], Constant(p, c).reads) = Seen(p, after, Constant(p, c).reads)
  <2> DEFINE d == Constant(p, c).reads
             i == c[2] - 1
  <2>1. c[2] \in 1 .. n /\ i \in 0 .. n
    BY <1>7, <1>9
  <2>2. ASSUME d \in AllConstants(p) PROVE f[i][d] = after[d]
    <3>1. d[2] \in Nat /\ (d[1] \in ToSet(p[m].imports) \/ (d[1] = m /\ d[2] < c[2]))
      BY <1>9, <2>2, ReadFrom
    <3> HIDE DEF d
    <3>2. CASE d[1] # m
      <4>1. ~ Early(d, m, i)
        BY <3>2 DEF Early
      <4> QED BY <1>3, <1>8, <2>1, <2>2, <3>2, <4>1
    <3>3. CASE d[1] = m /\ d[2] < c[2]
      <4>1. Early(d, m, i)
        BY <2>1, <3>1, <3>3 DEF Early
      <4>2. f[i][d] = f[d[2]][d]
        BY <1>3, <2>1, <2>2, <4>1
      <4>3. types[d[2]] = f[d[2]][d]
        BY <1>7, <2>2, <3>3
      <4> QED BY <1>8, <2>2, <3>3, <4>2, <4>3
    <3> QED BY <3>1, <3>2, <3>3
  <2>3. Seen(p, f[i], d) = Seen(p, after, d)
    <3> HIDE DEF d, i
    <3> QED BY <2>2 DEF Seen
  <2> QED BY <2>3
<1>10. ASSUME NEW c \in AllConstants(p), c[1] = m
       PROVE  /\ after[c] = TypeOf(p, after, Constant(p, c))
              /\ Admitted(p, f[c[2] - 1], Constant(p, c)) <=> Admitted(p, after, Constant(p, c))
  <2> DEFINE t == f[c[2] - 1]
             k == Constant(p, c)
  <2>1. Seen(p, t, k.reads) = Seen(p, after, k.reads)
    BY <1>9, <1>10
  <2>2. types[c[2]] = TypeOf(p, t, k)
    BY <1>7, <1>10
  <2>3. after[c] = types[c[2]]
    BY <1>8, <1>10
  <2> HIDE DEF t, k
  <2>4. TypeOf(p, t, k) = TypeOf(p, after, k) /\ (Admitted(p, t, k) <=> Admitted(p, after, k))
    BY <2>1, ReadsSame
  <2> QED BY <2>2, <2>3, <2>4 DEF t, k
<1>11. \A c \in ConstantsOf(p, m) : c \in AllConstants(p) /\ c[1] = m
  BY DEF AllConstants, ConstantsOf
<1>12. ASSUME NEW i \in 1 .. n
       PROVE  /\ <<m, i>> \in ConstantsOf(p, m) /\ <<m, i>> \in AllConstants(p)
              /\ Constant(p, <<m, i>>) = p[m].constants[i]
              /\ <<m, i>>[1] = m /\ <<m, i>>[2] = i
  <2>1. <<m, i>> \in AllConstants(p) /\ Constant(p, <<m, i>>) = p[m].constants[i]
    BY ConstantAt
  <2>2. <<m, i>> \in ConstantsOf(p, m)
    BY ConstantPlaces
  <2> QED BY <2>1, <2>2
<1>13. [i \in 1 .. n |-> f[i][<<m, i>>]] = TypesIn(p, after, m)
  <2>1. ASSUME NEW i \in 1 .. n PROVE f[i][<<m, i>>] = after[<<m, i>>]
    <3> DEFINE c == <<m, i>>
    <3>1. c \in AllConstants(p) /\ c[1] = m /\ c[2] = i
      BY <1>12
    <3> HIDE DEF c
    <3>2. after[c] = types[i]
      BY <1>8, <3>1
    <3> QED BY <1>4, <3>2 DEF c
  <2> QED BY <2>1 DEF TypesIn
<1>14. (\E i \in 1 .. n : ~ Admitted(p, f[i - 1], p[m].constants[i])) <=> Refused(p, after, m)
  <2>1. ASSUME NEW i \in 1 .. n
        PROVE  Admitted(p, f[i - 1], p[m].constants[i]) <=> Admitted(p, after, Constant(p, <<m, i>>))
    <3> DEFINE c == <<m, i>>
    <3>1. c \in AllConstants(p) /\ c[1] = m /\ c[2] = i /\ Constant(p, c) = p[m].constants[i]
      BY <1>12
    <3> HIDE DEF c
    <3> QED BY <1>10, <3>1 DEF c
  <2>2. ConstantsOf(p, m) = {<<m, i>> : i \in 1 .. n}
    BY ConstantPlaces
  <2> QED BY <2>1, <2>2 DEF Refused
<1>15. checked = [types |-> TypesIn(p, after, m), rejected |-> Refused(p, after, m)]
  <2>1. (\E i \in 1 .. n : ~ Admitted(p, f[i - 1], p[m].constants[i])) = Refused(p, after, m)
    <3>1. Refused(p, after, m) \in BOOLEAN
      BY DEF Refused
    <3> QED BY <1>14, <3>1
  <2> QED BY <1>6, <1>13, <2>1
<1>16. Settled(p, after, m)
  BY <1>10, <1>11 DEF Settled
<1>17. Exact(p, after, checked, m)
  BY <1>15, <1>16 DEF Exact
<1> QED BY <1>17 DEF after, checked

\* It stays so as long as nothing is learnt about what the module reads.
LEMMA ExactKept ==
    ASSUME NEW p, Readable(p), NEW m \in Modules, NEW known, NEW after, NEW checked,
           Exact(p, known, checked, m),
           \A c \in AllConstants(p) :
               c[1] = m \/ c[1] \in ToSet(p[m].imports) => after[c] = known[c]
    PROVE  Exact(p, after, checked, m)
<1>1. ASSUME NEW c \in ConstantsOf(p, m)
      PROVE  /\ after[c] = TypeOf(p, after, Constant(p, c))
             /\ Admitted(p, after, Constant(p, c)) <=> Admitted(p, known, Constant(p, c))
  <2> DEFINE k == Constant(p, c)
  <2>1. c \in AllConstants(p) /\ c[1] = m
    BY DEF AllConstants, ConstantsOf
  <2>2. known[c] = TypeOf(p, known, k)
    BY DEF Exact, Settled
  <2>3. after[c] = known[c]
    BY <2>1
  <2>4. k.reads \in AllConstants(p) => after[k.reads] = known[k.reads]
    BY <2>1, ReadFrom
  <2> HIDE DEF k
  <2>5. Seen(p, after, k.reads) = Seen(p, known, k.reads)
    BY <2>4 DEF Seen
  <2>6. TypeOf(p, after, k) = TypeOf(p, known, k) /\ (Admitted(p, after, k) <=> Admitted(p, known, k))
    BY <2>5, ReadsSame
  <2> QED BY <2>2, <2>3, <2>6 DEF k
<1>2. TypesIn(p, after, m) = TypesIn(p, known, m)
  <2>1. ASSUME NEW i \in 1 .. Len(p[m].constants) PROVE after[<<m, i>>] = known[<<m, i>>]
    BY ConstantAt
  <2> QED BY <2>1 DEF TypesIn
<1>3. Refused(p, after, m) = Refused(p, known, m)
  BY <1>1 DEF Refused
<1>4. Settled(p, after, m)
  BY <1>1 DEF Settled
<1> QED BY <1>2, <1>3, <1>4 DEF Exact

\* f takes the modules one after the other.
Takes(f, p, modules) ==
    /\ f[0] \in CheckWalks(p)
    /\ \A j \in 1 .. Len(modules) : f[j] = CheckInTurn(p, f[j - 1], modules[j])

\* What a module of the sequence imports comes before it, if it is there at all.
ImportsFirst(p, modules) ==
    \A i, j \in 1 .. Len(modules) : modules[i] \in ToSet(p[modules[j]].imports) => i < j

\* What has been found of the first n modules is exact, the rest is as it was.
ExactAfter(f, p, modules, n) ==
    /\ f[n] \in CheckWalks(p)
    /\ \A c \in AllConstants(p) :
           (\A j \in 1 .. n : modules[j] # c[1]) => f[n].known[c] = f[0].known[c]
    /\ \A m \in Modules : (\A j \in 1 .. n : modules[j] # m) => f[n].checked[m] = f[0].checked[m]
    /\ \A j \in 1 .. n : Exact(p, f[n].known, f[n].checked[modules[j]], modules[j])

\* It is so after each of them, when imports come first and no module is taken twice.
LEMMA TakenExact ==
    ASSUME NEW p, Readable(p), NEW modules \in Seq(Modules), IsInjective(modules),
           ImportsFirst(p, modules), NEW f, Takes(f, p, modules),
           \A c \in AllConstants(p) : c[1] \in ToSet(modules) => f[0].known[c] = Unknown
    PROVE  \A n \in 0 .. Len(modules) : ExactAfter(f, p, modules, n)
<1> DEFINE N == Len(modules)
           C == {n \in Nat : n <= N => ExactAfter(f, p, modules, n)}
<1>0. N \in Nat /\ DOMAIN modules = 1 .. N /\ \A j \in 1 .. N : modules[j] \in Modules
  OBVIOUS
<1>1. 0 \in C
  <2>1. ExactAfter(f, p, modules, 0)
    BY DEF ExactAfter, Takes
  <2> QED BY <2>1
<1>2. ASSUME NEW n \in Nat, n \in C PROVE n + 1 \in C
  <2>1. SUFFICES ASSUME n + 1 <= N PROVE ExactAfter(f, p, modules, n + 1)
    OBVIOUS
  <2> DEFINE w == f[n]
             u == f[n + 1]
             m == modules[n + 1]
  <2>2. n + 1 \in 1 .. N /\ (n + 1) - 1 = n /\ n <= N /\ m \in Modules
    BY <1>0, <2>1
  <2>3. ExactAfter(f, p, modules, n)
    BY <1>2, <2>2
  <2>4. u = CheckInTurn(p, w, m) /\ w \in CheckWalks(p)
    BY <2>2, <2>3 DEF Takes, ExactAfter
  <2>5. TurnOf(p, w, u, m)
    <3> HIDE DEF w, u, m
    <3> QED BY <2>2, <2>4, CheckedInTurn
  <2>6. m \notin ToSet(p[m].imports)
    BY <2>2 DEF ImportsFirst
  <2>7. \A j \in 1 .. n : j \in 1 .. N /\ modules[j] # m /\ m \notin ToSet(p[modules[j]].imports)
    <3> SUFFICES ASSUME NEW j \in 1 .. n
                 PROVE  j \in 1 .. N /\ modules[j] # m /\ m \notin ToSet(p[modules[j]].imports)
      OBVIOUS
    <3>1. j \in 1 .. N /\ j # n + 1 /\ ~ (n + 1 < j)
      BY <2>2
    <3>2. modules[j] # m
      BY <1>0, <2>2, <3>1 DEF IsInjective
    <3>3. m \notin ToSet(p[modules[j]].imports)
      BY <2>2, <3>1 DEF ImportsFirst
    <3> QED BY <3>1, <3>2, <3>3
  <2>8. /\ u \in CheckWalks(p)
        /\ u.checked[m] = CheckModule(p, w.known, m)
        /\ \A c \in AllConstants(p) : c[1] # m => u.known[c] = w.known[c]
        /\ \A l \in Modules : l # m => u.checked[l] = w.checked[l]
    BY <2>5 DEF TurnOf, Checked
  <2>9. u.known = Learnt(w.known, m, CheckModule(p, w.known, m))
    BY <2>4 DEF CheckInTurn
  <2>10. w.known \in Knowings(p)
    BY <2>4 DEF CheckWalks
  <2>11. ASSUME NEW c \in AllConstants(p), c[1] = m PROVE w.known[c] = Unknown
    <3>1. \A j \in 1 .. n : modules[j] # c[1]
      BY <2>7, <2>11
    <3>2. w.known[c] = f[0].known[c]
      BY <2>3, <3>1 DEF ExactAfter
    <3>3. c[1] \in ToSet(modules)
      BY <1>0, <2>2, <2>11 DEF ToSet
    <3> QED BY <3>2, <3>3
  <2>12. Exact(p, u.known, u.checked[m], m)
    <3> HIDE DEF w, u, m
    <3>1. Exact(p, Learnt(w.known, m, CheckModule(p, w.known, m)), CheckModule(p, w.known, m), m)
      BY <2>2, <2>6, <2>10, <2>11, ModuleExact
    <3> QED BY <2>8, <2>9, <3>1
  <2>13. ASSUME NEW j \in 1 .. n PROVE Exact(p, u.known, u.checked[modules[j]], modules[j])
    <3> DEFINE l == modules[j]
    <3>1. l \in Modules /\ l # m /\ m \notin ToSet(p[l].imports)
      BY <1>0, <2>7
    <3>2. Exact(p, w.known, w.checked[l], l)
      BY <2>3 DEF ExactAfter
    <3> HIDE DEF w, u, m, l
    <3>3. \A c \in AllConstants(p) :
              c[1] = l \/ c[1] \in ToSet(p[l].imports) => u.known[c] = w.known[c]
      BY <2>8, <3>1
    <3>4. u.checked[l] = w.checked[l]
      BY <2>8, <3>1
    <3>5. Exact(p, u.known, w.checked[l], l)
      BY <3>1, <3>2, <3>3, ExactKept
    <3> QED BY <3>4, <3>5 DEF l
  <2>14. \A j \in 1 .. n + 1 : j \in 1 .. n \/ j = n + 1
    BY <2>2
  <2>15. \A j \in 1 .. n + 1 : Exact(p, u.known, u.checked[modules[j]], modules[j])
    BY <2>12, <2>13, <2>14
  <2>16. ASSUME NEW c \in AllConstants(p), \A j \in 1 .. n + 1 : modules[j] # c[1]
         PROVE  u.known[c] = f[0].known[c]
    <3>1. c[1] # m /\ \A j \in 1 .. n : modules[j] # c[1]
      BY <2>2, <2>16
    <3>2. u.known[c] = w.known[c]
      BY <2>8, <3>1
    <3>3. w.known[c] = f[0].known[c]
      BY <2>3, <3>1 DEF ExactAfter
    <3> QED BY <3>2, <3>3
  <2>17. ASSUME NEW l \in Modules, \A j \in 1 .. n + 1 : modules[j] # l
         PROVE  u.checked[l] = f[0].checked[l]
    <3>1. l # m /\ \A j \in 1 .. n : modules[j] # l
      BY <2>2, <2>17
    <3>2. u.checked[l] = w.checked[l]
      BY <2>8, <3>1
    <3>3. w.checked[l] = f[0].checked[l]
      BY <2>3, <3>1 DEF ExactAfter
    <3> QED BY <3>2, <3>3
  <2> QED BY <2>8, <2>15, <2>16, <2>17 DEF ExactAfter
<1>3. C = Nat
  <2>1. C \in SUBSET Nat
    OBVIOUS
  <2> HIDE DEF C
  <2> QED BY <1>1, <1>2, <2>1, Counting
<1> QED BY <1>0, <1>3

\* CheckInOrder takes the modules so.
LEMMA InOrderTakes ==
    ASSUME NEW p, Readable(p), NEW w \in CheckWalks(p), NEW modules \in Seq(Modules)
    PROVE  \E f : /\ f[0] = w
                  /\ Takes(f, p, modules)
                  /\ CheckInOrder(p, w, modules) = f[Len(modules)]
<1> DEFINE f == CHOOSE g : IsOrdered(g, p, w, modules)
           N == Len(modules)
<1>1. IsOrdered(f, p, w, modules)
  BY OrderedExists
<1>2. CheckInOrder(p, w, modules) = f[N]
  BY DEF CheckInOrder, IsOrdered
<1> HIDE DEF f
<1>3. N \in Nat
  OBVIOUS
<1>4. f[0] = w
  BY <1>1, <1>3 DEF IsOrdered
<1>5. ASSUME NEW j \in 1 .. N PROVE f[j] = CheckInTurn(p, f[j - 1], modules[j])
  <2>1. j \in 0 .. N /\ j # 0
    BY <1>3
  <2> QED BY <1>1, <2>1 DEF IsOrdered
<1> QED BY <1>2, <1>4, <1>5 DEF Takes

\* A component that is not cyclic is checked once.
LEMMA AttemptsOnce ==
    ASSUME NEW p, Readable(p), NEW w \in CheckWalks(p), NEW component, component.cyclic = FALSE,
           NEW m \in Modules, component.modules = <<m>>
    PROVE  Attempts(p, component, w, Limit(p, component)) = CheckInTurn(p, w, m)
<1> DEFINE modules == component.modules
           g == CHOOSE h : IsTurns(h, p, modules, w, 1)
<1>1. modules \in Seq(Modules) /\ IsInjective(modules) /\ Len(modules) = 1 /\ modules[1] = m
  BY DEF IsInjective
<1> HIDE DEF modules
<1>2. IsTurns(g, p, modules, w, 1)
  BY <1>1, TurnsExist
<1>3. Limit(p, component) = 1
  BY DEF Limit
<1>4. Attempts(p, component, w, 1) = g[1].walk
  BY DEF Attempts, IsTurns, modules
<1> HIDE DEF g
<1>5. TurnsFrom(g, p, modules, w, 1)
  BY <1>1, <1>2, TurnsSolved
<1>6. g[0] = [walk |-> w, settled |-> FALSE] /\ g[1] = NextTurn(p, modules, g[0])
  BY <1>5 DEF TurnsFrom
<1>7. g[1].walk = CheckInOrder(p, w, modules)
  BY <1>6 DEF NextTurn
<1>8. PICK f : f[0] = w /\ Takes(f, p, modules) /\ CheckInOrder(p, w, modules) = f[Len(modules)]
  BY <1>1, InOrderTakes
<1>9. f[1] = CheckInTurn(p, f[1 - 1], modules[1])
  BY <1>1, <1>8 DEF Takes
<1> QED BY <1>1, <1>3, <1>4, <1>7, <1>8, <1>9

\* All the modules of p once, imports first
IsImportOrder(p, s) ==
    s \in Seq(Modules) /\ IsInjective(s) /\ ToSet(s) = Modules /\ ImportsFirst(p, s)

\* s has the modules of these components, which are no cycles.
Alone(found, s) ==
    /\ Len(found) = Len(s)
    /\ \A k \in 1 .. Len(s) : found[k].cyclic = FALSE /\ found[k].modules = <<s[k]>>

\* Without import cycles every component is one module.
LEMMA ComponentsAlone ==
    ASSUME NEW p, Readable(p), CyclicComponents(p) = {}
    PROVE  \E s : IsImportOrder(p, s) /\ Alone(Components(Paths, Imports(p)), s)
<1> DEFINE graph == Imports(p)
           found == Components(Paths, graph)
           N == Len(found)
           s == [k \in 1 .. N |-> found[k].modules[1]]
<1>1. IsGraph(graph) /\ DOMAIN graph = Modules /\ \A m \in Modules : graph[m] = p[m].imports
  BY ImportsGraph DEF Imports
<1>2. Paths \in Seq(DOMAIN graph) /\ ToSet(Paths) = DOMAIN graph
  BY <1>1, ModulesFinite DEF Modules
<1>3. CyclicComponents(p) = {c \in ToSet(found) : c.cyclic}
  BY DEF CyclicComponents
<1> HIDE DEF graph
<1>4. /\ found \in Seq(ComponentsOver(DOMAIN graph))
      /\ Groups(found, graph)
      /\ Gathered(found) = {m \in DOMAIN graph : \E r \in ToSet(Paths) : Path(graph, r, m)}
  BY <1>1, <1>2, ComponentsFound
<1> HIDE DEF found
<1>5. Gathered(found) = Modules
  BY <1>1, <1>2, <1>4, PathReflexive
<1>6. N \in Nat /\ DOMAIN found = 1 .. N /\ \A k \in 1 .. N : found[k] \in ComponentsOver(Modules)
  BY <1>1, <1>4
<1>7. ASSUME NEW k \in 1 .. N
      PROVE  /\ found[k].cyclic = FALSE
             /\ found[k].modules = <<s[k]>>
             /\ s[k] \in Modules
             /\ s[k] \notin ToSet(p[s[k]].imports)
             /\ ToSet(found[k].modules) = {s[k]}
  <2>1. found[k].modules \in Seq(Modules) /\ found[k].cyclic \in BOOLEAN
    BY <1>6 DEF ComponentsOver
  <2>2. found[k] \in ToSet(found)
    BY <1>6 DEF ToSet
  <2>3. found[k].cyclic = FALSE
    BY <1>3, <2>1, <2>2
  <2>4. /\ Len(found[k].modules) = 1
        /\ \A m \in ToSet(found[k].modules) : m \notin ToSet(graph[m])
    BY <1>1, <1>4, <2>3, CyclicOrAlone
  <2> DEFINE x == found[k].modules
             e == s[k]
  <2>5. x \in Seq(Modules) /\ Len(x) = 1 /\ e = x[1]
    BY <2>1, <2>4
  <2> HIDE DEF x, e
  <2>6. x = <<e>> /\ e \in Modules /\ ToSet(x) = {e}
    BY <2>5 DEF ToSet
  <2> QED BY <1>1, <2>3, <2>4, <2>6 DEF x, e
<1> HIDE DEF s
<1>8. s \in Seq(Modules) /\ Len(s) = N /\ DOMAIN s = 1 .. N
  <2>1. s = [k \in 1 .. N |-> found[k].modules[1]]
    BY DEF s
  <2>2. \A k \in 1 .. N : found[k].modules[1] \in Modules
    BY <1>7, <2>1
  <2> QED BY <1>6, <2>1, <2>2
<1>9. ASSUME NEW i \in 1 .. N, NEW j \in 1 .. N, s[i] = s[j] PROVE i = j
  <2>1. s[i] \in ToSet(found[i].modules) /\ s[i] \in ToSet(found[j].modules)
    BY <1>7, <1>9
  <2> QED BY <1>4, <2>1, ComponentUnique
<1>10. IsInjective(s)
  BY <1>8, <1>9 DEF IsInjective
<1>11. ToSet(s) = Modules
  <2>1. ASSUME NEW m \in Modules PROVE m \in ToSet(s)
    <3>1. PICK k \in 1 .. N : m \in ToSet(found[k].modules)
      BY <1>5, <1>6 DEF Gathered
    <3>2. m = s[k]
      BY <1>7, <3>1
    <3> QED BY <1>8, <3>2 DEF ToSet
  <2>2. ToSet(s) \subseteq Modules
    BY <1>7, <1>8 DEF ToSet
  <2> QED BY <2>1, <2>2
<1>12. ASSUME NEW i \in 1 .. N, NEW j \in 1 .. N, s[i] \in ToSet(p[s[j]].imports) PROVE i < j
  <2>1. s[j] \in ToSet(found[j].modules) /\ s[j] \in Modules
    BY <1>7
  <2>2. ToSet(graph[s[j]]) \subseteq UNION {ToSet(found[l].modules) : l \in 1 .. j}
    BY <1>4, <2>1 DEF Groups
  <2>3. s[i] \in ToSet(graph[s[j]])
    BY <1>1, <1>12, <2>1
  <2>4. PICK l \in 1 .. j : s[i] \in ToSet(found[l].modules)
    BY <2>2, <2>3
  <2>5. l \in 1 .. N /\ l <= j
    BY <1>6, <2>4
  <2>6. l = i
    <3>1. s[i] = s[l]
      BY <1>7, <2>4, <2>5
    <3> QED BY <1>9, <2>5, <3>1
  <2>7. i # j
    BY <1>7, <1>12
  <2> QED BY <2>5, <2>6, <2>7
<1>13. ImportsFirst(p, s)
  BY <1>8, <1>12 DEF ImportsFirst
<1>14. IsImportOrder(p, s)
  BY <1>8, <1>10, <1>11, <1>13 DEF IsImportOrder
<1>15. Alone(found, s)
  BY <1>7, <1>8 DEF Alone
<1> QED BY <1>14, <1>15 DEF found, graph

\* What has been found of these modules is exact.
ExactAbout(p, w) == w \in CheckWalks(p) /\ \A m \in Modules : Exact(p, w.known, w.checked[m], m)

\* Without import cycles, all that the components are found to be is exact.
LEMMA AllExact ==
    ASSUME NEW p, Readable(p), CyclicComponents(p) = {}
    PROVE  ExactAbout(p, CheckComponents(p, Components(Paths, Imports(p))))
<1> DEFINE graph == Imports(p)
           found == Components(Paths, graph)
           f == CHOOSE g : IsChecking(g, p, found)
<1>1. IsGraph(graph) /\ DOMAIN graph = Modules
  BY ImportsGraph
<1>2. Paths \in Seq(DOMAIN graph)
  BY <1>1, ModulesFinite DEF Modules
<1>3. PICK s : IsImportOrder(p, s) /\ Alone(found, s)
  BY ComponentsAlone
<1> HIDE DEF graph
<1>4. found \in Seq(ComponentsOver(Modules)) /\ Groups(found, graph)
  BY <1>1, <1>2, ComponentsFound
<1> HIDE DEF found
<1>5. Groups(found, Imports(p))
  BY <1>4 DEF graph
<1>6. IsChecking(f, p, found)
  BY <1>4, <1>5, CheckingExists
<1>7. CheckComponents(p, found) = f[Len(found)]
  BY DEF CheckComponents, IsChecking
<1> HIDE DEF f
<1>8. s \in Seq(Modules) /\ IsInjective(s) /\ ToSet(s) = Modules /\ ImportsFirst(p, s)
  BY <1>3 DEF IsImportOrder
<1>9. /\ Len(found) = Len(s) /\ Len(s) \in Nat /\ DOMAIN s = 1 .. Len(s)
      /\ \A k \in 1 .. Len(s) : s[k] \in Modules /\ found[k].cyclic = FALSE /\ found[k].modules = <<s[k]>>
  BY <1>3, <1>8 DEF Alone
<1>10. \A k \in 0 .. Len(s) : f[k] \in CheckWalks(p)
  BY <1>4, <1>5, <1>6, <1>9, FirstChecked DEF RightAbout
<1>11. f[0] = Unseen(p)
  BY <1>6, <1>9 DEF IsChecking
<1>12. ASSUME NEW j \in 1 .. Len(s) PROVE f[j] = CheckInTurn(p, f[j - 1], s[j])
  <2>1. j \in 0 .. Len(found) /\ j # 0 /\ j - 1 \in 0 .. Len(s)
    BY <1>9
  <2>2. f[j] = Attempts(p, found[j], f[j - 1], Limit(p, found[j]))
    BY <1>6, <2>1 DEF IsChecking
  <2> QED BY <1>9, <1>10, <2>1, <2>2, AttemptsOnce
<1>13. Takes(f, p, s)
  BY <1>9, <1>10, <1>12 DEF Takes
<1>14. ASSUME NEW c \in AllConstants(p) PROVE f[0].known[c] = Unknown
  BY <1>11 DEF Unseen, Nothing
<1>15. ExactAfter(f, p, s, Len(s))
  BY <1>8, <1>9, <1>13, <1>14, TakenExact
<1>16. ASSUME NEW m \in Modules PROVE Exact(p, f[Len(s)].known, f[Len(s)].checked[m], m)
  <2>1. PICK j \in 1 .. Len(s) : s[j] = m
    BY <1>8, <1>9 DEF ToSet
  <2> QED BY <1>15, <2>1 DEF ExactAfter
<1>17. ExactAbout(p, f[Len(s)])
  BY <1>9, <1>10, <1>16 DEF ExactAbout
<1> QED BY <1>7, <1>9, <1>17 DEF found, graph

\* Where no import leads back, the types that checks find are the only such.
LEMMA SettledUnique ==
    ASSUME NEW p, Readable(p), NEW s, IsImportOrder(p, s),
           NEW t \in Knowings(p), NEW u \in Knowings(p),
           \A m \in Modules : Settled(p, t, m) /\ Settled(p, u, m)
    PROVE  t = u
<1> DEFINE N == Len(s)
           A == AllConstants(p)
           Same1(c) == t[c] = u[c]
           C == {n \in Nat : n <= N => \A c \in A : (\E j \in 1 .. n : s[j] = c[1]) => Same1(c)}
<1>0. /\ N \in Nat /\ DOMAIN s = 1 .. N /\ \A j \in 1 .. N : s[j] \in Modules
      /\ ToSet(s) = Modules /\ ImportsFirst(p, s) /\ IsInjective(s)
  BY DEF IsImportOrder
<1>1. ASSUME NEW c \in A,
             Constant(p, c).reads \in A => Same1(Constant(p, c).reads)
      PROVE  Same1(c)
  <2> DEFINE k == Constant(p, c)
  <2>1. c[1] \in Modules /\ c \in ConstantsOf(p, c[1])
    BY DEF AllConstants, ConstantsOf
  <2>2. t[c] = TypeOf(p, t, k) /\ u[c] = TypeOf(p, u, k)
    BY <2>1 DEF Settled
  <2>3. k.reads \in A => t[k.reads] = u[k.reads]
    BY <1>1
  <2> HIDE DEF k
  <2>4. Seen(p, t, k.reads) = Seen(p, u, k.reads)
    BY <2>3 DEF Seen
  <2>5. TypeOf(p, t, k) = TypeOf(p, u, k)
    BY <2>4, ReadsSame
  <2> QED BY <2>2, <2>5
<1>2. 0 \in C
  OBVIOUS
<1>3. ASSUME NEW n \in Nat, n \in C PROVE n + 1 \in C
  <2>1. SUFFICES ASSUME n + 1 <= N
                 PROVE  \A c \in A : (\E j \in 1 .. n + 1 : s[j] = c[1]) => Same1(c)
    OBVIOUS
  <2> DEFINE m == s[n + 1]
             D == {i \in Nat : \A c \in A : c[1] = m /\ c[2] <= i => Same1(c)}
  <2>2. \A c \in A : (\E j \in 1 .. n : s[j] = c[1]) => Same1(c)
    BY <1>0, <1>3, <2>1
  <2>3. \A c \in A : c[1] \in Modules /\ c[2] \in Nat /\ c[2] >= 1
    <3> SUFFICES ASSUME NEW c \in A PROVE c[1] \in Modules /\ c[2] \in Nat /\ c[2] >= 1
      OBVIOUS
    <3>1. c[1] \in Modules /\ c[2] \in 1 .. Len(p[c[1]].constants)
      BY ConstantIs
    <3>2. Len(p[c[1]].constants) \in Nat
      BY <3>1, ConstantPlaces
    <3> QED BY <3>1, <3>2
  <2>4. 0 \in D
    BY <2>3
  <2>5. ASSUME NEW i \in Nat, i \in D PROVE i + 1 \in D
    <3>1. SUFFICES ASSUME NEW c \in A, c[1] = m, c[2] <= i + 1 PROVE Same1(c)
      OBVIOUS
    <3> DEFINE d == Constant(p, c).reads
    <3>2. ASSUME d \in A PROVE Same1(d)
      <4>1. /\ d[1] \in Modules /\ d[2] \in Nat
            /\ d[1] \in ToSet(p[c[1]].imports) \/ (d[1] = c[1] /\ d[2] < c[2])
        BY <3>2, ReadFrom
      <4> HIDE DEF d
      <4>2. CASE d[1] = c[1] /\ d[2] < c[2]
        <5>1. d[2] <= i /\ d[1] = m
          BY <2>3, <3>1, <4>1, <4>2
        <5> QED BY <2>5, <3>2, <5>1
      <4>3. CASE d[1] \in ToSet(p[c[1]].imports)
        <5>1. PICK j \in 1 .. N : s[j] = d[1]
          BY <1>0, <4>1 DEF ToSet
        <5>2. n + 1 \in 1 .. N
          BY <1>0, <2>1
        <5>3. s[j] \in ToSet(p[s[n + 1]].imports)
          BY <3>1, <4>3, <5>1
        <5>4. j < n + 1
          BY <1>0, <5>2, <5>3 DEF ImportsFirst
        <5>5. j \in 1 .. n
          BY <5>1, <5>4
        <5> QED BY <2>2, <3>2, <5>1, <5>5
      <4> QED BY <4>1, <4>2, <4>3
    <3> HIDE DEF Same1
    <3> QED BY <1>1, <3>2
  <2>6. D = Nat
    <3>1. D \in SUBSET Nat
      OBVIOUS
    <3> HIDE DEF D
    <3> QED BY <2>4, <2>5, <3>1, Counting
  <2>7. ASSUME NEW c \in A, c[1] = m PROVE Same1(c)
    <3>1. c[2] \in D
      BY <2>3, <2>6
    <3> QED BY <2>3, <2>7, <3>1
  <2>8. \A j \in 1 .. n + 1 : j \in 1 .. n \/ j = n + 1
    OBVIOUS
  <2> QED BY <2>2, <2>7, <2>8
<1>4. C = Nat
  <2>1. C \in SUBSET Nat
    OBVIOUS
  <2> HIDE DEF C
  <2> QED BY <1>2, <1>3, <2>1, Counting
<1>5. ASSUME NEW c \in A PROVE t[c] = u[c]
  <2>1. N \in C
    BY <1>0, <1>4
  <2>2. c[1] \in Modules
    BY DEF AllConstants, ConstantsOf
  <2>3. PICK j \in 1 .. N : s[j] = c[1]
    BY <1>0, <2>2 DEF ToSet
  <2> QED BY <1>0, <2>1, <2>3
<1> QED BY <1>5 DEF Knowings

-----------------------------------------------------------------------------
(* The types of two projects                                               *)

\* The constants of C, which read each other only, have the same definitions in p and q, but
\* for those with the same written type.
Alike(p, q, C) ==
    /\ C \subseteq AllConstants(p) /\ C \subseteq AllConstants(q)
    /\ ReadsWithin(p, C) /\ ReadsWithin(q, C)
    /\ \A c \in C : \/ Constant(p, c) = Constant(q, c)
                    \/ /\ Constant(p, c).type # Inferred
                       /\ Constant(q, c).type = Constant(p, c).type

\* Constants that are alike are given no other types by p than by q.
LEMMA TypingOfAlike ==
    ASSUME NEW p, Readable(p), NEW q, Readable(q), NEW C, Alike(p, q, C)
    PROVE  \A c \in C : Typing(p)[c] \in {Unknown, Typing(q)[c]}
<1> DEFINE T == Typing(q)
           A == AllConstants(p)
           t == [c \in A |-> IF c \in C /\ T[c] \in TypesOf(p) THEN T[c] ELSE Unknown]
<1>1. /\ \A c \in AllConstants(q) : T[c] = Given(q, T, Constant(q, c))
      /\ C \in SUBSET A /\ C \subseteq AllConstants(q)
  BY TypingGiven DEF Alike
<1> HIDE DEF T
<1>2. Unknown \in TypesOf(p)
  BY DEF TypesOf
<1>3. t \in Knowings(p) /\ \A c \in A : t[c] = IF c \in C /\ T[c] \in TypesOf(p) THEN T[c] ELSE Unknown
  BY <1>2 DEF Knowings
<1> HIDE DEF t
<1>4. ASSUME NEW c \in A
      PROVE  Constant(p, c).type \in TypesOf(p) /\ Constant(p, c).value \in TypesOf(p)
  BY DEF TypesOf
<1>5. ASSUME NEW c \in C PROVE Given(p, t, Constant(p, c)) \in {Unknown, t[c]}
  <2> DEFINE k == Constant(p, c)
             l == Constant(q, c)
             d == k.reads
  <2>1. /\ c \in A /\ T[c] = Given(q, T, l)
        /\ k = l \/ (k.type # Inferred /\ l.type = k.type)
        /\ k.type \in TypesOf(p) /\ k.value \in TypesOf(p)
    BY <1>1, <1>4 DEF Alike
  <2>2. /\ d \in A => d \in C /\ d \in AllConstants(q)
        /\ k = l /\ d \in AllConstants(q) => d \in A
    BY <1>1 DEF Alike, ReadsWithin
  <2> SUFFICES Given(p, t, k) \in {Unknown, t[c]}
    OBVIOUS
  <2> HIDE DEF k, l
  <2>3. CASE k.type # Inferred
    <3>1. Given(p, t, k) = k.type /\ T[c] = k.type
      BY <2>1, <2>3 DEF Given
    <3> QED BY <1>3, <2>1, <3>1
  <2>4. CASE k.type = Inferred /\ k.value # Same
    <3>1. Given(p, t, k) = k.value /\ T[c] = k.value
      BY <2>1, <2>4 DEF Given
    <3> QED BY <1>3, <2>1, <3>1
  <2>5. CASE k.type = Inferred /\ k.value = Same
    <3>1. Given(p, t, k) = Seen(p, t, d) /\ T[c] = Seen(q, T, d)
      BY <2>1, <2>5 DEF Given
    <3> HIDE DEF d
    <3>2. CASE d \notin A
      BY <3>1, <3>2 DEF Seen
    <3>3. CASE d \in A
      <4>1. /\ d \in C /\ d \in AllConstants(q)
            /\ \/ Constant(p, d) = Constant(q, d)
               \/ Constant(p, d).type # Inferred /\ Constant(q, d).type = Constant(p, d).type
        BY <2>2, <3>3 DEF Alike
      <4>2. CASE Constant(p, d).type # Inferred
        <5>1. Seen(p, t, d) = Constant(p, d).type /\ Seen(q, T, d) = Constant(p, d).type
          BY <3>3, <4>1, <4>2 DEF Seen
        <5>2. T[c] \in TypesOf(p)
          BY <1>4, <3>1, <3>3, <5>1
        <5> QED BY <1>3, <2>1, <3>1, <5>1, <5>2
      <4>3. CASE Constant(p, d).type = Inferred
        <5>1. Seen(p, t, d) = t[d] /\ Seen(q, T, d) = T[d]
          BY <3>3, <4>1, <4>3 DEF Seen
        <5>2. t[d] = IF T[d] \in TypesOf(p) THEN T[d] ELSE Unknown
          BY <1>3, <3>3, <4>1
        <5>3. t[c] = IF T[c] \in TypesOf(p) THEN T[c] ELSE Unknown
          BY <1>3, <2>1
        <5> QED BY <3>1, <5>1, <5>2, <5>3
      <4> QED BY <4>2, <4>3
    <3> QED BY <3>2, <3>3
  <2> QED BY <2>3, <2>4, <2>5
<1>6. ReadsWithin(p, C)
  BY DEF Alike
<1>7. ASSUME NEW c \in C PROVE Typing(p)[c] \in {Unknown, t[c]}
  <2>1. \A u \in Knowings(p) : \A D \in SUBSET AllConstants(p) :
            ReadsWithin(p, D) /\ (\A e \in D : Given(p, u, Constant(p, e)) \in {Unknown, u[e]})
                => \A e \in D : Typing(p)[e] \in {Unknown, u[e]}
    BY TypingGiven
  <2> QED BY <1>1, <1>3, <1>5, <1>6, <2>1
<1> QED BY <1>1, <1>3, <1>7 DEF T

\* They have the same types in both.
LEMMA TypingSame ==
    ASSUME NEW p, Readable(p), NEW q, Readable(q), NEW C, Alike(p, q, C)
    PROVE  \A c \in C : Typing(p)[c] = Typing(q)[c]
<1>1. Alike(q, p, C)
  <2>1. ASSUME NEW c \in C
        PROVE  \/ Constant(q, c) = Constant(p, c)
               \/ Constant(q, c).type # Inferred /\ Constant(p, c).type = Constant(q, c).type
    BY DEF Alike
  <2> QED BY <2>1 DEF Alike
<1>2. \A c \in C : Typing(p)[c] \in {Unknown, Typing(q)[c]}
  BY TypingOfAlike
<1>3. \A c \in C : Typing(q)[c] \in {Unknown, Typing(p)[c]}
  BY <1>1, TypingOfAlike
<1> QED BY <1>2, <1>3

\* What is written, and what an initializer that reads nothing is, is a type.
Typed(p) ==
    \A c \in AllConstants(p) :
        LET k == Constant(p, c)
        IN  /\ k.type # Unknown /\ k.value \notin {Unknown, Inferred}
            /\ k.value = Same => k.reads # << >>

\* No constant of a well-typed project is left without a type.
LEMMA TypesKnown ==
    ASSUME NEW p, Readable(p), Typed(p), WellTyped(p, Typing(p))
    PROVE  \A c \in AllConstants(p) : Typing(p)[c] \notin {Unknown, Inferred}
<1> DEFINE T == Typing(p)
           A == AllConstants(p)
           graph == Imports(p)
           found == Components(Paths, graph)
           N == Len(found)
<1>1. T \in Knowings(p) /\ \A c \in A : T[c] = Given(p, T, Constant(p, c))
  BY TypingGiven
<1>2. IsGraph(graph) /\ DOMAIN graph = Modules /\ \A m \in Modules : graph[m] = p[m].imports
  BY ImportsGraph DEF Imports
<1>3. Paths \in Seq(DOMAIN graph) /\ ToSet(Paths) = DOMAIN graph
  BY <1>2, ModulesFinite DEF Modules
<1>4. \A c \in A : Constant(p, c).type = Inferred /\ OnCycle(graph, c[1]) => T[c] # Unknown
  BY DEF WellTyped
<1>5. \A i \in DOMAIN found : \A m \in ToSet(found[i].modules) : found[i].cyclic = OnCycle(graph, m)
  <2> HIDE DEF graph
  <2>1. found = Components(Paths, graph)
    OBVIOUS
  <2> HIDE DEF found
  <2> QED BY <1>2, <1>3, <2>1, ComponentsDivide
<1> HIDE DEF graph
<1>6. /\ found \in Seq(ComponentsOver(DOMAIN graph))
      /\ Groups(found, graph)
      /\ Gathered(found) = {m \in DOMAIN graph : \E r \in ToSet(Paths) : Path(graph, r, m)}
  BY <1>2, <1>3, ComponentsFound
<1> HIDE DEF found, T
<1>7. Gathered(found) = Modules
  BY <1>2, <1>3, <1>6, PathReflexive
<1>8. N \in Nat /\ DOMAIN found = 1 .. N
  BY <1>6
<1>9. ASSUME NEW c \in A PROVE T[c] # Inferred
  <2> DEFINE t == [d \in A |-> IF T[d] = Inferred THEN Unknown ELSE T[d]]
  <2>1. t \in Knowings(p) /\ \A d \in A : t[d] = IF T[d] = Inferred THEN Unknown ELSE T[d]
    BY <1>1 DEF Knowings, TypesOf
  <2> HIDE DEF t
  <2>2. ASSUME NEW e \in A PROVE Given(p, t, Constant(p, e)) \in {Unknown, t[e]}
    <3> DEFINE k == Constant(p, e)
    <3>1. T[e] = Given(p, T, k) /\ k.value # Inferred
      BY <1>1 DEF Typed
    <3>2. t[e] = IF T[e] = Inferred THEN Unknown ELSE T[e]
      BY <2>1
    <3> SUFFICES Given(p, t, k) \in {Unknown, t[e]}
      OBVIOUS
    <3> HIDE DEF k
    <3>3. CASE k.type # Inferred
      BY <3>1, <3>2, <3>3 DEF Given
    <3>4. CASE k.type = Inferred /\ k.value # Same
      BY <3>1, <3>2, <3>4 DEF Given
    <3>5. CASE k.type = Inferred /\ k.value = Same
      <4> DEFINE d == k.reads
      <4>1. Given(p, t, k) = Seen(p, t, d) /\ T[e] = Seen(p, T, d)
        BY <3>1, <3>5 DEF Given
      <4> HIDE DEF d
      <4>2. CASE d \notin A
        BY <4>1, <4>2 DEF Seen
      <4>3. CASE d \in A /\ Constant(p, d).type # Inferred
        <5>1. Seen(p, t, d) = Constant(p, d).type /\ Seen(p, T, d) = Constant(p, d).type
          BY <4>3 DEF Seen
        <5> QED BY <3>2, <4>1, <4>3, <5>1
      <4>4. CASE d \in A /\ Constant(p, d).type = Inferred
        <5>1. Seen(p, t, d) = t[d] /\ Seen(p, T, d) = T[d]
          BY <4>4 DEF Seen
        <5> QED BY <2>1, <3>2, <4>1, <4>4, <5>1
      <4> QED BY <4>2, <4>3, <4>4
    <3> QED BY <3>3, <3>4, <3>5
  <2>3. ReadsWithin(p, A) /\ A \in SUBSET A
    BY DEF ReadsWithin
  <2>4. \A e \in A : T[e] \in {Unknown, t[e]}
    <3>1. \A u \in Knowings(p) : \A D \in SUBSET A :
              ReadsWithin(p, D) /\ (\A e \in D : Given(p, u, Constant(p, e)) \in {Unknown, u[e]})
                  => \A e \in D : T[e] \in {Unknown, u[e]}
      BY TypingGiven DEF T
    <3> QED BY <2>1, <2>2, <2>3, <3>1
  <2>5. t[c] # Inferred
    BY <2>1 DEF Unknown, Inferred
  <2> QED BY <2>4, <2>5 DEF Unknown, Inferred
<1>10. ASSUME NEW c \in A, T[c] = Unknown
       PROVE  /\ Constant(p, c).type = Inferred
              /\ Constant(p, c).reads \in A
              /\ T[Constant(p, c).reads] = Unknown
  <2> DEFINE k == Constant(p, c)
             d == k.reads
  <2>1. T[c] = Given(p, T, k)
    BY <1>1
  <2>2. k.type # Unknown /\ k.value # Unknown /\ (k.value = Same => d # << >>)
    BY DEF Typed
  <2>3. d # << >> => d \in A
    <3>1. c[1] \in Modules /\ c[2] \in DOMAIN p[c[1]].constants /\ k = p[c[1]].constants[c[2]]
      BY DEF AllConstants, ConstantsOf, Constant
    <3> QED BY <3>1 DEF Readable
  <2>4. \A e \in A : Constant(p, e).type # Unknown
    BY DEF Typed
  <2> HIDE DEF k
  <2>5. k.type = Inferred /\ k.value = Same /\ Seen(p, T, d) = Unknown
    BY <1>10, <2>1, <2>2 DEF Given
  <2>6. d \in A
    BY <2>2, <2>3, <2>5
  <2> HIDE DEF d
  <2>7. T[d] = Unknown
    <3>1. Seen(p, T, d) = IF Constant(p, d).type # Inferred THEN Constant(p, d).type ELSE T[d]
      BY <2>6 DEF Seen
    <3> QED BY <2>4, <2>5, <2>6, <3>1
  <2> QED BY <2>5, <2>6, <2>7 DEF d, k
<1>11. ASSUME NEW c \in A, T[c] = Unknown PROVE FALSE
  <2> DEFINE Open(k, d) == d \in A /\ T[d] = Unknown /\ d[1] \in ToSet(found[k].modules)
             K == {k \in 1 .. N : \E d : Open(k, d)}
  <2>1. ASSUME NEW d \in A PROVE d[1] \in Modules /\ \E k \in 1 .. N : d[1] \in ToSet(found[k].modules)
    <3>1. d[1] \in Modules
      BY DEF AllConstants, ConstantsOf
    <3> QED BY <1>7, <1>8, <3>1 DEF Gathered
  <2>2. K # {} /\ K \in SUBSET Nat
    BY <1>8, <1>11, <2>1
  <2>3. PICK k \in K : \A j \in K : k <= j
    BY <2>2, LeastElement
  <2>4. PICK e : Open(k, e)
    BY <2>3
  <2> DEFINE m == e[1]
             I == {i \in Nat : \E d : d \in A /\ T[d] = Unknown /\ d[1] = m /\ d[2] = i}
  <2>5. \A d \in A : d[2] \in Nat
    BY ConstantIs
  <2>6. I # {} /\ I \in SUBSET Nat
    BY <2>4, <2>5
  <2>7. PICK i \in I : \A j \in I : i <= j
    <3> HIDE DEF I
    <3> QED BY <2>6, LeastElement
  <2>8. PICK b : b \in A /\ T[b] = Unknown /\ b[1] = m /\ b[2] = i
    BY <2>7
  <2>9. k \in 1 .. N /\ m \in ToSet(found[k].modules)
    BY <2>3, <2>4
  <2>10. ~ found[k].cyclic
    <3>1. Constant(p, b).type = Inferred
      BY <1>10, <2>8
    <3>2. ~ OnCycle(graph, m)
      BY <1>4, <2>8, <3>1
    <3> QED BY <1>5, <1>8, <2>9, <3>2
  <2>11. Len(found[k].modules) = 1 /\ m \notin ToSet(graph[m])
    BY <1>2, <1>6, <2>9, <2>10, CyclicOrAlone
  <2> DEFINE d == Constant(p, b).reads
  <2>12. d \in A /\ T[d] = Unknown
    BY <1>10, <2>8
  <2>13. d[2] \in Nat /\ (d[1] \in ToSet(p[m].imports) \/ (d[1] = m /\ d[2] < i))
    BY <2>8, <2>12, ReadFrom
  <2> HIDE DEF d
  <2>14. CASE d[1] = m /\ d[2] < i
    <3>1. d[2] \in I
      BY <2>12, <2>13, <2>14
    <3>2. i <= d[2] /\ i \in Nat
      BY <2>7, <3>1
    <3> QED BY <2>13, <2>14, <3>2
  <2>15. CASE d[1] \in ToSet(p[m].imports)
    <3>1. m \in Modules
      BY <2>1, <2>4
    <3>2. d[1] \in ToSet(graph[m])
      BY <1>2, <2>15, <3>1
    <3>3. ToSet(graph[m]) \subseteq UNION {ToSet(found[l].modules) : l \in 1 .. k}
      BY <1>6, <2>9 DEF Groups
    <3>4. PICK l \in 1 .. k : d[1] \in ToSet(found[l].modules)
      BY <3>2, <3>3
    <3>5. l \in 1 .. N /\ l <= k
      BY <1>8, <2>9, <3>4
    <3>6. l \in K
      BY <2>12, <3>4, <3>5
    <3>7. l = k
      BY <1>8, <2>3, <2>9, <3>5, <3>6
    <3>8. d[1] = m
      <4> DEFINE x == found[k].modules
      <4>0. found[k] \in ComponentsOver(Modules)
        BY <1>2, <1>6, <1>8, <2>9
      <4>1. x \in Seq(Modules) /\ Len(x) = 1
        BY <2>11, <4>0 DEF ComponentsOver
      <4>2. d[1] \in ToSet(x) /\ m \in ToSet(x)
        BY <2>9, <3>4, <3>7
      <4> HIDE DEF x, m
      <4> QED BY <4>1, <4>2 DEF ToSet
    <3> QED BY <2>11, <3>2, <3>8
  <2> QED BY <2>13, <2>14, <2>15
<1> QED BY <1>9, <1>11 DEF T

-----------------------------------------------------------------------------
(* What an analysis takes from a check                                     *)

\* Circles of values are reported in modules, and only where imports are cyclic.
LEMMA CircularWithin ==
    ASSUME NEW p, Readable(p)
    PROVE  /\ CircularValues(p) \subseteq Modules
           /\ CyclicComponents(p) = {} => CircularValues(p) = {}
<1> DEFINE found == Components(Paths, Imports(p))
<1>1. /\ found \in Seq(ComponentsOver(Modules))
      /\ \A k \in 1 .. Len(found) : found[k].modules \in Seq(Modules) /\ IsInjective(found[k].modules)
  <2>1. Paths \in Seq(Modules)
    BY ModulesFinite
  <2> QED BY <2>1, ComponentModules
<1>2. CyclicComponents(p) = {c \in ToSet(found) : c.cyclic}
  BY DEF CyclicComponents
<1> HIDE DEF found
<1>3. ASSUME NEW modules \in Seq(Modules), IsInjective(modules), NEW circle \in Circles(p, modules)
      PROVE  circle.modules[1][1] \in Modules
  <2> DEFINE S == ToSet(modules)
             actions == TasksAmong(p, S)
             graph == ActionGraph(p, modules)
             roots == ActionsByModule(p, modules)
  <2>1. IsGraph(graph) /\ DOMAIN graph = actions
    BY <1>3, ActionGraphNeeds
  <2>2. roots \in Seq(Places) /\ ToSet(roots) = actions
    BY <1>3, ActionsListed
  <2>3. circle \in ToSet(Components(roots, graph))
    BY <1>3 DEF Circles
  <2>4. ASSUME NEW a \in actions PROVE a[1] \in Modules
    <3>1. PICK m \in S : a \in Tasks(p, m)
      BY DEF TasksAmong
    <3>2. m \in Modules
      BY SetOfSequence
    <3>3. a[1] = m
      BY <3>1, <3>2, TaskPlaces
    <3> QED BY <3>2, <3>3
  <2> HIDE DEF actions, graph, roots
  <2>5. roots \in Seq(actions)
    <3>1. Len(roots) \in Nat /\ DOMAIN roots = 1 .. Len(roots)
      BY <2>2
    <3>2. \A i \in 1 .. Len(roots) : roots[i] \in actions
      BY <2>2, <3>1 DEF ToSet
    <3>3. roots = [i \in 1 .. Len(roots) |-> roots[i]]
      BY <2>2
    <3> QED BY <3>1, <3>2, <3>3
  <2> DEFINE circles == Components(roots, graph)
  <2>6. circles \in Seq(ComponentsOver(actions)) /\ Groups(circles, graph)
    BY <2>1, <2>5, ComponentsFound
  <2>7. circle \in ToSet(circles)
    BY <2>3
  <2> HIDE DEF circles
  <2>8. PICK k \in 1 .. Len(circles) : circle = circles[k]
    BY <2>6, <2>7 DEF ToSet
  <2>9. circle \in ComponentsOver(actions)
    BY <2>6, <2>8
  <2>10. circle.modules \in Seq(actions) /\ circle.modules # << >>
    BY <2>6, <2>8, <2>9 DEF ComponentsOver, Groups
  <2>11. circle.modules[1] \in actions
    BY <2>10
  <2> QED BY <2>4, <2>11
<1>4. CircularValues(p) \subseteq Modules
  <2> SUFFICES ASSUME NEW c \in CyclicComponents(p), NEW circle \in Circles(p, c.modules)
               PROVE  circle.modules[1][1] \in Modules
    BY DEF CircularValues
  <2>1. PICK k \in 1 .. Len(found) : c = found[k]
    BY <1>1, <1>2 DEF ToSet
  <2> QED BY <1>1, <1>3, <2>1
<1>5. CyclicComponents(p) = {} => CircularValues(p) = {}
  BY DEF CircularValues
<1> QED BY <1>4, <1>5

\* A check finds something for every module.
LEMMA CheckedModules ==
    ASSUME NEW p, Readable(p)
    PROVE  /\ DOMAIN CheckProjectComponents(p).checked = Modules
           /\ Rejected(CheckProjectComponents(p)) \subseteq Modules
<1> DEFINE components == Components(Paths, Imports(p))
           after == CheckComponents(p, components)
           open == UNION {Unresolved(p, c, after.checked) : c \in ToSet(components)}
           found == CheckProjectComponents(p)
<1>1. found = [checked |-> after.checked, open |-> open]
  BY DEF CheckProjectComponents
<1>2. RightAbout(p, after, Modules)
  BY AllChecked
<1>3. /\ components \in Seq(ComponentsOver(Modules))
      /\ \A k \in 1 .. Len(components) : components[k].modules \in Seq(Modules)
  <2>1. Paths \in Seq(Modules)
    BY ModulesFinite
  <2> QED BY <2>1, ComponentModules
<1>4. \A c \in ToSet(components) : ToSet(c.modules) \subseteq Modules
  <2> HIDE DEF components
  <2> SUFFICES ASSUME NEW c \in ToSet(components) PROVE ToSet(c.modules) \subseteq Modules
    OBVIOUS
  <2>1. PICK k \in 1 .. Len(components) : c = components[k]
    BY <1>3 DEF ToSet
  <2>2. c.modules \in Seq(Modules)
    BY <1>3, <2>1
  <2> QED BY <2>2 DEF ToSet
<1>5. open \subseteq Modules
  <2> HIDE DEF components, after
  <2> QED BY <1>4 DEF Unresolved
<1>6. DOMAIN after.checked = Modules
  BY <1>2 DEF RightAbout, CheckWalks
<1> HIDE DEF open, after
<1> QED BY <1>1, <1>5, <1>6 DEF Rejected

\* Without import cycles it is exact, and the modules rejected are those that it refuses.
LEMMA CheckedExact ==
    ASSUME NEW p, Readable(p), CyclicComponents(p) = {}
    PROVE  \E w : /\ ExactAbout(p, w)
                  /\ CheckProjectComponents(p).checked = w.checked
                  /\ Rejected(CheckProjectComponents(p)) = {m \in Modules : w.checked[m].rejected}
<1> DEFINE components == Components(Paths, Imports(p))
           w == CheckComponents(p, components)
           open == UNION {Unresolved(p, c, w.checked) : c \in ToSet(components)}
           found == CheckProjectComponents(p)
<1>1. found = [checked |-> w.checked, open |-> open]
  BY DEF CheckProjectComponents
<1>2. ExactAbout(p, w)
  BY AllExact
<1>3. \A c \in ToSet(components) : ~ c.cyclic
  BY DEF CyclicComponents
<1>4. open = {}
  <2> HIDE DEF components, w
  <2> QED BY <1>3 DEF Unresolved
<1>5. DOMAIN w.checked = Modules
  BY <1>2 DEF ExactAbout, CheckWalks
<1> HIDE DEF open, w
<1>6. Rejected(found) = {m \in Modules : w.checked[m].rejected}
  BY <1>1, <1>4, <1>5 DEF Rejected
<1>7. found.checked = w.checked
  BY <1>1
<1> QED BY <1>2, <1>6, <1>7

-----------------------------------------------------------------------------
(* Parts of a sequence                                                     *)

\* f is the function that Among computes by.
IsChoosing(f, s, S) ==
    f = [n \in 0 .. Len(s) |->
            IF n = 0 THEN << >>
            ELSE IF s[n] \in S THEN Append(f[n - 1], s[n]) ELSE f[n - 1]]

\* The recursion of Among has a solution.
LEMMA ChoosingExists ==
    ASSUME NEW T, NEW s \in Seq(T), NEW S
    PROVE  \E f : IsChoosing(f, s, S)
<1> DEFINE N == Len(s)
           V == Seq(T)
           Turn(n, v) == IF n \in 1 .. N /\ s[n] \in S THEN Append(v, s[n]) ELSE v
           F == [q \in Nat \X V |-> Turn(q[1], q[2])]
<1>0. N \in Nat
  OBVIOUS
<1>1. ASSUME NEW n \in Nat, NEW v \in V PROVE Turn(n, v) \in V
  <2>1. CASE n \in 1 .. N
    <3>1. s[n] \in T
      BY <2>1
    <3> QED BY <3>1
  <2>2. CASE n \notin 1 .. N
    BY <2>2
  <2> QED BY <2>1, <2>2
<1>2. \A q \in Nat \X V : q[1] \in Nat /\ q[2] \in V
  OBVIOUS
<1>3. F \in [Nat \X V -> V]
  <2> HIDE DEF Turn, V
  <2> QED BY <1>1, <1>2
<1>4. \A n \in Nat, v \in V : F[<<n, v>>] = Turn(n, v)
  <2> HIDE DEF Turn, V
  <2> QED OBVIOUS
<1> HIDE DEF F
<1>f. PICK f : IsStepping(f, V, F, << >>, N)
  <2>1. << >> \in V
    OBVIOUS
  <2> HIDE DEF V, N
  <2> QED BY <1>0, <1>3, <2>1, StepsExist
<1>5. f \in [0 .. N -> V] /\ f[0] = << >> /\ \A n \in 1 .. N : f[n] = F[<<n, f[n - 1]>>]
  <2> HIDE DEF V, N
  <2> QED BY <1>f DEF IsStepping
<1>6. ASSUME NEW n \in 1 .. N
      PROVE  f[n] = IF s[n] \in S THEN Append(f[n - 1], s[n]) ELSE f[n - 1]
  <2>1. n \in Nat /\ n - 1 \in 0 .. N
    BY <1>0
  <2>2. f[n - 1] \in V
    <3> HIDE DEF V, N
    <3> QED BY <1>5, <2>1
  <2>3. f[n] = Turn(n, f[n - 1])
    <3> HIDE DEF V, N, Turn
    <3> QED BY <1>4, <1>5, <2>1, <2>2
  <2> QED BY <2>3
<1>7. f = [n \in 0 .. N |-> IF n = 0 THEN << >>
                            ELSE IF s[n] \in S THEN Append(f[n - 1], s[n]) ELSE f[n - 1]]
  <2>1. ASSUME NEW n \in 0 .. N
        PROVE  f[n] = IF n = 0 THEN << >>
                      ELSE IF s[n] \in S THEN Append(f[n - 1], s[n]) ELSE f[n - 1]
    <3>1. n = 0 \/ n \in 1 .. N
      BY <1>0
    <3> QED BY <1>5, <1>6, <3>1
  <2> HIDE DEF N, V
  <2> QED BY <1>5, <2>1
<1> QED BY <1>7 DEF IsChoosing

\* f has those of the first n elements of s that are in S, in the order of s.
Chosen(f, s, S, n) ==
    /\ \A x : x \in ToSet(f) <=> x \in S /\ \E i \in 1 .. n : x = s[i]
    /\ \A a, b : Follows(f, a, b) => \E i, j \in 1 .. n : i < j /\ s[i] = a /\ s[j] = b

\* Another element is chosen, or not.
LEMMA ChosenNext ==
    ASSUME NEW T, NEW s \in Seq(T), NEW S, NEW n \in Nat, n + 1 <= Len(s),
           NEW f \in Seq(T), Chosen(f, s, S, n), NEW g,
           g = IF s[n + 1] \in S THEN Append(f, s[n + 1]) ELSE f
    PROVE  g \in Seq(T) /\ Chosen(g, s, S, n + 1)
<1> DEFINE x == s[n + 1]
<1>1. x \in T /\ \A i \in 1 .. n : i \in 1 .. n + 1
  OBVIOUS
<1>2. n + 1 \in 1 .. n + 1 /\ \A i \in 1 .. n + 1 : i = n + 1 \/ i \in 1 .. n
  OBVIOUS
<1>3. CASE x \notin S
  <2>1. g = f
    BY <1>3
  <2> HIDE DEF x
  <2>2. ASSUME NEW y PROVE y \in ToSet(g) <=> y \in S /\ \E i \in 1 .. n + 1 : y = s[i]
    BY <1>1, <1>2, <1>3, <2>1 DEF Chosen, x
  <2>3. ASSUME NEW a, NEW b, Follows(g, a, b)
        PROVE  \E i, j \in 1 .. n + 1 : i < j /\ s[i] = a /\ s[j] = b
    BY <1>1, <2>1, <2>3 DEF Chosen
  <2> QED BY <2>1, <2>2, <2>3 DEF Chosen
<1>4. CASE x \in S
  <2>1. g = Append(f, x)
    BY <1>4
  <2>2. s[n + 1] = x
    OBVIOUS
  <2> HIDE DEF x
  <2>3. /\ g \in Seq(T) /\ Len(g) = Len(f) + 1 /\ Len(f) \in Nat
        /\ \A i \in 1 .. Len(f) : g[i] = f[i]
        /\ g[Len(f) + 1] = x
        /\ ToSet(g) = ToSet(f) \cup {x}
    BY <1>1, <2>1, AppendedElements
  <2>4. ASSUME NEW y PROVE y \in ToSet(g) <=> y \in S /\ \E i \in 1 .. n + 1 : y = s[i]
    BY <1>1, <1>2, <1>4, <2>2, <2>3 DEF Chosen
  <2>5. ASSUME NEW a, NEW b, Follows(g, a, b)
        PROVE  \E i, j \in 1 .. n + 1 : i < j /\ s[i] = a /\ s[j] = b
    <3>k. PICK k \in 1 .. Len(g), l \in 1 .. Len(g) : k < l /\ g[k] = a /\ g[l] = b
      BY <2>5 DEF Follows
    <3>1. k \in 1 .. Len(f) /\ g[k] = f[k]
      BY <2>3, <3>k
    <3>2. CASE l \in 1 .. Len(f)
      <4>1. Follows(f, a, b)
        BY <2>3, <3>k, <3>1, <3>2 DEF Follows
      <4> QED BY <1>1, <4>1 DEF Chosen
    <3>3. CASE l \notin 1 .. Len(f)
      <4>1. l = Len(f) + 1
        BY <2>3, <3>3
      <4>2. b = s[n + 1]
        BY <2>2, <2>3, <3>k, <4>1
      <4>3. a \in ToSet(f)
        BY <3>k, <3>1, SetOfSequence
      <4>4. PICK i \in 1 .. n : a = s[i]
        BY <4>3 DEF Chosen
      <4>5. i < n + 1
        OBVIOUS
      <4> QED BY <1>1, <1>2, <4>2, <4>4, <4>5
    <3> QED BY <3>2, <3>3
  <2> QED BY <2>3, <2>4, <2>5 DEF Chosen
<1> QED BY <1>3, <1>4

\* Among has the elements of s that are in S, in the order of s.
LEMMA AmongFound ==
    ASSUME NEW T, NEW s \in Seq(T), NEW S
    PROVE  /\ Among(s, S) \in Seq(T)
           /\ ToSet(Among(s, S)) = ToSet(s) \cap S
           /\ \A a, b : Follows(Among(s, S), a, b) => Follows(s, a, b)
<1> DEFINE f == CHOOSE g : IsChoosing(g, s, S)
           N == Len(s)
<1>1. IsChoosing(f, s, S)
  BY ChoosingExists
<1>2. Among(s, S) = f[N]
  BY DEF Among, IsChoosing
<1> HIDE DEF f
<1>3. N \in Nat
  OBVIOUS
<1>4. f[0] = << >>
  BY <1>1, <1>3 DEF IsChoosing
<1>5. ASSUME NEW n \in Nat, n + 1 <= N
      PROVE  f[n + 1] = IF s[n + 1] \in S THEN Append(f[n], s[n + 1]) ELSE f[n]
  <2>1. n + 1 \in 0 .. N /\ n + 1 # 0 /\ (n + 1) - 1 = n
    BY <1>3, <1>5
  <2> QED BY <1>1, <2>1 DEF IsChoosing
<1> DEFINE C == {n \in Nat : n <= N => f[n] \in Seq(T) /\ Chosen(f[n], s, S, n)}
<1>6. 0 \in C
  <2>1. << >> \in Seq(T) /\ Len(<< >>) = 0
    OBVIOUS
  <2>2. \A x : x \notin ToSet(<< >>)
    BY DEF ToSet
  <2>3. \A a, b : ~ Follows(<< >>, a, b)
    BY <2>1 DEF Follows
  <2>4. Chosen(<< >>, s, S, 0)
    BY <2>2, <2>3 DEF Chosen
  <2> QED BY <1>4, <2>1, <2>4
<1>7. ASSUME NEW n \in Nat, n \in C PROVE n + 1 \in C
  <2>1. SUFFICES ASSUME n + 1 <= N PROVE f[n + 1] \in Seq(T) /\ Chosen(f[n + 1], s, S, n + 1)
    OBVIOUS
  <2>2. f[n] \in Seq(T) /\ Chosen(f[n], s, S, n)
    BY <1>3, <1>7, <2>1
  <2>3. f[n + 1] = IF s[n + 1] \in S THEN Append(f[n], s[n + 1]) ELSE f[n]
    BY <1>5, <2>1
  <2> HIDE DEF C
  <2> QED BY <2>1, <2>2, <2>3, ChosenNext
<1>8. C = Nat
  <2>1. C \in SUBSET Nat
    OBVIOUS
  <2> HIDE DEF C
  <2> QED BY <1>6, <1>7, <2>1, Counting
<1>9. f[N] \in Seq(T) /\ Chosen(f[N], s, S, N)
  BY <1>3, <1>8
<1>10. \A x : x \in ToSet(s) <=> \E i \in 1 .. N : x = s[i]
  BY SetOfSequence
<1> HIDE DEF N
<1>11. ToSet(f[N]) = ToSet(s) \cap S
  BY <1>9, <1>10 DEF Chosen
<1>12. \A a, b : Follows(f[N], a, b) => Follows(s, a, b)
  BY <1>9 DEF Chosen, Follows, N
<1> QED BY <1>2, <1>9, <1>11, <1>12

\* No element of an injective sequence comes before itself.
LEMMA InjectiveOnce ==
    ASSUME NEW T, NEW s \in Seq(T)
    PROVE  IsInjective(s) <=> \A a : ~ Follows(s, a, a)
<1>1. Len(s) \in Nat /\ DOMAIN s = 1 .. Len(s)
  OBVIOUS
<1>2. ASSUME IsInjective(s) PROVE \A a : ~ Follows(s, a, a)
  BY <1>1, <1>2 DEF IsInjective, Follows
<1>3. ASSUME \A a : ~ Follows(s, a, a), NEW i \in 1 .. Len(s), NEW j \in 1 .. Len(s), s[i] = s[j]
      PROVE  i = j
  <2>1. i < j \/ j < i \/ i = j
    BY <1>1
  <2>2. ~ (i < j) /\ ~ (j < i)
    BY <1>3 DEF Follows
  <2> QED BY <2>1, <2>2
<1>4. ASSUME \A a : ~ Follows(s, a, a) PROVE IsInjective(s)
  BY <1>1, <1>3, <1>4 DEF IsInjective
<1> QED BY <1>2, <1>4

\* No element is chosen twice.
LEMMA AmongOnce ==
    ASSUME NEW T, NEW s \in Seq(T), IsInjective(s), NEW S
    PROVE  IsInjective(Among(s, S))
<1> DEFINE u == Among(s, S)
<1>1. u \in Seq(T) /\ \A a, b : Follows(u, a, b) => Follows(s, a, b)
  BY AmongFound
<1> HIDE DEF u
<1>2. \A a : ~ Follows(u, a, a)
  BY <1>1, InjectiveOnce
<1>3. IsInjective(u)
  BY <1>1, <1>2, InjectiveOnce
<1> QED BY <1>3 DEF u

\* A sequence has no more elements than positions.
LEMMA ElementsFew ==
    ASSUME NEW T, NEW s \in Seq(T)
    PROVE  IsFiniteSet(ToSet(s)) /\ Cardinality(ToSet(s)) \in Nat /\ Cardinality(ToSet(s)) <= Len(s)
<1>1. Len(s) \in Nat /\ DOMAIN s = 1 .. Len(s)
  OBVIOUS
<1>2. ToSet(s) = {s[i] : i \in 1 .. Len(s)}
  BY <1>1 DEF ToSet
<1> DEFINE f == [i \in 1 .. Len(s) |-> s[i]]
           n == Len(s)
<1>3. f \in Surjection(1 .. n, ToSet(s))
  BY <1>2 DEF Surjection
<1>4. IsFiniteSet(1 .. n) /\ Cardinality(1 .. n) = n
  <2> HIDE DEF n
  <2>1. 1 \in Int /\ n \in Int /\ n \in Nat /\ n + 1 - 1 = n /\ (n = 0 => 1 > n)
    BY <1>1 DEF n
  <2>2. CASE n = 0
    <3>1. 1 .. n = {}
      BY <2>2
    <3> QED BY <3>1, <2>2, FS_EmptySet
  <2>3. CASE n # 0
    <3>1. 1 <= n /\ n - 1 + 1 = n
      BY <2>1, <2>3
    <3> QED BY <2>1, <3>1, FS_Interval
  <2> QED BY <2>2, <2>3
<1> HIDE DEF f, n
<1>5. IsFiniteSet(ToSet(s)) /\ Cardinality(ToSet(s)) <= Cardinality(1 .. n)
  BY <1>3, <1>4, FS_Surjection
<1> QED BY <1>4, <1>5, FS_CardinalityType DEF n

\* Modules in the order of their paths, each once
LEMMA SortedFound ==
    ASSUME NEW graph, IsGraph(graph), DOMAIN graph = Modules, NEW m \in Modules
    PROVE  /\ Sorted(ToSet(graph[m])) \in Seq(Modules)
           /\ ToSet(Sorted(ToSet(graph[m]))) = ToSet(graph[m])
           /\ IsInjective(Sorted(ToSet(graph[m])))
           /\ Len(Sorted(ToSet(graph[m]))) \in Nat
           /\ Len(Sorted(ToSet(graph[m]))) <= Len(graph[m])
<1> DEFINE S == ToSet(graph[m])
           u == Among(Paths, S)
<1>1. Paths \in Seq(Modules) /\ IsInjective(Paths) /\ ToSet(Paths) = Modules
  BY PathsAssumption DEF Modules
<1>2. graph[m] \in Seq(Modules) /\ S \subseteq Modules
  BY SetOfSequence DEF IsGraph
<1>3. Cardinality(S) \in Nat /\ Cardinality(S) <= Len(graph[m]) /\ Len(graph[m]) \in Nat
  BY <1>2, ElementsFew
<1> HIDE DEF S
<1>4. u \in Seq(Modules) /\ ToSet(u) = S
  <2>1. u \in Seq(Modules) /\ ToSet(u) = ToSet(Paths) \cap S
    BY <1>1, AmongFound
  <2> HIDE DEF u
  <2> QED BY <1>1, <1>2, <2>1
<1>5. IsInjective(u)
  BY <1>1, AmongOnce
<1> HIDE DEF u
<1>6. Cardinality(ToSet(u)) = Len(u)
  BY <1>4, <1>5, ElementsCounted
<1>7. Len(u) \in Nat /\ Len(u) <= Len(graph[m])
  BY <1>3, <1>4, <1>6
<1>8. Sorted(ToSet(graph[m])) = u
  BY DEF Sorted, S, u
<1> QED BY <1>4, <1>5, <1>7, <1>8 DEF S

\* A part of an order of imports is in that order.
LEMMA PartOfOrder ==
    ASSUME NEW p, NEW s, IsImportOrder(p, s), NEW S \in SUBSET Modules
    PROVE  /\ Among(s, S) \in Seq(Modules)
           /\ IsInjective(Among(s, S))
           /\ ToSet(Among(s, S)) = S
           /\ ImportsFirst(p, Among(s, S))
<1> DEFINE u == Among(s, S)
<1>1. s \in Seq(Modules) /\ IsInjective(s) /\ ToSet(s) = Modules /\ ImportsFirst(p, s)
  BY DEF IsImportOrder
<1>2. u \in Seq(Modules) /\ ToSet(u) = S /\ \A a, b : Follows(u, a, b) => Follows(s, a, b)
  <2>1. /\ u \in Seq(Modules) /\ ToSet(u) = ToSet(s) \cap S
        /\ \A a, b : Follows(u, a, b) => Follows(s, a, b)
    BY <1>1, AmongFound
  <2> HIDE DEF u
  <2> QED BY <1>1, <2>1
<1>3. IsInjective(u)
  BY <1>1, AmongOnce
<1> HIDE DEF u
<1>4. ASSUME NEW i \in 1 .. Len(u), NEW j \in 1 .. Len(u), u[i] \in ToSet(p[u[j]].imports)
      PROVE  i < j
  <2>0. Len(u) \in Nat /\ Len(s) \in Nat
    BY <1>1, <1>2
  <2>1. i < j \/ j < i \/ i = j
    BY <2>0
  <2>2. CASE j < i
    <3>1. Follows(u, u[j], u[i])
      BY <2>2 DEF Follows
    <3>2. PICK k \in 1 .. Len(s), l \in 1 .. Len(s) : k < l /\ s[k] = u[j] /\ s[l] = u[i]
      BY <1>2, <3>1 DEF Follows
    <3>3. l < k
      BY <1>1, <1>4, <3>2 DEF ImportsFirst
    <3> QED BY <2>0, <3>2, <3>3
  <2>3. CASE i = j
    <3>1. u[j] \in ToSet(s)
      BY <1>1, <1>2, SetOfSequence
    <3>2. PICK k \in 1 .. Len(s) : s[k] = u[j]
      BY <1>1, <3>1, SetOfSequence
    <3>3. k < k
      BY <1>1, <1>4, <2>3, <3>2 DEF ImportsFirst
    <3> QED BY <2>0, <3>3
  <2> QED BY <2>1, <2>2, <2>3
<1>5. ImportsFirst(p, u)
  BY <1>4 DEF ImportsFirst
<1> QED BY <1>2, <1>3, <1>5 DEF u

\* What one sequence after the other has at its positions
LEMMA JoinedElements ==
    ASSUME NEW S, NEW s \in Seq(S), NEW t \in Seq(S)
    PROVE  /\ s \o t \in Seq(S)
           /\ Len(s) \in Nat /\ Len(t) \in Nat
           /\ Len(s \o t) = Len(s) + Len(t)
           /\ \A i \in 1 .. Len(s) : (s \o t)[i] = s[i]
           /\ \A i \in 1 .. Len(t) : (s \o t)[Len(s) + i] = t[i]
OBVIOUS

\* An element can be added to a sequence that does not have it.
LEMMA AppendOnce ==
    ASSUME NEW S, NEW s \in Seq(S), IsInjective(s), NEW x \in S, x \notin ToSet(s)
    PROVE  IsInjective(Append(s, x))
<1> DEFINE u == Append(s, x)
           n == Len(s)
<1>1. /\ u \in Seq(S) /\ Len(u) = n + 1 /\ n \in Nat
      /\ \A i \in 1 .. n : u[i] = s[i]
      /\ u[n + 1] = x
  BY AppendedElements
<1>2. DOMAIN u = 1 .. n + 1 /\ DOMAIN s = 1 .. n
  BY <1>1
<1>3. \A i \in 1 .. n : s[i] # x
  BY SetOfSequence
<1> HIDE DEF u, n
<1>4. ASSUME NEW i \in 1 .. n + 1, NEW j \in 1 .. n + 1, u[i] = u[j] PROVE i = j
  <2>1. (i \in 1 .. n \/ i = n + 1) /\ (j \in 1 .. n \/ j = n + 1)
    BY <1>1
  <2> QED BY <1>1, <1>2, <1>3, <1>4, <2>1 DEF IsInjective
<1>5. IsInjective(u)
  BY <1>2, <1>4 DEF IsInjective
<1> QED BY <1>5 DEF u
=============================================================================

---------------------------- MODULE TreapProofs -----------------------------
(***************************************************************************)
(* What the operations on treaps do, for trees of any size and any         *)
(* priorities: insertions and extractions keep the nodes in the order of   *)
(* their ids, whatever the rotations, and add or take out just the node    *)
(* they are asked to.                                                      *)
(*                                                                         *)
(* A recursion is proved with sets in the place of predicates: the trees   *)
(* for which it returns what it should are all trees, as they are closed   *)
(* under the forming of a tree from two smaller ones.  That a recursion    *)
(* returns anything has to be shown too (Recursion, Iteration): in the     *)
(* modules it is a function that CHOOSE picks among the solutions of its   *)
(* equation.                                                               *)
(***************************************************************************)
EXTENDS Tables, TLAPS, WellFoundedInduction, SequenceTheorems,
        FiniteSetTheorems

(***************************************************************************)
(* Induction and recursion over the natural numbers, with sets in the      *)
(* place of predicates.                                                    *)
(***************************************************************************)

LEMMA NatWF == IsWellFoundedOn({p \in Nat \X Nat : p[1] < p[2]}, Nat)
BY NatLessThanWellFounded DEF OpToRel

LEMMA NatSetInduction ==
  ASSUME NEW S, 0 \in S, \A n \in Nat : n \in S => n + 1 \in S
  PROVE  \A n \in Nat : n \in S
<1> DEFINE T == Nat \ S
           R == {p \in Nat \X Nat : p[1] < p[2]}
<1>1. SUFFICES ASSUME T # {} PROVE FALSE
  OBVIOUS
<1>2. PICK x \in T : \A y \in T : ~(<<y, x>> \in R)
  <2>1. T \subseteq Nat /\ IsWellFoundedOn(R, Nat)
    BY NatWF
  <2> HIDE DEF R, T
  <2> QED BY <1>1, <2>1, WFMin
<1>3. x - 1 \in Nat
  BY x # 0
<1>4. x - 1 \notin S
  BY <1>3
<1>5. <<x - 1, x>> \in R
  BY <1>3
<1> QED BY <1>2, <1>3, <1>4, <1>5

(***************************************************************************)
(* The trees, by their height.                                             *)
(***************************************************************************)

\* What a node may carry: a priority that rand() returned, an analysis.
Heaps == HeapVals \cup {h[i] : h \in [Ids -> HeapVals], i \in Nat}
Anals == [path : Seq(Nat), status : Nat, suspended : Nat,
          proc : {"none", "runs", "stopped"}]

TreesOver(T) == [id : Nat, heap : Heaps, anal : Anals \cup {Null},
                 left : T, right : T]

IsLevels(n, f) ==
  /\ f[0] = {Null}
  /\ \A k \in 1 .. n : f[k] = {Null} \cup TreesOver(f[k - 1])
Levels(n)  == CHOOSE f : IsLevels(n, f)
TreesTo(n) == Levels(n)[n]
Trees      == UNION {TreesTo(n) : n \in Nat}
Proper     == Trees \ {Null}

LEMMA LevelsExist ==
  ASSUME NEW n \in Nat
  PROVE  \E f : IsLevels(n, f)
<1> DEFINE S == {m \in Nat : \E f : IsLevels(m, f)}
<1>1. 0 \in S
  <2> DEFINE f == [k \in 0 .. 0 |-> {Null}]
  <2>1. IsLevels(0, f)
    BY DEF IsLevels
  <2> QED BY <2>1
<1>2. ASSUME NEW m \in Nat, m \in S
      PROVE  m + 1 \in S
  <2>1. PICK f : IsLevels(m, f)
    BY <1>2
  <2> DEFINE g == [k \in 0 .. m + 1 |->
                     IF k <= m THEN f[k] ELSE {Null} \cup TreesOver(f[m])]
  <2>2. ASSUME NEW k \in 1 .. m + 1
        PROVE  g[k] = {Null} \cup TreesOver(g[k - 1])
    <3>1. k - 1 \in 0 .. m + 1 /\ k - 1 <= m /\ g[k - 1] = f[k - 1]
      OBVIOUS
    <3>2. CASE k <= m
      <4>1. f[k] = {Null} \cup TreesOver(f[k - 1])
        BY <2>1, <3>2 DEF IsLevels
      <4> QED BY <3>1, <3>2, <4>1
    <3>3. CASE k = m + 1
      <4>1. g[k] = {Null} \cup TreesOver(f[m]) /\ k - 1 = m
        BY <3>3
      <4> QED BY <3>1, <4>1
    <3> QED BY <3>2, <3>3
  <2>3. g[0] = {Null}
    BY <2>1 DEF IsLevels
  <2>4. IsLevels(m + 1, g)
    BY <2>2, <2>3 DEF IsLevels
  <2> QED BY <2>4
<1> HIDE DEF S
<1>3. n \in S
  BY <1>1, <1>2, NatSetInduction
<1> QED BY <1>3 DEF S

LEMMA LevelsUnique ==
  ASSUME NEW n \in Nat, NEW m \in Nat, NEW f, NEW g, IsLevels(n, f),
         IsLevels(m, g), NEW k \in Nat, k <= n, k <= m
  PROVE  f[k] = g[k]
<1> DEFINE S == {i \in Nat : i <= n /\ i <= m => f[i] = g[i]}
<1>1. 0 \in S
  BY DEF IsLevels
<1>2. ASSUME NEW i \in Nat, i \in S
      PROVE  i + 1 \in S
  <2> SUFFICES ASSUME i + 1 <= n, i + 1 <= m
               PROVE  f[i + 1] = g[i + 1]
    OBVIOUS
  <2>1. f[i] = g[i]
    BY <1>2
  <2>2. i + 1 \in 1 .. n /\ i + 1 \in 1 .. m /\ (i + 1) - 1 = i
    OBVIOUS
  <2>3. f[i + 1] = {Null} \cup TreesOver(f[i])
    BY <2>2 DEF IsLevels
  <2>4. g[i + 1] = {Null} \cup TreesOver(g[i])
    BY <2>2 DEF IsLevels
  <2> QED BY <2>1, <2>3, <2>4
<1> HIDE DEF S
<1>3. k \in S
  BY <1>1, <1>2, NatSetInduction
<1> QED BY <1>3 DEF S

LEMMA TreesToRec ==
  /\ TreesTo(0) = {Null}
  /\ \A n \in Nat : TreesTo(n + 1) = {Null} \cup TreesOver(TreesTo(n))
<1>1. \A n \in Nat : IsLevels(n, Levels(n))
  BY LevelsExist DEF Levels
<1>2. TreesTo(0) = {Null}
  BY <1>1 DEF IsLevels, TreesTo
<1>3. ASSUME NEW n \in Nat
      PROVE  TreesTo(n + 1) = {Null} \cup TreesOver(TreesTo(n))
  <2>1. Levels(n + 1)[n + 1] = {Null} \cup TreesOver(Levels(n + 1)[(n + 1) - 1])
    BY <1>1 DEF IsLevels
  <2>2. (n + 1) - 1 = n
    OBVIOUS
  <2>3. Levels(n + 1)[n] = Levels(n)[n]
    BY <1>1, LevelsUnique
  <2> QED BY <2>1, <2>2, <2>3 DEF TreesTo
<1> QED BY <1>2, <1>3

LEMMA NullNotOver ==
  ASSUME NEW T, NEW t \in TreesOver(T)
  PROVE  t # Null
<1>1. DOMAIN t = {"id", "heap", "anal", "left", "right"}
  BY DEF TreesOver
<1>2. DOMAIN Null = {}
  BY DEF Null
<1> QED BY <1>1, <1>2

LEMMA TreesGrow ==
  ASSUME NEW m \in Nat, NEW n \in Nat, m <= n
  PROVE  TreesTo(m) \subseteq TreesTo(n)
<1> DEFINE S == {k \in Nat : TreesTo(k) \subseteq TreesTo(k + 1)}
           U == {k \in Nat : TreesTo(m) \subseteq TreesTo(m + k)}
<1>1. \A k \in Nat : k \in S
  <2>1. 0 \in S
    BY TreesToRec
  <2>2. ASSUME NEW k \in Nat, k \in S
        PROVE  k + 1 \in S
    <3>1. TreesOver(TreesTo(k)) \subseteq TreesOver(TreesTo(k + 1))
      BY <2>2 DEF TreesOver
    <3> QED BY <3>1, TreesToRec
  <2> HIDE DEF S
  <2> QED BY <2>1, <2>2, NatSetInduction
<1>2. \A k \in Nat : k \in U
  <2>1. 0 \in U
    OBVIOUS
  <2>2. ASSUME NEW k \in Nat, k \in U
        PROVE  k + 1 \in U
    <3>1. m + k \in S /\ m + (k + 1) = (m + k) + 1
      BY <1>1
    <3> QED BY <2>2, <3>1
  <2> HIDE DEF U
  <2> QED BY <2>1, <2>2, NatSetInduction
<1>3. n - m \in U /\ m + (n - m) = n
  BY <1>2
<1> QED BY <1>3

\* A tree is Null or has a number, a priority, an analysis and two trees.
LEMMA TreeParts ==
  ASSUME NEW t \in Proper
  PROVE  /\ t # Null /\ t \in TreesOver(Trees)
         /\ t.id \in Nat /\ t.heap \in Heaps /\ t.anal \in Anals \cup {Null}
         /\ t.left \in Trees /\ t.right \in Trees
<1>1. PICK n \in Nat : t \in TreesTo(n)
  BY DEF Proper, Trees
<1>2. n # 0
  BY <1>1, TreesToRec DEF Proper
<1>3. n - 1 \in Nat /\ (n - 1) + 1 = n
  BY <1>2
<1>4. t \in TreesOver(TreesTo(n - 1))
  BY <1>1, <1>3, TreesToRec DEF Proper
<1>5. TreesTo(n - 1) \subseteq Trees
  BY <1>3 DEF Trees
<1>6. t \in TreesOver(Trees)
  BY <1>4, <1>5 DEF TreesOver
<1> QED BY <1>6 DEF Proper, TreesOver

LEMMA TreeMade ==
  ASSUME NEW t \in TreesOver(Trees)
  PROVE  t \in Proper
<1>1. PICK m \in Nat : t.left \in TreesTo(m)
  BY DEF TreesOver, Trees
<1>2. PICK n \in Nat : t.right \in TreesTo(n)
  BY DEF TreesOver, Trees
<1>3. PICK k \in Nat : m <= k /\ n <= k
  BY m <= n \/ n <= m
<1>4. t.left \in TreesTo(k) /\ t.right \in TreesTo(k)
  BY <1>1, <1>2, <1>3, TreesGrow
<1>5. t \in TreesOver(TreesTo(k))
  BY <1>4 DEF TreesOver
<1>6. t \in TreesTo(k + 1)
  BY <1>5, TreesToRec
<1> QED BY <1>6, NullNotOver DEF Trees, Proper

LEMMA NullIsTree == Null \in Trees /\ Trees = Proper \cup {Null}
BY TreesToRec DEF Trees, Proper

\* The least height.
Height == [t \in Trees |-> CHOOSE n \in Nat :
                             /\ t \in TreesTo(n)
                             /\ \A m \in Nat : t \in TreesTo(m) => n <= m]

LEMMA LeastNat ==
  ASSUME NEW S \in SUBSET Nat, S # {}
  PROVE  \E n \in S : \A m \in S : n <= m
<1> DEFINE R == {p \in Nat \X Nat : p[1] < p[2]}
<1>1. PICK n \in S : \A m \in S : ~(<<m, n>> \in R)
  <2>1. IsWellFoundedOn(R, Nat)
    BY NatWF
  <2> HIDE DEF R
  <2> QED BY <2>1, WFMin
<1>2. \A m \in S : n <= m
  <2> SUFFICES ASSUME NEW m \in S PROVE n <= m
    OBVIOUS
  <2>1. <<m, n>> \notin R
    BY <1>1
  <2> QED BY <2>1
<1> QED BY <1>2

LEMMA HeightFacts ==
  /\ Height \in [Trees -> Nat]
  /\ \A t \in Trees : t \in TreesTo(Height[t])
  /\ \A t \in Trees, m \in Nat : t \in TreesTo(m) => Height[t] <= m
<1> SUFFICES ASSUME NEW t \in Trees
             PROVE  /\ Height[t] \in Nat /\ t \in TreesTo(Height[t])
                    /\ \A m \in Nat : t \in TreesTo(m) => Height[t] <= m
  BY DEF Height
<1> DEFINE S == {n \in Nat : t \in TreesTo(n)}
<1>1. S # {} /\ S \in SUBSET Nat
  BY DEF Trees
<1>2. PICK n \in S : \A m \in S : n <= m
  <2> HIDE DEF S
  <2> QED BY <1>1, LeastNat
<1>3. /\ t \in TreesTo(n) /\ n \in Nat
      /\ \A m \in Nat : t \in TreesTo(m) => n <= m
  BY <1>2
<1> QED BY <1>3 DEF Height

LEMMA HeightLess ==
  ASSUME NEW t \in Proper
  PROVE  Height[t.left] < Height[t] /\ Height[t.right] < Height[t]
<1>1. t \in Trees /\ t # Null
  BY DEF Proper
<1>2. PICK n \in Nat : n = Height[t]
  BY <1>1, HeightFacts
<1>3. t \in TreesTo(n)
  BY <1>1, <1>2, HeightFacts
<1>4. n - 1 \in Nat /\ (n - 1) + 1 = n
  <2>1. n # 0
    BY <1>1, <1>3, TreesToRec
  <2> QED BY <2>1
<1>5. t \in TreesOver(TreesTo(n - 1))
  BY <1>1, <1>3, <1>4, TreesToRec
<1>6. t.left \in TreesTo(n - 1) /\ t.right \in TreesTo(n - 1)
  BY <1>5 DEF TreesOver
<1>7. Height[t.left] <= n - 1 /\ Height[t.right] <= n - 1
  BY <1>4, <1>6, TreeParts, HeightFacts
<1>8. Height[t.left] \in Nat /\ Height[t.right] \in Nat
  BY TreeParts, HeightFacts
<1> QED BY <1>2, <1>4, <1>7, <1>8

LEMMA TreeInduction ==
  ASSUME NEW S, Null \in S,
         \A t \in Proper : t.left \in S /\ t.right \in S => t \in S
  PROVE  \A t \in Trees : t \in S
<1> DEFINE N == {n \in Nat : \A t \in Trees : Height[t] <= n => t \in S}
<1>1. 0 \in N
  <2> SUFFICES ASSUME NEW t \in Trees, Height[t] <= 0 PROVE t \in S
    OBVIOUS
  <2>1. Height[t] = 0
    BY HeightFacts
  <2>2. t = Null
    BY <2>1, HeightFacts, TreesToRec
  <2> QED BY <2>2
<1>2. ASSUME NEW n \in Nat, n \in N
      PROVE  n + 1 \in N
  <2> SUFFICES ASSUME NEW t \in Trees, Height[t] <= n + 1, t # Null
               PROVE  t \in S
    OBVIOUS
  <2>1. t \in Proper
    BY DEF Proper
  <2>2. t.left \in Trees /\ t.right \in Trees
    BY <2>1, TreeParts
  <2>3. /\ Height[t] \in Nat /\ Height[t.left] \in Nat /\ Height[t.right] \in Nat
        /\ Height[t.left] < Height[t] /\ Height[t.right] < Height[t]
    BY <2>1, <2>2, HeightFacts, HeightLess
  <2>4. Height[t.left] <= n /\ Height[t.right] <= n
    BY <2>3
  <2> QED BY <1>2, <2>1, <2>2, <2>4
<1> HIDE DEF N
<1>3. \A n \in Nat : n \in N
  BY <1>1, <1>2, NatSetInduction
<1>4. \A t \in Trees : Height[t] \in N /\ Height[t] \in Nat
  BY <1>3, HeightFacts
<1> QED BY <1>4 DEF N

(***************************************************************************)
(* A function that is defined by recursion on a measure exists.  H says    *)
(* what it returns, from what it returns for a[u] and b[u].                *)
(***************************************************************************)
IsRecursion(D, m, Z, V, base, a, b, H) ==
  /\ m \in [D -> Nat] /\ Z \in SUBSET D /\ base \in [Z -> V]
  /\ a \in [D \ Z -> D] /\ b \in [D \ Z -> D]
  /\ H \in [(D \ Z) \X V \X V -> V]
  /\ \A u \in D \ Z : m[a[u]] < m[u] /\ m[b[u]] < m[u]

Solves(g, D, Z, V, base, a, b, H) ==
  /\ g \in [D -> V]
  /\ \A u \in Z : g[u] = base[u]
  /\ \A u \in D \ Z : g[u] = H[<<u, g[a[u]], g[b[u]]>>]

LEMMA Recursion ==
  ASSUME NEW D, NEW m, NEW Z, NEW V, NEW base, NEW a, NEW b, NEW H,
         IsRecursion(D, m, Z, V, base, a, b, H)
  PROVE  \E g : Solves(g, D, Z, V, base, a, b, H)
<1> SUFFICES ASSUME m \in [D -> Nat], Z \in SUBSET D, base \in [Z -> V],
                    a \in [D \ Z -> D], b \in [D \ Z -> D],
                    H \in [(D \ Z) \X V \X V -> V],
                    \A u \in D \ Z : m[a[u]] < m[u] /\ m[b[u]] < m[u]
             PROVE  \E g \in [D -> V] :
                      /\ \A u \in Z : g[u] = base[u]
                      /\ \A u \in D \ Z : g[u] = H[<<u, g[a[u]], g[b[u]]>>]
  BY DEF IsRecursion, Solves
<1> DEFINE W(n) == {u \in D : m[u] < n}
           P(n, g) == /\ g \in [W(n) -> V]
                      /\ \A u \in W(n) \cap Z : g[u] = base[u]
                      /\ \A u \in W(n) \ Z : g[u] = H[<<u, g[a[u]], g[b[u]]>>]
<1>1. \A n \in Nat : \A u \in W(n + 1) \ Z : a[u] \in W(n) /\ b[u] \in W(n)
  <2> SUFFICES ASSUME NEW n \in Nat, NEW u \in D, m[u] < n + 1, u \notin Z
               PROVE  a[u] \in W(n) /\ b[u] \in W(n)
    OBVIOUS
  <2>1. a[u] \in D /\ b[u] \in D /\ m[a[u]] < m[u] /\ m[b[u]] < m[u]
    OBVIOUS
  <2>2. m[u] \in Nat /\ m[a[u]] \in Nat /\ m[b[u]] \in Nat
    BY <2>1
  <2>3. m[a[u]] < n /\ m[b[u]] < n
    BY <2>1, <2>2
  <2> QED BY <2>1, <2>3
<1>2. \A n \in Nat : W(n) \subseteq W(n + 1) /\ W(n) \subseteq D
  <2> SUFFICES ASSUME NEW n \in Nat, NEW u \in D, m[u] < n
               PROVE  m[u] < n + 1
    OBVIOUS
  <2>1. m[u] \in Nat
    OBVIOUS
  <2> QED BY <2>1
<1>3. \A n \in Nat : \E g : P(n, g)
  <2> DEFINE S == {n \in Nat : \E g : P(n, g)}
  <2>1. 0 \in S
    <3>1. W(0) = {}
      OBVIOUS
    <3>2. P(0, [u \in {} |-> u])
      BY <3>1
    <3> QED BY <3>2
  <2>2. ASSUME NEW n \in Nat, n \in S
        PROVE  n + 1 \in S
    <3>1. PICK g : P(n, g)
      BY <2>2
    <3> DEFINE h == [u \in W(n + 1) |->
                       IF u \in Z THEN base[u] ELSE H[<<u, g[a[u]], g[b[u]]>>]]
    <3> HIDE DEF W
    <3>2. \A u \in W(n + 1) \ Z : /\ g[a[u]] \in V /\ g[b[u]] \in V
                                  /\ u \in D \ Z
      BY <1>1, <1>2, <3>1
    <3>3. h \in [W(n + 1) -> V]
      BY <3>2
    <3>4. \A u \in W(n) : h[u] = g[u]
      BY <1>2, <3>1
    <3>5. \A u \in W(n + 1) \ Z : h[a[u]] = g[a[u]] /\ h[b[u]] = g[b[u]]
      BY <1>1, <3>4
    <3>6. \A u \in W(n + 1) \ Z : h[u] = H[<<u, h[a[u]], h[b[u]]>>]
      BY <3>5
    <3>7. \A u \in W(n + 1) \cap Z : h[u] = base[u]
      OBVIOUS
    <3>8. P(n + 1, h)
      <4> HIDE DEF h
      <4> QED BY <3>3, <3>6, <3>7
    <3> HIDE DEF P, h
    <3>9. \E g_1 : P(n + 1, g_1)
      BY <3>8
    <3> QED BY <3>9
  <2> HIDE DEF S
  <2>3. \A n \in Nat : n \in S
    BY <2>1, <2>2, NatSetInduction
  <2> QED BY <2>3 DEF S
<1>4. ASSUME NEW k \in Nat, NEW n \in Nat, NEW g, NEW h, P(k, g), P(n, h),
             NEW u \in W(k), u \in W(n)
      PROVE  g[u] = h[u]
  <2> DEFINE S == {j \in Nat : \A v \in W(j) : v \in W(k) /\ v \in W(n)
                                              => g[v] = h[v]}
  <2>1. 0 \in S
    OBVIOUS
  <2>2. ASSUME NEW j \in Nat, j \in S
        PROVE  j + 1 \in S
    <3> SUFFICES ASSUME NEW v \in W(j + 1), v \in W(k), v \in W(n)
                 PROVE  g[v] = h[v]
      OBVIOUS
    <3>1. CASE v \in Z
      BY <1>4, <3>1
    <3>2. CASE v \notin Z
      <4>1. a[v] \in W(j) /\ b[v] \in W(j)
        BY <1>1, <3>2
      <4>2. \A i \in Nat : v \in W(i) => a[v] \in W(i) /\ b[v] \in W(i)
        <5> SUFFICES ASSUME NEW i \in Nat, m[v] < i
                     PROVE  a[v] \in W(i) /\ b[v] \in W(i)
          OBVIOUS
        <5>1. a[v] \in D /\ b[v] \in D /\ m[a[v]] < m[v] /\ m[b[v]] < m[v]
          BY <3>2
        <5>2. m[v] \in Nat /\ m[a[v]] \in Nat /\ m[b[v]] \in Nat
          BY <5>1
        <5>3. m[a[v]] < i /\ m[b[v]] < i
          BY <5>1, <5>2
        <5> QED BY <5>1, <5>3
      <4>3. g[a[v]] = h[a[v]] /\ g[b[v]] = h[b[v]]
        <5> HIDE DEF W
        <5> QED BY <2>2, <4>1, <4>2
      <4>4. g[v] = H[<<v, g[a[v]], g[b[v]]>>] /\ h[v] = H[<<v, h[a[v]], h[b[v]]>>]
        <5> HIDE DEF W
        <5> QED BY <1>4, <3>2
      <4> QED BY <4>3, <4>4
    <3> QED BY <3>1, <3>2
  <2> HIDE DEF S
  <2>3. k \in S
    BY <2>1, <2>2, NatSetInduction
  <2>4. \A v \in W(k) : v \in W(k) /\ v \in W(n) => g[v] = h[v]
    <3> HIDE DEF W
    <3> QED BY <2>3 DEF S
  <2> HIDE DEF W
  <2> QED BY <1>4, <2>4
<1> DEFINE G == [u \in D |-> (CHOOSE g : P(m[u] + 1, g))[u]]
<1>5. \A u \in D : m[u] + 1 \in Nat /\ m[u] < m[u] + 1
  <2> SUFFICES ASSUME NEW u \in D PROVE m[u] + 1 \in Nat /\ m[u] < m[u] + 1
    OBVIOUS
  <2>1. m[u] \in Nat
    OBVIOUS
  <2> QED BY <2>1
<1>6. ASSUME NEW n \in Nat, NEW g, P(n, g), NEW u \in W(n)
      PROVE  G[u] = g[u]
  <2>1. u \in D /\ u \in W(m[u] + 1) /\ m[u] + 1 \in Nat
    BY <1>5
  <2> DEFINE h == CHOOSE h : P(m[u] + 1, h)
  <2>2. P(m[u] + 1, h)
    <3> HIDE DEF P
    <3> QED BY <1>3, <2>1
  <2>3. G[u] = h[u]
    BY <2>1
  <2> HIDE DEF h, P, W, G
  <2> QED BY <1>4, <1>6, <2>1, <2>2, <2>3
<1>7. ASSUME NEW u \in D
      PROVE  /\ G[u] \in V
             /\ u \in Z => G[u] = base[u]
             /\ u \notin Z => G[u] = H[<<u, G[a[u]], G[b[u]]>>]
  <2> DEFINE n == m[u] + 1
  <2>1. n \in Nat /\ u \in W(n)
    BY <1>5
  <2>2. PICK g : P(n, g)
    <3> HIDE DEF P, n
    <3> QED BY <1>3, <2>1
  <2>3. \A v \in W(n) : G[v] = g[v]
    <3> HIDE DEF P, n, W, G
    <3> QED BY <1>6, <2>1, <2>2
  <2>4. u \notin Z => a[u] \in W(n) /\ b[u] \in W(n)
    <3>1. m[u] \in Nat
      OBVIOUS
    <3> HIDE DEF W
    <3> QED BY <1>1, <1>2, <2>1, <3>1
  <2> HIDE DEF G, W, n
  <2> QED BY <2>1, <2>2, <2>3, <2>4
<1>8. G \in [D -> V]
  BY <1>7
<1> HIDE DEF G
<1> QED BY <1>7, <1>8

-----------------------------------------------------------------------------
(***************************************************************************)
(* A sequence that is defined step by step exists.                         *)
(***************************************************************************)
LEMMA Iteration ==
  ASSUME NEW V, NEW t \in V, NEW step \in [V -> V]
  PROVE  \E at : /\ at \in [Nat -> V] /\ at[0] = t
                 /\ \A k \in Nat \ {0} : at[k] = step[at[k - 1]]
<1> DEFINE m == [k \in Nat |-> k]
           base == [k \in {0} |-> t]
           a == [k \in Nat \ {0} |-> k - 1]
           H == [x \in (Nat \ {0}) \X V \X V |-> step[x[2]]]
<1>1. /\ m \in [Nat -> Nat] /\ base \in [{0} -> V]
      /\ a \in [Nat \ {0} -> Nat] /\ H \in [(Nat \ {0}) \X V \X V -> V]
      /\ {0} \in SUBSET Nat
  OBVIOUS
<1>2. \A k \in Nat \ {0} : m[a[k]] < m[k] /\ m[a[k]] < m[k]
  OBVIOUS
<1>3. \E g : Solves(g, Nat, {0}, V, base, a, a, H)
  <2> HIDE DEF m, base, a, H
  <2>1. IsRecursion(Nat, m, {0}, V, base, a, a, H)
    BY <1>1, <1>2 DEF IsRecursion
  <2> QED BY <2>1, Recursion
<1>4. PICK g : Solves(g, Nat, {0}, V, base, a, a, H)
  BY <1>3
<1>5. g \in [Nat -> V] /\ g[0] = t
  BY <1>4 DEF Solves
<1>6. ASSUME NEW k \in Nat \ {0}
      PROVE  g[k] = step[g[k - 1]]
  <2>1. g[k] = H[<<k, g[a[k]], g[a[k]]>>]
    <3> HIDE DEF H, a
    <3> QED BY <1>4 DEF Solves
  <2>2. a[k] = k - 1 /\ k - 1 \in Nat
    OBVIOUS
  <2>3. g[k - 1] \in V
    BY <1>5, <2>2
  <2>4. <<k, g[k - 1], g[k - 1]>> \in (Nat \ {0}) \X V \X V
    BY <2>3
  <2> QED BY <2>1, <2>2, <2>4
<1> QED BY <1>5, <1>6

(***************************************************************************)
(* What a recursion returns that goes along the steps at[0], at[1], ... as *)
(* long as they are not in Z depends on at[k] only: g is the function that *)
(* is defined by the same recursion on the trees.                          *)
(***************************************************************************)
IsSteps(D, m, Z, V, base, a, H) ==
  /\ m \in [D -> Nat] /\ Z \in SUBSET D /\ base \in [Z -> V]
  /\ a \in [D \ Z -> D] /\ H \in [(D \ Z) \X V -> V]
  /\ \A u \in D \ Z : m[a[u]] < m[u]

Returns(g, D, Z, V, base, a, H) ==
  /\ g \in [D -> V]
  /\ \A u \in Z : g[u] = base[u]
  /\ \A u \in D \ Z : g[u] = H[<<u, g[a[u]]>>]

\* at is a run down to Z, f[k] what the recursion returns from its step k.
Runs(at, f, D, Z, V, base, a, H) ==
  /\ \A k \in Nat : at[k] \in D
  /\ \A k \in Nat : at[k] \notin Z => at[k + 1] = a[at[k]]
  /\ \A k \in Nat : at[k] \in Z => f[k] = base[at[k]]
  /\ \A k \in Nat : at[k] \notin Z /\ f[k + 1] \in V =>
                      f[k] = H[<<at[k], f[k + 1]>>]

LEMMA StepsExist ==
  ASSUME NEW D, NEW m, NEW Z, NEW V, NEW base, NEW a, NEW H,
         IsSteps(D, m, Z, V, base, a, H)
  PROVE  \E g : Returns(g, D, Z, V, base, a, H)
<1> DEFINE G == [x \in (D \ Z) \X V \X V |-> H[<<x[1], x[2]>>]]
<1>1. G \in [(D \ Z) \X V \X V -> V]
  BY DEF IsSteps
<1>2. \E g : Solves(g, D, Z, V, base, a, a, G)
  <2> HIDE DEF G
  <2>1. IsRecursion(D, m, Z, V, base, a, a, G)
    BY <1>1 DEF IsRecursion, IsSteps
  <2> QED BY <2>1, Recursion
<1>3. PICK g : Solves(g, D, Z, V, base, a, a, G)
  BY <1>2
<1>4. ASSUME NEW u \in D \ Z
      PROVE  g[u] = H[<<u, g[a[u]]>>]
  <2>1. g[u] = G[<<u, g[a[u]], g[a[u]]>>]
    <3> HIDE DEF G
    <3> QED BY <1>3 DEF Solves
  <2>2. g[a[u]] \in V
    <3> HIDE DEF G
    <3> QED BY <1>3 DEF Solves, IsSteps
  <2> QED BY <2>1, <2>2
<1>5. Returns(g, D, Z, V, base, a, H)
  <2> HIDE DEF G
  <2> QED BY <1>3, <1>4 DEF Solves, Returns
<1> QED BY <1>5

LEMMA Steps ==
  ASSUME NEW D, NEW m, NEW Z, NEW V, NEW base, NEW a, NEW H,
         IsSteps(D, m, Z, V, base, a, H), NEW g,
         Returns(g, D, Z, V, base, a, H), NEW at, NEW f,
         Runs(at, f, D, Z, V, base, a, H)
  PROVE  \A k \in Nat : f[k] = g[at[k]]
<1> USE DEF IsSteps, Returns
<1>1. /\ m \in [D -> Nat] /\ a \in [D \ Z -> D]
      /\ \A u \in D \ Z : m[a[u]] < m[u]
  OBVIOUS
<1>3. g \in [D -> V] /\ \A u \in Z : g[u] = base[u]
  OBVIOUS
<1>4. \A u \in D \ Z : g[u] = H[<<u, g[a[u]]>>]
  OBVIOUS
<1> USE DEF Runs
<1>5. /\ \A k \in Nat : at[k] \in D
      /\ \A k \in Nat : at[k] \notin Z => at[k + 1] = a[at[k]]
      /\ \A k \in Nat : at[k] \in Z => f[k] = base[at[k]]
      /\ \A k \in Nat : at[k] \notin Z /\ f[k + 1] \in V =>
                          f[k] = H[<<at[k], f[k + 1]>>]
  OBVIOUS
<1> HIDE DEF IsSteps, Returns, Runs
<1> DEFINE S == {n \in Nat : \A k \in Nat : m[at[k]] < n => f[k] = g[at[k]]}
<1>11. 0 \in S
  <2> SUFFICES ASSUME NEW k \in Nat, m[at[k]] < 0 PROVE FALSE
    OBVIOUS
  <2>1. m[at[k]] \in Nat
    BY <1>1, <1>5
  <2> QED BY <2>1
<1>12. ASSUME NEW n \in Nat, n \in S
      PROVE  n + 1 \in S
  <2> SUFFICES ASSUME NEW k \in Nat, m[at[k]] < n + 1
               PROVE  f[k] = g[at[k]]
    OBVIOUS
  <2>1. CASE at[k] \in Z
    BY <1>3, <1>5, <2>1
  <2>2. CASE at[k] \notin Z
    <3>1. at[k] \in D \ Z /\ at[k + 1] = a[at[k]] /\ k + 1 \in Nat
      BY <1>5, <2>2
    <3>2. m[at[k + 1]] < m[at[k]]
      BY <1>1, <3>1
    <3>3. m[at[k + 1]] \in Nat /\ m[at[k]] \in Nat
      BY <1>1, <1>5, <3>1
    <3>4. m[at[k + 1]] < n
      BY <3>2, <3>3
    <3>5. f[k + 1] = g[at[k + 1]]
      BY <1>12, <3>1, <3>4
    <3>6. f[k + 1] \in V
      BY <1>3, <1>5, <3>1, <3>5
    <3>7. f[k] = H[<<at[k], f[k + 1]>>]
      BY <1>5, <2>2, <3>6
    <3> QED BY <1>4, <3>1, <3>5, <3>7
  <2> QED BY <2>1, <2>2
<1> HIDE DEF S
<1>13. \A n \in Nat : n \in S
  BY <1>11, <1>12, NatSetInduction
<1>14. \A k \in Nat : m[at[k]] + 1 \in Nat /\ m[at[k]] < m[at[k]] + 1
  <2> SUFFICES ASSUME NEW k \in Nat
               PROVE  m[at[k]] + 1 \in Nat /\ m[at[k]] < m[at[k]] + 1
    OBVIOUS
  <2>1. m[at[k]] \in Nat
    BY <1>1, <1>5
  <2> QED BY <2>1
<1> QED BY <1>13, <1>14 DEF S

(***************************************************************************)
(* The recursions of the treaps.                                           *)
(***************************************************************************)

LEMMA ChildTree ==
  ASSUME NEW t \in Trees, NEW left
  PROVE  Child(t, left) \in Trees
BY TreeParts, NullIsTree DEF Child, Proper

LEMMA DescentSteps ==
  ASSUME NEW t \in Trees, NEW id
  PROVE  /\ \A k \in Nat : Descent(t, id)[k] \in Trees
         /\ Descent(t, id)[0] = t
         /\ \A k \in Nat : Descent(t, id)[k + 1] =
              Child(Descent(t, id)[k], id < Descent(t, id)[k].id)
<1> DEFINE P(f) == f = [k \in Nat |-> IF k = 0 THEN t
                          ELSE LET u == f[k - 1] IN Child(u, id < u.id)]
           step == [u \in Trees |-> Child(u, id < u.id)]
<1>1. step \in [Trees -> Trees]
  BY ChildTree
<1>2. \E at : /\ at \in [Nat -> Trees] /\ at[0] = t
              /\ \A k \in Nat \ {0} : at[k] = step[at[k - 1]]
  <2> HIDE DEF step
  <2> QED BY <1>1, Iteration
<1>3. PICK at : /\ at \in [Nat -> Trees] /\ at[0] = t
                /\ \A k \in Nat \ {0} : at[k] = step[at[k - 1]]
  BY <1>2
<1>4. ASSUME NEW k \in Nat \ {0}
      PROVE  at[k] = Child(at[k - 1], id < at[k - 1].id)
  <2>1. k - 1 \in Nat
    OBVIOUS
  <2>2. at[k - 1] \in Trees
    BY <1>3, <2>1
  <2> QED BY <1>3, <2>2
<1>5. P(at)
  BY <1>3, <1>4
<1>6. Descent(t, id) = CHOOSE f : P(f)
  BY DEF Descent
<1>7. P(Descent(t, id))
  <2> HIDE DEF P
  <2> QED BY <1>5, <1>6
<1> DEFINE d == Descent(t, id)
<1>8. /\ d[0] = t
      /\ \A k \in Nat \ {0} : d[k] = Child(d[k - 1], id < d[k - 1].id)
  <2> HIDE DEF d
  <2>1. P(d)
    BY <1>7 DEF d
  <2> QED BY <2>1
<1> HIDE DEF d
<1>9. \A k \in Nat : d[k + 1] = Child(d[k], id < d[k].id)
  BY <1>8
<1>10. \A k \in Nat : d[k] \in Trees
  <2> DEFINE S == {k \in Nat : d[k] \in Trees}
  <2>1. 0 \in S
    BY <1>8
  <2>2. \A k \in Nat : k \in S => k + 1 \in S
    BY <1>9, ChildTree
  <2> HIDE DEF S
  <2>3. \A k \in Nat : k \in S
    BY <2>1, <2>2, NatSetInduction
  <2> QED BY <2>3 DEF S
<1> QED BY <1>8, <1>9, <1>10 DEF d

-----------------------------------------------------------------------------
(***************************************************************************)
(* The parts of a tree that the operations replace, and the recursion of   *)
(* an insertion.                                                           *)
(***************************************************************************)

LEMMA TreeRecord ==
  ASSUME NEW t \in Proper
  PROVE  t = [id |-> t.id, heap |-> t.heap, anal |-> t.anal, left |-> t.left,
              right |-> t.right]
BY TreeParts DEF TreesOver

LEMMA WithLeft ==
  ASSUME NEW t \in Proper, NEW u \in Trees
  PROVE  /\ [t EXCEPT !.left = u] \in Proper
         /\ [t EXCEPT !.left = u].id = t.id
         /\ [t EXCEPT !.left = u].heap = t.heap
         /\ [t EXCEPT !.left = u].anal = t.anal
         /\ [t EXCEPT !.left = u].left = u
         /\ [t EXCEPT !.left = u].right = t.right
<1>1. t \in TreesOver(Trees)
  BY TreeParts
<1>2. [t EXCEPT !.left = u] \in TreesOver(Trees)
  BY <1>1 DEF TreesOver
<1> QED BY <1>1, <1>2, TreeMade DEF TreesOver

LEMMA WithRight ==
  ASSUME NEW t \in Proper, NEW u \in Trees
  PROVE  /\ [t EXCEPT !.right = u] \in Proper
         /\ [t EXCEPT !.right = u].id = t.id
         /\ [t EXCEPT !.right = u].heap = t.heap
         /\ [t EXCEPT !.right = u].anal = t.anal
         /\ [t EXCEPT !.right = u].left = t.left
         /\ [t EXCEPT !.right = u].right = u
<1>1. t \in TreesOver(Trees)
  BY TreeParts
<1>2. [t EXCEPT !.right = u] \in TreesOver(Trees)
  BY <1>1 DEF TreesOver
<1> QED BY <1>1, <1>2, TreeMade DEF TreesOver

LEMMA WithChildTree ==
  ASSUME NEW t \in Proper, NEW left, NEW u \in Trees
  PROVE  WithChild(t, left, u) \in Proper
BY WithLeft, WithRight DEF WithChild

\* A rotation to the left: the left child becomes the root.
LEMMA SwingLeft ==
  ASSUME NEW t \in Proper, t.left # Null
  PROVE  /\ swing_left(t) \in Proper
         /\ swing_left(t) = [t.left EXCEPT !.right =
                               [t EXCEPT !.left = t.left.right]]
         /\ [t EXCEPT !.left = t.left.right] \in Proper
<1>1. t.left \in Proper /\ t.left.right \in Trees
  BY TreeParts DEF Proper
<1>2. [t EXCEPT !.left = t.left.right] \in Proper
  BY <1>1, WithLeft
<1>3. [t EXCEPT !.left = @.right] = [t EXCEPT !.left = t.left.right]
  BY TreeParts DEF TreesOver
<1>4. swing_left(t) = [t.left EXCEPT !.right = [t EXCEPT !.left = t.left.right]]
  BY <1>3 DEF swing_left
<1>5. [t EXCEPT !.left = t.left.right] \in Trees
  BY <1>2 DEF Proper
<1> QED BY <1>1, <1>2, <1>4, <1>5, WithRight

LEMMA SwingRight ==
  ASSUME NEW t \in Proper, t.right # Null
  PROVE  /\ swing_right(t) \in Proper
         /\ swing_right(t) = [t.right EXCEPT !.left =
                                [t EXCEPT !.right = t.right.left]]
         /\ [t EXCEPT !.right = t.right.left] \in Proper
<1>1. t.right \in Proper /\ t.right.left \in Trees
  BY TreeParts DEF Proper
<1>2. [t EXCEPT !.right = t.right.left] \in Proper
  BY <1>1, WithRight
<1>3. [t EXCEPT !.right = @.left] = [t EXCEPT !.right = t.right.left]
  BY TreeParts DEF TreesOver
<1>4. swing_right(t) = [t.right EXCEPT !.left = [t EXCEPT !.right = t.right.left]]
  BY <1>3 DEF swing_right
<1>5. [t EXCEPT !.right = t.right.left] \in Trees
  BY <1>2 DEF Proper
<1> QED BY <1>1, <1>2, <1>4, <1>5, WithLeft

LEMMA RotatedTree ==
  ASSUME NEW t \in Proper
  PROVE  Rotated(t) \in Proper
BY SwingLeft, SwingRight DEF Rotated

LEMMA HeightDescends ==
  ASSUME NEW t \in Proper, NEW left
  PROVE  Height[Child(t, left)] < Height[t]
BY HeightLess, TreeParts DEF Child

LEMMA InsertRec ==
  ASSUME NEW node \in Proper
  PROVE  /\ treap_insert_node(Null, node) = node
         /\ \A t \in Proper :
              treap_insert_node(t, node) =
                Rotated(WithChild(t, node.id < t.id,
                          treap_insert_node(Child(t, node.id < t.id), node)))
         /\ \A t \in Trees : treap_insert_node(t, node) \in Proper
<1> DEFINE base == [u \in {Null} |-> node]
           a == [u \in Trees \ {Null} |-> Child(u, node.id < u.id)]
           H == [x \in (Trees \ {Null}) \X Proper |->
                   Rotated(WithChild(x[1], node.id < x[1].id, x[2]))]
           P(f, at) == f = [k \in Nat |->
                              LET u == at[k]
                              IN IF u = Null THEN node
                                 ELSE Rotated(WithChild(u, node.id < u.id,
                                                        f[k + 1]))]
<1>1. IsSteps(Trees, Height, {Null}, Proper, base, a, H)
  <2>1. base \in [{Null} -> Proper]
    OBVIOUS
  <2>2. a \in [Trees \ {Null} -> Trees]
    BY ChildTree
  <2>3. H \in [(Trees \ {Null}) \X Proper -> Proper]
    <3> SUFFICES ASSUME NEW u \in Trees \ {Null}, NEW v \in Proper
                 PROVE  Rotated(WithChild(u, node.id < u.id, v)) \in Proper
      OBVIOUS
    <3>1. u \in Proper /\ v \in Trees
      BY DEF Proper
    <3> QED BY <3>1, WithChildTree, RotatedTree
  <2>4. \A u \in Trees \ {Null} : Height[a[u]] < Height[u]
    BY HeightDescends DEF Proper
  <2>5. Height \in [Trees -> Nat] /\ {Null} \in SUBSET Trees
    BY HeightFacts, NullIsTree
  <2> HIDE DEF base, a, H
  <2> QED BY <2>1, <2>2, <2>3, <2>4, <2>5 DEF IsSteps
<1>2. PICK g : Returns(g, Trees, {Null}, Proper, base, a, H)
  <2> HIDE DEF base, a, H
  <2> QED BY <1>1, StepsExist
<1>3. g \in [Trees -> Proper] /\ g[Null] = node
  <2>1. g[Null] = base[Null]
    <3> HIDE DEF base
    <3> QED BY <1>2 DEF Returns
  <2> HIDE DEF a, H
  <2> QED BY <1>2, <2>1 DEF Returns
<1>4. ASSUME NEW u \in Proper
      PROVE  g[u] = Rotated(WithChild(u, node.id < u.id,
                                      g[Child(u, node.id < u.id)]))
  <2>1. u \in Trees \ {Null}
    BY DEF Proper
  <2>2. g[u] = H[<<u, g[a[u]]>>]
    <3> HIDE DEF a, H, base
    <3> QED BY <1>2, <2>1 DEF Returns
  <2>3. a[u] = Child(u, node.id < u.id) /\ a[u] \in Trees
    BY <2>1, ChildTree
  <2>4. <<u, g[a[u]]>> \in (Trees \ {Null}) \X Proper
    <3> HIDE DEF a
    <3> QED BY <1>3, <2>1, <2>3
  <2>5. g[u] = Rotated(WithChild(u, node.id < u.id, g[a[u]]))
    <3> HIDE DEF a
    <3> QED BY <2>2, <2>4
  <2> HIDE DEF a, H
  <2> QED BY <2>3, <2>5
<1>5. ASSUME NEW t \in Trees
      PROVE  treap_insert_node(t, node) = g[t]
  <2>1. PICK at : at = Descent(t, node.id)
    OBVIOUS
  <2>2. /\ \A k \in Nat : at[k] \in Trees
        /\ at[0] = t
        /\ \A k \in Nat : at[k + 1] = Child(at[k], node.id < at[k].id)
    BY <2>1, DescentSteps
  <2>3. treap_insert_node(t, node) = (CHOOSE f : P(f, at))[0]
    BY <2>1 DEF treap_insert_node
  <2>4. \E f : P(f, at)
    <3> DEFINE h == [k \in Nat |-> g[at[k]]]
    <3>1. ASSUME NEW k \in Nat, at[k] # Null
          PROVE  h[k] = Rotated(WithChild(at[k], node.id < at[k].id, h[k + 1]))
      BY <1>4, <2>2, <3>1 DEF Proper
    <3>2. P(h, at)
      <4> SUFFICES ASSUME NEW k \in Nat
                   PROVE  h[k] = IF at[k] = Null THEN node
                                 ELSE Rotated(WithChild(at[k],
                                         node.id < at[k].id, h[k + 1]))
        OBVIOUS
      <4> QED BY <1>3, <3>1
    <3> HIDE DEF P, h
    <3> QED BY <3>2
  <2>5. PICK f : f = CHOOSE h : P(h, at)
    OBVIOUS
  <2>6. P(f, at)
    <3> HIDE DEF P
    <3> QED BY <2>4, <2>5
  <2>7. \A k \in Nat : /\ at[k] = Null => f[k] = node
                       /\ at[k] # Null =>
                            f[k] = Rotated(WithChild(at[k], node.id < at[k].id,
                                                     f[k + 1]))
    BY <2>6
  <2>8. Runs(at, f, Trees, {Null}, Proper, base, a, H)
    <3>1. \A k \in Nat : at[k] \notin {Null} => at[k + 1] = a[at[k]]
      BY <2>2
    <3>2. \A k \in Nat : at[k] \in {Null} => f[k] = base[at[k]]
      BY <2>7
    <3>3. ASSUME NEW k \in Nat, at[k] \notin {Null}, f[k + 1] \in Proper
          PROVE  f[k] = H[<<at[k], f[k + 1]>>]
      <4>1. <<at[k], f[k + 1]>> \in (Trees \ {Null}) \X Proper
        BY <2>2, <3>3
      <4> QED BY <2>7, <3>3, <4>1
    <3> HIDE DEF base, a, H
    <3> QED BY <2>2, <3>1, <3>2, <3>3 DEF Runs
  <2>9. f[0] = g[at[0]]
    <3> HIDE DEF base, a, H
    <3> QED BY <1>1, <1>2, <2>8, Steps
  <2> HIDE DEF P
  <2> QED BY <2>2, <2>3, <2>5, <2>9
<1> HIDE DEF base, a, H, P
<1>6. \A t \in Proper : t \in Trees /\ Child(t, node.id < t.id) \in Trees
  BY ChildTree DEF Proper
<1> QED BY <1>3, <1>4, <1>5, <1>6, NullIsTree

-----------------------------------------------------------------------------
(***************************************************************************)
(* The recursions of a search and of a change to an analysis.              *)
(***************************************************************************)

LEMMA NullNot == \A t \in Proper : t # Null
BY DEF Proper

LEMMA WithAnalTree ==
  ASSUME NEW t \in Proper, NEW a \in Anals \cup {Null}
  PROVE  /\ [t EXCEPT !.anal = a] \in Proper
         /\ [t EXCEPT !.anal = a].id = t.id
         /\ [t EXCEPT !.anal = a].heap = t.heap
         /\ [t EXCEPT !.anal = a].anal = a
         /\ [t EXCEPT !.anal = a].left = t.left
         /\ [t EXCEPT !.anal = a].right = t.right
<1>1. t \in TreesOver(Trees)
  BY TreeParts
<1>2. [t EXCEPT !.anal = a] \in TreesOver(Trees)
  BY <1>1 DEF TreesOver
<1> QED BY <1>1, <1>2, TreeMade DEF TreesOver

LEMMA FindRec ==
  ASSUME NEW id
  PROVE  /\ treap_find(Null, id) = Null
         /\ \A t \in Proper :
              /\ t.id = id => treap_find(t, id) = t
              /\ t.id # id => treap_find(t, id) =
                                treap_find(Child(t, id < t.id), id)
         /\ \A t \in Trees : treap_find(t, id) \in Trees
<1> DEFINE Z == {u \in Trees : u = Null \/ u.id = id}
           base == [u \in Z |-> u]
           a == [u \in Trees \ Z |-> Child(u, id < u.id)]
           H == [x \in (Trees \ Z) \X Trees |-> x[2]]
           P(f, at) == f = [k \in Nat |-> LET u == at[k] IN IF u = Null \/ u.id = id THEN u ELSE f[k + 1]]
<1>1. IsSteps(Trees, Height, Z, Trees, base, a, H)
  <2>1. base \in [Z -> Trees]
    OBVIOUS
  <2>2. a \in [Trees \ Z -> Trees]
    BY ChildTree
  <2>3. H \in [(Trees \ Z) \X Trees -> Trees]
    OBVIOUS
  <2>4. \A u \in Trees \ Z : Height[a[u]] < Height[u]
    BY HeightDescends DEF Proper
  <2>5. Height \in [Trees -> Nat] /\ Z \in SUBSET Trees
    BY HeightFacts, NullIsTree
  <2> HIDE DEF Z, base, a, H
  <2> QED BY <2>1, <2>2, <2>3, <2>4, <2>5 DEF IsSteps
<1>2. PICK g : Returns(g, Trees, Z, Trees, base, a, H)
  <2> HIDE DEF Z, base, a, H
  <2> QED BY <1>1, StepsExist
<1>3. g \in [Trees -> Trees] /\ \A u \in Z : g[u] = u
  <2>1. \A u \in Z : g[u] = base[u]
    <3> HIDE DEF Z, base
    <3> QED BY <1>2 DEF Returns
  <2>2. g \in [Trees -> Trees]
    <3> HIDE DEF Z, base, a, H
    <3> QED BY <1>2 DEF Returns
  <2> HIDE DEF Z, a, H
  <2> QED BY <2>1, <2>2
<1>4. ASSUME NEW u \in Trees \ Z
      PROVE  g[u] = g[Child(u, id < u.id)]
  <2>2. g[u] = H[<<u, g[a[u]]>>]
    <3> HIDE DEF Z, a, H, base
    <3> QED BY <1>2 DEF Returns
  <2>3. a[u] = Child(u, id < u.id) /\ a[u] \in Trees
    BY ChildTree
  <2>4. <<u, g[a[u]]>> \in (Trees \ Z) \X Trees
    <3> HIDE DEF a, Z
    <3> QED BY <1>3, <2>3
  <2>5. g[u] = g[a[u]]
    <3> HIDE DEF a, Z
    <3> QED BY <2>2, <2>4
  <2> HIDE DEF a, H
  <2> QED BY <2>3, <2>5
<1>5. ASSUME NEW t \in Trees
      PROVE  treap_find(t, id) = g[t]
  <2>1. PICK at : at = Descent(t, id)
    OBVIOUS
  <2>2. /\ \A k \in Nat : at[k] \in Trees
        /\ at[0] = t
        /\ \A k \in Nat : at[k + 1] = Child(at[k], id < at[k].id)
    BY <2>1, DescentSteps
  <2>3. treap_find(t, id) = (CHOOSE f : P(f, at))[0]
    BY <2>1 DEF treap_find
  <2>4. \E f : P(f, at)
    <3> DEFINE h == [k \in Nat |-> g[at[k]]]
    <3>1. ASSUME NEW k \in Nat
          PROVE  h[k] = LET u == at[k] IN IF u = Null \/ u.id = id THEN u ELSE h[k + 1]
      <4>1. at[k] \in Trees /\ at[k + 1] = Child(at[k], id < at[k].id)
        BY <2>2
      <4>2. CASE at[k] \in Z
        <5> QED BY <1>3, <4>1, <4>2
      <4>3. CASE at[k] \notin Z
        <5>1. ~(at[k] = Null \/ at[k].id = id)
          BY <4>1, <4>3
        <5> HIDE DEF Z
        <5> QED BY <1>4, <4>1, <4>3, <5>1
      <4> QED BY <4>2, <4>3
    <3>2. P(h, at)
      BY <3>1
    <3> HIDE DEF P, h
    <3> QED BY <3>2
  <2>5. PICK f : f = CHOOSE h : P(h, at)
    OBVIOUS
  <2>6. P(f, at)
    <3> HIDE DEF P
    <3> QED BY <2>4, <2>5
  <2>7. \A k \in Nat : f[k] = LET u == at[k] IN IF u = Null \/ u.id = id THEN u ELSE f[k + 1]
    BY <2>6
  <2>8. Runs(at, f, Trees, Z, Trees, base, a, H)
    <3>1. \A k \in Nat : at[k] \notin Z => at[k + 1] = a[at[k]]
      BY <2>2
    <3>2. \A k \in Nat : at[k] \in Z => f[k] = base[at[k]]
      BY <2>7
    <3>3. ASSUME NEW k \in Nat, at[k] \notin Z, f[k + 1] \in Trees
          PROVE  f[k] = H[<<at[k], f[k + 1]>>]
      <4>1. <<at[k], f[k + 1]>> \in (Trees \ Z) \X Trees
        BY <2>2, <3>3
      <4>2. ~(at[k] = Null \/ at[k].id = id)
        BY <2>2, <3>3
      <4> QED BY <2>7, <4>1, <4>2
    <3> HIDE DEF Z, base, a, H
    <3> QED BY <2>2, <3>1, <3>2, <3>3 DEF Runs
  <2>9. f[0] = g[at[0]]
    <3> HIDE DEF Z, base, a, H
    <3> QED BY <1>1, <1>2, <2>8, Steps
  <2> HIDE DEF P
  <2> QED BY <2>2, <2>3, <2>5, <2>9
<1>6. \A t \in Proper : /\ t \in Trees /\ Child(t, id < t.id) \in Trees
                        /\ t.id = id => t \in Z
                        /\ t.id # id => t \in Trees \ Z
  BY ChildTree DEF Proper
<1>7. Null \in Z
  BY NullIsTree
<1> HIDE DEF Z, base, a, H, P
<1>8. treap_find(Null, id) = Null
  BY <1>3, <1>5, <1>7, NullIsTree
<1>9. ASSUME NEW t \in Proper
      PROVE  /\ t.id = id => treap_find(t, id) = g[t]
             /\ t.id = id => t \in Z /\ t # Null
             /\ t.id # id => treap_find(t, id) = treap_find(Child(t, id < t.id), id)
  <2>1. treap_find(t, id) = g[t]
    BY <1>5, <1>6
  <2>2. treap_find(Child(t, id < t.id), id) = g[Child(t, id < t.id)]
    BY <1>5, <1>6
  <2>3. t.id # id => g[t] = g[Child(t, id < t.id)]
    BY <1>4, <1>6
  <2> QED BY <1>6, <2>1, <2>2, <2>3, NullNot
<1>10. \A t \in Trees : treap_find(t, id) \in Trees
  BY <1>3, <1>5
<1> QED BY <1>3, <1>8, <1>9, <1>10

LEMMA WithAnalRec ==
  ASSUME NEW id, NEW anal \in Anals
  PROVE  /\ WithAnal(Null, id, anal) = Null
         /\ \A t \in Proper :
              /\ t.id = id => WithAnal(t, id, anal) = [t EXCEPT !.anal = anal]
              /\ t.id # id => WithAnal(t, id, anal) =
                                WithChild(t, id < t.id,
                                  WithAnal(Child(t, id < t.id), id, anal))
         /\ \A t \in Trees : WithAnal(t, id, anal) \in Trees
<1> DEFINE Z == {u \in Trees : u = Null \/ u.id = id}
           base == [u \in Z |-> IF u = Null THEN Null ELSE [u EXCEPT !.anal = anal]]
           a == [u \in Trees \ Z |-> Child(u, id < u.id)]
           H == [x \in (Trees \ Z) \X Trees |-> WithChild(x[1], id < x[1].id, x[2])]
           P(f, at) == f = [k \in Nat |-> LET u == at[k] IN IF u = Null THEN Null
                  ELSE IF u.id = id THEN [u EXCEPT !.anal = anal]
                  ELSE WithChild(u, id < u.id, f[k + 1])]
<1>1. IsSteps(Trees, Height, Z, Trees, base, a, H)
  <2>1. base \in [Z -> Trees]
    BY NullIsTree, WithAnalTree DEF Proper
  <2>2. a \in [Trees \ Z -> Trees]
    BY ChildTree
  <2>3. H \in [(Trees \ Z) \X Trees -> Trees]
    BY WithChildTree DEF Proper
  <2>4. \A u \in Trees \ Z : Height[a[u]] < Height[u]
    BY HeightDescends DEF Proper
  <2>5. Height \in [Trees -> Nat] /\ Z \in SUBSET Trees
    BY HeightFacts, NullIsTree
  <2> HIDE DEF Z, base, a, H
  <2> QED BY <2>1, <2>2, <2>3, <2>4, <2>5 DEF IsSteps
<1>2. PICK g : Returns(g, Trees, Z, Trees, base, a, H)
  <2> HIDE DEF Z, base, a, H
  <2> QED BY <1>1, StepsExist
<1>3. g \in [Trees -> Trees] /\ \A u \in Z : g[u] = IF u = Null THEN Null ELSE [u EXCEPT !.anal = anal]
  <2>1. \A u \in Z : g[u] = base[u]
    <3> HIDE DEF Z, base
    <3> QED BY <1>2 DEF Returns
  <2>2. g \in [Trees -> Trees]
    <3> HIDE DEF Z, base, a, H
    <3> QED BY <1>2 DEF Returns
  <2> HIDE DEF Z, a, H
  <2> QED BY <2>1, <2>2
<1>4. ASSUME NEW u \in Trees \ Z
      PROVE  g[u] = WithChild(u, id < u.id, g[Child(u, id < u.id)])
  <2>2. g[u] = H[<<u, g[a[u]]>>]
    <3> HIDE DEF Z, a, H, base
    <3> QED BY <1>2 DEF Returns
  <2>3. a[u] = Child(u, id < u.id) /\ a[u] \in Trees
    BY ChildTree
  <2>4. <<u, g[a[u]]>> \in (Trees \ Z) \X Trees
    <3> HIDE DEF a, Z
    <3> QED BY <1>3, <2>3
  <2>5. g[u] = WithChild(u, id < u.id, g[a[u]])
    <3> HIDE DEF a, Z
    <3> QED BY <2>2, <2>4
  <2> HIDE DEF a, H
  <2> QED BY <2>3, <2>5
<1>5. ASSUME NEW t \in Trees
      PROVE  WithAnal(t, id, anal) = g[t]
  <2>1. PICK at : at = Descent(t, id)
    OBVIOUS
  <2>2. /\ \A k \in Nat : at[k] \in Trees
        /\ at[0] = t
        /\ \A k \in Nat : at[k + 1] = Child(at[k], id < at[k].id)
    BY <2>1, DescentSteps
  <2>3. WithAnal(t, id, anal) = (CHOOSE f : P(f, at))[0]
    BY <2>1 DEF WithAnal
  <2>4. \E f : P(f, at)
    <3> DEFINE h == [k \in Nat |-> g[at[k]]]
    <3>1. ASSUME NEW k \in Nat
          PROVE  h[k] = LET u == at[k] IN IF u = Null THEN Null
                  ELSE IF u.id = id THEN [u EXCEPT !.anal = anal]
                  ELSE WithChild(u, id < u.id, h[k + 1])
      <4>1. at[k] \in Trees /\ at[k + 1] = Child(at[k], id < at[k].id)
        BY <2>2
      <4>2. CASE at[k] \in Z
        <5> QED BY <1>3, <4>1, <4>2
      <4>3. CASE at[k] \notin Z
        <5>1. ~(at[k] = Null \/ at[k].id = id)
          BY <4>1, <4>3
        <5> HIDE DEF Z
        <5> QED BY <1>4, <4>1, <4>3, <5>1
      <4> QED BY <4>2, <4>3
    <3>2. P(h, at)
      BY <3>1
    <3> HIDE DEF P, h
    <3> QED BY <3>2
  <2>5. PICK f : f = CHOOSE h : P(h, at)
    OBVIOUS
  <2>6. P(f, at)
    <3> HIDE DEF P
    <3> QED BY <2>4, <2>5
  <2>7. \A k \in Nat : f[k] = LET u == at[k] IN IF u = Null THEN Null
                  ELSE IF u.id = id THEN [u EXCEPT !.anal = anal]
                  ELSE WithChild(u, id < u.id, f[k + 1])
    BY <2>6
  <2>8. Runs(at, f, Trees, Z, Trees, base, a, H)
    <3>1. \A k \in Nat : at[k] \notin Z => at[k + 1] = a[at[k]]
      BY <2>2
    <3>2. \A k \in Nat : at[k] \in Z => f[k] = base[at[k]]
      BY <2>7
    <3>3. ASSUME NEW k \in Nat, at[k] \notin Z, f[k + 1] \in Trees
          PROVE  f[k] = H[<<at[k], f[k + 1]>>]
      <4>1. <<at[k], f[k + 1]>> \in (Trees \ Z) \X Trees
        BY <2>2, <3>3
      <4>2. ~(at[k] = Null \/ at[k].id = id)
        BY <2>2, <3>3
      <4> QED BY <2>7, <4>1, <4>2
    <3> HIDE DEF Z, base, a, H
    <3> QED BY <2>2, <3>1, <3>2, <3>3 DEF Runs
  <2>9. f[0] = g[at[0]]
    <3> HIDE DEF Z, base, a, H
    <3> QED BY <1>1, <1>2, <2>8, Steps
  <2> HIDE DEF P
  <2> QED BY <2>2, <2>3, <2>5, <2>9
<1>6. \A t \in Proper : /\ t \in Trees /\ Child(t, id < t.id) \in Trees
                        /\ t.id = id => t \in Z
                        /\ t.id # id => t \in Trees \ Z
  BY ChildTree DEF Proper
<1>7. Null \in Z
  BY NullIsTree
<1> HIDE DEF Z, base, a, H, P
<1>8. WithAnal(Null, id, anal) = Null
  BY <1>3, <1>5, <1>7, NullIsTree
<1>9. ASSUME NEW t \in Proper
      PROVE  /\ t.id = id => WithAnal(t, id, anal) = g[t]
             /\ t.id = id => t \in Z /\ t # Null
             /\ t.id # id => WithAnal(t, id, anal) = WithChild(t, id < t.id, WithAnal(Child(t, id < t.id), id, anal))
  <2>1. WithAnal(t, id, anal) = g[t]
    BY <1>5, <1>6
  <2>2. WithAnal(Child(t, id < t.id), id, anal) = g[Child(t, id < t.id)]
    BY <1>5, <1>6
  <2>3. t.id # id => g[t] = WithChild(t, id < t.id, g[Child(t, id < t.id)])
    BY <1>4, <1>6
  <2> QED BY <1>6, <2>1, <2>2, <2>3, NullNot
<1>10. \A t \in Trees : WithAnal(t, id, anal) \in Trees
  BY <1>3, <1>5
<1> QED BY <1>3, <1>8, <1>9, <1>10

-----------------------------------------------------------------------------
(***************************************************************************)
(* Nodes without children, and the recursion of the order in which the     *)
(* nodes are listed. It is one over positions: the subtrees of the tree at *)
(* p are at 2p + 1 and 2p + 2.                                             *)
(***************************************************************************)

Lone == {t \in Proper : t.left = Null /\ t.right = Null}

LEMMA AloneLone ==
  ASSUME NEW t \in Proper
  PROVE  /\ Alone(t) \in Lone /\ Alone(t).id = t.id /\ Alone(t).heap = t.heap
         /\ Alone(t).anal = t.anal /\ Alone(t).left = Null /\ Alone(t).right = Null
<1>1. t \in TreesOver(Trees)
  BY TreeParts
<1>2. Alone(t) \in TreesOver(Trees)
  BY <1>1, NullIsTree DEF TreesOver, Alone
<1>3. /\ Alone(t).id = t.id /\ Alone(t).heap = t.heap
      /\ Alone(t).anal = t.anal /\ Alone(t).left = Null /\ Alone(t).right = Null
  BY <1>1, NullIsTree DEF TreesOver, Alone
<1> QED BY <1>2, <1>3, TreeMade DEF Lone

\* The children of the tree at p are at 2p + 1 and 2p + 2.
LEMMA Numbering ==
  ASSUME NEW p \in Nat
  PROVE  /\ 2 * p + 1 \in Nat \ {0} /\ 2 * p + 2 \in Nat \ {0}
         /\ ((2 * p + 1) - 1) \div 2 = p /\ ((2 * p + 2) - 1) \div 2 = p
         /\ (2 * p + 1) % 2 = 1 /\ (2 * p + 2) % 2 # 1
         /\ p # 0 => (p - 1) \div 2 \in Nat /\ (p - 1) \div 2 < p
OBVIOUS

LEMMA PositionsExist ==
  ASSUME NEW t \in Trees
  PROVE  \E at : /\ at \in [Nat -> Trees]
                 /\ at = [p \in Nat |-> IF p = 0 THEN t
                            ELSE Child(at[(p - 1) \div 2], p % 2 = 1)]
<1> DEFINE m == [k \in Nat |-> k]
           base == [k \in {0} |-> t]
           a == [k \in Nat \ {0} |-> (k - 1) \div 2]
           H == [x \in (Nat \ {0}) \X Trees \X Trees |-> Child(x[2], x[1] % 2 = 1)]
<1>1. /\ m \in [Nat -> Nat] /\ base \in [{0} -> Trees]
      /\ {0} \in SUBSET Nat
  OBVIOUS
<1>2. \A k \in Nat \ {0} : a[k] \in Nat /\ m[a[k]] < m[k] /\ m[a[k]] < m[k]
  BY Numbering
<1>3. a \in [Nat \ {0} -> Nat]
  BY <1>2
<1>4. H \in [(Nat \ {0}) \X Trees \X Trees -> Trees]
  BY ChildTree
<1>5. \E g : Solves(g, Nat, {0}, Trees, base, a, a, H)
  <2> HIDE DEF m, base, a, H
  <2>1. IsRecursion(Nat, m, {0}, Trees, base, a, a, H)
    BY <1>1, <1>2, <1>3, <1>4 DEF IsRecursion
  <2> QED BY <2>1, Recursion
<1>6. PICK g : Solves(g, Nat, {0}, Trees, base, a, a, H)
  BY <1>5
<1>7. g \in [Nat -> Trees] /\ g[0] = t
  BY <1>6 DEF Solves
<1>8. ASSUME NEW k \in Nat \ {0}
      PROVE  g[k] = Child(g[(k - 1) \div 2], k % 2 = 1)
  <2>1. g[k] = H[<<k, g[a[k]], g[a[k]]>>]
    <3> HIDE DEF H, a
    <3> QED BY <1>6 DEF Solves
  <2>2. a[k] = (k - 1) \div 2 /\ a[k] \in Nat
    BY <1>2
  <2>3. g[a[k]] \in Trees
    <3> HIDE DEF a
    <3> QED BY <1>7, <2>2
  <2>4. <<k, g[a[k]], g[a[k]]>> \in (Nat \ {0}) \X Trees \X Trees
    <3> HIDE DEF a
    <3> QED BY <2>3
  <2>5. g[k] = Child(g[a[k]], k % 2 = 1)
    <3> HIDE DEF a
    <3> QED BY <2>1, <2>4
  <2> QED BY <2>2, <2>5
<1>9. g = [p \in Nat |-> IF p = 0 THEN t
                         ELSE Child(g[(p - 1) \div 2], p % 2 = 1)]
  <2> DEFINE R(p) == IF p = 0 THEN t ELSE Child(g[(p - 1) \div 2], p % 2 = 1)
  <2>1. \A p \in Nat : g[p] = R(p)
    BY <1>7, <1>8
  <2> HIDE DEF R
  <2>2. g = [p \in Nat |-> R(p)]
    BY <1>7, <2>1
  <2> QED BY <2>2 DEF R
<1> QED BY <1>7, <1>9

LEMMA InOrderRec ==
  /\ InOrder(Null) = <<>>
  /\ \A t \in Proper : InOrder(t) =
       InOrder(t.left) \o <<Alone(t)>> \o InOrder(t.right)
  /\ \A t \in Trees : InOrder(t) \in Seq(Lone)
<1> DEFINE V == Seq(Lone)
           base == [u \in {Null} |-> <<>>]
           a == [u \in Trees \ {Null} |-> u.left]
           b == [u \in Trees \ {Null} |-> u.right]
           H == [x \in (Trees \ {Null}) \X V \X V |->
                   x[2] \o <<Alone(x[1])>> \o x[3]]
           A(f, t) == f = [p \in Nat |-> IF p = 0 THEN t
                             ELSE Child(f[(p - 1) \div 2], p % 2 = 1)]
           P(f, at) == f = [p \in Nat |->
                              LET u == at[p]
                              IN IF u = Null THEN <<>>
                                 ELSE f[2 * p + 1] \o <<Alone(u)>> \o f[2 * p + 2]]
<1>1. IsRecursion(Trees, Height, {Null}, V, base, a, b, H)
  <2>1. base \in [{Null} -> V]
    OBVIOUS
  <2>2. a \in [Trees \ {Null} -> Trees] /\ b \in [Trees \ {Null} -> Trees]
    BY TreeParts DEF Proper
  <2>3. H \in [(Trees \ {Null}) \X V \X V -> V]
    <3> SUFFICES ASSUME NEW u \in Trees \ {Null}, NEW v \in V, NEW w \in V
                 PROVE  v \o <<Alone(u)>> \o w \in V
      OBVIOUS
    <3>1. Alone(u) \in Lone
      BY AloneLone DEF Proper
    <3> QED BY <3>1
  <2>4. \A u \in Trees \ {Null} : Height[a[u]] < Height[u] /\ Height[b[u]] < Height[u]
    BY HeightLess DEF Proper
  <2>5. Height \in [Trees -> Nat] /\ {Null} \in SUBSET Trees
    BY HeightFacts, NullIsTree
  <2> HIDE DEF base, a, b, H, V
  <2> QED BY <2>1, <2>2, <2>3, <2>4, <2>5 DEF IsRecursion
<1>2. PICK g : Solves(g, Trees, {Null}, V, base, a, b, H)
  <2> HIDE DEF base, a, b, H, V
  <2> QED BY <1>1, Recursion
<1>3. g \in [Trees -> V] /\ g[Null] = <<>>
  <2>1. g[Null] = base[Null]
    <3> HIDE DEF base
    <3> QED BY <1>2 DEF Solves
  <2> HIDE DEF a, b, H, V
  <2> QED BY <1>2, <2>1 DEF Solves
<1>4. ASSUME NEW u \in Proper
      PROVE  g[u] = g[u.left] \o <<Alone(u)>> \o g[u.right]
  <2>1. u \in Trees \ {Null} /\ u.left \in Trees /\ u.right \in Trees
    BY TreeParts DEF Proper
  <2>2. g[u] = H[<<u, g[a[u]], g[b[u]]>>]
    <3> HIDE DEF a, b, H, base, V
    <3> QED BY <1>2, <2>1 DEF Solves
  <2>3. a[u] = u.left /\ b[u] = u.right
    BY <2>1
  <2>4. <<u, g[u.left], g[u.right]>> \in (Trees \ {Null}) \X V \X V
    <3> HIDE DEF a, V
    <3> QED BY <1>3, <2>1
  <2>5. H[<<u, g[u.left], g[u.right]>>] = g[u.left] \o <<Alone(u)>> \o g[u.right]
    <3> HIDE DEF a, b, V
    <3> QED BY <2>4
  <2> HIDE DEF a, b, H
  <2> QED BY <2>2, <2>3, <2>5
<1>5. ASSUME NEW t \in Trees
      PROVE  InOrder(t) = g[t]
  <2>1. PICK at : at = CHOOSE f : A(f, t)
    OBVIOUS
  <2>2. A(at, t)
    <3> DEFINE C(f) == A(f, t)
    <3>1. \E f : C(f)
      BY PositionsExist
    <3>2. at = CHOOSE f : C(f)
      BY <2>1
    <3> HIDE DEF C
    <3>3. C(at)
      BY <3>1, <3>2
    <3> QED BY <3>3 DEF C
  <2>3. \A p \in Nat : at[p] = IF p = 0 THEN t
                               ELSE Child(at[(p - 1) \div 2], p % 2 = 1)
    <3> DEFINE R(f, p) == IF p = 0 THEN t
                          ELSE Child(f[(p - 1) \div 2], p % 2 = 1)
    <3>1. at = [p \in Nat |-> R(at, p)]
      BY <2>2
    <3> HIDE DEF R, A
    <3>2. \A p \in Nat : at[p] = R(at, p)
      BY <3>1
    <3> QED BY <3>2 DEF R
  <2>4. /\ at[0] = t
        /\ \A p \in Nat : /\ at[2 * p + 1] = Child(at[p], TRUE)
                          /\ at[2 * p + 2] = Child(at[p], FALSE)
    <3> HIDE DEF A
    <3>1. at[0] = t
      BY <2>3
    <3>2. ASSUME NEW p \in Nat
          PROVE  /\ at[2 * p + 1] = Child(at[p], TRUE)
                 /\ at[2 * p + 2] = Child(at[p], FALSE)
      <4>1. at[2 * p + 1] = Child(at[((2 * p + 1) - 1) \div 2], (2 * p + 1) % 2 = 1)
        BY <2>3, Numbering
      <4>2. at[2 * p + 2] = Child(at[((2 * p + 2) - 1) \div 2], (2 * p + 2) % 2 = 1)
        BY <2>3, Numbering
      <4>3. ((2 * p + 1) % 2 = 1) = TRUE /\ ((2 * p + 2) % 2 = 1) = FALSE
        BY Numbering
      <4> QED BY <4>1, <4>2, <4>3, Numbering
    <3> QED BY <3>1, <3>2
  <2>5. \A p \in Nat : at[p] \in Trees
    <3> DEFINE S == {n \in Nat : \A p \in Nat : p < n => at[p] \in Trees}
    <3>1. 0 \in S
      OBVIOUS
    <3>2. ASSUME NEW n \in Nat, n \in S
          PROVE  n + 1 \in S
      <4> SUFFICES ASSUME NEW p \in Nat, p < n + 1
                   PROVE  at[p] \in Trees
        OBVIOUS
      <4> HIDE DEF A
      <4>1. CASE p = 0
        BY <2>4, <4>1
      <4>2. CASE p # 0
        <5>1. (p - 1) \div 2 \in Nat /\ (p - 1) \div 2 < n
          BY <4>2, Numbering
        <5>2. at[(p - 1) \div 2] \in Trees
          BY <3>2, <5>1
        <5>3. at[p] = Child(at[(p - 1) \div 2], p % 2 = 1)
          BY <2>3, <4>2
        <5> QED BY <5>2, <5>3, ChildTree
      <4> QED BY <4>1, <4>2
    <3> HIDE DEF S
    <3>3. \A n \in Nat : n \in S
      BY <3>1, <3>2, NatSetInduction
    <3>4. \A p \in Nat : p + 1 \in Nat /\ p < p + 1
      OBVIOUS
    <3> QED BY <3>3, <3>4 DEF S
  <2>6. InOrder(t) = (CHOOSE f : P(f, at))[0]
    BY <2>1 DEF InOrder
  <2>7. \A p \in Nat : at[p] # Null =>
          /\ at[p] \in Proper
          /\ at[2 * p + 1] = at[p].left /\ at[2 * p + 2] = at[p].right
          /\ 2 * p + 1 \in Nat /\ 2 * p + 2 \in Nat
    <3> HIDE DEF A
    <3> QED BY <2>4, <2>5 DEF Proper, Child
  <2>8. \E f : P(f, at)
    <3> DEFINE h == [p \in Nat |-> g[at[p]]]
    <3> HIDE DEF A
    <3>1. ASSUME NEW p \in Nat, at[p] # Null
          PROVE  h[p] = h[2 * p + 1] \o <<Alone(at[p])>> \o h[2 * p + 2]
      <4>1. h[p] = g[at[p]] /\ h[2 * p + 1] = g[at[2 * p + 1]]
            /\ h[2 * p + 2] = g[at[2 * p + 2]]
        BY <2>7, <3>1
      <4> HIDE DEF h
      <4>2. g[at[p]] = g[at[p].left] \o <<Alone(at[p])>> \o g[at[p].right]
        BY <1>4, <2>7, <3>1
      <4>3. h[2 * p + 1] = g[at[p].left] /\ h[2 * p + 2] = g[at[p].right]
        BY <2>7, <3>1, <4>1
      <4> QED BY <4>1, <4>2, <4>3
    <3>2. P(h, at)
      <4> DEFINE R(f, p) == LET u == at[p]
                            IN IF u = Null THEN <<>>
                               ELSE f[2 * p + 1] \o <<Alone(u)>> \o f[2 * p + 2]
      <4>1. \A p \in Nat : h[p] = R(h, p)
        BY <1>3, <3>1
      <4>2. h = [p \in Nat |-> h[p]]
        OBVIOUS
      <4> HIDE DEF R, h
      <4>3. h = [p \in Nat |-> R(h, p)]
        BY <4>1, <4>2
      <4> QED BY <4>3 DEF R
    <3> HIDE DEF P, h
    <3> QED BY <3>2
  <2>9. PICK f : f = CHOOSE h : P(h, at)
    OBVIOUS
  <2>10. P(f, at)
    <3> HIDE DEF P, A
    <3> QED BY <2>8, <2>9
  <2>11. \A p \in Nat : /\ at[p] = Null => f[p] = <<>>
                        /\ at[p] # Null =>
                             f[p] = f[2 * p + 1] \o <<Alone(at[p])>> \o f[2 * p + 2]
    <3> DEFINE R(F, p) == LET u == at[p]
                          IN IF u = Null THEN <<>>
                             ELSE F[2 * p + 1] \o <<Alone(u)>> \o F[2 * p + 2]
    <3>1. f = [p \in Nat |-> R(f, p)]
      BY <2>10
    <3> HIDE DEF R, P, A
    <3>2. \A p \in Nat : f[p] = R(f, p)
      BY <3>1
    <3> QED BY <3>2 DEF R
  <2>12. f[0] = g[at[0]]
    <3> DEFINE S == {n \in Nat : \A p \in Nat : Height[at[p]] < n => f[p] = g[at[p]]}
    <3> HIDE DEF P, A
    <3>1. 0 \in S
      <4> SUFFICES ASSUME NEW p \in Nat, Height[at[p]] < 0 PROVE FALSE
        OBVIOUS
      <4>1. Height[at[p]] \in Nat
        BY <2>5, HeightFacts
      <4> QED BY <4>1
    <3>2. ASSUME NEW n \in Nat, n \in S
          PROVE  n + 1 \in S
      <4> SUFFICES ASSUME NEW p \in Nat, Height[at[p]] < n + 1
                   PROVE  f[p] = g[at[p]]
        OBVIOUS
      <4>1. CASE at[p] = Null
        BY <1>3, <2>11, <4>1
      <4>2. CASE at[p] # Null
        <5>1. /\ at[p] \in Proper /\ at[2 * p + 1] = at[p].left
              /\ at[2 * p + 2] = at[p].right
              /\ 2 * p + 1 \in Nat /\ 2 * p + 2 \in Nat
          BY <2>7, <4>2
        <5>2. /\ Height[at[p]] \in Nat /\ Height[at[p].left] \in Nat
              /\ Height[at[p].right] \in Nat
          BY <2>5, <5>1, HeightFacts, TreeParts
        <5>3. Height[at[p].left] < Height[at[p]] /\ Height[at[p].right] < Height[at[p]]
          BY <5>1, HeightLess
        <5>4. Height[at[p].left] < n /\ Height[at[p].right] < n
          BY <5>2, <5>3
        <5>5. f[2 * p + 1] = g[at[p].left] /\ f[2 * p + 2] = g[at[p].right]
          BY <3>2, <5>1, <5>4
        <5> QED BY <1>4, <2>11, <4>2, <5>1, <5>5
      <4> QED BY <4>1, <4>2
    <3> HIDE DEF S
    <3>3. \A n \in Nat : n \in S
      BY <3>1, <3>2, NatSetInduction
    <3>4. Height[at[0]] + 1 \in Nat /\ Height[at[0]] < Height[at[0]] + 1
      <4>1. Height[at[0]] \in Nat
        BY <2>5, HeightFacts
      <4> QED BY <4>1
    <3> QED BY <3>3, <3>4 DEF S
  <2> HIDE DEF P, A
  <2> QED BY <2>4, <2>6, <2>9, <2>12
<1>6. \A t \in Proper : t \in Trees /\ t.left \in Trees /\ t.right \in Trees
  BY TreeParts DEF Proper
<1> HIDE DEF base, a, b, H, A, P
<1> QED BY <1>3, <1>4, <1>5, <1>6, NullIsTree

-----------------------------------------------------------------------------
(***************************************************************************)
(* Sequences of nodes in the order of their ids.                           *)
(***************************************************************************)

Around(s, x, u) == s \o <<x>> \o u
Cat(p, q) == p \o q

Elems(s)  == {s[i] : i \in DOMAIN s}
Sorted(s) == \A i, j \in DOMAIN s : i < j => s[i].id <= s[j].id
Strict(s) == \A i, j \in DOMAIN s : i < j => s[i].id < s[j].id

LEMMA LoneIds == \A x \in Lone : x.id \in Nat /\ x \in Proper /\ Alone(x) = x
<1> SUFFICES ASSUME NEW x \in Lone PROVE x.id \in Nat /\ x \in Proper /\ Alone(x) = x
  OBVIOUS
<1>1. x \in Proper /\ x.left = Null /\ x.right = Null
  BY DEF Lone
<1>2. x \in TreesOver(Trees)
  BY <1>1, TreeParts
<1>3. Alone(x) = x
  BY <1>1, <1>2 DEF TreesOver, Alone
<1> QED BY <1>1, <1>3, TreeParts

LEMMA ElemsConcat ==
  ASSUME NEW s \in Seq(Lone), NEW u \in Seq(Lone)
  PROVE  /\ s \o u \in Seq(Lone)
         /\ Elems(s \o u) = Elems(s) \cup Elems(u)
         /\ Elems(s) \subseteq Lone
<1>1. /\ s \o u \in Seq(Lone) /\ Len(s \o u) = Len(s) + Len(u)
      /\ \A i \in 1 .. Len(s) + Len(u) : (s \o u)[i] =
           IF i <= Len(s) THEN s[i] ELSE u[i - Len(s)]
  BY ConcatProperties
<1>2. /\ DOMAIN s = 1 .. Len(s) /\ DOMAIN u = 1 .. Len(u)
      /\ DOMAIN (s \o u) = 1 .. Len(s) + Len(u)
      /\ Len(s) \in Nat /\ Len(u) \in Nat
  BY <1>1
<1>3. ASSUME NEW x \in Elems(s \o u)
      PROVE  x \in Elems(s) \cup Elems(u)
  <2>1. PICK i \in 1 .. Len(s) + Len(u) : x = (s \o u)[i]
    BY <1>2 DEF Elems
  <2>2. CASE i <= Len(s)
    <3>1. i \in 1 .. Len(s) /\ x = s[i]
      BY <1>1, <1>2, <2>1, <2>2
    <3> QED BY <3>1, <1>2 DEF Elems
  <2>3. CASE ~(i <= Len(s))
    <3>1. i - Len(s) \in 1 .. Len(u) /\ x = u[i - Len(s)]
      BY <1>1, <1>2, <2>1, <2>3
    <3> QED BY <3>1, <1>2 DEF Elems
  <2> QED BY <2>2, <2>3
<1>4. ASSUME NEW x \in Elems(s)
      PROVE  x \in Elems(s \o u)
  <2>1. PICK i \in 1 .. Len(s) : x = s[i]
    BY <1>2 DEF Elems
  <2>2. i \in 1 .. Len(s) + Len(u) /\ i <= Len(s)
    BY <1>2
  <2> QED BY <1>1, <1>2, <2>1, <2>2 DEF Elems
<1>5. ASSUME NEW x \in Elems(u)
      PROVE  x \in Elems(s \o u)
  <2>1. PICK i \in 1 .. Len(u) : x = u[i]
    BY <1>2 DEF Elems
  <2>2. i + Len(s) \in 1 .. Len(s) + Len(u) /\ ~(i + Len(s) <= Len(s))
        /\ (i + Len(s)) - Len(s) = i
    BY <1>2
  <2> QED BY <1>1, <1>2, <2>1, <2>2 DEF Elems
<1>6. Elems(s) \subseteq Lone
  BY <1>2 DEF Elems
<1> QED BY <1>1, <1>3, <1>4, <1>5, <1>6

LEMMA ElemsOne == \A x : Elems(<<x>>) = {x}
BY DEF Elems

LEMMA SortedConcat ==
  ASSUME NEW s \in Seq(Lone), NEW u \in Seq(Lone)
  PROVE  /\ Sorted(s \o u) <=>
              /\ Sorted(s) /\ Sorted(u)
              /\ \A x \in Elems(s), y \in Elems(u) : x.id <= y.id
         /\ Strict(s \o u) <=>
              /\ Strict(s) /\ Strict(u)
              /\ \A x \in Elems(s), y \in Elems(u) : x.id < y.id
<1> DEFINE m == Len(s)
           n == Len(u)
           w == s \o u
<1>1. /\ w \in Seq(Lone) /\ Len(w) = m + n
      /\ \A i \in 1 .. m + n : w[i] = IF i <= m THEN s[i] ELSE u[i - m]
  BY ConcatProperties
<1>2. /\ DOMAIN s = 1 .. m /\ DOMAIN u = 1 .. n
      /\ DOMAIN w = 1 .. m + n
      /\ m \in Nat /\ n \in Nat
  BY <1>1
<1> HIDE DEF m, n, w
<1>3. \A i \in 1 .. m : i \in 1 .. m + n /\ w[i] = s[i]
  BY <1>1, <1>2
<1>4. \A i \in 1 .. n : i + m \in 1 .. m + n /\ w[i + m] = u[i]
  <2> SUFFICES ASSUME NEW i \in 1 .. n
               PROVE  i + m \in 1 .. m + n /\ w[i + m] = u[i]
    OBVIOUS
  <2>1. i + m \in 1 .. m + n /\ ~(i + m <= m) /\ (i + m) - m = i
    BY <1>2
  <2> QED BY <1>1, <2>1
<1>5. \A i \in 1 .. m + n : \/ i \in 1 .. m
                            \/ i - m \in 1 .. n /\ i = (i - m) + m
  BY <1>2
<1>7. /\ Sorted(w) => Sorted(s)
      /\ Strict(w) => Strict(s)
      /\ Sorted(w) => Sorted(u)
      /\ Strict(w) => Strict(u)
  <2>1. \A i, j \in 1 .. n : i < j => i + m < j + m
    BY <1>2
  <2>2. /\ Sorted(w) => Sorted(s)
        /\ Strict(w) => Strict(s)
    BY <1>2, <1>3 DEF Sorted, Strict
  <2>3. Sorted(w) => Sorted(u)
    BY <1>2, <1>4, <2>1 DEF Sorted
  <2>4. Strict(w) => Strict(u)
    BY <1>2, <1>4, <2>1 DEF Strict
  <2> QED BY <2>2, <2>3, <2>4
<1>8. \A x \in Elems(s), y \in Elems(u) :
        \E i \in 1 .. m, j \in 1 .. n : x = s[i] /\ y = u[j] /\ i < j + m
  <2> SUFFICES ASSUME NEW i \in 1 .. m, NEW j \in 1 .. n PROVE i < j + m
    BY <1>2 DEF Elems
  <2> QED BY <1>2
<1>9. ASSUME NEW x \in Elems(s), NEW y \in Elems(u)
      PROVE  /\ Sorted(w) => x.id <= y.id
             /\ Strict(w) => x.id < y.id
  <2>1. PICK i \in 1 .. m, j \in 1 .. n : x = s[i] /\ y = u[j] /\ i < j + m
    BY <1>8
  <2>2. /\ i \in DOMAIN w /\ j + m \in DOMAIN w
        /\ x = w[i] /\ y = w[j + m]
    BY <1>2, <1>3, <1>4, <2>1
  <2> QED BY <2>1, <2>2 DEF Sorted, Strict
<1>10. ASSUME NEW i \in 1 .. m + n, NEW j \in 1 .. m + n, i < j
       PROVE  \/ i \in 1 .. m /\ j \in 1 .. m /\ w[i] = s[i] /\ w[j] = s[j]
              \/ /\ i - m \in 1 .. n /\ j - m \in 1 .. n /\ i - m < j - m
                 /\ w[i] = u[i - m] /\ w[j] = u[j - m]
              \/ /\ i \in 1 .. m /\ j - m \in 1 .. n
                 /\ w[i] = s[i] /\ w[j] = u[j - m]
  <2>1. CASE j <= m
    <3>1. i \in 1 .. m /\ j \in 1 .. m
      BY <1>2, <1>10, <2>1
    <3> QED BY <1>3, <3>1
  <2>2. CASE i > m
    <3>1. i - m \in 1 .. n /\ j - m \in 1 .. n /\ i - m < j - m
          /\ (i - m) + m = i /\ (j - m) + m = j
      BY <1>2, <1>10, <2>2
    <3>2. w[(i - m) + m] = u[i - m] /\ w[(j - m) + m] = u[j - m]
      BY <1>4, <3>1
    <3> QED BY <3>1, <3>2
  <2>3. CASE ~(i > m) /\ ~(j <= m)
    <3>1. i \in 1 .. m /\ j - m \in 1 .. n /\ (j - m) + m = j
      BY <1>2, <2>3
    <3>2. w[i] = s[i] /\ w[(j - m) + m] = u[j - m]
      BY <1>3, <1>4, <3>1
    <3> QED BY <3>1, <3>2
  <2> QED BY <2>1, <2>2, <2>3
<1>11. ASSUME Sorted(s), Sorted(u), \A x \in Elems(s), y \in Elems(u) : x.id <= y.id
       PROVE  Sorted(w)
  <2> SUFFICES ASSUME NEW i \in 1 .. m + n, NEW j \in 1 .. m + n, i < j
               PROVE  w[i].id <= w[j].id
    BY <1>2 DEF Sorted
  <2>1. CASE i \in 1 .. m /\ j \in 1 .. m /\ w[i] = s[i] /\ w[j] = s[j]
    BY <1>2, <1>11, <2>1 DEF Sorted
  <2>2. CASE /\ i - m \in 1 .. n /\ j - m \in 1 .. n /\ i - m < j - m
             /\ w[i] = u[i - m] /\ w[j] = u[j - m]
    BY <1>2, <1>11, <2>2 DEF Sorted
  <2>3. CASE /\ i \in 1 .. m /\ j - m \in 1 .. n
             /\ w[i] = s[i] /\ w[j] = u[j - m]
    <3>1. s[i] \in Elems(s) /\ u[j - m] \in Elems(u)
      BY <1>2, <2>3 DEF Elems
    <3> QED BY <1>11, <2>3, <3>1
  <2> QED BY <1>10, <2>1, <2>2, <2>3
<1>12. ASSUME Strict(s), Strict(u), \A x \in Elems(s), y \in Elems(u) : x.id < y.id
       PROVE  Strict(w)
  <2> SUFFICES ASSUME NEW i \in 1 .. m + n, NEW j \in 1 .. m + n, i < j
               PROVE  w[i].id < w[j].id
    BY <1>2 DEF Strict
  <2>1. CASE i \in 1 .. m /\ j \in 1 .. m /\ w[i] = s[i] /\ w[j] = s[j]
    BY <1>2, <1>12, <2>1 DEF Strict
  <2>2. CASE /\ i - m \in 1 .. n /\ j - m \in 1 .. n /\ i - m < j - m
             /\ w[i] = u[i - m] /\ w[j] = u[j - m]
    BY <1>2, <1>12, <2>2 DEF Strict
  <2>3. CASE /\ i \in 1 .. m /\ j - m \in 1 .. n
             /\ w[i] = s[i] /\ w[j] = u[j - m]
    <3>1. s[i] \in Elems(s) /\ u[j - m] \in Elems(u)
      BY <1>2, <2>3 DEF Elems
    <3> QED BY <1>12, <2>3, <3>1
  <2> QED BY <1>10, <2>1, <2>2, <2>3
<1> QED BY <1>7, <1>9, <1>11, <1>12 DEF w

\* The same for the order of a tree: what is left of the root, and right.
LEMMA SortedAround ==
  ASSUME NEW s \in Seq(Lone), NEW x \in Lone, NEW u \in Seq(Lone)
  PROVE  /\ Around(s, x, u) \in Seq(Lone)
         /\ Elems(Around(s, x, u)) = Elems(s) \cup {x} \cup Elems(u)
         /\ Sorted(Around(s, x, u)) <=>
              /\ Sorted(s) /\ Sorted(u)
              /\ \A y \in Elems(s) : y.id <= x.id
              /\ \A y \in Elems(u) : x.id <= y.id
         /\ Strict(Around(s, x, u)) <=>
              /\ Strict(s) /\ Strict(u)
              /\ \A y \in Elems(s) : y.id < x.id
              /\ \A y \in Elems(u) : x.id < y.id
         /\ Len(Around(s, x, u)) = Len(s) + 1 + Len(u)
<1> USE DEF Around
<1>1. <<x>> \in Seq(Lone) /\ Sorted(<<x>>) /\ Strict(<<x>>) /\ Elems(<<x>>) = {x}
  BY ElemsOne DEF Sorted, Strict
<1>2. s \o <<x>> \in Seq(Lone) /\ Elems(s \o <<x>>) = Elems(s) \cup {x}
  BY <1>1, ElemsConcat
<1>3. /\ s \o <<x>> \o u \in Seq(Lone)
      /\ Elems(s \o <<x>> \o u) = Elems(s) \cup {x} \cup Elems(u)
  BY <1>2, ElemsConcat
<1>4. /\ \A y \in Elems(s) : y.id \in Nat
      /\ \A y \in Elems(u) : y.id \in Nat
      /\ x.id \in Nat
  BY ElemsConcat, LoneIds
<1>5. /\ Sorted(s \o <<x>>) <=> Sorted(s) /\ \A y \in Elems(s) : y.id <= x.id
      /\ Strict(s \o <<x>>) <=> Strict(s) /\ \A y \in Elems(s) : y.id < x.id
  BY <1>1, SortedConcat
<1>6. /\ Sorted(s \o <<x>> \o u) <=>
              /\ Sorted(s \o <<x>>) /\ Sorted(u)
              /\ \A v \in Elems(s) \cup {x}, y \in Elems(u) : v.id <= y.id
      /\ Strict(s \o <<x>> \o u) <=>
              /\ Strict(s \o <<x>>) /\ Strict(u)
              /\ \A v \in Elems(s) \cup {x}, y \in Elems(u) : v.id < y.id
  BY <1>2, SortedConcat
<1>7. \A v \in Elems(s), y \in Elems(u) :
        /\ v.id <= x.id /\ x.id <= y.id => v.id <= y.id
        /\ v.id < x.id /\ x.id < y.id => v.id < y.id
  BY <1>4
<1>8. Len(s \o <<x>> \o u) = Len(s) + 1 + Len(u)
  BY <1>1, <1>2, ConcatProperties
<1>9. Sorted(s \o <<x>> \o u) <=>
              /\ Sorted(s) /\ Sorted(u)
              /\ \A y \in Elems(s) : y.id <= x.id
              /\ \A y \in Elems(u) : x.id <= y.id
  BY <1>5, <1>6, <1>7
<1>10. Strict(s \o <<x>> \o u) <=>
              /\ Strict(s) /\ Strict(u)
              /\ \A y \in Elems(s) : y.id < x.id
              /\ \A y \in Elems(u) : x.id < y.id
  BY <1>5, <1>6, <1>7
<1> QED BY <1>3, <1>8, <1>9, <1>10

(***************************************************************************)
(* The order does not change with the shape.                               *)
(***************************************************************************)
LEMMA InOrderAround ==
  \A t \in Proper : InOrder(t) = Around(InOrder(t.left), Alone(t), InOrder(t.right))
BY InOrderRec DEF Around

LEMMA OrderAround ==
  ASSUME NEW t \in Proper, NEW u \in Trees
  PROVE  /\ InOrder([t EXCEPT !.left = u]) =
              Around(InOrder(u), Alone(t), InOrder(t.right))
         /\ InOrder([t EXCEPT !.right = u]) =
              Around(InOrder(t.left), Alone(t), InOrder(u))
<1> DEFINE l == [t EXCEPT !.left = u]
           r == [t EXCEPT !.right = u]
<1>1. l \in Proper /\ l.left = u /\ l.right = t.right
  BY WithLeft
<1>2. r \in Proper /\ r.left = t.left /\ r.right = u
  BY WithRight
<1>3. Alone(l) = Alone(t) /\ Alone(r) = Alone(t)
  BY TreeParts DEF Alone, TreesOver
<1> HIDE DEF l, r
<1>4. InOrder(l) = Around(InOrder(l.left), Alone(l), InOrder(l.right))
  BY <1>1, InOrderAround
<1>5. InOrder(r) = Around(InOrder(r.left), Alone(r), InOrder(r.right))
  BY <1>2, InOrderAround
<1> QED BY <1>1, <1>2, <1>3, <1>4, <1>5 DEF l, r

LEMMA CatAssociative ==
  ASSUME NEW p \in Seq(Lone), NEW q \in Seq(Lone), NEW r \in Seq(Lone)
  PROVE  Cat(Cat(p, q), r) = Cat(p, Cat(q, r))
BY ConcatAssociative DEF Cat

LEMMA Reassociate ==
  ASSUME NEW s \in Seq(Lone), NEW x \in Lone, NEW u \in Seq(Lone),
         NEW y \in Lone, NEW v \in Seq(Lone)
  PROVE  Around(Around(s, x, u), y, v) = Around(s, x, Around(u, y, v))
<1> DEFINE a == Cat(s, <<x>>)
           b == Cat(<<y>>, v)
           c == <<y>>
<1>1. a \in Seq(Lone) /\ c \in Seq(Lone) /\ b \in Seq(Lone)
      /\ Cat(a, u) \in Seq(Lone)
  BY ConcatProperties DEF Cat
<1> HIDE DEF a, c
<1>2. Cat(Cat(Cat(a, u), c), v) = Cat(Cat(a, u), Cat(c, v))
  BY <1>1, CatAssociative
<1>3. Cat(Cat(u, c), v) = Cat(u, Cat(c, v))
  BY <1>1, CatAssociative
<1> HIDE DEF b
<1>4. Cat(Cat(a, u), b) = Cat(a, Cat(u, b))
  BY <1>1, CatAssociative
<1>5. /\ Around(Around(s, x, u), y, v) = Cat(Cat(Cat(a, u), c), v)
      /\ Around(s, x, Around(u, y, v)) = Cat(a, Cat(Cat(u, c), v))
  BY DEF Around, Cat, a, c
<1>6. b = Cat(c, v)
  BY DEF b, c
<1> QED BY ONLY <1>2, <1>3, <1>4, <1>5, <1>6

LEMMA SwingOrder ==
  ASSUME NEW t \in Proper
  PROVE  /\ t.left # Null => InOrder(swing_left(t)) = InOrder(t)
         /\ t.right # Null => InOrder(swing_right(t)) = InOrder(t)
<1>1. ASSUME t.left # Null
      PROVE  InOrder(swing_left(t)) = InOrder(t)
  <2> DEFINE l == t.left
             d == [t EXCEPT !.left = t.left.right]
  <2>1. l \in Proper /\ l.left \in Trees /\ l.right \in Trees
        /\ t.right \in Trees
    BY <1>1, TreeParts DEF Proper
  <2>2. swing_left(t) = [l EXCEPT !.right = d] /\ d \in Trees
    BY <1>1, SwingLeft DEF Proper
  <2>3. InOrder(d) = Around(InOrder(l.right), Alone(t), InOrder(t.right))
    BY <2>1, OrderAround
  <2> HIDE DEF d
  <2>4. InOrder([l EXCEPT !.right = d]) = Around(InOrder(l.left), Alone(l), InOrder(d))
    BY <2>1, <2>2, OrderAround
  <2>5. InOrder(t) = Around(InOrder(l), Alone(t), InOrder(t.right))
    BY InOrderAround
  <2>6. InOrder(l) = Around(InOrder(l.left), Alone(l), InOrder(l.right))
    BY <2>1, InOrderAround
  <2>7. /\ InOrder(l.left) \in Seq(Lone) /\ InOrder(l.right) \in Seq(Lone)
        /\ InOrder(t.right) \in Seq(Lone) /\ Alone(t) \in Lone /\ Alone(l) \in Lone
    BY <2>1, InOrderRec, AloneLone
  <2> HIDE DEF l
  <2>8. Around(Around(InOrder(l.left), Alone(l), InOrder(l.right)),
               Alone(t), InOrder(t.right))
        = Around(InOrder(l.left), Alone(l),
                 Around(InOrder(l.right), Alone(t), InOrder(t.right)))
    BY <2>7, Reassociate
  <2> QED BY <2>2, <2>3, <2>4, <2>5, <2>6, <2>8
<1>2. ASSUME t.right # Null
      PROVE  InOrder(swing_right(t)) = InOrder(t)
  <2> DEFINE r == t.right
             d == [t EXCEPT !.right = t.right.left]
  <2>1. r \in Proper /\ r.left \in Trees /\ r.right \in Trees
        /\ t.left \in Trees
    BY <1>2, TreeParts DEF Proper
  <2>2. swing_right(t) = [r EXCEPT !.left = d] /\ d \in Trees
    BY <1>2, SwingRight DEF Proper
  <2>3. InOrder(d) = Around(InOrder(t.left), Alone(t), InOrder(r.left))
    BY <2>1, OrderAround
  <2> HIDE DEF d
  <2>4. InOrder([r EXCEPT !.left = d]) = Around(InOrder(d), Alone(r), InOrder(r.right))
    BY <2>1, <2>2, OrderAround
  <2>5. InOrder(t) = Around(InOrder(t.left), Alone(t), InOrder(r))
    BY InOrderAround
  <2>6. InOrder(r) = Around(InOrder(r.left), Alone(r), InOrder(r.right))
    BY <2>1, InOrderAround
  <2>7. /\ InOrder(r.left) \in Seq(Lone) /\ InOrder(r.right) \in Seq(Lone)
        /\ InOrder(t.left) \in Seq(Lone) /\ Alone(t) \in Lone /\ Alone(r) \in Lone
    BY <2>1, InOrderRec, AloneLone
  <2> HIDE DEF r
  <2>8. Around(Around(InOrder(t.left), Alone(t), InOrder(r.left)),
               Alone(r), InOrder(r.right))
        = Around(InOrder(t.left), Alone(t),
                 Around(InOrder(r.left), Alone(r), InOrder(r.right)))
    BY <2>7, Reassociate
  <2> QED BY <2>2, <2>3, <2>4, <2>5, <2>6, <2>8
<1> QED BY <1>1, <1>2

LEMMA RotatedOrder ==
  ASSUME NEW t \in Proper
  PROVE  Rotated(t) \in Proper /\ InOrder(Rotated(t)) = InOrder(t)
BY SwingOrder, RotatedTree DEF Rotated

-----------------------------------------------------------------------------
(***************************************************************************)
(* An insertion puts the node among the others at a place where the order  *)
(* allows it, and nothing else changes.                                    *)
(***************************************************************************)

LEMMA CatFacts ==
  ASSUME NEW s \in Seq(Lone), NEW u \in Seq(Lone)
  PROVE  /\ Cat(s, u) \in Seq(Lone)
         /\ Elems(Cat(s, u)) = Elems(s) \cup Elems(u)
         /\ Sorted(Cat(s, u)) <=>
              /\ Sorted(s) /\ Sorted(u)
              /\ \A x \in Elems(s), y \in Elems(u) : x.id <= y.id
         /\ Strict(Cat(s, u)) <=>
              /\ Strict(s) /\ Strict(u)
              /\ \A x \in Elems(s), y \in Elems(u) : x.id < y.id
BY ElemsConcat, SortedConcat DEF Cat

LEMMA Lens ==
  ASSUME NEW s \in Seq(Lone), NEW u \in Seq(Lone), NEW x \in Lone
  PROVE  /\ Len(s) \in Nat /\ Len(u) \in Nat
         /\ Len(Cat(s, u)) = Len(s) + Len(u)
         /\ Len(Around(s, x, u)) = Len(s) + 1 + Len(u)
<1>1. Len(s) \in Nat /\ Len(u) \in Nat
  OBVIOUS
<1>2. Len(Cat(s, u)) = Len(s) + Len(u)
  BY ConcatProperties DEF Cat
<1>3. Len(Around(s, x, u)) = Len(s) + 1 + Len(u)
  BY SortedAround
<1> QED BY <1>1, <1>2, <1>3

(***************************************************************************)
(* r is s with x at a place where it is in order.                          *)
(***************************************************************************)
Inserts(r, s, x) ==
  \E p, q \in Seq(Lone) :
    /\ s = Cat(p, q) /\ r = Around(p, x, q)
    /\ \A y \in Elems(p) : y.id <= x.id
    /\ \A y \in Elems(q) : x.id <= y.id

LEMMA AroundSeq ==
  ASSUME NEW s \in Seq(Lone), NEW x \in Lone, NEW u \in Seq(Lone)
  PROVE  /\ Around(s, x, u) \in Seq(Lone)
         /\ Elems(Around(s, x, u)) = Elems(s) \cup {x} \cup Elems(u)
BY SortedAround

LEMMA AroundSorted ==
  ASSUME NEW s \in Seq(Lone), NEW x \in Lone, NEW u \in Seq(Lone)
  PROVE  Sorted(Around(s, x, u)) <=>
           /\ Sorted(s) /\ Sorted(u)
           /\ \A y \in Elems(s) : y.id <= x.id
           /\ \A y \in Elems(u) : x.id <= y.id
BY SortedAround

LEMMA AroundStrict ==
  ASSUME NEW s \in Seq(Lone), NEW x \in Lone, NEW u \in Seq(Lone)
  PROVE  Strict(Around(s, x, u)) <=>
           /\ Strict(s) /\ Strict(u)
           /\ \A y \in Elems(s) : y.id < x.id
           /\ \A y \in Elems(u) : x.id < y.id
BY SortedAround

LEMMA InsertsFacts ==
  ASSUME NEW r, NEW s, NEW x \in Lone, Inserts(r, s, x)
  PROVE  /\ r \in Seq(Lone) /\ s \in Seq(Lone)
         /\ Elems(r) = Elems(s) \cup {x}
         /\ Len(r) = Len(s) + 1
         /\ Sorted(s) <=> Sorted(r)
         /\ Strict(r) => Strict(s) /\ \A y \in Elems(s) : y.id # x.id
         /\ Strict(s) /\ (\A y \in Elems(s) : y.id # x.id) => Strict(r)
<1>1. PICK p \in Seq(Lone), q \in Seq(Lone) :
        /\ s = Cat(p, q) /\ r = Around(p, x, q)
        /\ \A y \in Elems(p) : y.id <= x.id
        /\ \A y \in Elems(q) : x.id <= y.id
  BY DEF Inserts
<1>2. /\ r \in Seq(Lone) /\ Elems(r) = Elems(p) \cup {x} \cup Elems(q)
      /\ Sorted(r) <=>
              /\ Sorted(p) /\ Sorted(q)
              /\ \A y \in Elems(p) : y.id <= x.id
              /\ \A y \in Elems(q) : x.id <= y.id
      /\ Strict(r) <=>
              /\ Strict(p) /\ Strict(q)
              /\ \A y \in Elems(p) : y.id < x.id
              /\ \A y \in Elems(q) : x.id < y.id
  <2>1. r \in Seq(Lone) /\ Elems(r) = Elems(p) \cup {x} \cup Elems(q)
    BY <1>1, AroundSeq
  <2>2. Sorted(r) <=>
              /\ Sorted(p) /\ Sorted(q)
              /\ \A y \in Elems(p) : y.id <= x.id
              /\ \A y \in Elems(q) : x.id <= y.id
    BY <1>1, AroundSorted
  <2>3. Strict(r) <=>
              /\ Strict(p) /\ Strict(q)
              /\ \A y \in Elems(p) : y.id < x.id
              /\ \A y \in Elems(q) : x.id < y.id
    BY <1>1, AroundStrict
  <2> QED BY <2>1, <2>2, <2>3
<1>3. /\ s \in Seq(Lone) /\ Elems(s) = Elems(p) \cup Elems(q)
      /\ Sorted(s) <=>
              /\ Sorted(p) /\ Sorted(q)
              /\ \A y \in Elems(p), z \in Elems(q) : y.id <= z.id
      /\ Strict(s) <=>
              /\ Strict(p) /\ Strict(q)
              /\ \A y \in Elems(p), z \in Elems(q) : y.id < z.id
  BY <1>1, CatFacts
<1>4. /\ Len(s) = Len(p) + Len(q) /\ Len(r) = Len(p) + 1 + Len(q)
      /\ Len(p) \in Nat /\ Len(q) \in Nat
  BY <1>1, Lens
<1>5. /\ \A y \in Elems(p) : y.id \in Nat
      /\ \A y \in Elems(q) : y.id \in Nat
      /\ x.id \in Nat
  BY ElemsConcat, LoneIds
<1>6. \A y \in Elems(p), z \in Elems(q) :
        /\ y.id <= z.id
        /\ y.id < x.id /\ x.id < z.id => y.id < z.id
  BY <1>1, <1>5
<1>7. /\ \A y \in Elems(p) : y.id < x.id <=> y.id # x.id
      /\ \A y \in Elems(q) : x.id < y.id <=> y.id # x.id
  BY <1>1, <1>5
<1>8. Len(r) = Len(s) + 1
  BY <1>4
<1>9. Sorted(s) <=> Sorted(r)
  BY <1>1, <1>2, <1>3, <1>6
<1>10. Strict(r) => Strict(s) /\ \A y \in Elems(s) : y.id # x.id
  BY <1>2, <1>3, <1>6, <1>7
<1>11. Strict(s) /\ (\A y \in Elems(s) : y.id # x.id) => Strict(r)
  BY <1>2, <1>3, <1>7
<1>12. Elems(r) = Elems(s) \cup {x}
  BY <1>2, <1>3
<1> QED BY <1>2, <1>3, <1>8, <1>9, <1>10, <1>11, <1>12

LEMMA ConcatAround ==
  ASSUME NEW p \in Seq(Lone), NEW q \in Seq(Lone), NEW x \in Lone,
         NEW u \in Seq(Lone)
  PROVE  /\ Around(Cat(p, q), x, u) = Cat(p, Around(q, x, u))
         /\ Around(u, x, Cat(p, q)) = Cat(Around(u, x, p), q)
<1>1. /\ <<x>> \in Seq(Lone) /\ q \o <<x>> \in Seq(Lone)
      /\ u \o <<x>> \in Seq(Lone)
  BY ConcatProperties
<1> DEFINE a == <<x>>
           b == u \o <<x>>
           c == q \o <<x>>
<1> HIDE DEF a, b, c
<1>2. ((p \o q) \o a) \o u = p \o ((q \o a) \o u)
  <2>1. a \in Seq(Lone) /\ q \o a \in Seq(Lone)
    BY <1>1 DEF a
  <2>2. (p \o q) \o a = p \o (q \o a)
    BY <2>1, ConcatAssociative
  <2> DEFINE k == q \o a
  <2> HIDE DEF k
  <2>3. (p \o k) \o u = p \o (k \o u)
    <3>1. k \in Seq(Lone)
      BY <2>1 DEF k
    <3> QED BY <3>1, ConcatAssociative
  <2> USE DEF k
  <2> QED BY <2>2, <2>3
<1>3. b \o (p \o q) = (b \o p) \o q
  <2>1. b \in Seq(Lone)
    BY <1>1 DEF b
  <2> QED BY <2>1, ConcatAssociative
<1> QED BY <1>2, <1>3 DEF a, b, Around, Cat

\* An insertion in what is left, or right, of a root is one in the whole.
LEMMA InsertsLeft ==
  ASSUME NEW r, NEW s, NEW x \in Lone, Inserts(r, s, x), NEW y \in Lone,
         NEW u \in Seq(Lone), x.id <= y.id, \A z \in Elems(u) : y.id <= z.id
  PROVE  Inserts(Around(r, y, u), Around(s, y, u), x)
<1>1. PICK p \in Seq(Lone), q \in Seq(Lone) :
        /\ s = Cat(p, q) /\ r = Around(p, x, q)
        /\ \A z \in Elems(p) : z.id <= x.id
        /\ \A z \in Elems(q) : x.id <= z.id
  BY DEF Inserts
<1>2. Around(s, y, u) = Cat(p, Around(q, y, u))
  BY <1>1, ConcatAround
<1>3. Around(r, y, u) = Around(p, x, Around(q, y, u))
  BY <1>1, Reassociate
<1>4. /\ Around(q, y, u) \in Seq(Lone)
      /\ Elems(Around(q, y, u)) = Elems(q) \cup {y} \cup Elems(u)
  BY AroundSeq
<1>5. /\ \A z \in Elems(u) : z.id \in Nat
      /\ x.id \in Nat /\ y.id \in Nat
  BY ElemsConcat, LoneIds
<1>6. \A z \in Elems(u) : x.id <= z.id
  BY <1>5
<1>7. \A z \in Elems(Around(q, y, u)) : x.id <= z.id
  BY <1>1, <1>4, <1>6
<1> QED BY <1>1, <1>2, <1>3, <1>4, <1>7 DEF Inserts

LEMMA InsertsRight ==
  ASSUME NEW r, NEW s, NEW x \in Lone, Inserts(r, s, x), NEW y \in Lone,
         NEW u \in Seq(Lone), y.id <= x.id, \A z \in Elems(u) : z.id <= y.id
  PROVE  Inserts(Around(u, y, r), Around(u, y, s), x)
<1>1. PICK p \in Seq(Lone), q \in Seq(Lone) :
        /\ s = Cat(p, q) /\ r = Around(p, x, q)
        /\ \A z \in Elems(p) : z.id <= x.id
        /\ \A z \in Elems(q) : x.id <= z.id
  BY DEF Inserts
<1>2. Around(u, y, s) = Cat(Around(u, y, p), q)
  BY <1>1, ConcatAround
<1>3. Around(u, y, r) = Around(Around(u, y, p), x, q)
  BY <1>1, Reassociate
<1>4. /\ Around(u, y, p) \in Seq(Lone)
      /\ Elems(Around(u, y, p)) = Elems(u) \cup {y} \cup Elems(p)
  BY AroundSeq
<1>5. /\ \A z \in Elems(u) : z.id \in Nat
      /\ x.id \in Nat /\ y.id \in Nat
  BY ElemsConcat, LoneIds
<1>6. \A z \in Elems(u) : z.id <= x.id
  BY <1>5
<1>7. \A z \in Elems(Around(u, y, p)) : z.id <= x.id
  BY <1>1, <1>4, <1>6
<1> QED BY <1>1, <1>2, <1>3, <1>4, <1>7 DEF Inserts

LEMMA InsertsAlone ==
  ASSUME NEW x \in Lone
  PROVE  Inserts(Around(<<>>, x, <<>>), <<>>, x)
<1>1. <<>> \in Seq(Lone) /\ <<>> = Cat(<<>>, <<>>) /\ Elems(<<>>) = {}
  BY DEF Elems, Cat
<1> QED BY <1>1 DEF Inserts

LEMMA RootOrder ==
  ASSUME NEW t \in Proper
  PROVE  /\ InOrder(t) = Around(InOrder(t.left), Alone(t), InOrder(t.right))
         /\ InOrder(t.left) \in Seq(Lone) /\ InOrder(t.right) \in Seq(Lone)
         /\ Alone(t) \in Lone /\ Alone(t).id = t.id /\ t.id \in Nat
         /\ t.left \in Trees /\ t.right \in Trees
         /\ Elems(InOrder(t)) = Elems(InOrder(t.left)) \cup {Alone(t)}
                                  \cup Elems(InOrder(t.right))
         /\ Sorted(InOrder(t)) <=>
              /\ Sorted(InOrder(t.left)) /\ Sorted(InOrder(t.right))
              /\ \A y \in Elems(InOrder(t.left)) : y.id <= t.id
              /\ \A y \in Elems(InOrder(t.right)) : t.id <= y.id
         /\ Strict(InOrder(t)) <=>
              /\ Strict(InOrder(t.left)) /\ Strict(InOrder(t.right))
              /\ \A y \in Elems(InOrder(t.left)) : y.id < t.id
              /\ \A y \in Elems(InOrder(t.right)) : t.id < y.id
<1>1. /\ InOrder(t) = Around(InOrder(t.left), Alone(t), InOrder(t.right))
      /\ InOrder(t.left) \in Seq(Lone) /\ InOrder(t.right) \in Seq(Lone)
      /\ Alone(t) \in Lone /\ Alone(t).id = t.id /\ t.id \in Nat
      /\ t.left \in Trees /\ t.right \in Trees
  BY InOrderAround, InOrderRec, AloneLone, TreeParts
<1>2. Elems(InOrder(t)) = Elems(InOrder(t.left)) \cup {Alone(t)}
                            \cup Elems(InOrder(t.right))
  BY <1>1, AroundSeq
<1>3. Sorted(InOrder(t)) <=>
              /\ Sorted(InOrder(t.left)) /\ Sorted(InOrder(t.right))
              /\ \A y \in Elems(InOrder(t.left)) : y.id <= t.id
              /\ \A y \in Elems(InOrder(t.right)) : t.id <= y.id
  BY <1>1, AroundSorted
<1>4. Strict(InOrder(t)) <=>
              /\ Strict(InOrder(t.left)) /\ Strict(InOrder(t.right))
              /\ \A y \in Elems(InOrder(t.left)) : y.id < t.id
              /\ \A y \in Elems(InOrder(t.right)) : t.id < y.id
  BY <1>1, AroundStrict
<1> QED BY <1>1, <1>2, <1>3, <1>4

\* treap_insert_node puts the node among the others, in the order of the ids,
\* and changes nothing else, whatever it rotates.
THEOREM InsertFacts ==
  ASSUME NEW node \in Lone
  PROVE  \A t \in Trees :
           Sorted(InOrder(t)) =>
             Inserts(InOrder(treap_insert_node(t, node)), InOrder(t), node)
<1> DEFINE S == {t \in Trees : Sorted(InOrder(t)) =>
             Inserts(InOrder(treap_insert_node(t, node)), InOrder(t), node)}
<1>1. /\ node \in Proper /\ Alone(node) = node /\ node.id \in Nat
      /\ node.left = Null /\ node.right = Null
  BY LoneIds DEF Lone
<1>2. Null \in S
  <2>1. InOrder(node) = Around(<<>>, node, <<>>)
    BY <1>1, InOrderAround, InOrderRec
  <2> QED BY <1>1, <2>1, InsertRec, InOrderRec, NullIsTree, InsertsAlone
<1>3. ASSUME NEW t \in Proper, t.left \in S, t.right \in S
      PROVE  t \in S
  <2> SUFFICES ASSUME Sorted(InOrder(t))
               PROVE  Inserts(InOrder(treap_insert_node(t, node)),
                              InOrder(t), node)
    BY DEF Proper
  <2>1. /\ Sorted(InOrder(t.left)) /\ Sorted(InOrder(t.right))
        /\ \A y \in Elems(InOrder(t.left)) : y.id <= t.id
        /\ \A y \in Elems(InOrder(t.right)) : t.id <= y.id
        /\ t.id \in Nat
    BY RootOrder
  <2>2. CASE node.id < t.id
    <3> DEFINE u == treap_insert_node(t.left, node)
    <3>1. u \in Trees /\ Inserts(InOrder(u), InOrder(t.left), node)
      BY <1>1, <1>3, <2>1, InsertRec DEF Proper
    <3> HIDE DEF u
    <3>2. treap_insert_node(t, node) = Rotated([t EXCEPT !.left = u])
      BY <1>1, <2>2, InsertRec, NullNot DEF Child, WithChild, u
    <3>3. InOrder(treap_insert_node(t, node)) =
            Around(InOrder(u), Alone(t), InOrder(t.right))
      <4> DEFINE w == [t EXCEPT !.left = u]
      <4>1. w \in Proper
        BY <3>1, WithLeft
      <4>2. InOrder(w) = Around(InOrder(u), Alone(t), InOrder(t.right))
        BY <3>1, OrderAround
      <4> HIDE DEF w
      <4>3. InOrder(Rotated(w)) = InOrder(w)
        BY <4>1, RotatedOrder
      <4> QED BY <3>2, <4>2, <4>3 DEF w
    <3>4. node.id <= Alone(t).id
      BY <1>1, <2>1, <2>2, AloneLone
    <3>5. Inserts(Around(InOrder(u), Alone(t), InOrder(t.right)),
                  Around(InOrder(t.left), Alone(t), InOrder(t.right)), node)
      BY <2>1, <3>1, <3>4, RootOrder, InsertsLeft
    <3> QED BY <3>3, <3>5, RootOrder
  <2>3. CASE ~(node.id < t.id)
    <3> DEFINE u == treap_insert_node(t.right, node)
    <3>1. u \in Trees /\ Inserts(InOrder(u), InOrder(t.right), node)
      BY <1>1, <1>3, <2>1, InsertRec DEF Proper
    <3> HIDE DEF u
    <3>2. treap_insert_node(t, node) = Rotated([t EXCEPT !.right = u])
      BY <1>1, <2>3, InsertRec, NullNot DEF Child, WithChild, u
    <3>3. InOrder(treap_insert_node(t, node)) =
            Around(InOrder(t.left), Alone(t), InOrder(u))
      <4> DEFINE w == [t EXCEPT !.right = u]
      <4>1. w \in Proper
        BY <3>1, WithRight
      <4>2. InOrder(w) = Around(InOrder(t.left), Alone(t), InOrder(u))
        BY <3>1, OrderAround
      <4> HIDE DEF w
      <4>3. InOrder(Rotated(w)) = InOrder(w)
        BY <4>1, RotatedOrder
      <4> QED BY <3>2, <4>2, <4>3 DEF w
    <3>4. Alone(t).id <= node.id
      BY <1>1, <2>1, <2>3, AloneLone
    <3>5. Inserts(Around(InOrder(t.left), Alone(t), InOrder(u)),
                  Around(InOrder(t.left), Alone(t), InOrder(t.right)), node)
      BY <2>1, <3>1, <3>4, RootOrder, InsertsRight
    <3> QED BY <3>3, <3>5, RootOrder
  <2> QED BY <2>2, <2>3
<1> HIDE DEF S
<1>4. \A t \in Trees : t \in S
  BY <1>2, <1>3, TreeInduction
<1> QED BY <1>4 DEF S

-----------------------------------------------------------------------------
(***************************************************************************)
(* The recursion of an extraction: after a rotation the tree that it goes  *)
(* on with has fewer nodes.                                                *)
(***************************************************************************)

Size == [t \in Trees |-> Len(InOrder(t))]

LEMMA SizeNat == Size \in [Trees -> Nat]
<1> SUFFICES ASSUME NEW t \in Trees PROVE Len(InOrder(t)) \in Nat
  BY DEF Size
<1>1. InOrder(t) \in Seq(Lone)
  BY InOrderRec
<1> QED BY <1>1

LEMMA SizeRoot ==
  ASSUME NEW t \in Proper
  PROVE  /\ Size[t] = Size[t.left] + 1 + Size[t.right]
         /\ Size[t] \in Nat /\ Size[t.left] \in Nat /\ Size[t.right] \in Nat
<1>1. t \in Trees /\ t.left \in Trees /\ t.right \in Trees
  BY TreeParts DEF Proper
<1>2. Len(InOrder(t)) = Len(InOrder(t.left)) + 1 + Len(InOrder(t.right))
  BY RootOrder, Lens
<1> QED BY <1>1, <1>2, SizeNat DEF Size

LEMMA SizeDescends ==
  ASSUME NEW t \in Proper, NEW left
  PROVE  Size[Child(t, left)] < Size[t]
<1>1. Size[t.left] < Size[t] /\ Size[t.right] < Size[t]
  BY SizeRoot
<1> QED BY <1>1, NullNot DEF Child

LEMMA TurnedTree ==
  ASSUME NEW t \in Trees, NEW id
  PROVE  /\ Turned(t, id) \in Trees
         /\ InOrder(Turned(t, id)) = InOrder(t)
         /\ t # Null => Turned(t, id) \in Proper
         /\ Size[Turned(t, id)] = Size[t]
<1>1. CASE Turned(t, id) = t
  BY <1>1 DEF Proper
<1>2. CASE Turned(t, id) # t
  <2>1. t \in Proper /\ t.left # Null /\ t.right # Null
        /\ Turned(t, id) = Lifted(t)
    BY <1>2 DEF Turned, Proper
  <2>2. Lifted(t) \in Proper /\ InOrder(Lifted(t)) = InOrder(t)
    BY <2>1, SwingLeft, SwingRight, SwingOrder DEF Lifted
  <2>3. Lifted(t) \in Trees
    BY <2>2 DEF Proper
  <2> QED BY <2>1, <2>2, <2>3 DEF Size
<1> QED BY <1>1, <1>2

\* Where the search goes on.
Onward(t, id) == Child(Turned(t, id), ~ Turned(t, id).id < id)

LEMMA OnwardTree ==
  ASSUME NEW t \in Trees, NEW id
  PROVE  /\ Onward(t, id) \in Trees
         /\ t # Null => Size[Onward(t, id)] < Size[t]
<1>1. Onward(t, id) \in Trees
  BY TurnedTree, ChildTree DEF Onward
<1>2. ASSUME t # Null
      PROVE  Size[Onward(t, id)] < Size[t]
  <2>1. Turned(t, id) \in Proper /\ Size[Turned(t, id)] = Size[t]
    BY <1>2, TurnedTree
  <2>2. Size[Onward(t, id)] < Size[Turned(t, id)]
    BY <2>1, SizeDescends DEF Onward
  <2> QED BY <2>1, <2>2
<1> QED BY <1>1, <1>2

\* What treap_extract returns where it stops, and where it goes on.
Stops(u, id) == u = Null \/ (u.id = id /\ (u.left = Null \/ u.right = Null))
Stopped(u, id) ==
  IF u = Null THEN [tree |-> Null, node |-> Null]
  ELSE IF u.id = id /\ u.left = Null
       THEN [tree |-> u.right, node |-> Alone(u)]
  ELSE [tree |-> u.left, node |-> Alone(u)]
PutBelow(u, id, x) ==
  [tree |-> WithChild(Turned(u, id), ~ Turned(u, id).id < id, x.tree),
   node |-> x.node]

Extracts == [tree : Trees, node : Lone \cup {Null}]

LEMMA ExtractRec ==
  ASSUME NEW id
  PROVE  \A t \in Trees :
           /\ treap_extract(t, id) \in Extracts
           /\ Stops(t, id) => treap_extract(t, id) = Stopped(t, id)
           /\ ~ Stops(t, id) => treap_extract(t, id) =
                PutBelow(t, id, treap_extract(Onward(t, id), id))
<1> DEFINE Z == {u \in Trees : Stops(u, id)}
           base == [u \in Z |-> Stopped(u, id)]
           a == [u \in Trees \ Z |-> Onward(u, id)]
           H == [x \in (Trees \ Z) \X Extracts |-> PutBelow(x[1], id, x[2])]
           A(f, t) == f = [k \in Nat |-> IF k = 0 THEN t
                             ELSE LET v == Turned(f[k - 1], id)
                                  IN Child(v, ~ v.id < id)]
           P(f, at) == f = [k \in Nat |->
             LET u == at[k]
                 v == Turned(u, id)
                 x == f[k + 1]
             IN IF u = Null THEN [tree |-> Null, node |-> Null]
                ELSE IF u.id = id /\ u.left = Null
                     THEN [tree |-> u.right, node |-> Alone(u)]
                ELSE IF u.id = id /\ u.right = Null
                     THEN [tree |-> u.left, node |-> Alone(u)]
                ELSE [tree |-> WithChild(v, ~ v.id < id, x.tree), node |-> x.node]]
<1>0. \A u \in Trees : /\ ~ Stops(u, id) => u # Null
                       /\ u \in Z <=> Stops(u, id)
                       /\ u # Null => u \in Proper
  BY DEF Stops, Proper
<1>1. IsSteps(Trees, Size, Z, Extracts, base, a, H)
  <2>1. base \in [Z -> Extracts]
    <3> SUFFICES ASSUME NEW u \in Z PROVE Stopped(u, id) \in Extracts
      OBVIOUS
    <3>1. u \in Trees /\ Null \in Trees
      BY NullIsTree
    <3>2. u # Null => u \in Proper /\ Alone(u) \in Lone
                      /\ u.left \in Trees /\ u.right \in Trees
      BY <3>1, AloneLone, TreeParts DEF Proper
    <3> QED BY <3>1, <3>2 DEF Stopped, Extracts
  <2>2. a \in [Trees \ Z -> Trees]
    BY OnwardTree
  <2>3. H \in [(Trees \ Z) \X Extracts -> Extracts]
    <3> SUFFICES ASSUME NEW u \in Trees \ Z, NEW x \in Extracts
                 PROVE  PutBelow(u, id, x) \in Extracts
      OBVIOUS
    <3>1. u \in Trees /\ u # Null
      BY <1>0
    <3>2. Turned(u, id) \in Proper
      BY <3>1, TurnedTree
    <3>3. x.tree \in Trees /\ x.node \in Lone \cup {Null}
      BY DEF Extracts
    <3>4. WithChild(Turned(u, id), ~ Turned(u, id).id < id, x.tree) \in Trees
      BY <3>2, <3>3, WithChildTree DEF Proper
    <3> QED BY <3>3, <3>4 DEF PutBelow, Extracts
  <2>4. \A u \in Trees \ Z : Size[a[u]] < Size[u]
    BY <1>0, OnwardTree
  <2>5. Size \in [Trees -> Nat] /\ Z \in SUBSET Trees
    BY SizeNat
  <2> HIDE DEF Z, base, a, H
  <2> QED BY <2>1, <2>2, <2>3, <2>4, <2>5 DEF IsSteps
<1>2. PICK g : Returns(g, Trees, Z, Extracts, base, a, H)
  <2> HIDE DEF Z, base, a, H
  <2> QED BY <1>1, StepsExist
<1>3. g \in [Trees -> Extracts] /\ \A u \in Z : g[u] = Stopped(u, id)
  <2>1. \A u \in Z : g[u] = base[u]
    <3> HIDE DEF Z, base
    <3> QED BY <1>2 DEF Returns
  <2>2. g \in [Trees -> Extracts]
    <3> HIDE DEF Z, base, a, H
    <3> QED BY <1>2 DEF Returns
  <2> HIDE DEF Z, a, H
  <2> QED BY <2>1, <2>2
<1>4. ASSUME NEW u \in Trees \ Z
      PROVE  g[u] = PutBelow(u, id, g[Onward(u, id)])
  <2>2. g[u] = H[<<u, g[a[u]]>>]
    <3> HIDE DEF Z, a, H, base
    <3> QED BY <1>2 DEF Returns
  <2>3. a[u] = Onward(u, id) /\ a[u] \in Trees
    BY OnwardTree
  <2>4. <<u, g[a[u]]>> \in (Trees \ Z) \X Extracts
    <3> HIDE DEF a, Z
    <3> QED BY <1>3, <2>3
  <2>5. g[u] = PutBelow(u, id, g[a[u]])
    <3> HIDE DEF a, Z
    <3> QED BY <2>2, <2>4
  <2> HIDE DEF a, H
  <2> QED BY <2>3, <2>5
<1>5. ASSUME NEW t \in Trees
      PROVE  treap_extract(t, id) = g[t]
  <2>1. PICK at : at = CHOOSE f : A(f, t)
    OBVIOUS
  <2>a. A(at, t)
    <3> DEFINE step == [u \in Trees |-> Onward(u, id)]
    <3>1. step \in [Trees -> Trees]
      BY OnwardTree
    <3>2. \E f : /\ f \in [Nat -> Trees] /\ f[0] = t
                 /\ \A k \in Nat \ {0} : f[k] = step[f[k - 1]]
      <4> HIDE DEF step
      <4> QED BY <3>1, Iteration
    <3>3. PICK f : /\ f \in [Nat -> Trees] /\ f[0] = t
                   /\ \A k \in Nat \ {0} : f[k] = step[f[k - 1]]
      BY <3>2
    <3>4. ASSUME NEW k \in Nat \ {0}
          PROVE  f[k] = Onward(f[k - 1], id)
      <4>1. k - 1 \in Nat
        OBVIOUS
      <4>2. f[k - 1] \in Trees
        BY <3>3, <4>1
      <4> QED BY <3>3, <4>2
    <3>5. A(f, t)
      <4> DEFINE R(F, k) == IF k = 0 THEN t ELSE Onward(F[k - 1], id)
      <4>1. \A k \in Nat : f[k] = R(f, k)
        BY <3>3, <3>4
      <4> HIDE DEF R, step
      <4>2. f = [k \in Nat |-> R(f, k)]
        BY <3>3, <4>1
      <4> QED BY <4>2 DEF R, Onward
    <3> DEFINE C(F) == A(F, t)
    <3>6. C(f)
      BY <3>5
    <3>7. at = CHOOSE F : C(F)
      BY <2>1
    <3> HIDE DEF C
    <3>8. C(at)
      BY <3>6, <3>7
    <3> QED BY <3>8 DEF C
  <2>b. /\ at[0] = t
        /\ \A k \in Nat : at[k + 1] = Onward(at[k], id)
    <3> DEFINE R(F, k) == IF k = 0 THEN t ELSE Onward(F[k - 1], id)
    <3>1. at = [k \in Nat |-> R(at, k)]
      BY <2>a DEF Onward
    <3> HIDE DEF R, A
    <3>2. \A k \in Nat : at[k] = R(at, k)
      BY <3>1
    <3>3. \A k \in Nat : R(at, k + 1) = Onward(at[k], id)
      BY DEF R
    <3>4. R(at, 0) = t
      BY DEF R
    <3> QED BY <3>2, <3>3, <3>4
  <2>2. /\ \A k \in Nat : at[k] \in Trees
        /\ at[0] = t
        /\ \A k \in Nat : at[k + 1] = Onward(at[k], id)
    <3> DEFINE S == {k \in Nat : at[k] \in Trees}
    <3> HIDE DEF A
    <3>1. 0 \in S
      BY <2>b
    <3>2. \A k \in Nat : k \in S => k + 1 \in S
      BY <2>b, OnwardTree
    <3> HIDE DEF S
    <3>3. \A k \in Nat : k \in S
      BY <3>1, <3>2, NatSetInduction
    <3> QED BY <2>b, <3>3 DEF S
  <2>3. treap_extract(t, id) = (CHOOSE f : P(f, at))[0]
    BY <2>1 DEF treap_extract
  <2> DEFINE R(F, k) == IF Stops(at[k], id) THEN Stopped(at[k], id)
                        ELSE PutBelow(at[k], id, F[k + 1])
  <2>4. \A F : P(F, at) <=> F = [k \in Nat |-> R(F, k)]
    <3> DEFINE Q(F, k) ==
             LET u == at[k]
                 v == Turned(u, id)
                 x == F[k + 1]
             IN IF u = Null THEN [tree |-> Null, node |-> Null]
                ELSE IF u.id = id /\ u.left = Null
                     THEN [tree |-> u.right, node |-> Alone(u)]
                ELSE IF u.id = id /\ u.right = Null
                     THEN [tree |-> u.left, node |-> Alone(u)]
                ELSE [tree |-> WithChild(v, ~ v.id < id, x.tree), node |-> x.node]
    <3>1. \A F : P(F, at) <=> F = [k \in Nat |-> Q(F, k)]
      OBVIOUS
    <3>2. ASSUME NEW F, NEW k \in Nat
          PROVE  Q(F, k) = R(F, k)
      <4> HIDE DEF A, P
      <4> QED BY DEF Stops, Stopped, PutBelow
    <3> HIDE DEF Q, R, P, A
    <3>3. \A F : [k \in Nat |-> Q(F, k)] = [k \in Nat |-> R(F, k)]
      BY <3>2
    <3> QED BY <3>1, <3>3
  <2> HIDE DEF R, P, A
  <2>5. \E f : P(f, at)
    <3> DEFINE h == [k \in Nat |-> g[at[k]]]
    <3>1. ASSUME NEW k \in Nat
          PROVE  h[k] = R(h, k)
      <4>1. /\ at[k] \in Trees /\ at[k + 1] = Onward(at[k], id)
            /\ h[k] = g[at[k]] /\ h[k + 1] = g[at[k + 1]]
        BY <2>2
      <4> HIDE DEF h, Z
      <4>2. CASE at[k] \in Z
        BY <1>0, <1>3, <4>1, <4>2 DEF R
      <4>3. CASE at[k] \notin Z
        BY <1>0, <1>4, <4>1, <4>3 DEF R
      <4> QED BY <4>2, <4>3
    <3>2. h = [k \in Nat |-> R(h, k)]
      <4>1. h = [k \in Nat |-> h[k]]
        OBVIOUS
      <4> HIDE DEF h
      <4> QED BY <3>1, <4>1
    <3> HIDE DEF h
    <3> QED BY <2>4, <3>2
  <2>6. PICK f : f = CHOOSE h : P(h, at)
    OBVIOUS
  <2>7. \A k \in Nat : f[k] = R(f, k)
    <3>1. P(f, at)
      BY <2>5, <2>6
    <3>2. f = [k \in Nat |-> R(f, k)]
      BY <2>4, <3>1
    <3> QED BY <3>2
  <2>8. Runs(at, f, Trees, Z, Extracts, base, a, H)
    <3>1. \A k \in Nat : at[k] \notin Z => at[k + 1] = a[at[k]]
      BY <2>2
    <3>2. \A k \in Nat : at[k] \in Z => f[k] = base[at[k]]
      BY <2>7 DEF R
    <3>3. ASSUME NEW k \in Nat, at[k] \notin Z, f[k + 1] \in Extracts
          PROVE  f[k] = H[<<at[k], f[k + 1]>>]
      <4>1. <<at[k], f[k + 1]>> \in (Trees \ Z) \X Extracts
        BY <2>2, <3>3
      <4>2. ~ Stops(at[k], id)
        BY <2>2, <3>3
      <4>3. f[k] = PutBelow(at[k], id, f[k + 1])
        BY <2>7, <4>2 DEF R
      <4> QED BY <4>1, <4>3
    <3> HIDE DEF Z, base, a, H
    <3> QED BY <2>2, <3>1, <3>2, <3>3 DEF Runs
  <2>9. f[0] = g[at[0]]
    <3> HIDE DEF Z, base, a, H
    <3> QED BY <1>1, <1>2, <2>8, Steps
  <2> QED BY <2>2, <2>3, <2>6, <2>9
<1> HIDE DEF Z, base, a, H, P, A
<1>6. ASSUME NEW t \in Trees, ~ Stops(t, id)
      PROVE  treap_extract(t, id) =
               PutBelow(t, id, treap_extract(Onward(t, id), id))
  <2>1. t \in Trees \ Z /\ Onward(t, id) \in Trees
    BY <1>0, <1>6, OnwardTree
  <2>2. g[t] = PutBelow(t, id, g[Onward(t, id)])
    BY <1>4, <2>1
  <2> QED BY <1>5, <2>1, <2>2
<1> QED BY <1>0, <1>3, <1>5, <1>6

-----------------------------------------------------------------------------
(***************************************************************************)
(* An extraction from a tree whose ids differ undoes an insertion: it      *)
(* takes out the node with this id and nothing else.                       *)
(***************************************************************************)

HasId(s, id) == \E y \in Elems(s) : y.id = id

Taken(t, x, id) ==
  /\ x.node \in Lone /\ x.node.id = id /\ x.tree \in Trees
  /\ Inserts(InOrder(t), InOrder(x.tree), x.node)

\* Where the search stops the root is the node.
LEMMA TakenAtOnce ==
  ASSUME NEW t \in Proper, NEW id, t.id = id, t.left = Null \/ t.right = Null,
         Strict(InOrder(t))
  PROVE  Taken(t, Stopped(t, id), id)
<1>1. /\ InOrder(t) = Around(InOrder(t.left), Alone(t), InOrder(t.right))
      /\ InOrder(t.left) \in Seq(Lone) /\ InOrder(t.right) \in Seq(Lone)
      /\ Alone(t) \in Lone /\ Alone(t).id = t.id /\ t.id \in Nat
      /\ t.left \in Trees /\ t.right \in Trees
      /\ \A y \in Elems(InOrder(t.left)) : y.id < t.id
      /\ \A y \in Elems(InOrder(t.right)) : t.id < y.id
  BY RootOrder
<1>2. /\ \A y \in Elems(InOrder(t.left)) : y.id \in Nat /\ y.id <= t.id
      /\ \A y \in Elems(InOrder(t.right)) : y.id \in Nat /\ t.id <= y.id
  BY <1>1, ElemsConcat, LoneIds
<1>3. InOrder(Null) = <<>> /\ <<>> \in Seq(Lone) /\ Elems(<<>>) = {}
  BY InOrderRec DEF Elems
<1>4. \A s \in Seq(Lone) : s = Cat(<<>>, s) /\ s = Cat(s, <<>>)
  BY ConcatEmptySeq DEF Cat
<1>5. CASE t.left = Null
  <2>1. Stopped(t, id) = [tree |-> t.right, node |-> Alone(t)]
    BY <1>5, NullNot DEF Stopped
  <2>2. Inserts(InOrder(t), InOrder(t.right), Alone(t))
    <3>1. InOrder(t) = Around(<<>>, Alone(t), InOrder(t.right))
      BY <1>1, <1>3, <1>5
    <3>2. InOrder(t.right) = Cat(<<>>, InOrder(t.right))
      BY <1>1, <1>4
    <3> QED BY <1>1, <1>2, <1>3, <3>1, <3>2 DEF Inserts
  <2> QED BY <1>1, <2>1, <2>2 DEF Taken
<1>6. CASE t.left # Null
  <2>1. Stopped(t, id) = [tree |-> t.left, node |-> Alone(t)]
    BY <1>6, NullNot DEF Stopped
  <2>2. Inserts(InOrder(t), InOrder(t.left), Alone(t))
    <3>1. InOrder(t) = Around(InOrder(t.left), Alone(t), <<>>)
      BY <1>1, <1>3, <1>6
    <3>2. InOrder(t.left) = Cat(InOrder(t.left), <<>>)
      BY <1>1, <1>4
    <3> QED BY <1>1, <1>2, <1>3, <3>1, <3>2 DEF Inserts
  <2> QED BY <1>1, <2>1, <2>2 DEF Taken
<1> QED BY <1>5, <1>6

\* Elsewhere it is in what is left or right of the root.
LEMMA TakenBelow ==
  ASSUME NEW v \in Proper, NEW id \in Nat, Strict(InOrder(v)), v.id # id,
         HasId(InOrder(v), id), NEW x,
         HasId(InOrder(Child(v, ~ v.id < id)), id) =>
           Taken(Child(v, ~ v.id < id), x, id)
  PROVE  Taken(v, [tree |-> WithChild(v, ~ v.id < id, x.tree), node |-> x.node], id)
<1>1. /\ InOrder(v) = Around(InOrder(v.left), Alone(v), InOrder(v.right))
      /\ InOrder(v.left) \in Seq(Lone) /\ InOrder(v.right) \in Seq(Lone)
      /\ Alone(v) \in Lone /\ Alone(v).id = v.id /\ v.id \in Nat
      /\ v.left \in Trees /\ v.right \in Trees
      /\ Elems(InOrder(v)) = Elems(InOrder(v.left)) \cup {Alone(v)}
                               \cup Elems(InOrder(v.right))
  BY RootOrder
<1>2. /\ \A y \in Elems(InOrder(v.left)) : y.id < v.id
      /\ \A y \in Elems(InOrder(v.right)) : v.id < y.id
  BY RootOrder
<1>3. /\ \A y \in Elems(InOrder(v.left)) : y.id \in Nat /\ y.id <= v.id
      /\ \A y \in Elems(InOrder(v.right)) : y.id \in Nat /\ v.id <= y.id
  BY <1>1, <1>2, ElemsConcat, LoneIds
<1>4. PICK y \in Elems(InOrder(v)) : y.id = id
  BY DEF HasId
<1>5. CASE v.id < id
  <2>1. y \in Elems(InOrder(v.right))
    BY <1>1, <1>3, <1>4, <1>5
  <2>2. Child(v, ~ v.id < id) = v.right
        /\ WithChild(v, ~ v.id < id, x.tree) = [v EXCEPT !.right = x.tree]
    BY <1>5, NullNot DEF Child, WithChild
  <2>3. Taken(v.right, x, id)
    BY <1>4, <2>1, <2>2 DEF HasId
  <2> DEFINE w == [v EXCEPT !.right = x.tree]
  <2>4. /\ x.node \in Lone /\ x.node.id = id /\ x.tree \in Trees
        /\ Inserts(InOrder(v.right), InOrder(x.tree), x.node)
    BY <2>3 DEF Taken
  <2>5. w \in Trees /\ InOrder(w) = Around(InOrder(v.left), Alone(v), InOrder(x.tree))
    BY <2>4, WithRight, OrderAround DEF Proper
  <2>6. Alone(v).id <= x.node.id
    BY <1>1, <1>5, <2>4
  <2>7. \A z \in Elems(InOrder(v.left)) : z.id <= Alone(v).id
    BY <1>1, <1>3
  <2>8. Inserts(Around(InOrder(v.left), Alone(v), InOrder(v.right)),
                Around(InOrder(v.left), Alone(v), InOrder(x.tree)), x.node)
    BY <1>1, <2>4, <2>6, <2>7, InsertsRight
  <2> HIDE DEF w
  <2>9. Inserts(InOrder(v), InOrder(w), x.node)
    BY <1>1, <2>5, <2>8
  <2> QED BY <2>2, <2>4, <2>5, <2>9 DEF Taken, w
<1>6. CASE ~(v.id < id)
  <2>0. id < v.id
    BY <1>1, <1>6
  <2>1. y \in Elems(InOrder(v.left))
    BY <1>1, <1>3, <1>4, <2>0
  <2>2. Child(v, ~ v.id < id) = v.left
        /\ WithChild(v, ~ v.id < id, x.tree) = [v EXCEPT !.left = x.tree]
    BY <1>6, NullNot DEF Child, WithChild
  <2>3. Taken(v.left, x, id)
    BY <1>4, <2>1, <2>2 DEF HasId
  <2> DEFINE w == [v EXCEPT !.left = x.tree]
  <2>4. /\ x.node \in Lone /\ x.node.id = id /\ x.tree \in Trees
        /\ Inserts(InOrder(v.left), InOrder(x.tree), x.node)
    BY <2>3 DEF Taken
  <2>5. w \in Trees /\ InOrder(w) = Around(InOrder(x.tree), Alone(v), InOrder(v.right))
    BY <2>4, WithLeft, OrderAround DEF Proper
  <2>6. x.node.id <= Alone(v).id
    BY <1>1, <2>0, <2>4
  <2>7. \A z \in Elems(InOrder(v.right)) : Alone(v).id <= z.id
    BY <1>1, <1>3
  <2>8. Inserts(Around(InOrder(v.left), Alone(v), InOrder(v.right)),
                Around(InOrder(x.tree), Alone(v), InOrder(v.right)), x.node)
    BY <1>1, <2>4, <2>6, <2>7, InsertsLeft
  <2> HIDE DEF w
  <2>9. Inserts(InOrder(v), InOrder(w), x.node)
    BY <1>1, <2>5, <2>8
  <2> QED BY <2>2, <2>4, <2>5, <2>9 DEF Taken, w
<1> QED BY <1>5, <1>6

\* After a rotation another id is at the root.
LEMMA TurnedRoot ==
  ASSUME NEW t \in Proper, NEW id, ~ Stops(t, id), Strict(InOrder(t))
  PROVE  Turned(t, id).id # id
<1>1. CASE t.id # id
  BY <1>1 DEF Turned
<1>2. CASE t.id = id
  <2>1. t.left # Null /\ t.right # Null /\ Turned(t, id) = Lifted(t)
    BY <1>2, NullNot DEF Stops, Turned
  <2>2. t.left \in Proper /\ t.right \in Proper /\ t.id \in Nat
    BY <2>1, TreeParts DEF Proper
  <2>3. /\ Alone(t.left) \in Elems(InOrder(t.left))
        /\ Alone(t.right) \in Elems(InOrder(t.right))
        /\ Alone(t.left).id = t.left.id /\ Alone(t.right).id = t.right.id
        /\ t.left.id \in Nat /\ t.right.id \in Nat
    BY <2>2, RootOrder
  <2>4. t.left.id < t.id /\ t.id < t.right.id
    BY <2>3, RootOrder
  <2>5. t.left.id # t.id /\ t.right.id # t.id
    BY <2>2, <2>3, <2>4
  <2>6. swing_left(t).id = t.left.id
    <3>1. PICK d \in Proper : swing_left(t) = [t.left EXCEPT !.right = d]
      BY <2>1, SwingLeft
    <3> QED BY <2>2, <3>1, WithRight DEF Proper
  <2>7. swing_right(t).id = t.right.id
    <3>1. PICK d \in Proper : swing_right(t) = [t.right EXCEPT !.left = d]
      BY <2>1, SwingRight
    <3> QED BY <2>2, <3>1, WithLeft DEF Proper
  <2> QED BY <1>2, <2>1, <2>5, <2>6, <2>7 DEF Lifted
<1> QED BY <1>1, <1>2

LEMMA TakenTurned ==
  ASSUME NEW t \in Trees, NEW id, NEW x, Taken(Turned(t, id), x, id)
  PROVE  Taken(t, x, id)
BY TurnedTree DEF Taken

\* treap_extract takes out the node with the id that it is asked for and
\* nothing else, and the order stays, although the rotations let a node with
\* a greater priority up.
THEOREM ExtractFacts ==
  ASSUME NEW id \in Nat
  PROVE  \A t \in Trees : Strict(InOrder(t)) /\ HasId(InOrder(t), id)
           => Taken(t, treap_extract(t, id), id)
<1> DEFINE S == {n \in Nat : \A t \in Trees :
                   Size[t] < n /\ Strict(InOrder(t)) /\ HasId(InOrder(t), id)
                     => Taken(t, treap_extract(t, id), id)}
<1>1. 0 \in S
  <2> SUFFICES ASSUME NEW t \in Trees, Size[t] < 0 PROVE FALSE
    OBVIOUS
  <2>1. Size[t] \in Nat
    BY SizeNat
  <2> QED BY <2>1
<1>2. ASSUME NEW n \in Nat, n \in S
      PROVE  n + 1 \in S
  <2> SUFFICES ASSUME NEW t \in Trees, Size[t] < n + 1, Strict(InOrder(t)),
                      HasId(InOrder(t), id)
               PROVE  Taken(t, treap_extract(t, id), id)
    OBVIOUS
  <2>1. t \in Proper
    <3>1. InOrder(Null) = <<>> /\ Elems(<<>>) = {}
      BY InOrderRec DEF Elems
    <3> QED BY <3>1 DEF HasId, Proper
  <2>2. CASE Stops(t, id)
    <3>1. treap_extract(t, id) = Stopped(t, id)
      BY <2>2, ExtractRec
    <3>2. t.id = id /\ (t.left = Null \/ t.right = Null)
      BY <2>1, <2>2, NullNot DEF Stops
    <3> QED BY <2>1, <3>1, <3>2, TakenAtOnce
  <2>3. CASE ~ Stops(t, id)
    <3> DEFINE v == Turned(t, id)
               x == treap_extract(Onward(t, id), id)
    <3>1. v \in Proper /\ InOrder(v) = InOrder(t)
      BY <2>1, TurnedTree, NullNot
    <3>2. v.id # id
      BY <2>1, <2>3, TurnedRoot
    <3>3. Onward(t, id) = Child(v, ~ v.id < id) /\ Onward(t, id) \in Trees
      BY OnwardTree DEF Onward
    <3>4. Size[Onward(t, id)] < n
      <4>1. Size[Onward(t, id)] < Size[t]
        BY <2>1, OnwardTree, NullNot
      <4>2. Size[Onward(t, id)] \in Nat /\ Size[t] \in Nat
        BY <3>3, SizeNat
      <4> QED BY <4>1, <4>2
    <3>5. Strict(InOrder(Onward(t, id)))
      <4>1. Strict(InOrder(v.left)) /\ Strict(InOrder(v.right))
        BY <3>1, RootOrder
      <4> QED BY <3>1, <3>3, <4>1, NullNot DEF Child
    <3>6. HasId(InOrder(Onward(t, id)), id) => Taken(Onward(t, id), x, id)
      BY <1>2, <3>3, <3>4, <3>5
    <3>7. treap_extract(t, id) =
            [tree |-> WithChild(v, ~ v.id < id, x.tree), node |-> x.node]
      BY <2>3, ExtractRec DEF PutBelow
    <3> HIDE DEF v, x
    <3>8. Taken(v, [tree |-> WithChild(v, ~ v.id < id, x.tree), node |-> x.node], id)
      BY <3>1, <3>2, <3>3, <3>6, TakenBelow
    <3> QED BY <3>7, <3>8, TakenTurned DEF v
  <2> QED BY <2>2, <2>3
<1> HIDE DEF S
<1>3. \A n \in Nat : n \in S
  BY <1>1, <1>2, NatSetInduction
<1>4. \A t \in Trees : Size[t] + 1 \in Nat /\ Size[t] < Size[t] + 1
  <2> SUFFICES ASSUME NEW t \in Trees
               PROVE  Size[t] + 1 \in Nat /\ Size[t] < Size[t] + 1
    OBVIOUS
  <2>1. Size[t] \in Nat
    BY SizeNat
  <2> QED BY <2>1
<1> QED BY <1>3, <1>4 DEF S

-----------------------------------------------------------------------------
(***************************************************************************)
(* A search finds a node with the id when there is one; a change to an     *)
(* analysis leaves the ids.                                                *)
(***************************************************************************)

\* A search that finds something finds a node of the tree with this id.
LEMMA FindFacts ==
  ASSUME NEW id
  PROVE  \A t \in Trees : treap_find(t, id) # Null =>
           /\ treap_find(t, id) \in Proper /\ treap_find(t, id).id = id
           /\ Alone(treap_find(t, id)) \in Elems(InOrder(t))
<1> DEFINE S == {t \in Trees : treap_find(t, id) # Null =>
                   /\ treap_find(t, id) \in Proper /\ treap_find(t, id).id = id
                   /\ Alone(treap_find(t, id)) \in Elems(InOrder(t))}
<1>1. Null \in S
  BY FindRec, NullIsTree
<1>2. ASSUME NEW t \in Proper, t.left \in S, t.right \in S
      PROVE  t \in S
  <2> SUFFICES ASSUME treap_find(t, id) # Null
               PROVE  /\ treap_find(t, id) \in Proper /\ treap_find(t, id).id = id
                      /\ Alone(treap_find(t, id)) \in Elems(InOrder(t))
    BY DEF Proper
  <2>1. Elems(InOrder(t)) = Elems(InOrder(t.left)) \cup {Alone(t)}
                              \cup Elems(InOrder(t.right))
    BY RootOrder
  <2>2. CASE t.id = id
    <3>1. treap_find(t, id) = t
      BY <2>2, FindRec
    <3> QED BY <2>1, <2>2, <3>1
  <2>3. CASE t.id # id
    <3>1. treap_find(t, id) = treap_find(Child(t, id < t.id), id)
      BY <2>3, FindRec
    <3>2. Child(t, id < t.id) = t.left \/ Child(t, id < t.id) = t.right
      BY NullNot DEF Child
    <3> QED BY <1>2, <2>1, <3>1, <3>2
  <2> QED BY <2>2, <2>3
<1> HIDE DEF S
<1>3. \A t \in Trees : t \in S
  BY <1>1, <1>2, TreeInduction
<1> QED BY <1>3 DEF S

\* treap_find finds an id that is in the tree.
THEOREM FindComplete ==
  ASSUME NEW id \in Nat
  PROVE  \A t \in Trees : Sorted(InOrder(t)) /\ HasId(InOrder(t), id) =>
           treap_find(t, id) # Null
<1> DEFINE S == {t \in Trees : Sorted(InOrder(t)) /\ HasId(InOrder(t), id) =>
                   treap_find(t, id) # Null}
<1>1. Null \in S
  <2>1. InOrder(Null) = <<>> /\ Elems(<<>>) = {}
    BY InOrderRec DEF Elems
  <2> QED BY <2>1, NullIsTree DEF HasId
<1>2. ASSUME NEW t \in Proper, t.left \in S, t.right \in S
      PROVE  t \in S
  <2> SUFFICES ASSUME Sorted(InOrder(t)), HasId(InOrder(t), id), t.id # id
               PROVE  treap_find(t, id) # Null
    BY FindRec, NullNot DEF Proper
  <2>1. /\ Sorted(InOrder(t.left)) /\ Sorted(InOrder(t.right))
        /\ \A y \in Elems(InOrder(t.left)) : y.id <= t.id
        /\ \A y \in Elems(InOrder(t.right)) : t.id <= y.id
    BY RootOrder
  <2>2. Elems(InOrder(t)) = Elems(InOrder(t.left)) \cup {Alone(t)}
                              \cup Elems(InOrder(t.right))
    BY RootOrder
  <2>3. t.id \in Nat /\ Alone(t).id = t.id
    BY RootOrder
  <2>4. PICK y \in Elems(InOrder(t)) : y.id = id
    BY DEF HasId
  <2>5. treap_find(t, id) = treap_find(Child(t, id < t.id), id)
    BY FindRec
  <2>6. CASE id < t.id
    <3>1. ~(t.id <= id)
      BY <2>3, <2>6
    <3>2. y \in Elems(InOrder(t.left))
      BY <2>1, <2>2, <2>3, <2>4, <3>1
    <3>3. Child(t, id < t.id) = t.left
      BY <2>6, NullNot DEF Child
    <3> QED BY <1>2, <2>1, <2>4, <2>5, <3>2, <3>3 DEF HasId
  <2>7. CASE ~(id < t.id)
    <3>1. ~(id <= t.id)
      BY <2>3, <2>7
    <3>2. y \in Elems(InOrder(t.right))
      BY <2>1, <2>2, <2>3, <2>4, <3>1
    <3>3. Child(t, id < t.id) = t.right
      BY <2>7, NullNot DEF Child
    <3> QED BY <1>2, <2>1, <2>4, <2>5, <3>2, <3>3 DEF HasId
  <2> QED BY <2>6, <2>7
<1> HIDE DEF S
<1>3. \A t \in Trees : t \in S
  BY <1>1, <1>2, TreeInduction
<1> QED BY <1>3 DEF S

\* Another analysis in a node: no id changes, and no other analysis.
Twin(y, z, id, a) == y.id = z.id /\ (y.anal = z.anal \/ (y.id = id /\ y.anal = a))

SameBut(r, s, id, a) ==
  /\ Len(r) = Len(s)
  /\ Sorted(s) => Sorted(r)
  /\ \A y \in Elems(r) : \E z \in Elems(s) : Twin(y, z, id, a)
  /\ \A z \in Elems(s) : \E y \in Elems(r) : Twin(y, z, id, a)

LEMMA WithAnalFacts ==
  ASSUME NEW id, NEW a \in Anals
  PROVE  \A t \in Trees : SameBut(InOrder(WithAnal(t, id, a)), InOrder(t), id, a)
<1> DEFINE S == {t \in Trees : SameBut(InOrder(WithAnal(t, id, a)), InOrder(t), id, a)}
<1>1. Null \in S
  BY WithAnalRec, NullIsTree DEF SameBut, Twin
<1>2. ASSUME NEW t \in Proper, t.left \in S, t.right \in S
      PROVE  t \in S
  <2> DEFINE w == WithAnal(t, id, a)
  <2> SUFFICES SameBut(InOrder(w), InOrder(t), id, a)
    BY DEF Proper
  <2>0. \A v \in Proper :
          /\ v.id = id => WithAnal(v, id, a) = [v EXCEPT !.anal = a]
          /\ v.id # id => WithAnal(v, id, a) =
                            WithChild(v, id < v.id,
                              WithAnal(Child(v, id < v.id), id, a))
    BY WithAnalRec, Zenon
  <2>1. /\ Elems(InOrder(t)) = Elems(InOrder(t.left)) \cup {Alone(t)}
                                 \cup Elems(InOrder(t.right))
        /\ t.left \in Trees /\ t.right \in Trees
    BY RootOrder
  <2>2. Len(InOrder(t)) = Len(InOrder(t.left)) + 1 + Len(InOrder(t.right))
    BY RootOrder, Lens
  <2>3. Sorted(InOrder(t)) =>
              /\ Sorted(InOrder(t.left)) /\ Sorted(InOrder(t.right))
              /\ \A y \in Elems(InOrder(t.left)) : y.id <= t.id
              /\ \A y \in Elems(InOrder(t.right)) : t.id <= y.id
    BY RootOrder
  <2>4. \A u \in Trees : u \in Proper =>
          /\ Elems(InOrder(u)) = Elems(InOrder(u.left)) \cup {Alone(u)}
                                   \cup Elems(InOrder(u.right))
          /\ Alone(u).id = u.id /\ Alone(u).anal = u.anal
    BY RootOrder, AloneLone
  <2>5. \A u \in Trees : u \in Proper =>
          Len(InOrder(u)) = Len(InOrder(u.left)) + 1 + Len(InOrder(u.right))
    BY RootOrder, Lens
  <2>6. \A u \in Trees : u \in Proper =>
          (Sorted(InOrder(u)) <=>
              /\ Sorted(InOrder(u.left)) /\ Sorted(InOrder(u.right))
              /\ \A y \in Elems(InOrder(u.left)) : y.id <= u.id
              /\ \A y \in Elems(InOrder(u.right)) : u.id <= y.id)
    BY RootOrder
  <2>9. \A y : Twin(y, y, id, a)
    BY DEF Twin
  <2>7. CASE t.id = id
    <3>1. /\ w \in Proper /\ w.id = t.id /\ w.anal = a
          /\ w.left = t.left /\ w.right = t.right
      <4>1. w = [t EXCEPT !.anal = a]
        BY <2>0, <2>7
      <4> HIDE DEF w
      <4> QED BY <4>1, WithAnalTree
    <3>2. w \in Trees /\ t \in Trees
      BY <3>1 DEF Proper
    <3> HIDE DEF w
    <3>3. Len(InOrder(w)) = Len(InOrder(t))
      BY <2>2, <2>5, <3>1, <3>2
    <3>4. Sorted(InOrder(t)) => Sorted(InOrder(w))
      BY <2>3, <2>6, <3>1, <3>2
    <3>5. ASSUME NEW y \in Elems(InOrder(w))
          PROVE  \E z \in Elems(InOrder(t)) :
                   Twin(y, z, id, a)
      <4>1. CASE y = Alone(w)
        <5>1. Twin(y, Alone(t), id, a)
          BY <2>4, <2>7, <3>1, <3>2, <4>1 DEF Twin
        <5> QED BY <2>1, <5>1
      <4>2. CASE y \in Elems(InOrder(t))
        BY <2>9, <4>2
      <4> QED BY <2>1, <2>4, <3>1, <3>2, <4>1, <4>2
    <3>6. ASSUME NEW z \in Elems(InOrder(t))
          PROVE  \E y \in Elems(InOrder(w)) :
                   Twin(y, z, id, a)
      <4>0. Elems(InOrder(w)) = Elems(InOrder(t.left)) \cup {Alone(w)}
                                  \cup Elems(InOrder(t.right))
        BY <2>4, <3>1, <3>2
      <4>1. CASE z = Alone(t)
        <5>1. Twin(Alone(w), z, id, a)
          BY <2>4, <2>7, <3>1, <3>2, <4>1 DEF Twin
        <5> QED BY <4>0, <5>1
      <4>2. CASE z \in Elems(InOrder(w))
        BY <2>9, <4>2
      <4> QED BY <2>1, <4>0, <4>1, <4>2
    <3> QED BY <3>3, <3>4, <3>5, <3>6 DEF SameBut
  <2>8. CASE t.id # id
    <3> DEFINE u == WithAnal(Child(t, id < t.id), id, a)
    <3>1. u \in Trees /\ w = WithChild(t, id < t.id, u)
      <4>1. t \in Trees
        BY DEF Proper
      <4>2. Child(t, id < t.id) \in Trees
        BY <4>1, ChildTree
      <4>3. u \in Trees
        BY <4>2, WithAnalRec
      <4>4. w = WithChild(t, id < t.id, u)
        BY <2>0, <2>8
      <4> QED BY <4>3, <4>4
    <3> HIDE DEF u, w
    <3>2. CASE id < t.id
      <4>1. u = WithAnal(t.left, id, a)
        BY <3>2, NullNot DEF Child, u
      <4>2. SameBut(InOrder(u), InOrder(t.left), id, a)
        BY <1>2, <4>1
      <4>3. /\ w \in Proper /\ w.id = t.id /\ w.anal = t.anal
            /\ w.left = u /\ w.right = t.right
        BY <3>1, <3>2, WithLeft DEF WithChild
      <4>4. w \in Trees /\ t \in Trees
        BY <4>3 DEF Proper
      <4>5. Len(InOrder(w)) = Len(InOrder(t))
        BY <2>2, <2>5, <4>2, <4>3, <4>4 DEF SameBut
      <4>6. /\ \A y \in Elems(InOrder(u)) : \E z \in Elems(InOrder(t.left)) :
                 Twin(y, z, id, a)
            /\ \A z \in Elems(InOrder(t.left)) : \E y \in Elems(InOrder(u)) :
                 Twin(y, z, id, a)
        BY <4>2 DEF SameBut
      <4>7. Sorted(InOrder(t)) => Sorted(InOrder(w))
        <5> SUFFICES ASSUME Sorted(InOrder(t)) PROVE Sorted(InOrder(w))
          OBVIOUS
        <5>1. Sorted(InOrder(u))
          BY <2>3, <4>2 DEF SameBut
        <5>2. \A y \in Elems(InOrder(u)) : y.id <= t.id
          BY <2>3, <4>6 DEF Twin
        <5> QED BY <2>3, <2>6, <4>3, <4>4, <5>1, <5>2
      <4>8. ASSUME NEW y \in Elems(InOrder(w))
            PROVE  \E z \in Elems(InOrder(t)) :
                     Twin(y, z, id, a)
        <5>1. CASE y = Alone(w)
          <6>1. Twin(y, Alone(t), id, a)
            BY <2>4, <4>3, <4>4, <5>1 DEF Twin
          <6> QED BY <2>1, <6>1
        <5>2. CASE y \in Elems(InOrder(t.right))
          BY <2>1, <2>9, <5>2
        <5>3. CASE y \in Elems(InOrder(u))
          BY <2>1, <4>6, <5>3
        <5> QED BY <2>4, <4>3, <4>4, <5>1, <5>2, <5>3
      <4>9. ASSUME NEW z \in Elems(InOrder(t))
            PROVE  \E y \in Elems(InOrder(w)) :
                     Twin(y, z, id, a)
        <5>0. Elems(InOrder(w)) = Elems(InOrder(u)) \cup {Alone(w)}
                                  \cup Elems(InOrder(t.right))
          BY <2>4, <4>3, <4>4
        <5>1. CASE z = Alone(t)
          <6>1. Twin(Alone(w), z, id, a)
            BY <2>4, <4>3, <4>4, <5>1 DEF Twin
          <6> QED BY <5>0, <6>1
        <5>2. CASE z \in Elems(InOrder(t.right))
          BY <2>9, <5>0, <5>2
        <5>3. CASE z \in Elems(InOrder(t.left))
          BY <4>6, <5>0, <5>3
        <5> QED BY <2>1, <5>1, <5>2, <5>3
      <4> QED BY <4>5, <4>7, <4>8, <4>9 DEF SameBut
    <3>3. CASE ~(id < t.id)
      <4>1. u = WithAnal(t.right, id, a)
        BY <3>3, NullNot DEF Child, u
      <4>2. SameBut(InOrder(u), InOrder(t.right), id, a)
        BY <1>2, <4>1
      <4>3. /\ w \in Proper /\ w.id = t.id /\ w.anal = t.anal
            /\ w.left = t.left /\ w.right = u
        BY <3>1, <3>3, WithRight DEF WithChild
      <4>4. w \in Trees /\ t \in Trees
        BY <4>3 DEF Proper
      <4>5. Len(InOrder(w)) = Len(InOrder(t))
        BY <2>2, <2>5, <4>2, <4>3, <4>4 DEF SameBut
      <4>6. /\ \A y \in Elems(InOrder(u)) : \E z \in Elems(InOrder(t.right)) :
                 Twin(y, z, id, a)
            /\ \A z \in Elems(InOrder(t.right)) : \E y \in Elems(InOrder(u)) :
                 Twin(y, z, id, a)
        BY <4>2 DEF SameBut
      <4>7. Sorted(InOrder(t)) => Sorted(InOrder(w))
        <5> SUFFICES ASSUME Sorted(InOrder(t)) PROVE Sorted(InOrder(w))
          OBVIOUS
        <5>1. Sorted(InOrder(u))
          BY <2>3, <4>2 DEF SameBut
        <5>2. \A y \in Elems(InOrder(u)) : t.id <= y.id
          BY <2>3, <4>6 DEF Twin
        <5> QED BY <2>3, <2>6, <4>3, <4>4, <5>1, <5>2
      <4>8. ASSUME NEW y \in Elems(InOrder(w))
            PROVE  \E z \in Elems(InOrder(t)) :
                     Twin(y, z, id, a)
        <5>1. CASE y = Alone(w)
          <6>1. Twin(y, Alone(t), id, a)
            BY <2>4, <4>3, <4>4, <5>1 DEF Twin
          <6> QED BY <2>1, <6>1
        <5>2. CASE y \in Elems(InOrder(t.left))
          BY <2>1, <2>9, <5>2
        <5>3. CASE y \in Elems(InOrder(u))
          BY <2>1, <4>6, <5>3
        <5> QED BY <2>4, <4>3, <4>4, <5>1, <5>2, <5>3
      <4>9. ASSUME NEW z \in Elems(InOrder(t))
            PROVE  \E y \in Elems(InOrder(w)) :
                     Twin(y, z, id, a)
        <5>0. Elems(InOrder(w)) = Elems(InOrder(t.left)) \cup {Alone(w)}
                                  \cup Elems(InOrder(u))
          BY <2>4, <4>3, <4>4
        <5>1. CASE z = Alone(t)
          <6>1. Twin(Alone(w), z, id, a)
            BY <2>4, <4>3, <4>4, <5>1 DEF Twin
          <6> QED BY <5>0, <6>1
        <5>2. CASE z \in Elems(InOrder(t.left))
          BY <2>9, <5>0, <5>2
        <5>3. CASE z \in Elems(InOrder(t.right))
          BY <4>6, <5>0, <5>3
        <5> QED BY <2>1, <5>1, <5>2, <5>3
      <4> QED BY <4>5, <4>7, <4>8, <4>9 DEF SameBut
    <3> QED BY <3>2, <3>3
  <2> QED BY <2>7, <2>8
<1> HIDE DEF S
<1>3. \A t \in Trees : t \in S
  BY <1>1, <1>2, TreeInduction
<1> QED BY <1>3 DEF S

\* As many ids as nodes: no two nodes with the same id.
LEMMA UniqueStrict ==
  ASSUME NEW t \in Trees, UniqueKeys(t), Sorted(InOrder(t))
  PROVE  Strict(InOrder(t))
<1> DEFINE s == InOrder(t)
           n == Len(s)
           ids == TreapIds(t)
           f == [i \in 1 .. n |-> s[i].id]
<1>1. s \in Seq(Lone) /\ DOMAIN s = 1 .. n /\ n \in Nat
  BY InOrderRec
<1>2. \A i \in 1 .. n : s[i] \in Lone /\ s[i].id \in Nat
  BY <1>1, LoneIds
<1>3. ids = {f[i] : i \in 1 .. n}
  BY <1>1 DEF TreapIds, Nodes
<1>4. f \in Surjection(1 .. n, ids)
  <2> HIDE DEF s, n, ids
  <2> QED BY <1>3 DEF Surjection
<1>5. IsFiniteSet(1 .. n) /\ Cardinality(1 .. n) = n
  BY <1>1, FS_Interval
<1>6. Cardinality(ids) = n
  BY DEF UniqueKeys
<1>7. f \in Injection(1 .. n, ids)
  <2> HIDE DEF f, s, n, ids
  <2> QED BY <1>4, <1>5, <1>6, FS_SurjSameCardinalityImpliesInj
<1>8. \A i, j \in 1 .. n : f[i] = f[j] => i = j
  <2> HIDE DEF f, s, n, ids
  <2> QED BY <1>7 DEF Injection, IsInjective
<1>9. ASSUME NEW i \in 1 .. n, NEW j \in 1 .. n, i < j
      PROVE  s[i].id < s[j].id
  <2>1. s[i].id <= s[j].id
    BY <1>1, <1>9 DEF Sorted
  <2>2. s[i].id # s[j].id
    <3>1. f[i] = s[i].id /\ f[j] = s[j].id /\ i # j
      BY <1>1, <1>9
    <3> HIDE DEF f, s, n
    <3> QED BY <1>8, <3>1
  <2> HIDE DEF s, n
  <2> QED BY <1>2, <2>1, <2>2
<1> QED BY <1>1, <1>9 DEF Strict

-----------------------------------------------------------------------------
(***************************************************************************)
(* The trees whose ids differ, and the order in which they are saved:      *)
(* every node once.                                                        *)
(***************************************************************************)

InTrees == {t \in Trees : Strict(InOrder(t))}

LEMMA StrictSorted ==
  ASSUME NEW s \in Seq(Lone), Strict(s)
  PROVE  Sorted(s)
<1>1. \A i \in DOMAIN s : s[i].id \in Nat
  BY LoneIds
<1> QED BY <1>1 DEF Strict, Sorted

\* In a tree in order the id tells the nodes apart.
LEMMA StrictUnique ==
  ASSUME NEW s \in Seq(Lone), Strict(s), NEW x \in Elems(s), NEW y \in Elems(s),
         x.id = y.id
  PROVE  x = y
<1>1. PICK i \in DOMAIN s, j \in DOMAIN s : x = s[i] /\ y = s[j]
  BY DEF Elems
<1>2. s[i].id \in Nat /\ s[j].id \in Nat
  BY LoneIds
<1>3. ~(i < j) /\ ~(j < i)
  BY <1>1, <1>2 DEF Strict
<1>4. i \in Nat /\ j \in Nat
  OBVIOUS
<1> QED BY <1>1, <1>3, <1>4

\* The root is removed.
LEMMA RemoveRoot ==
  ASSUME NEW t \in InTrees, t # Null
  PROVE  /\ treap_remove(t, t.id) \in InTrees
         /\ Size[treap_remove(t, t.id)] + 1 = Size[t]
         /\ Elems(InOrder(t)) = Elems(InOrder(treap_remove(t, t.id))) \cup {Alone(t)}
         /\ \A y \in Elems(InOrder(treap_remove(t, t.id))) : y.id # t.id
         /\ Alone(t).id = t.id /\ Alone(t) \in Lone
<1> DEFINE x == treap_extract(t, t.id)
<1>1. t \in Proper /\ t \in Trees /\ Strict(InOrder(t))
  BY DEF InTrees, Proper
<1>2. /\ Alone(t) \in Elems(InOrder(t)) /\ Alone(t).id = t.id /\ t.id \in Nat
      /\ Alone(t) \in Lone
  BY <1>1, RootOrder
<1>3. Taken(t, x, t.id)
  BY <1>1, <1>2, ExtractFacts DEF HasId
<1> HIDE DEF x
<1>4. /\ x.node \in Lone /\ x.node.id = t.id /\ x.tree \in Trees
      /\ Inserts(InOrder(t), InOrder(x.tree), x.node)
  BY <1>3 DEF Taken
<1>5. /\ Elems(InOrder(t)) = Elems(InOrder(x.tree)) \cup {x.node}
      /\ Strict(InOrder(x.tree))
      /\ \A y \in Elems(InOrder(x.tree)) : y.id # x.node.id
  BY <1>1, <1>4, InsertsFacts
<1>6. Len(InOrder(t)) = Len(InOrder(x.tree)) + 1
  BY <1>4, InsertsFacts
<1>7. x.node = Alone(t)
  <2>1. InOrder(t) \in Seq(Lone)
    BY <1>1, InOrderRec
  <2> QED BY <1>1, <1>2, <1>4, <1>5, <2>1, StrictUnique
<1>8. treap_remove(t, t.id) = x.tree
  BY DEF treap_remove, x
<1>9. Size[x.tree] + 1 = Size[t]
  BY <1>1, <1>4, <1>6 DEF Size
<1> QED BY <1>2, <1>4, <1>5, <1>7, <1>8, <1>9 DEF InTrees

LEMMA RemoveNull == Null \in InTrees /\ \A id : treap_remove(Null, id) = Null
<1>1. \A id : treap_extract(Null, id) = [tree |-> Null, node |-> Null]
  BY ExtractRec, NullIsTree DEF Stops, Stopped
<1>2. Strict(InOrder(Null))
  BY InOrderRec DEF Strict
<1> QED BY <1>1, <1>2, NullIsTree DEF treap_remove, InTrees

LEMMA SaveOrderRec ==
  /\ SaveOrder(Null) = <<>>
  /\ \A t \in InTrees : SaveOrder(t) \in Seq(Lone)
  /\ \A t \in InTrees \ {Null} :
       SaveOrder(t) = Cat(<<Alone(t)>>, SaveOrder(treap_remove(t, t.id)))
<1> DEFINE V == Seq(Lone)
           m == [u \in InTrees |-> Size[u]]
           base == [u \in {Null} |-> <<>>]
           a == [u \in InTrees \ {Null} |-> treap_remove(u, u.id)]
           H == [x \in (InTrees \ {Null}) \X V |-> Cat(<<Alone(x[1])>>, x[2])]
           A(f, t) == f = [k \in Nat |-> IF k = 0 THEN t
                             ELSE LET u == f[k - 1] IN treap_remove(u, u.id)]
           P(f, at) == f = [k \in Nat |->
             LET u == at[k]
             IN IF u = Null THEN <<>> ELSE <<Alone(u)>> \o f[k + 1]]
<1>1. IsSteps(InTrees, m, {Null}, V, base, a, H)
  <2>1. base \in [{Null} -> V]
    OBVIOUS
  <2>2. a \in [InTrees \ {Null} -> InTrees]
    BY RemoveRoot
  <2>3. H \in [(InTrees \ {Null}) \X V -> V]
    <3> SUFFICES ASSUME NEW u \in InTrees \ {Null}, NEW x \in V
                 PROVE  Cat(<<Alone(u)>>, x) \in V
      OBVIOUS
    <3>1. <<Alone(u)>> \in Seq(Lone)
      BY RemoveRoot
    <3> QED BY <3>1, CatFacts
  <2>4. m \in [InTrees -> Nat] /\ {Null} \in SUBSET InTrees
    BY SizeNat, RemoveNull DEF InTrees
  <2>5. ASSUME NEW u \in InTrees \ {Null}
        PROVE  m[a[u]] < m[u]
    <3>1. a[u] = treap_remove(u, u.id) /\ a[u] \in InTrees
      BY RemoveRoot
    <3>2. Size[treap_remove(u, u.id)] + 1 = Size[u]
      BY RemoveRoot
    <3>3. m[a[u]] = Size[a[u]] /\ m[u] = Size[u] /\ m[a[u]] \in Nat /\ m[u] \in Nat
      BY <2>4, <3>1
    <3> HIDE DEF m, a
    <3> QED BY <3>1, <3>2, <3>3
  <2> HIDE DEF base, a, H, m, V
  <2> QED BY <2>1, <2>2, <2>3, <2>4, <2>5 DEF IsSteps
<1>2. PICK g : Returns(g, InTrees, {Null}, V, base, a, H)
  <2> HIDE DEF base, a, H, m, V
  <2> QED BY <1>1, StepsExist
<1>3. g \in [InTrees -> V] /\ g[Null] = <<>>
  <2>1. g[Null] = base[Null]
    <3> HIDE DEF base
    <3> QED BY <1>2 DEF Returns
  <2>2. g \in [InTrees -> V]
    <3> HIDE DEF base, a, H, V
    <3> QED BY <1>2 DEF Returns
  <2> HIDE DEF a, H, V
  <2> QED BY <2>1, <2>2
<1>4. ASSUME NEW u \in InTrees \ {Null}
      PROVE  g[u] = Cat(<<Alone(u)>>, g[treap_remove(u, u.id)])
  <2>2. g[u] = H[<<u, g[a[u]]>>]
    <3> HIDE DEF a, H, base, V
    <3> QED BY <1>2 DEF Returns
  <2>3. a[u] = treap_remove(u, u.id) /\ a[u] \in InTrees
    BY RemoveRoot
  <2>4. <<u, g[a[u]]>> \in (InTrees \ {Null}) \X V
    <3> HIDE DEF a, V
    <3> QED BY <1>3, <2>3
  <2>5. g[u] = Cat(<<Alone(u)>>, g[a[u]])
    <3> HIDE DEF a, V
    <3> QED BY <2>2, <2>4
  <2> HIDE DEF a, H
  <2> QED BY <2>3, <2>5
<1>5. ASSUME NEW t \in InTrees
      PROVE  SaveOrder(t) = g[t]
  <2>1. PICK at : at = CHOOSE f : A(f, t)
    OBVIOUS
  <2> DEFINE step == [u \in InTrees |-> treap_remove(u, u.id)]
  <2>2. step \in [InTrees -> InTrees]
    BY RemoveRoot, RemoveNull
  <2>3. A(at, t)
    <3>2. \E f : /\ f \in [Nat -> InTrees] /\ f[0] = t
                 /\ \A k \in Nat \ {0} : f[k] = step[f[k - 1]]
      <4> HIDE DEF step
      <4> QED BY <2>2, Iteration
    <3>3. PICK f : /\ f \in [Nat -> InTrees] /\ f[0] = t
                   /\ \A k \in Nat \ {0} : f[k] = step[f[k - 1]]
      BY <3>2
    <3>4. ASSUME NEW k \in Nat \ {0}
          PROVE  f[k] = treap_remove(f[k - 1], f[k - 1].id)
      <4>1. k - 1 \in Nat
        OBVIOUS
      <4>2. f[k - 1] \in InTrees
        BY <3>3, <4>1
      <4> QED BY <3>3, <4>2
    <3>5. A(f, t)
      <4> DEFINE R(F, k) == IF k = 0 THEN t ELSE treap_remove(F[k - 1], F[k - 1].id)
      <4>1. \A k \in Nat : f[k] = R(f, k)
        BY <3>3, <3>4
      <4> HIDE DEF R, step
      <4>2. f = [k \in Nat |-> R(f, k)]
        BY <3>3, <4>1
      <4> QED BY <4>2 DEF R
    <3> DEFINE C(F) == A(F, t)
    <3>6. C(f)
      BY <3>5
    <3>7. at = CHOOSE F : C(F)
      BY <2>1
    <3> HIDE DEF C
    <3>8. C(at)
      BY <3>6, <3>7
    <3> QED BY <3>8 DEF C
  <2>4. /\ at[0] = t
        /\ \A k \in Nat : at[k + 1] = treap_remove(at[k], at[k].id)
    <3> DEFINE R(F, k) == IF k = 0 THEN t ELSE treap_remove(F[k - 1], F[k - 1].id)
    <3>1. at = [k \in Nat |-> R(at, k)]
      BY <2>3
    <3> HIDE DEF R, A
    <3>2. \A k \in Nat : at[k] = R(at, k)
      BY <3>1
    <3>3. \A k \in Nat : R(at, k + 1) = treap_remove(at[k], at[k].id)
      BY DEF R
    <3>4. R(at, 0) = t
      BY DEF R
    <3> QED BY <3>2, <3>3, <3>4
  <2>5. \A k \in Nat : at[k] \in InTrees
    <3> DEFINE S == {k \in Nat : at[k] \in InTrees}
    <3> HIDE DEF A
    <3>1. 0 \in S
      BY <2>4
    <3>2. \A k \in Nat : k \in S => k + 1 \in S
      BY <2>4, RemoveRoot, RemoveNull
    <3> HIDE DEF S
    <3>3. \A k \in Nat : k \in S
      BY <3>1, <3>2, NatSetInduction
    <3> QED BY <3>3 DEF S
  <2>6. SaveOrder(t) = (CHOOSE f : P(f, at))[0]
    BY <2>1 DEF SaveOrder
  <2> DEFINE R(F, k) == IF at[k] = Null THEN <<>> ELSE Cat(<<Alone(at[k])>>, F[k + 1])
  <2>7. \A F : P(F, at) <=> F = [k \in Nat |-> R(F, k)]
    BY DEF Cat
  <2> HIDE DEF R, P, A, step
  <2>8. \E f : P(f, at)
    <3> DEFINE h == [k \in Nat |-> g[at[k]]]
    <3>1. ASSUME NEW k \in Nat
          PROVE  h[k] = R(h, k)
      <4>1. /\ at[k] \in InTrees /\ at[k + 1] = treap_remove(at[k], at[k].id)
            /\ h[k] = g[at[k]] /\ h[k + 1] = g[at[k + 1]]
        BY <2>4, <2>5
      <4> HIDE DEF h
      <4>2. CASE at[k] = Null
        BY <1>3, <4>1, <4>2 DEF R
      <4>3. CASE at[k] # Null
        BY <1>4, <4>1, <4>3 DEF R
      <4> QED BY <4>2, <4>3
    <3>2. h = [k \in Nat |-> R(h, k)]
      <4>1. h = [k \in Nat |-> h[k]]
        OBVIOUS
      <4> HIDE DEF h
      <4> QED BY <3>1, <4>1
    <3> HIDE DEF h
    <3> QED BY <2>7, <3>2
  <2>9. PICK f : f = CHOOSE h : P(h, at)
    OBVIOUS
  <2>10. \A k \in Nat : f[k] = R(f, k)
    <3>1. P(f, at)
      BY <2>8, <2>9
    <3>2. f = [k \in Nat |-> R(f, k)]
      BY <2>7, <3>1
    <3> QED BY <3>2
  <2>11. Runs(at, f, InTrees, {Null}, V, base, a, H)
    <3>1. \A k \in Nat : at[k] \notin {Null} => at[k + 1] = a[at[k]]
      BY <2>4, <2>5
    <3>2. \A k \in Nat : at[k] \in {Null} => f[k] = base[at[k]]
      BY <2>10 DEF R
    <3>3. ASSUME NEW k \in Nat, at[k] \notin {Null}, f[k + 1] \in V
          PROVE  f[k] = H[<<at[k], f[k + 1]>>]
      <4>1. <<at[k], f[k + 1]>> \in (InTrees \ {Null}) \X V
        BY <2>5, <3>3
      <4>3. f[k] = Cat(<<Alone(at[k])>>, f[k + 1])
        BY <2>10, <3>3 DEF R
      <4> HIDE DEF V
      <4> QED BY <4>1, <4>3
    <3> HIDE DEF base, a, H, V
    <3> QED BY <2>5, <3>1, <3>2, <3>3 DEF Runs
  <2>12. f[0] = g[at[0]]
    <3> HIDE DEF base, a, H, V, m
    <3> QED BY <1>1, <1>2, <2>11, Steps
  <2> QED BY <2>4, <2>6, <2>9, <2>12
<1> HIDE DEF base, a, H, P, A, m
<1> QED BY <1>3, <1>4, <1>5, RemoveRoot, RemoveNull

\* treap_save writes every node once.
THEOREM SaveOrderFacts ==
  \A t \in InTrees : /\ SaveOrder(t) \in Seq(Lone)
                     /\ Elems(SaveOrder(t)) = Elems(InOrder(t))
                     /\ Len(SaveOrder(t)) = Len(InOrder(t))
<1> DEFINE S == {n \in Nat : \A t \in InTrees : Size[t] < n =>
                     /\ Elems(SaveOrder(t)) = Elems(InOrder(t))
                     /\ Len(SaveOrder(t)) = Size[t]}
<1>0. \A t \in InTrees : Size[t] \in Nat /\ Size[t] = Len(InOrder(t))
  BY SizeNat DEF InTrees, Size
<1>1. 0 \in S
  <2> SUFFICES ASSUME NEW t \in InTrees, Size[t] < 0 PROVE FALSE
    OBVIOUS
  <2> QED BY <1>0
<1>2. ASSUME NEW n \in Nat, n \in S
      PROVE  n + 1 \in S
  <2> SUFFICES ASSUME NEW t \in InTrees, Size[t] < n + 1
               PROVE  /\ Elems(SaveOrder(t)) = Elems(InOrder(t))
                      /\ Len(SaveOrder(t)) = Size[t]
    OBVIOUS
  <2>1. CASE t = Null
    <3>1. SaveOrder(t) = InOrder(t)
      BY <2>1, SaveOrderRec, InOrderRec
    <3> QED BY <1>0, <3>1
  <2>2. CASE t # Null
    <3> DEFINE u == treap_remove(t, t.id)
    <3>1. u \in InTrees /\ Size[u] + 1 = Size[t]
      BY <2>2, RemoveRoot
    <3>2. Elems(InOrder(t)) = Elems(InOrder(u)) \cup {Alone(t)} /\ Alone(t) \in Lone
      BY <2>2, RemoveRoot
    <3>3. SaveOrder(t) = Cat(<<Alone(t)>>, SaveOrder(u))
      BY <2>2, SaveOrderRec
    <3> HIDE DEF u
    <3>4. Size[u] \in Nat /\ Size[t] \in Nat
      BY <1>0, <3>1
    <3>5. Size[u] < n
      BY <3>1, <3>4
    <3>6. Elems(SaveOrder(u)) = Elems(InOrder(u)) /\ Len(SaveOrder(u)) = Size[u]
      BY <1>2, <3>1, <3>5
    <3>7. SaveOrder(u) \in Seq(Lone) /\ <<Alone(t)>> \in Seq(Lone)
      BY <3>1, <3>2, SaveOrderRec
    <3>8. Elems(SaveOrder(t)) = {Alone(t)} \cup Elems(SaveOrder(u))
      BY <3>3, <3>7, CatFacts, ElemsOne
    <3>9. Len(SaveOrder(t)) = 1 + Len(SaveOrder(u))
      <4>1. Len(Cat(<<Alone(t)>>, SaveOrder(u))) = Len(<<Alone(t)>>) + Len(SaveOrder(u))
        BY <3>2, <3>7, Lens
      <4>2. Len(<<Alone(t)>>) = 1
        OBVIOUS
      <4> QED BY <3>3, <4>1, <4>2
    <3>10. Len(SaveOrder(t)) = Size[t]
      BY <3>1, <3>4, <3>6, <3>9
    <3> QED BY <3>2, <3>6, <3>8, <3>10
  <2> QED BY <2>1, <2>2
<1> HIDE DEF S
<1>3. \A n \in Nat : n \in S
  BY <1>1, <1>2, NatSetInduction
<1>4. \A t \in InTrees : Size[t] + 1 \in Nat /\ Size[t] < Size[t] + 1
  BY <1>0
<1> QED BY <1>0, <1>3, <1>4, SaveOrderRec DEF S

-----------------------------------------------------------------------------
(***************************************************************************)
(* The sets of ids: what module AvailableIds says of get_free_id and       *)
(* return_id.                                                              *)
(***************************************************************************)

LEMMA IdsElems ==
  ASSUME NEW t
  PROVE  /\ Nodes(t) = Elems(InOrder(t))
         /\ TreapIds(t) = {n.id : n \in Elems(InOrder(t))}
         /\ Ordered(t) <=> Sorted(InOrder(t))
BY DEF Nodes, TreapIds, Ordered, Elems, Sorted

LEMMA NewNodeLone ==
  ASSUME NEW id \in Nat, NEW heap \in Heaps, NEW anal \in Anals \cup {Null}
  PROVE  /\ NewNode(id, heap, anal) \in Lone
         /\ NewNode(id, heap, anal).id = id
         /\ NewNode(id, heap, anal).anal = anal
<1>1. NewNode(id, heap, anal) \in TreesOver(Trees)
  BY NullIsTree DEF NewNode, TreesOver
<1> QED BY <1>1, TreeMade DEF Lone, NewNode

LEMMA WithAnalLone ==
  ASSUME NEW x \in Lone, NEW a \in Anals \cup {Null}
  PROVE  /\ [x EXCEPT !.anal = a] \in Lone /\ [x EXCEPT !.anal = a].id = x.id
         /\ [x EXCEPT !.anal = a].anal = a
BY WithAnalTree DEF Lone

\* The ids of a tree after an insertion and after an extraction.
LEMMA IdsInserted ==
  ASSUME NEW t \in Trees, Sorted(InOrder(t)), NEW node \in Lone
  PROVE  /\ treap_insert_node(t, node) \in Trees
         /\ Sorted(InOrder(treap_insert_node(t, node)))
         /\ Elems(InOrder(treap_insert_node(t, node))) =
              Elems(InOrder(t)) \cup {node}
         /\ Len(InOrder(treap_insert_node(t, node))) = Len(InOrder(t)) + 1
         /\ TreapIds(treap_insert_node(t, node)) = TreapIds(t) \cup {node.id}
         /\ Strict(InOrder(t)) /\ node.id \notin TreapIds(t) =>
              Strict(InOrder(treap_insert_node(t, node)))
<1> DEFINE u == treap_insert_node(t, node)
<1>1. u \in Trees
  BY InsertRec, LoneIds DEF Proper
<1>2. Inserts(InOrder(u), InOrder(t), node)
  BY InsertFacts
<1> HIDE DEF u
<1>3. /\ Elems(InOrder(u)) = Elems(InOrder(t)) \cup {node}
      /\ Sorted(InOrder(u))
      /\ Strict(InOrder(t)) /\ (\A y \in Elems(InOrder(t)) : y.id # node.id)
           => Strict(InOrder(u))
  BY <1>2, InsertsFacts
<1>4. Len(InOrder(u)) = Len(InOrder(t)) + 1
  BY <1>2, InsertsFacts
<1>5. TreapIds(u) = TreapIds(t) \cup {node.id}
  BY <1>3, IdsElems
<1>6. node.id \notin TreapIds(t) => \A y \in Elems(InOrder(t)) : y.id # node.id
  BY IdsElems
<1> QED BY <1>1, <1>3, <1>4, <1>5, <1>6 DEF u

LEMMA IdsTaken ==
  ASSUME NEW t \in InTrees, NEW id \in TreapIds(t)
  PROVE  LET x == treap_extract(t, id)
         IN /\ x.tree \in InTrees /\ x.node \in Lone /\ x.node.id = id
            /\ Elems(InOrder(t)) = Elems(InOrder(x.tree)) \cup {x.node}
            /\ Len(InOrder(t)) = Len(InOrder(x.tree)) + 1
            /\ TreapIds(x.tree) = TreapIds(t) \ {id}
<1> DEFINE x == treap_extract(t, id)
<1>1. t \in Trees /\ Strict(InOrder(t))
  BY DEF InTrees
<1>2. PICK y \in Elems(InOrder(t)) : y.id = id
  BY IdsElems
<1>3. id \in Nat
  <2>1. InOrder(t) \in Seq(Lone)
    BY <1>1, InOrderRec
  <2>2. y \in Lone
    BY <2>1, ElemsConcat
  <2> QED BY <1>2, <2>2, LoneIds
<1>4. Taken(t, x, id)
  BY <1>1, <1>2, <1>3, ExtractFacts DEF HasId
<1> HIDE DEF x
<1>5. /\ x.node \in Lone /\ x.node.id = id /\ x.tree \in Trees
      /\ Inserts(InOrder(t), InOrder(x.tree), x.node)
  BY <1>4 DEF Taken
<1>6. /\ Elems(InOrder(t)) = Elems(InOrder(x.tree)) \cup {x.node}
      /\ Strict(InOrder(x.tree))
      /\ \A z \in Elems(InOrder(x.tree)) : z.id # x.node.id
  BY <1>1, <1>5, InsertsFacts
<1>7. Len(InOrder(t)) = Len(InOrder(x.tree)) + 1
  BY <1>5, InsertsFacts
<1>8. TreapIds(x.tree) = TreapIds(t) \ {id}
  BY <1>5, <1>6, IdsElems
<1> QED BY <1>5, <1>6, <1>7, <1>8 DEF InTrees, x

LEMMA InTreesSorted ==
  ASSUME NEW t \in InTrees
  PROVE  /\ t \in Trees /\ InOrder(t) \in Seq(Lone) /\ Sorted(InOrder(t))
         /\ Strict(InOrder(t)) /\ TreapIds(t) \subseteq Nat
<1>1. t \in Trees /\ Strict(InOrder(t)) /\ InOrder(t) \in Seq(Lone)
  BY InOrderRec DEF InTrees
<1>2. TreapIds(t) \subseteq Nat
  BY <1>1, ElemsConcat, LoneIds, IdsElems
<1> QED BY <1>1, <1>2, StrictSorted

\* The ids that are in a tree: that of the root and those of its children.
LEMMA RootIds ==
  ASSUME NEW t \in InTrees, t # Null
  PROVE  /\ t.id \in TreapIds(t) /\ t.id \in Nat
         /\ t.left # Null => t.left.id \in TreapIds(t) /\ t.left.id < t.id
                             /\ t.left.id \in Nat
         /\ t.right # Null => t.right.id \in TreapIds(t) /\ t.id < t.right.id
                              /\ t.right.id \in Nat
         /\ t.left = Null /\ t.right = Null => TreapIds(t) = {t.id}
<1>1. t \in Proper /\ Strict(InOrder(t))
  BY DEF InTrees, Proper
<1>2. /\ t.id \in Nat /\ t.left \in Trees /\ t.right \in Trees
      /\ Alone(t).id = t.id
      /\ Elems(InOrder(t)) = Elems(InOrder(t.left)) \cup {Alone(t)}
                               \cup Elems(InOrder(t.right))
  BY <1>1, RootOrder
<1>3. /\ \A y \in Elems(InOrder(t.left)) : y.id < t.id
      /\ \A y \in Elems(InOrder(t.right)) : t.id < y.id
  BY <1>1, RootOrder
<1>4. t.id \in TreapIds(t)
  BY <1>2, IdsElems
<1>5. \A u \in Proper : /\ Alone(u) \in Elems(InOrder(u)) /\ Alone(u).id = u.id
                        /\ u.id \in Nat
  BY RootOrder
<1>6. ASSUME t.left # Null
      PROVE  t.left.id \in TreapIds(t) /\ t.left.id < t.id /\ t.left.id \in Nat
  <2>1. t.left \in Proper
    BY <1>2, <1>6 DEF Proper
  <2>2. Alone(t.left) \in Elems(InOrder(t.left)) /\ Alone(t.left).id = t.left.id
    BY <1>5, <2>1
  <2>3. t.left.id \in TreapIds(t)
    BY <1>2, <2>2, IdsElems
  <2> QED BY <1>3, <1>5, <2>1, <2>2, <2>3
<1>7. ASSUME t.right # Null
      PROVE  t.right.id \in TreapIds(t) /\ t.id < t.right.id /\ t.right.id \in Nat
  <2>1. t.right \in Proper
    BY <1>2, <1>7 DEF Proper
  <2>2. Alone(t.right) \in Elems(InOrder(t.right)) /\ Alone(t.right).id = t.right.id
    BY <1>5, <2>1
  <2>3. t.right.id \in TreapIds(t)
    BY <1>2, <2>2, IdsElems
  <2> QED BY <1>3, <1>5, <2>1, <2>2, <2>3
<1>8. ASSUME t.left = Null, t.right = Null
      PROVE  TreapIds(t) = {t.id}
  <2>1. InOrder(Null) = <<>> /\ Elems(<<>>) = {}
    BY InOrderRec DEF Elems
  <2>2. Elems(InOrder(t)) = {Alone(t)}
    BY <1>2, <1>8, <2>1
  <2> QED BY <1>2, <2>2, IdsElems
<1> QED BY <1>2, <1>4, <1>6, <1>7, <1>8

\* The pool, by its set of ids.
PoolGet(t, x) ==
  /\ x.tree \in InTrees /\ x.node \in Lone
  /\ x.node.id \in GetChoices(TreapIds(t))
  /\ x.node.id \in TreapIds(t)
  /\ TreapIds(x.tree) = AfterGet(TreapIds(t), x.node.id)

LEMMA GetFacts ==
  ASSUME NEW t \in InTrees, NEW heap \in Heaps
  PROVE  /\ t = Null => get_free_id(t, heap).node = Null /\ TreapIds(t) = {}
         /\ t # Null => PoolGet(t, get_free_id(t, heap)) /\ TreapIds(t) # {}
<1> DEFINE S == TreapIds(t)
           x == get_free_id(t, heap)
<1>1. ASSUME t = Null
      PROVE  x.node = Null /\ S = {}
  <2>1. InOrder(Null) = <<>> /\ Elems(<<>>) = {}
    BY InOrderRec DEF Elems
  <2>2. S = {}
    BY <1>1, <2>1, IdsElems
  <2> QED BY <1>1, <2>2 DEF get_free_id
<1>2. ASSUME t # Null
      PROVE  PoolGet(t, x) /\ S # {}
  <2>1. /\ t.id \in S /\ t.id \in Nat /\ S \subseteq Nat
        /\ t.left # Null => t.left.id \in S /\ t.left.id < t.id
                            /\ t.left.id \in Nat
        /\ t.right # Null => t.right.id \in S /\ t.id < t.right.id
                             /\ t.right.id \in Nat
        /\ t.left = Null /\ t.right = Null => S = {t.id}
    BY <1>2, RootIds, InTreesSorted
  <2>2. ASSUME NEW i \in S, NEW j \in S, i < j, x = treap_extract(t, i)
        PROVE  PoolGet(t, x)
    <3>1. /\ x.tree \in InTrees /\ x.node \in Lone /\ x.node.id = i
          /\ TreapIds(x.tree) = S \ {i}
      BY <2>2, IdsTaken
    <3>2. i \in Inner(S)
      BY <2>2 DEF Inner
    <3> HIDE DEF x, S
    <3>3. i \in GetChoices(S) /\ AfterGet(S, i) = S \ {i}
      BY <3>2 DEF GetChoices, AfterGet
    <3> QED BY <3>1, <3>3 DEF PoolGet, S
  <2>3. CASE t.right # Null
    <3>1. x = treap_extract(t, t.id)
      BY <1>2, <2>3 DEF get_free_id
    <3> HIDE DEF x, S
    <3> QED BY <2>1, <2>2, <2>3, <3>1
  <2>4. CASE t.right = Null /\ t.left # Null
    <3>1. x = treap_extract(t, t.left.id)
      BY <1>2, <2>4 DEF get_free_id
    <3> HIDE DEF x, S
    <3> QED BY <2>1, <2>2, <2>4, <3>1
  <2>5. CASE t.right = Null /\ t.left = Null
    <3> DEFINE n == NewNode(t.id + 1, heap, Null)
               u == IF t.id < IdMax THEN treap_insert_node(t, n) ELSE t
               i == t.id
    <3>1. x = treap_extract(u, i)
      BY <1>2, <2>5 DEF get_free_id, treap_insert_new
    <3>2. S = {i} /\ i \in Nat
      BY <2>1, <2>5
    <3>3. n \in Lone /\ n.id = i + 1
      BY <2>1, NewNodeLone
    <3> HIDE DEF n
    <3>4. n.id \notin S
      BY <3>2, <3>3
    <3>5. u \in InTrees /\ TreapIds(u) = S \cup (IF i < IdMax THEN {i + 1} ELSE {})
      <4>1. CASE i < IdMax
        <5>1. /\ t \in Trees /\ Sorted(InOrder(t)) /\ Strict(InOrder(t))
          BY InTreesSorted
        <5>2. /\ treap_insert_node(t, n) \in Trees
              /\ TreapIds(treap_insert_node(t, n)) = TreapIds(t) \cup {n.id}
              /\ Strict(InOrder(treap_insert_node(t, n)))
          BY <3>3, <3>4, <5>1, IdsInserted
        <5> QED BY <3>3, <4>1, <5>2 DEF InTrees
      <4>2. CASE ~(i < IdMax)
        BY <4>2
      <4> QED BY <4>1, <4>2
    <3> HIDE DEF u, x, S, i
    <3>6. /\ x.tree \in InTrees /\ x.node \in Lone /\ x.node.id = i
          /\ TreapIds(x.tree) = TreapIds(u) \ {i}
      BY <3>1, <3>2, <3>5, IdsTaken
    <3>7. Inner(S) = {}
      BY <3>2 DEF Inner
    <3>8. i + 1 # i
      BY <3>2
    <3>9. AfterGet(S, i) = TreapIds(u) \ {i}
      BY <3>2, <3>5, <3>7, <3>8 DEF AfterGet
    <3>10. i \in GetChoices(S) /\ i \in S
      BY <3>2, <3>7 DEF GetChoices
    <3> QED BY <3>2, <3>6, <3>9, <3>10 DEF PoolGet, S
  <2> QED BY <2>1, <2>3, <2>4, <2>5
<1> QED BY <1>1, <1>2

LEMMA ReturnFacts ==
  ASSUME NEW t \in InTrees, NEW node \in Lone
  PROVE  /\ return_id(t, node) \in Trees
         /\ Sorted(InOrder(return_id(t, node)))
         /\ TreapIds(return_id(t, node)) = AfterReturn(TreapIds(t), node.id)
<1> DEFINE u == IF t # Null /\ t = Alone(t) THEN Null ELSE t
           n == [node EXCEPT !.anal = Null]
           S == TreapIds(t)
<1>1. n \in Lone /\ n.id = node.id
  BY WithAnalLone
<1>2. return_id(t, node) = treap_insert_node(u, n)
  BY DEF return_id
<1>3. TreapIds(Null) = {}
  <2>1. InOrder(Null) = <<>> /\ Elems(<<>>) = {}
    BY InOrderRec DEF Elems
  <2> QED BY <2>1, IdsElems
<1>4. u \in InTrees
  BY RemoveNull
<1>5. TreapIds(u) = IF Inner(S) = {} THEN {} ELSE S
  <2>1. CASE t = Null
    BY <1>3, <2>1 DEF Inner
  <2>2. CASE t # Null
    <3>1. t \in Proper
      BY <2>2, InTreesSorted DEF Proper
    <3>2. t = Alone(t) <=> t.left = Null /\ t.right = Null
      <4>1. Alone(t).left = Null /\ Alone(t).right = Null
        BY <3>1, AloneLone
      <4>2. t.left = Null /\ t.right = Null => Alone(t) = t
        BY <3>1, LoneIds DEF Lone
      <4> QED BY <4>1, <4>2
    <3>3. t.left = Null /\ t.right = Null => Inner(S) = {}
      <4>1. t.id \in Nat /\ (t.left = Null /\ t.right = Null => S = {t.id})
        BY <2>2, RootIds
      <4> HIDE DEF S
      <4> QED BY <4>1 DEF Inner
    <3>4. t.left # Null => Inner(S) # {}
      <4>1. /\ t.id \in S
            /\ t.left # Null => t.left.id \in S /\ t.left.id < t.id
        BY <2>2, RootIds
      <4> HIDE DEF S
      <4> QED BY <4>1 DEF Inner
    <3>5. t.right # Null => Inner(S) # {}
      <4>1. /\ t.id \in S
            /\ t.right # Null => t.right.id \in S /\ t.id < t.right.id
        BY <2>2, RootIds
      <4> HIDE DEF S
      <4> QED BY <4>1 DEF Inner
    <3> QED BY <1>3, <2>2, <3>2, <3>3, <3>4, <3>5
  <2> QED BY <2>1, <2>2
<1> HIDE DEF u, n, S
<1>6. /\ treap_insert_node(u, n) \in Trees
      /\ Sorted(InOrder(treap_insert_node(u, n)))
      /\ TreapIds(treap_insert_node(u, n)) = TreapIds(u) \cup {n.id}
  <2>1. u \in Trees /\ Sorted(InOrder(u))
    BY <1>4, InTreesSorted
  <2> QED BY <1>1, <2>1, IdsInserted
<1> QED BY <1>1, <1>2, <1>5, <1>6 DEF AfterReturn, S
=============================================================================

--------------------------- MODULE PathTreeProofs ---------------------------
(***************************************************************************)
(* What the operations on path trees do, for trees of any size, names of   *)
(* any number and any number of buckets: whatever nodes they make or leave *)
(* behind, tree_insert stores for the path it is given and tree_remove     *)
(* clears it, and nothing else changes.                                    *)
(***************************************************************************)
EXTENDS TreapProofs

(***************************************************************************)
(* The loops over 1 .. n.                                                  *)
(***************************************************************************)
IsLoop(n, V, v, H) ==
  n \in Nat /\ v \in V /\ H \in [(1 .. n) \X V -> V]
Loop(f, n, V, v, H) ==
  /\ f \in [0 .. n -> V] /\ f[0] = v
  /\ \A k \in 1 .. n : f[k] = H[<<k, f[k - 1]>>]

LEMMA LoopExists ==
  ASSUME NEW n, NEW V, NEW v, NEW H, IsLoop(n, V, v, H)
  PROVE  \E f : Loop(f, n, V, v, H)
<1> DEFINE W == Nat \X V
           step == [w \in W |-> IF w[1] + 1 \in 1 .. n
                                THEN <<w[1] + 1, H[<<w[1] + 1, w[2]>>]>>
                                ELSE <<w[1] + 1, w[2]>>]
<1>0. n \in Nat /\ v \in V /\ H \in [(1 .. n) \X V -> V]
  BY DEF IsLoop
<1>1. step \in [W -> W]
  <2> SUFFICES ASSUME NEW w \in W
               PROVE  (IF w[1] + 1 \in 1 .. n
                       THEN <<w[1] + 1, H[<<w[1] + 1, w[2]>>]>>
                       ELSE <<w[1] + 1, w[2]>>) \in W
    OBVIOUS
  <2>1. w[1] + 1 \in Nat /\ w[2] \in V
    OBVIOUS
  <2>2. CASE w[1] + 1 \in 1 .. n
    <3>1. H[<<w[1] + 1, w[2]>>] \in V
      BY <1>0, <2>1, <2>2
    <3> QED BY <2>1, <2>2, <3>1
  <2> QED BY <2>1, <2>2
<1>2. <<0, v>> \in W
  BY <1>0
<1>3. PICK at : /\ at \in [Nat -> W] /\ at[0] = <<0, v>>
                /\ \A k \in Nat \ {0} : at[k] = step[at[k - 1]]
  <2> HIDE DEF step, W
  <2> QED BY <1>1, <1>2, Iteration
<1>4. ASSUME NEW k \in Nat
      PROVE  at[k + 1] = IF at[k][1] + 1 \in 1 .. n
                         THEN <<at[k][1] + 1, H[<<at[k][1] + 1, at[k][2]>>]>>
                         ELSE <<at[k][1] + 1, at[k][2]>>
  <2>1. k + 1 \in Nat \ {0} /\ (k + 1) - 1 = k
    OBVIOUS
  <2>2. at[k + 1] = step[at[k]]
    <3> HIDE DEF step, W
    <3> QED BY <1>3, <2>1
  <2>3. at[k] \in W
    BY <1>3
  <2> QED BY <2>2, <2>3
<1> DEFINE S == {k \in Nat : at[k][1] = k}
<1>5. \A k \in Nat : at[k][1] = k
  <2>1. 0 \in S
    BY <1>3
  <2>2. ASSUME NEW k \in Nat, k \in S
        PROVE  k + 1 \in S
    <3>1. at[k][1] = k
      BY <2>2
    <3>2. at[k + 1] = IF k + 1 \in 1 .. n
                      THEN <<k + 1, H[<<k + 1, at[k][2]>>]>>
                      ELSE <<k + 1, at[k][2]>>
      <4>1. at[k + 1] = IF at[k][1] + 1 \in 1 .. n
                        THEN <<at[k][1] + 1, H[<<at[k][1] + 1, at[k][2]>>]>>
                        ELSE <<at[k][1] + 1, at[k][2]>>
        BY <1>4
      <4> QED BY ONLY <3>1, <4>1
    <3>3. at[k + 1][1] = k + 1
      BY <3>2
    <3> QED BY <3>3
  <2> HIDE DEF S
  <2>3. \A k \in Nat : k \in S
    BY <2>1, <2>2, NatSetInduction
  <2> QED BY <2>3 DEF S
<1> DEFINE f == [k \in 0 .. n |-> at[k][2]]
<1>6. f \in [0 .. n -> V]
  <2> SUFFICES ASSUME NEW k \in 0 .. n
               PROVE  at[k][2] \in V
    OBVIOUS
  <2>1. at[k] \in W
    BY <1>0, <1>3
  <2> QED BY <2>1
<1>7. f[0] = v
  BY <1>0, <1>3
<1>8. ASSUME NEW k \in 1 .. n
      PROVE  f[k] = H[<<k, f[k - 1]>>]
  <2>1. k - 1 \in Nat /\ (k - 1) + 1 = k /\ k - 1 \in 0 .. n /\ k \in 0 .. n
    BY <1>0
  <2>2. at[k - 1][1] = k - 1
    BY <1>5, <2>1
  <2>3. at[k] = <<k, H[<<k, at[k - 1][2]>>]>>
    BY <1>4, <2>1, <2>2
  <2> QED BY <2>1, <2>3
<1> HIDE DEF f
<1> QED BY <1>6, <1>7, <1>8 DEF Loop

-----------------------------------------------------------------------------
(***************************************************************************)
(* Path trees. A tree is a member of some set that holds with a node all   *)
(* that is below it; no two names in a chain are the same, and each has    *)
(* the key of its chain.                                                   *)
(***************************************************************************)

Names == Nat \ {NoName}

\* A chain of the bucket b whose nodes are in T, with each name once.
IsChain(c, b, T) ==
  /\ c \in Seq([name : Names, node : T])
  /\ \A i \in DOMAIN c : get_key(c[i].name) = b
  /\ \A i, j \in DOMAIN c : c[i].name = c[j].name => i = j

IsNode(t, T) ==
  /\ t \in [info : Nat, size : Int,
            children : [Buckets -> Seq([name : Names, node : T])]]
  /\ \A b \in Buckets : IsChain(t.children[b], b, T)

Closed(T) == \A t \in T : IsNode(t, T)
IsTree(t) == \E T : t \in T /\ Closed(T)

\* The node of a name, empty if there is none, and the tree in which it
\* became u.
Down(t, x)   == Below(Opened(t, x), x)
Put(t, x, u) == WithBelow(Opened(t, x), x, u)

LEMMA PlaceIs ==
  ASSUME NEW c, NEW x, NEW i \in DOMAIN c, c[i].name = x, i \in Nat,
         \A j \in DOMAIN c : c[j].name = x => j = i
  PROVE  Place(c, x) = i /\ Places(c, x) = {i}
<1>1. Places(c, x) = {i}
  BY DEF Places
<1> DEFINE P(k) == k \in Places(c, x) /\ \A j \in Places(c, x) : k <= j
<1>2. P(i)
  BY <1>1
<1>3. P(CHOOSE k : P(k))
  BY <1>2
<1>4. Place(c, x) = CHOOSE k : P(k)
  BY DEF Place
<1> QED BY <1>1, <1>3, <1>4

LEMMA SeqItems ==
  ASSUME NEW E, NEW c \in Seq(E)
  PROVE  /\ DOMAIN c = 1 .. Len(c) /\ Len(c) \in Nat /\ DOMAIN c \subseteq Nat
         /\ \A i \in DOMAIN c : c[i] \in E
OBVIOUS

LEMMA ChainHas ==
  ASSUME NEW T, NEW b, NEW c, IsChain(c, b, T), NEW x
  PROVE  /\ Places(c, x) # {} => /\ Place(c, x) \in DOMAIN c
                                 /\ c[Place(c, x)].name = x
                                 /\ c[Place(c, x)].node \in T
         /\ \A i \in DOMAIN c : c[i].name = x => Places(c, x) = {i} /\ Place(c, x) = i
         /\ \A i \in DOMAIN c : c[i] = [name |-> c[i].name, node |-> c[i].node]
         /\ \A i \in DOMAIN c : c[i].name \in Names /\ c[i].node \in T
<1>1. /\ DOMAIN c \subseteq Nat
      /\ \A i \in DOMAIN c : c[i] \in [name : Names, node : T]
  BY SeqItems DEF IsChain
<1>2. ASSUME NEW i \in DOMAIN c, c[i].name = x
      PROVE  Places(c, x) = {i} /\ Place(c, x) = i
  <2>1. i \in Nat
    BY <1>1
  <2>2. \A j \in DOMAIN c : c[j].name = x => j = i
    BY <1>2 DEF IsChain
  <2> QED BY <1>2, <2>1, <2>2, PlaceIs
<1>3. ASSUME Places(c, x) # {}
      PROVE  Place(c, x) \in DOMAIN c /\ c[Place(c, x)].name = x
  <2>1. PICK i \in DOMAIN c : c[i].name = x
    BY <1>3 DEF Places
  <2> QED BY <1>2, <2>1
<1> QED BY <1>1, <1>2, <1>3

\* The chain in which the node of the name became u.
PutIn(c, x, u) == IF Places(c, x) = {} THEN Append(c, [name |-> x, node |-> u])
                  ELSE [c EXCEPT ![Place(c, x)].node = u]

LEMMA PutInFacts ==
  ASSUME NEW T, NEW b, NEW c, IsChain(c, b, T), NEW x \in Names,
         get_key(x) = b, NEW u \in T
  PROVE  LET d == PutIn(c, x, u)
         IN /\ IsChain(d, b, T)
            /\ \E i \in DOMAIN d : d[i].name = x /\ d[i].node = u
            /\ \A i \in DOMAIN d : d[i].name # x => i \in DOMAIN c /\ d[i] = c[i]
            /\ \A i \in DOMAIN c : c[i].name # x => i \in DOMAIN d /\ d[i] = c[i]
<1> DEFINE d == PutIn(c, x, u)
           E == [name : Names, node : T]
           e == [name |-> x, node |-> u]
<1>1. /\ c \in Seq(E) /\ \A i \in DOMAIN c : c[i] \in E
      /\ DOMAIN c = 1 .. Len(c) /\ Len(c) \in Nat /\ e \in E
      /\ e.name = x /\ e.node = u
  <2>1. c \in Seq(E)
    BY DEF IsChain
  <2>2. e \in E /\ e.name = x /\ e.node = u
    OBVIOUS
  <2> HIDE DEF E, e
  <2> QED BY <2>1, <2>2, SeqItems
<1>2. CASE Places(c, x) = {}
  <2>1. d = Append(c, e)
    BY <1>2 DEF PutIn
  <2> HIDE DEF d, E, e
  <2>2. /\ d \in Seq(E) /\ DOMAIN d = 1 .. Len(c) + 1
        /\ \A i \in 1 .. Len(c) : d[i] = c[i]
        /\ d[Len(c) + 1] = e
    BY <1>1, <2>1, AppendProperties
  <2>3. \A i \in DOMAIN c : c[i].name # x
    BY <1>2 DEF Places
  <2>4. \A i \in DOMAIN d : i \in DOMAIN c \/ i = Len(c) + 1
    BY <1>1, <2>2
  <2>5. \A i \in DOMAIN c : i \in DOMAIN d /\ d[i] = c[i]
    BY <1>1, <2>2
  <2>6. Len(c) + 1 \in DOMAIN d
    BY <1>1, <2>2
  <2>7. IsChain(d, b, T)
    BY <1>1, <2>2, <2>3, <2>4, <2>5 DEF IsChain, E
  <2> QED BY <1>1, <2>2, <2>3, <2>4, <2>5, <2>6, <2>7 DEF d
<1>3. CASE Places(c, x) # {}
  <2> DEFINE p == Place(c, x)
  <2>1. p \in DOMAIN c /\ c[p].name = x
    BY <1>3, ChainHas
  <2> HIDE DEF p
  <2>2. d = [c EXCEPT ![p].node = u]
    BY <1>3 DEF PutIn, p
  <2>3. /\ DOMAIN d = DOMAIN c
        /\ \A i \in DOMAIN c : i # p => d[i] = c[i]
        /\ d[p] = [c[p] EXCEPT !.node = u]
    BY <2>1, <2>2
  <2>4. c[p] \in E
    BY <1>1, <2>1
  <2>5. d[p] = e
    BY <2>1, <2>3, <2>4
  <2> HIDE DEF d, E, e
  <2>6. d \in [1 .. Len(c) -> E]
    <3>1. \A i \in DOMAIN d : d[i] \in E
      BY <1>1, <2>3, <2>5
    <3>2. d = [i \in 1 .. Len(c) |-> d[i]]
      BY <1>1, <2>2, <2>3
    <3> QED BY <1>1, <2>3, <3>1, <3>2
  <2>7. d \in Seq(E)
    BY <1>1, <2>6
  <2>8. \A i \in DOMAIN d : d[i].name = c[i].name
    BY <1>1, <2>1, <2>3, <2>5
  <2>9. \A i \in DOMAIN c : c[i].name = x => i = p
    BY <2>1 DEF IsChain
  <2>10. IsChain(d, b, T)
    BY <1>1, <2>3, <2>7, <2>8 DEF IsChain, E
  <2> QED BY <1>1, <2>1, <2>3, <2>5, <2>8, <2>9, <2>10 DEF d
<1> QED BY <1>2, <1>3

-----------------------------------------------------------------------------
LEMMA KeyIn == \A x \in Nat : get_key(x) \in Buckets
BY HashAssumption DEF get_key, Buckets

\* What a set of nodes that is closed holds.
LEMMA NodeParts ==
  ASSUME NEW T, NEW t, IsNode(t, T)
  PROVE  /\ t.info \in Nat /\ t.size \in Int
         /\ t = [info |-> t.info, size |-> t.size, children |-> t.children]
         /\ DOMAIN t.children = Buckets
         /\ t.children = [b \in Buckets |-> t.children[b]]
         /\ \A b \in Buckets : IsChain(t.children[b], b, T)
<1>2. t \in [info : Nat, size : Int,
             children : [Buckets -> Seq([name : Names, node : T])]]
  BY DEF IsNode
<1>3. \A b \in Buckets : IsChain(t.children[b], b, T)
  BY DEF IsNode
<1> DEFINE C == [Buckets -> Seq([name : Names, node : T])]
<1>4. t \in [info : Nat, size : Int, children : C]
  BY <1>2
<1> HIDE DEF C
<1>5. /\ t.info \in Nat /\ t.size \in Int /\ t.children \in C
      /\ t = [info |-> t.info, size |-> t.size, children |-> t.children]
  BY ONLY <1>4
<1>6. DOMAIN t.children = Buckets /\ t.children = [b \in Buckets |-> t.children[b]]
  BY ONLY <1>5 DEF C
<1> QED BY <1>3, <1>5, <1>6

LEMMA NodeMade ==
  ASSUME NEW T, NEW i \in Nat, NEW s \in Int, NEW h,
         DOMAIN h = Buckets, h = [b \in Buckets |-> h[b]],
         \A b \in Buckets : IsChain(h[b], b, T)
  PROVE  IsNode([info |-> i, size |-> s, children |-> h], T)
<1> DEFINE E == [name : Names, node : T]
           C == [Buckets -> Seq(E)]
           t == [info |-> i, size |-> s, children |-> h]
<1>1. \A b \in Buckets : h[b] \in Seq(E)
  BY DEF IsChain
<1> HIDE DEF E
<1>2. h \in C
  BY <1>1
<1> HIDE DEF C
<1>3. t \in [info : Nat, size : Int, children : C]
  BY <1>2
<1>4. t.children = h
  OBVIOUS
<1> HIDE DEF t
<1> QED BY <1>3, <1>4 DEF IsNode, C, E, t

LEMMA ChainGrows ==
  ASSUME NEW T, NEW U, T \subseteq U, NEW b, NEW c, IsChain(c, b, T)
  PROVE  IsChain(c, b, U)
<1> DEFINE E == [name : Names, node : T]
           F == [name : Names, node : U]
<1>1. c \in Seq(E) /\ E \subseteq F
  BY DEF IsChain
<1> HIDE DEF E, F
<1>2. c \in [1 .. Len(c) -> F] /\ Len(c) \in Nat
  BY <1>1
<1>3. c \in Seq(F)
  BY <1>2
<1> QED BY <1>3 DEF IsChain, F

LEMMA NodeGrows ==
  ASSUME NEW T, Closed(T), NEW U, T \subseteq U, NEW t \in T
  PROVE  IsNode(t, U)
<1>1. /\ t.info \in Nat /\ t.size \in Int
      /\ t = [info |-> t.info, size |-> t.size, children |-> t.children]
      /\ DOMAIN t.children = Buckets
      /\ t.children = [b \in Buckets |-> t.children[b]]
      /\ \A b \in Buckets : IsChain(t.children[b], b, T)
  BY NodeParts DEF Closed
<1>2. \A b \in Buckets : IsChain(t.children[b], b, U)
  BY <1>1, ChainGrows
<1> QED BY <1>1, <1>2, NodeMade

LEMMA EmptyIsTree == IsTree(EmptyTree) /\ IsNode(EmptyTree, {EmptyTree})
<1>1. \A b \in Buckets : IsChain(<<>>, b, {EmptyTree})
  BY DEF IsChain
<1> DEFINE h == [b \in Buckets |-> <<>>]
<1>2. /\ DOMAIN h = Buckets /\ h = [b \in Buckets |-> h[b]]
      /\ \A b \in Buckets : h[b] = <<>>
  OBVIOUS
<1> DEFINE T == {EmptyTree}
<1> HIDE DEF h, T
<1>3. \A b \in Buckets : IsChain(h[b], b, T)
  BY <1>1, <1>2 DEF T
<1>4. IsNode([info |-> 0, size |-> 0, children |-> h], T)
  <2>1. 0 \in Nat /\ 0 \in Int
    OBVIOUS
  <2>2. \A i \in Nat, s \in Int : IsNode([info |-> i, size |-> s, children |-> h], T)
    BY <1>2, <1>3, NodeMade
  <2> QED BY ONLY <2>1, <2>2
<1>5. IsNode(EmptyTree, {EmptyTree})
  BY <1>4 DEF EmptyTree, NoInfo, h, T
<1> QED BY <1>5 DEF IsTree, Closed

\* Two trees have their nodes in one set.
LEMMA InOneSet ==
  ASSUME NEW t, IsTree(t), NEW u, IsTree(u)
  PROVE  \E T : Closed(T) /\ t \in T /\ u \in T /\ EmptyTree \in T
<1>1. PICK T : t \in T /\ Closed(T)
  BY DEF IsTree
<1>2. PICK U : u \in U /\ Closed(U)
  BY DEF IsTree
<1> DEFINE W == T \cup U \cup {EmptyTree}
<1>3. T \subseteq W /\ U \subseteq W /\ {EmptyTree} \subseteq W
  OBVIOUS
<1>4. Closed({EmptyTree})
  BY EmptyIsTree DEF Closed
<1>5. \A w \in T : IsNode(w, W)
  BY <1>1, <1>3, NodeGrows
<1>6. \A w \in U : IsNode(w, W)
  BY <1>2, <1>3, NodeGrows
<1>7. \A w \in {EmptyTree} : IsNode(w, W)
  BY <1>3, <1>4, NodeGrows
<1>8. Closed(W)
  BY <1>5, <1>6, <1>7 DEF Closed
<1> QED BY <1>1, <1>2, <1>8

\* A node made of nodes of a closed set.
LEMMA MadeIsTree ==
  ASSUME NEW T, Closed(T), NEW t, IsNode(t, T)
  PROVE  IsTree(t)
<1> DEFINE W == T \cup {t}
<1>1. \A w \in T : IsNode(w, W)
  BY NodeGrows
<1>2. IsNode(t, W)
  <2>1. /\ t.info \in Nat /\ t.size \in Int
        /\ t = [info |-> t.info, size |-> t.size, children |-> t.children]
        /\ DOMAIN t.children = Buckets
        /\ t.children = [b \in Buckets |-> t.children[b]]
        /\ \A b \in Buckets : IsChain(t.children[b], b, T)
    BY NodeParts
  <2>2. T \subseteq W
    OBVIOUS
  <2> HIDE DEF W
  <2>3. \A b \in Buckets : IsChain(t.children[b], b, W)
    BY <2>1, <2>2, ChainGrows
  <2> QED BY <2>1, <2>3, NodeMade
<1>3. Closed(W)
  BY <1>1, <1>2 DEF Closed
<1> QED BY <1>3 DEF IsTree

LEMMA InfoSet ==
  ASSUME NEW t, IsTree(t), NEW i \in Nat
  PROVE  LET u == [t EXCEPT !.info = i]
         IN /\ IsTree(u) /\ u.info = i
            /\ u.children = t.children
<1>1. PICK T : t \in T /\ Closed(T)
  BY DEF IsTree
<1> DEFINE u == [t EXCEPT !.info = i]
<1>2. /\ t.size \in Int
      /\ t = [info |-> t.info, size |-> t.size, children |-> t.children]
      /\ DOMAIN t.children = Buckets
      /\ t.children = [b \in Buckets |-> t.children[b]]
      /\ \A b \in Buckets : IsChain(t.children[b], b, T)
  BY <1>1, NodeParts DEF Closed
<1>3. u = [info |-> i, size |-> t.size, children |-> t.children]
  BY <1>2
<1>4. IsNode(u, T)
  <2> HIDE DEF u
  <2> QED BY <1>2, <1>3, NodeMade
<1> QED BY <1>1, <1>3, <1>4, MadeIsTree

-----------------------------------------------------------------------------
(***************************************************************************)
(* The node for a name: the one that is there or the one that is made.     *)
(***************************************************************************)

LEMMA ChainLook ==
  ASSUME NEW T, NEW b, NEW d, IsChain(d, b, T), NEW x, NEW i \in DOMAIN d,
         d[i].name = x
  PROVE  Places(d, x) # {} /\ Place(d, x) = i
BY ChainHas

\* The tree with another chain in the bucket of a name.
WithChain(t, x, d) == [t.children EXCEPT ![get_key(x)] = d]

LEMMA OpenedFacts ==
  ASSUME NEW T, Closed(T), NEW t \in T, EmptyTree \in T, NEW x \in Names
  PROVE  LET o == Opened(t, x)
             c == Chain(t, x)
             d == IF Has(t, x) THEN c ELSE PutIn(c, x, EmptyTree)
         IN /\ o.info = t.info /\ o.size \in Int
            /\ o = [info |-> o.info, size |-> o.size, children |-> o.children]
            /\ o.children = WithChain(t, x, d)
            /\ IsChain(d, get_key(x), T) /\ Places(d, x) # {}
<1> DEFINE o == Opened(t, x)
           c == Chain(t, x)
           b == get_key(x)
           d == IF Has(t, x) THEN c ELSE PutIn(c, x, EmptyTree)
<1>1. /\ t.info \in Nat /\ t.size \in Int
      /\ t = [info |-> t.info, size |-> t.size, children |-> t.children]
      /\ DOMAIN t.children = Buckets
      /\ t.children = [k \in Buckets |-> t.children[k]]
      /\ \A k \in Buckets : IsChain(t.children[k], k, T)
  BY NodeParts DEF Closed
<1>2. x \in Nat /\ b \in Buckets
  BY KeyIn DEF Names
<1>3. c = t.children[b] /\ IsChain(c, b, T)
  BY <1>1, <1>2 DEF Chain
<1>4. CASE Has(t, x)
  <2>1. o = t /\ d = c
    BY <1>4 DEF Opened
  <2>2. t.children = [t.children EXCEPT ![b] = t.children[b]]
    BY <1>1, <1>2
  <2>3. Places(c, x) # {}
    BY <1>4 DEF Has
  <2> HIDE DEF b, c, d, o
  <2>4. t.children = [t.children EXCEPT ![b] = d]
    BY <1>3, <2>1, <2>2
  <2> QED BY <1>1, <1>3, <2>1, <2>3, <2>4 DEF WithChain, o, d, c, b
<1>5. CASE ~Has(t, x)
  <2> DEFINE h == [t.children EXCEPT ![b] = d]
  <2>1. d = PutIn(c, x, EmptyTree) /\ Places(c, x) = {}
    BY <1>5 DEF Has
  <2>2. d = list_push(t.children[b], x)
    BY <1>3, <2>1 DEF PutIn, list_push, list_new_node
  <2>3. IsChain(d, b, T) /\ \E i \in DOMAIN d : d[i].name = x
    BY <1>3, <2>1, PutInFacts
  <2>4. Places(d, x) # {}
    BY <2>3, ChainLook
  <2>5. o = [t EXCEPT !.size = @ + 1, !.children[b] = list_push(@, x)]
    BY <1>5 DEF Opened, hash_insert
  <2> HIDE DEF b, c, d, o
  <2>6. o = [info |-> t.info, size |-> t.size + 1, children |-> h]
    <3>1. o = [t EXCEPT !.size = t.size + 1,
                        !.children = [t.children EXCEPT ![b] = list_push(t.children[b], x)]]
      BY ONLY <1>1, <2>5
    <3>2. o = [t EXCEPT !.size = t.size + 1, !.children = h]
      BY ONLY <2>2, <3>1
    <3> HIDE DEF h
    <3> QED BY ONLY <1>1, <3>2
  <2>7. o.info = t.info /\ o.size = t.size + 1 /\ o.children = h
    <3> HIDE DEF h
    <3> QED BY ONLY <2>6
  <2>8. o.size \in Int
    BY <1>1, <2>7
  <2>9. o = [info |-> o.info, size |-> o.size, children |-> o.children]
    BY <2>6, <2>7
  <2> QED BY <2>3, <2>4, <2>7, <2>8, <2>9 DEF WithChain, o, d, c, b
<1> QED BY <1>4, <1>5

LEMMA DownIn ==
  ASSUME NEW T, Closed(T), NEW t \in T, EmptyTree \in T, NEW x \in Names
  PROVE  /\ Down(t, x) \in T
         /\ Down(t, x) = IF Has(t, x) THEN Below(t, x) ELSE EmptyTree
<1> DEFINE o == Opened(t, x)
           c == Chain(t, x)
           b == get_key(x)
           d == IF Has(t, x) THEN c ELSE PutIn(c, x, EmptyTree)
<1>1. /\ o.children = WithChain(t, x, d)
      /\ IsChain(d, b, T) /\ Places(d, x) # {}
  BY OpenedFacts
<1>2. b \in Buckets /\ DOMAIN t.children = Buckets
  BY KeyIn, NodeParts DEF Closed, Names
<1>3. Chain(o, x) = d
  BY <1>1, <1>2 DEF Chain, WithChain
<1>4. Down(t, x) = d[Place(d, x)].node
  BY <1>3 DEF Down, Below
<1>5. d[Place(d, x)].node \in T
  BY <1>1, ChainHas
<1>6. ~Has(t, x) => d[Place(d, x)].node = EmptyTree
  <2> SUFFICES ASSUME ~Has(t, x)
               PROVE  d[Place(d, x)].node = EmptyTree
    OBVIOUS
  <2>1. c = t.children[b] /\ IsChain(c, b, T)
    BY <1>2, NodeParts DEF Closed, Chain
  <2>2. PICK i \in DOMAIN d : d[i].name = x /\ d[i].node = EmptyTree
    BY <2>1, PutInFacts
  <2>3. Place(d, x) = i
    BY <1>1, <2>2, ChainLook
  <2> HIDE DEF d
  <2> QED BY <2>2, <2>3
<1>7. Has(t, x) => Down(t, x) = Below(t, x)
  BY DEF Down, Opened
<1> QED BY <1>4, <1>5, <1>6, <1>7

LEMMA DownFacts ==
  ASSUME NEW t, IsTree(t), NEW x \in Names
  PROVE  /\ IsTree(Down(t, x))
         /\ Down(t, x) = IF Has(t, x) THEN Below(t, x) ELSE EmptyTree
<1>1. PICK T : Closed(T) /\ t \in T /\ EmptyTree \in T
  BY EmptyIsTree, InOneSet
<1> QED BY <1>1, DownIn DEF IsTree

-----------------------------------------------------------------------------
(***************************************************************************)
(* The tree with another node for a name.                                  *)
(***************************************************************************)

\* Two chains with the same nodes for a name.
LEMMA SameLook ==
  ASSUME NEW T, NEW b, NEW c, IsChain(c, b, T), NEW d, IsChain(d, b, T), NEW y,
         \A i \in DOMAIN c : c[i].name = y => i \in DOMAIN d /\ d[i] = c[i],
         \A i \in DOMAIN d : d[i].name = y => i \in DOMAIN c /\ d[i] = c[i]
  PROVE  /\ Places(d, y) # {} <=> Places(c, y) # {}
         /\ Places(d, y) # {} =>
              d[Place(d, y)].node = c[Place(c, y)].node
<1>1. Places(d, y) = Places(c, y)
  BY DEF Places
<1>2. ASSUME Places(d, y) # {}
      PROVE  d[Place(d, y)].node = c[Place(c, y)].node
  <2>1. Place(d, y) \in DOMAIN d /\ d[Place(d, y)].name = y
    BY <1>2, ChainHas
  <2>2. Place(c, y) = Place(d, y)
    BY <1>1 DEF Place
  <2> QED BY <2>1, <2>2
<1> QED BY <1>1, <1>2

LEMMA PutFacts ==
  ASSUME NEW t, IsTree(t), NEW u, IsTree(u), NEW x \in Names
  PROVE  LET v == Put(t, x, u)
         IN /\ IsTree(v) /\ v.info = t.info
            /\ Has(v, x) /\ Down(v, x) = u
            /\ \A y \in Names \ {x} : /\ (Has(v, y) <=> Has(t, y))
                                      /\ Down(v, y) = Down(t, y)
<1> DEFINE o == Opened(t, x)
           c == Chain(t, x)
           b == get_key(x)
           d == IF Has(t, x) THEN c ELSE PutIn(c, x, EmptyTree)
           e == PutIn(d, x, u)
           h == [o.children EXCEPT ![b] = e]
           v == Put(t, x, u)
<1>1. PICK T : Closed(T) /\ t \in T /\ u \in T /\ EmptyTree \in T
  BY InOneSet
<1>2. /\ o.info = t.info /\ o.size \in Int
      /\ o = [info |-> o.info, size |-> o.size, children |-> o.children]
      /\ o.children = WithChain(t, x, d)
      /\ IsChain(d, b, T) /\ Places(d, x) # {}
  BY <1>1, OpenedFacts
<1>3. /\ x \in Nat /\ b \in Buckets /\ DOMAIN t.children = Buckets
      /\ t.info \in Nat
      /\ t.children = [k \in Buckets |-> t.children[k]]
      /\ \A k \in Buckets : IsChain(t.children[k], k, T)
  BY <1>1, KeyIn, NodeParts DEF Closed, Names
<1>4. c = t.children[b] /\ IsChain(c, b, T)
  BY <1>3 DEF Chain
<1>5. /\ IsChain(e, b, T)
      /\ \E i \in DOMAIN e : e[i].name = x /\ e[i].node = u
      /\ \A i \in DOMAIN e : e[i].name # x => i \in DOMAIN d /\ e[i] = d[i]
      /\ \A i \in DOMAIN d : d[i].name # x => i \in DOMAIN e /\ e[i] = d[i]
  <2> HIDE DEF d
  <2> QED BY <1>1, <1>2, PutInFacts
<1>6. /\ \A i \in DOMAIN d : d[i].name # x => i \in DOMAIN c /\ d[i] = c[i]
      /\ \A i \in DOMAIN c : c[i].name # x => i \in DOMAIN d /\ d[i] = c[i]
  BY <1>1, <1>4, PutInFacts
<1>7. Chain(o, x) = d /\ o.children[b] = d
  BY <1>2, <1>3 DEF Chain, WithChain
<1>8. v = [o EXCEPT !.children[b][Place(d, x)].node = u]
  BY <1>7 DEF Put, WithBelow
<1>9. e = [d EXCEPT ![Place(d, x)].node = u]
  BY <1>2 DEF PutIn
<1> HIDE DEF o, c, d, e, b, v
<1>10. v = [info |-> o.info, size |-> o.size, children |-> h]
  <2>1. h = [o.children EXCEPT ![b] = [o.children[b] EXCEPT ![Place(d, x)].node = u]]
    BY <1>7, <1>9
  <2> HIDE DEF h
  <2>2. v = [o EXCEPT !.children = h]
    BY <1>8, <2>1
  <2> QED BY <1>2, <2>2
<1>11. v.info = t.info /\ v.children = h
  <2> HIDE DEF h
  <2> QED BY <1>2, <1>10
<1>12. h = [t.children EXCEPT ![b] = e]
  <2>1. o.children = [t.children EXCEPT ![b] = d]
    BY <1>2 DEF WithChain, b
  <2> QED BY <1>3, <2>1
<1>13. /\ DOMAIN h = Buckets /\ h = [k \in Buckets |-> h[k]]
       /\ h[b] = e /\ \A k \in Buckets : k # b => h[k] = t.children[k]
  BY <1>3, <1>12
<1> HIDE DEF h
<1>14. IsTree(v)
  <2>1. \A k \in Buckets : IsChain(h[k], k, T)
    BY <1>3, <1>5, <1>13
  <2>2. IsNode([info |-> o.info, size |-> o.size, children |-> h], T)
    BY <1>2, <1>3, <1>13, <2>1, NodeMade
  <2> QED BY <1>1, <1>10, <2>2, MadeIsTree
<1>15. Chain(v, x) = e
  BY <1>11, <1>13 DEF Chain, b
<1>16. Has(v, x) /\ Below(v, x) = u
  <2>1. PICK i \in DOMAIN e : e[i].name = x /\ e[i].node = u
    BY <1>5
  <2> QED BY <1>5, <1>15, <2>1, ChainLook DEF Has, Below
<1>17. Down(v, x) = u
  BY <1>14, <1>16, DownFacts
<1>18. ASSUME NEW y \in Names \ {x}
       PROVE  (Has(v, y) <=> Has(t, y)) /\ Down(v, y) = Down(t, y)
  <2>1. y \in Names /\ get_key(y) \in Buckets /\ y # x
    BY KeyIn DEF Names
  <2>2. CASE get_key(y) = b
    <3>1. Chain(v, y) = e /\ Chain(t, y) = c
      BY <1>4, <1>11, <1>13, <2>2 DEF Chain
    <3>2. /\ \A i \in DOMAIN c : c[i].name = y => i \in DOMAIN e /\ e[i] = c[i]
          /\ \A i \in DOMAIN e : e[i].name = y => i \in DOMAIN c /\ e[i] = c[i]
      BY <1>5, <1>6, <2>1
    <3>3. /\ Places(e, y) # {} <=> Places(c, y) # {}
          /\ Places(e, y) # {} => e[Place(e, y)].node = c[Place(c, y)].node
      BY <1>4, <1>5, <3>2, SameLook
    <3>4. Has(v, y) <=> Has(t, y)
      BY <3>1, <3>3 DEF Has
    <3>5. Has(v, y) => Below(v, y) = Below(t, y)
      BY <3>1, <3>3 DEF Has, Below
    <3> QED BY <1>14, <2>1, <3>4, <3>5, DownFacts
  <2>3. CASE get_key(y) # b
    <3>1. Chain(v, y) = Chain(t, y)
      BY <1>11, <1>13, <2>1, <2>3 DEF Chain
    <3>2. (Has(v, y) <=> Has(t, y)) /\ Below(v, y) = Below(t, y)
      BY <3>1 DEF Has, Below
    <3> QED BY <1>14, <2>1, <3>2, DownFacts
  <2> QED BY <2>2, <2>3
<1> QED BY <1>11, <1>14, <1>16, <1>17, <1>18 DEF v

-----------------------------------------------------------------------------
(***************************************************************************)
(* The nodes along a path.                                                 *)
(***************************************************************************)

\* A directory: the names that lead to it.
Dirs == Seq(Names)

LEMMA DirNames ==
  ASSUME NEW p \in Dirs
  PROVE  Len(p) \in Nat /\ \A k \in 1 .. Len(p) : p[k] \in Names
BY DEF Dirs

LEMMA AlongRec ==
  ASSUME NEW t, IsTree(t), NEW p \in Dirs
  PROVE  /\ DOMAIN Along(t, p) = 0 .. Len(p) /\ Along(t, p)[0] = t
         /\ \A k \in 1 .. Len(p) : Along(t, p)[k] = Down(Along(t, p)[k - 1], p[k])
         /\ \A k \in 0 .. Len(p) : IsTree(Along(t, p)[k])
<1>1. PICK T : Closed(T) /\ t \in T /\ EmptyTree \in T
  BY EmptyIsTree, InOneSet
<1> DEFINE n == Len(p)
           H == [z \in (1 .. n) \X T |-> Down(z[2], p[z[1]])]
           P(f) == f = [k \in 0 .. n |-> IF k = 0 THEN t ELSE Down(f[k - 1], p[k])]
<1>2. n \in Nat /\ \A k \in 1 .. n : p[k] \in Names
  BY DirNames
<1>3. IsLoop(n, T, t, H)
  <2>1. ASSUME NEW z \in (1 .. n) \X T
        PROVE  Down(z[2], p[z[1]]) \in T
    <3>1. z[1] \in 1 .. n /\ z[2] \in T
      OBVIOUS
    <3> HIDE DEF n
    <3>2. p[z[1]] \in Names
      BY <1>2, <3>1
    <3> QED BY <1>1, <3>1, <3>2, DownIn
  <2>2. H \in [(1 .. n) \X T -> T]
    BY <2>1
  <2> HIDE DEF n, H
  <2> QED BY <1>1, <1>2, <2>2 DEF IsLoop
<1>4. PICK g : Loop(g, n, T, t, H)
  <2> HIDE DEF n, H
  <2> QED BY <1>3, LoopExists
<1>5. /\ g \in [0 .. n -> T] /\ g[0] = t
      /\ \A k \in 1 .. n : g[k] = Down(g[k - 1], p[k])
  <2>1. /\ g \in [0 .. n -> T] /\ g[0] = t
        /\ \A k \in 1 .. n : g[k] = H[<<k, g[k - 1]>>]
    <3> HIDE DEF n, H
    <3> QED BY <1>4 DEF Loop
  <2>2. ASSUME NEW k \in 1 .. n
        PROVE  g[k] = Down(g[k - 1], p[k])
    <3>1. k - 1 \in 0 .. n
      BY <1>2
    <3>2. <<k, g[k - 1]>> \in (1 .. n) \X T
      BY <2>1, <3>1
    <3> QED BY <2>1, <3>2
  <2> QED BY <2>1, <2>2
<1>6. P(g)
  <2>1. ASSUME NEW k \in 0 .. n
        PROVE  g[k] = IF k = 0 THEN t ELSE Down(g[k - 1], p[k])
    <3>1. k # 0 => k \in 1 .. n
      BY <1>2
    <3> HIDE DEF n
    <3> QED BY <1>5, <3>1
  <2> HIDE DEF n
  <2> QED BY <1>5, <2>1
<1> DEFINE F == Along(t, p)
<1>7. P(F)
  <2>1. F = CHOOSE f : P(f)
    BY DEF Along, Down
  <2> HIDE DEF P, F
  <2> QED BY <1>6, <2>1
<1> HIDE DEF F
<1>8. /\ DOMAIN F = 0 .. n /\ F[0] = t
      /\ \A k \in 1 .. n : F[k] = Down(F[k - 1], p[k])
  <2>1. 0 \in 0 .. n /\ \A k \in 1 .. n : k \in 0 .. n /\ k # 0
    BY <1>2
  <2> HIDE DEF n
  <2> QED BY <1>7, <2>1
<1> DEFINE S == {k \in Nat : k <= n => F[k] \in T}
<1>9. \A k \in Nat : k \in S
  <2>1. 0 \in S
    BY <1>1, <1>8
  <2>2. ASSUME NEW k \in Nat, k \in S
        PROVE  k + 1 \in S
    <3> SUFFICES ASSUME k + 1 <= n
                 PROVE  F[k + 1] \in T
      OBVIOUS
    <3>1. k + 1 \in 1 .. n /\ (k + 1) - 1 = k /\ k <= n
      BY <1>2
    <3>2. F[k] \in T /\ F[k + 1] = Down(F[k], p[k + 1]) /\ p[k + 1] \in Names
      BY <1>2, <1>8, <2>2, <3>1
    <3> QED BY <1>1, <3>2, DownIn
  <2> HIDE DEF S
  <2> QED BY <2>1, <2>2, NatSetInduction
<1>10. \A k \in 0 .. n : F[k] \in T
  BY <1>2, <1>9
<1> QED BY <1>1, <1>8, <1>10 DEF F, IsTree

\* Nothing is below a directory without a node.
LEMMA DownEmpty ==
  /\ \A x \in Names : ~Has(EmptyTree, x) /\ Down(EmptyTree, x) = EmptyTree
  /\ EmptyTree.info = NoInfo
<1>1. ASSUME NEW x \in Names
      PROVE  ~Has(EmptyTree, x)
  <2>1. get_key(x) \in Buckets
    BY KeyIn DEF Names
  <2>2. Chain(EmptyTree, x) = <<>>
    BY <2>1 DEF Chain, EmptyTree
  <2> QED BY <2>2 DEF Has, Places
<1> QED BY <1>1, EmptyIsTree, DownFacts DEF EmptyTree

LEMMA EmptyOn ==
  ASSUME NEW t, IsTree(t), NEW p \in Dirs, NEW k \in 0 .. Len(p),
         Along(t, p)[k] = EmptyTree, NEW j \in k .. Len(p)
  PROVE  Along(t, p)[j] = EmptyTree
<1> DEFINE F == Along(t, p)
           n == Len(p)
           S == {i \in Nat : k <= i /\ i <= n => F[i] = EmptyTree}
<1>1. /\ n \in Nat /\ k \in Nat
      /\ \A i \in 1 .. n : F[i] = Down(F[i - 1], p[i]) /\ p[i] \in Names
  BY AlongRec, DirNames
<1> HIDE DEF F, n
<1>2. F[k] = EmptyTree
  BY DEF F
<1>3. 0 \in S
  BY <1>1, <1>2
<1>4. ASSUME NEW i \in Nat, i \in S
      PROVE  i + 1 \in S
  <2> SUFFICES ASSUME k <= i + 1, i + 1 <= n
               PROVE  F[i + 1] = EmptyTree
    OBVIOUS
  <2>1. CASE k = i + 1
    BY <1>2, <2>1
  <2>2. CASE k <= i
    <3>1. i + 1 \in 1 .. n /\ (i + 1) - 1 = i /\ i <= n
      BY <1>1
    <3>2. F[i] = EmptyTree
      BY <1>4, <2>2, <3>1
    <3> QED BY <1>1, <3>1, <3>2, DownEmpty
  <2> QED BY <1>1, <2>1, <2>2
<1> HIDE DEF S
<1>5. \A i \in Nat : i \in S
  BY <1>3, <1>4, NatSetInduction
<1>6. j \in Nat /\ k <= j /\ j <= n
  BY <1>1 DEF n
<1>7. F[j] = EmptyTree
  BY <1>5, <1>6 DEF S
<1> QED BY <1>7 DEF F

-----------------------------------------------------------------------------
(***************************************************************************)
(* What is stored for a path, trees of finite depth, and changes to the    *)
(* nodes along one path: for other paths they change nothing.              *)
(***************************************************************************)

\* What is stored for a directory; how deep the nodes are.
Info(t, p) == Along(t, p)[Len(p)].info
Shallow(t) == \E d \in Nat : \A q \in Dirs : \A k \in 0 .. Len(q) - 1 :
                Has(Along(t, q)[k], q[k + 1]) => k < d

Agree(p, q, m) == \A i \in 1 .. m : p[i] = q[i]

LEMMA AlongAgree ==
  ASSUME NEW t, IsTree(t), NEW p \in Dirs, NEW q \in Dirs, NEW m \in Nat,
         m <= Len(p), m <= Len(q), Agree(p, q, m)
  PROVE  Along(t, p)[m] = Along(t, q)[m]
<1> DEFINE F == Along(t, p)
           G == Along(t, q)
           S == {i \in Nat : i <= m => F[i] = G[i]}
<1>1. /\ F[0] = t /\ \A k \in 1 .. Len(p) : F[k] = Down(F[k - 1], p[k])
      /\ G[0] = t /\ \A k \in 1 .. Len(q) : G[k] = Down(G[k - 1], q[k])
      /\ Len(p) \in Nat /\ Len(q) \in Nat
  BY AlongRec, DirNames
<1> HIDE DEF F, G
<1>2. 0 \in S
  BY <1>1
<1>3. ASSUME NEW i \in Nat, i \in S
      PROVE  i + 1 \in S
  <2> SUFFICES ASSUME i + 1 <= m
               PROVE  F[i + 1] = G[i + 1]
    OBVIOUS
  <2>1. /\ i + 1 \in 1 .. Len(p) /\ i + 1 \in 1 .. Len(q) /\ i + 1 \in 1 .. m
        /\ (i + 1) - 1 = i /\ i <= m
    BY <1>1
  <2>2. F[i] = G[i] /\ p[i + 1] = q[i + 1]
    BY <1>3, <2>1 DEF Agree
  <2> QED BY <1>1, <2>1, <2>2
<1> HIDE DEF S
<1>4. m \in S
  BY <1>2, <1>3, NatSetInduction
<1> QED BY <1>4 DEF S, F, G

\* up[0] is t but for the nodes that the first n names of p lead to: these
\* are the trees up, of which the last may have something else stored.
Spine(t, p, n, ups) ==
  /\ n \in 0 .. Len(p)
  /\ \A k \in 0 .. n : IsTree(ups[k])
  /\ \A k \in 0 .. n - 1 :
       /\ ups[k].info = Along(t, p)[k].info
       /\ Down(ups[k], p[k + 1]) = ups[k + 1]
       /\ \A y \in Names \ {p[k + 1]} : Down(ups[k], y) = Down(Along(t, p)[k], y)
  /\ \A y \in Names : /\ Down(ups[n], y) = Down(Along(t, p)[n], y)
                      /\ (Has(ups[n], y) <=> Has(Along(t, p)[n], y))

LEMMA SpineAlong ==
  ASSUME NEW t, IsTree(t), NEW p \in Dirs, NEW n, NEW ups, Spine(t, p, n, ups),
         NEW q \in Dirs, NEW j \in 0 .. Len(q)
  PROVE  Along(ups[0], q)[j] = IF j <= n /\ Agree(p, q, j) THEN ups[j]
                              ELSE Along(t, q)[j]
<1> DEFINE A == Along(t, p)
           F == Along(t, q)
           G == Along(ups[0], q)
           Is(i) == G[i] = IF i <= n /\ Agree(p, q, i) THEN ups[i] ELSE F[i]
           S == {i \in Nat : i <= Len(q) => Is(i)}
<1>1. /\ n \in Nat /\ n <= Len(p) /\ Len(p) \in Nat /\ Len(q) \in Nat
      /\ IsTree(ups[0])
      /\ \A k \in 1 .. Len(q) : q[k] \in Names
  BY DirNames DEF Spine
<1>2. /\ F[0] = t /\ \A k \in 1 .. Len(q) : F[k] = Down(F[k - 1], q[k])
      /\ G[0] = ups[0] /\ \A k \in 1 .. Len(q) : G[k] = Down(G[k - 1], q[k])
  BY <1>1, AlongRec
<1>3. \A i \in Nat : i <= n /\ i <= Len(q) /\ Agree(p, q, i) => A[i] = F[i]
  BY <1>1, AlongAgree
<1>4. /\ \A k \in 0 .. n - 1 :
           /\ Down(ups[k], p[k + 1]) = ups[k + 1]
           /\ \A y \in Names \ {p[k + 1]} : Down(ups[k], y) = Down(A[k], y)
      /\ \A y \in Names : Down(ups[n], y) = Down(A[n], y)
  BY DEF Spine
<1> HIDE DEF A, F, G
<1>5. 0 \in S
  <2>1. Agree(p, q, 0)
    BY DEF Agree
  <2> QED BY <1>1, <1>2, <2>1
<1>6. ASSUME NEW i \in Nat, i \in S
      PROVE  i + 1 \in S
  <2> SUFFICES ASSUME i + 1 <= Len(q)
               PROVE  Is(i + 1)
    OBVIOUS
  <2> DEFINE x == q[i + 1]
  <2>1. /\ i + 1 \in 1 .. Len(q) /\ (i + 1) - 1 = i /\ i <= Len(q)
        /\ i + 1 <= n => i <= n /\ i \in 0 .. n - 1
        /\ i <= n /\ ~(i + 1 <= n) => i = n
    BY <1>1
  <2>2. G[i + 1] = Down(G[i], x) /\ F[i + 1] = Down(F[i], x) /\ x \in Names
    BY <1>1, <1>2, <2>1
  <2>3. Agree(p, q, i + 1) <=> Agree(p, q, i) /\ p[i + 1] = x
    BY DEF Agree
  <2>4. Is(i)
    BY <1>6, <2>1
  <2> HIDE DEF x, S
  <2>5. CASE i + 1 <= n /\ Agree(p, q, i + 1)
    BY <1>4, <2>1, <2>2, <2>3, <2>4, <2>5
  <2>6. CASE i <= n /\ Agree(p, q, i) /\ ~(i + 1 <= n /\ Agree(p, q, i + 1))
    <3>1. G[i] = ups[i] /\ A[i] = F[i]
      BY <1>3, <2>1, <2>4, <2>6
    <3>2. Down(ups[i], x) = Down(A[i], x)
      BY <1>4, <2>1, <2>2, <2>3, <2>6
    <3> QED BY <2>2, <2>6, <3>1, <3>2
  <2>7. CASE ~(i <= n /\ Agree(p, q, i))
    BY <2>1, <2>2, <2>3, <2>4, <2>7
  <2> QED BY <2>5, <2>6, <2>7
<1> HIDE DEF S, Is
<1>7. j \in Nat /\ j <= Len(q)
  BY <1>1
<1>8. Is(j)
  <2>1. j \in S
    BY <1>5, <1>6, <1>7, NatSetInduction
  <2> QED BY <1>7, <2>1 DEF S
<1> QED BY <1>8 DEF Is, F, G

LEMMA SpineInfo ==
  ASSUME NEW t, IsTree(t), NEW p \in Dirs, NEW n, NEW ups, Spine(t, p, n, ups),
         NEW q \in Dirs
  PROVE  Info(ups[0], q) = IF Len(q) = n /\ Agree(p, q, n) THEN ups[n].info
                          ELSE Info(t, q)
<1> DEFINE m == Len(q)
<1>1. m \in Nat /\ m \in 0 .. m /\ n \in Nat /\ n <= Len(p) /\ Len(p) \in Nat
  BY DirNames DEF Spine
<1>2. Along(ups[0], q)[m] = IF m <= n /\ Agree(p, q, m) THEN ups[m]
                           ELSE Along(t, q)[m]
  BY <1>1, SpineAlong
<1>3. CASE m < n /\ Agree(p, q, m)
  <2>1. m \in 0 .. n - 1 /\ m <= n /\ m # n /\ m <= Len(p)
    BY <1>1, <1>3
  <2>2. ups[m].info = Along(t, p)[m].info
    BY <2>1 DEF Spine
  <2>3. Along(t, p)[m] = Along(t, q)[m]
    BY <1>1, <1>3, <2>1, AlongAgree
  <2> QED BY <1>2, <1>3, <2>1, <2>2, <2>3 DEF Info
<1>4. CASE ~(m < n /\ Agree(p, q, m))
  <2>1. m <= n /\ Agree(p, q, m) <=> m = n /\ Agree(p, q, n)
    BY <1>1, <1>4
  <2> QED BY <1>2, <2>1 DEF Info
<1> QED BY <1>3, <1>4

LEMMA SpineShallow ==
  ASSUME NEW t, IsTree(t), Shallow(t), NEW p \in Dirs, NEW n, NEW ups,
         Spine(t, p, n, ups)
  PROVE  Shallow(ups[0])
<1>1. PICK d \in Nat : \A q \in Dirs : \A k \in 0 .. Len(q) - 1 :
                         Has(Along(t, q)[k], q[k + 1]) => k < d
  BY DEF Shallow
<1>2. n \in Nat /\ n <= Len(p) /\ Len(p) \in Nat
  BY DirNames DEF Spine
<1>3. ASSUME NEW q \in Dirs, NEW k \in 0 .. Len(q) - 1,
             Has(Along(ups[0], q)[k], q[k + 1])
      PROVE  k < d + n
  <2>1. /\ Len(q) \in Nat /\ k \in Nat /\ k \in 0 .. Len(q) /\ k <= Len(q)
        /\ q[k + 1] \in Names
    BY DirNames
  <2>2. Along(ups[0], q)[k] = IF k <= n /\ Agree(p, q, k) THEN ups[k]
                             ELSE Along(t, q)[k]
    BY <2>1, SpineAlong
  <2>3. CASE k < n
    BY <1>2, <2>1, <2>3
  <2>4. CASE n <= k
    <3>1. Has(Along(t, q)[k], q[k + 1])
      <4>1. CASE k <= n /\ Agree(p, q, k)
        <5>1. k = n /\ k <= Len(p)
          BY <1>2, <2>1, <2>4, <4>1
        <5>2. Has(Along(t, p)[k], q[k + 1])
          BY <1>3, <2>1, <2>2, <4>1, <5>1 DEF Spine
        <5>3. Along(t, p)[k] = Along(t, q)[k]
          BY <2>1, <4>1, <5>1, AlongAgree
        <5> QED BY <5>2, <5>3
      <4>2. CASE ~(k <= n /\ Agree(p, q, k))
        BY <1>3, <2>2, <4>2
      <4> QED BY <4>1, <4>2
    <3>2. k < d
      BY <1>1, <3>1
    <3> QED BY <1>2, <2>1, <3>2
  <2> QED BY <1>2, <2>1, <2>3, <2>4
<1>4. d + n \in Nat
  BY <1>2
<1> QED BY <1>3, <1>4 DEF Shallow

-----------------------------------------------------------------------------
(***************************************************************************)
(* An insertion, also one that is cut off.                                 *)
(***************************************************************************)

\* The trees that Replaced goes up through.
Ups(t, p, n, node) ==
  CHOOSE f : f = [k \in 0 .. n |->
                    IF k = n THEN node
                    ELSE WithBelow(Opened(Along(t, p)[k], p[k + 1]), p[k + 1], f[k + 1])]

LEMMA UpsRec ==
  ASSUME NEW t, NEW p, NEW n \in Nat, NEW node
  PROVE  LET f == Ups(t, p, n, node)
         IN /\ Replaced(t, p, n, node) = f[0] /\ f[n] = node
            /\ \A k \in 0 .. n - 1 : f[k] = Put(Along(t, p)[k], p[k + 1], f[k + 1])
<1> DEFINE R(k, u) == Put(Along(t, p)[k], p[k + 1], u)
           Q(f, i) == /\ DOMAIN f = i .. n /\ f[n] = node
                      /\ \A k \in i .. n - 1 : f[k] = R(k, f[k + 1])
           P(f) == f = [k \in 0 .. n |-> IF k = n THEN node ELSE R(k, f[k + 1])]
           S == {m \in Nat : m <= n => \E f : Q(f, n - m)
                                              /\ f = [k \in (n - m) .. n |-> f[k]]}
<1> HIDE DEF R
<1>1. 0 \in S
  <2> DEFINE f == [k \in n .. n |-> node]
  <2>1. /\ DOMAIN f = (n - 0) .. n /\ f[n] = node
        /\ f = [k \in (n - 0) .. n |-> f[k]]
        /\ \A k \in (n - 0) .. n - 1 : FALSE
    OBVIOUS
  <2> HIDE DEF f
  <2> QED BY <2>1
<1>2. ASSUME NEW m \in Nat, m \in S
      PROVE  m + 1 \in S
  <2> SUFFICES ASSUME m + 1 <= n
               PROVE  \E f : Q(f, n - (m + 1))
                             /\ f = [k \in (n - (m + 1)) .. n |-> f[k]]
    OBVIOUS
  <2>1. PICK f : Q(f, n - m)
    BY <1>2
  <2> DEFINE i == n - (m + 1)
             g == [k \in i .. n |-> IF k = i THEN R(i, f[i + 1]) ELSE f[k]]
  <2>2. /\ n - m = i + 1 /\ i \in Nat /\ i < n
        /\ \A k \in i + 1 .. n - 1 : k \in i .. n /\ k # i
                                     /\ k + 1 \in i .. n /\ k + 1 # i
        /\ i + 1 \in i .. n /\ i + 1 # i /\ n \in i .. n /\ n # i
        /\ \A k \in i .. n - 1 : k = i \/ k \in i + 1 .. n - 1
    OBVIOUS
  <2> HIDE DEF i
  <2>3. Q(f, i + 1)
    BY <2>1, <2>2
  <2>4. /\ DOMAIN g = i .. n /\ g = [k \in i .. n |-> g[k]]
        /\ g[i] = R(i, f[i + 1])
        /\ \A k \in i .. n : k # i => g[k] = f[k]
    BY <2>2
  <2> HIDE DEF g
  <2>5. Q(g, i)
    BY <2>2, <2>3, <2>4
  <2> QED BY <2>4, <2>5 DEF i
<1>3. n \in S
  <2> HIDE DEF S
  <2> QED BY <1>1, <1>2, NatSetInduction
<1>4. PICK g : Q(g, 0) /\ g = [k \in 0 .. n |-> g[k]]
  BY <1>3
<1>5. P(g)
  <2>1. ASSUME NEW k \in 0 .. n
        PROVE  g[k] = IF k = n THEN node ELSE R(k, g[k + 1])
    <3>1. k # n => k \in 0 .. n - 1
      OBVIOUS
    <3> QED BY <1>4, <3>1
  <2> QED BY <1>4, <2>1
<1> DEFINE F == Ups(t, p, n, node)
<1>6. P(F)
  <2>1. F = CHOOSE f : P(f)
    BY DEF Ups, R, Put
  <2> HIDE DEF P, F
  <2> QED BY <1>5, <2>1
<1>7. Replaced(t, p, n, node) = F[0]
  BY DEF Replaced, Ups
<1> HIDE DEF F
<1>8. F[n] = node /\ \A k \in 0 .. n - 1 : F[k] = R(k, F[k + 1])
  <2>1. n \in 0 .. n /\ \A k \in 0 .. n - 1 : k \in 0 .. n /\ k # n
    OBVIOUS
  <2> QED BY <1>6, <2>1
<1> QED BY <1>7, <1>8 DEF F, R

LEMMA SameBelow ==
  ASSUME NEW t, IsTree(t), NEW u, IsTree(u), u.children = t.children,
         NEW y \in Names
  PROVE  Down(u, y) = Down(t, y) /\ (Has(u, y) <=> Has(t, y))
<1>1. Chain(u, y) = Chain(t, y)
  BY DEF Chain
<1>2. (Has(u, y) <=> Has(t, y)) /\ Below(u, y) = Below(t, y)
  BY <1>1 DEF Has, Below
<1> QED BY <1>2, DownFacts

\* Something else stored in the last node, or nothing, and nodes made.
LEMMA ReplacedSpine ==
  ASSUME NEW t, IsTree(t), NEW p \in Dirs, NEW n \in 0 .. Len(p), NEW node,
         IsTree(node), node.children = Along(t, p)[n].children
  PROVE  /\ Spine(t, p, n, Ups(t, p, n, node))
         /\ Ups(t, p, n, node)[0] = Replaced(t, p, n, node)
         /\ Ups(t, p, n, node)[n] = node
<1> DEFINE A == Along(t, p)
           f == Ups(t, p, n, node)
<1>1. n \in Nat /\ n <= Len(p) /\ Len(p) \in Nat
  BY DirNames
<1>2. /\ Replaced(t, p, n, node) = f[0] /\ f[n] = node
      /\ \A k \in 0 .. n - 1 : f[k] = Put(A[k], p[k + 1], f[k + 1])
  BY <1>1, UpsRec
<1>3. /\ \A k \in 0 .. n : IsTree(A[k])
      /\ \A k \in 0 .. n - 1 : p[k + 1] \in Names
  <2>1. \A k \in 0 .. n : k \in 0 .. Len(p)
    BY <1>1
  <2>2. \A k \in 0 .. n - 1 : k + 1 \in 1 .. Len(p)
    BY <1>1
  <2> QED BY <2>1, <2>2, AlongRec, DirNames
<1>4. A[n].children = node.children /\ IsTree(A[n])
  BY <1>1, <1>3
<1> HIDE DEF A, f
<1>5. \A k \in 0 .. n : IsTree(f[k])
  <2> DEFINE S == {m \in Nat : m <= n => IsTree(f[n - m])}
  <2>1. 0 \in S
    BY <1>1, <1>2
  <2>2. ASSUME NEW m \in Nat, m \in S
        PROVE  m + 1 \in S
    <3> SUFFICES ASSUME m + 1 <= n
                 PROVE  IsTree(f[n - (m + 1)])
      OBVIOUS
    <3> DEFINE k == n - (m + 1)
    <3>1. k \in 0 .. n - 1 /\ k \in 0 .. n /\ k + 1 = n - m /\ m <= n
      BY <1>1
    <3>2. IsTree(f[k + 1])
      BY <2>2, <3>1
    <3> HIDE DEF k
    <3>3. f[k] = Put(A[k], p[k + 1], f[k + 1]) /\ IsTree(A[k]) /\ p[k + 1] \in Names
      BY <1>2, <1>3, <3>1
    <3>4. IsTree(f[k])
      BY <3>2, <3>3, PutFacts
    <3> QED BY <3>4 DEF k
  <2> HIDE DEF S
  <2>3. \A m \in Nat : m \in S
    BY <2>1, <2>2, NatSetInduction
  <2>4. \A k \in 0 .. n : n - k \in Nat /\ n - k <= n /\ n - (n - k) = k
    BY <1>1
  <2> QED BY <2>3, <2>4 DEF S
<1>6. ASSUME NEW k \in 0 .. n - 1
      PROVE  /\ f[k].info = A[k].info
             /\ Down(f[k], p[k + 1]) = f[k + 1]
             /\ \A y \in Names \ {p[k + 1]} : Down(f[k], y) = Down(A[k], y)
  <2>1. k \in 0 .. n /\ k + 1 \in 0 .. n
    BY <1>1
  <2>2. /\ f[k] = Put(A[k], p[k + 1], f[k + 1])
        /\ IsTree(A[k]) /\ IsTree(f[k + 1]) /\ p[k + 1] \in Names
    BY <1>2, <1>3, <1>5, <2>1
  <2> DEFINE a == A[k]
             x == p[k + 1]
             u == f[k + 1]
             v == Put(a, x, u)
  <2> HIDE DEF a, x, u, v
  <2>3. IsTree(a) /\ IsTree(u) /\ x \in Names
    BY <2>2 DEF a, x, u
  <2>4. /\ v.info = a.info /\ Down(v, x) = u
        /\ \A y \in Names \ {x} : Down(v, y) = Down(a, y)
    BY <2>3, PutFacts DEF v
  <2>5. f[k] = v
    BY <2>2 DEF v, a, x, u
  <2> QED BY ONLY <2>4, <2>5 DEF a, x, u
<1>7. \A y \in Names : Down(node, y) = Down(A[n], y) /\ (Has(node, y) <=> Has(A[n], y))
  BY <1>4, SameBelow
<1> QED BY <1>2, <1>5, <1>6, <1>7 DEF Spine, A, f

\* tree_insert stores the id for the path and changes nothing that is stored
\* for another.
THEOREM TreeInsertFacts ==
  ASSUME NEW t, IsTree(t), Shallow(t), NEW p \in Dirs, NEW i \in Nat
  PROVE  LET u == tree_insert(t, p, i)
         IN /\ IsTree(u) /\ Shallow(u)
            /\ \A q \in Dirs : Info(u, q) = IF q = p THEN i ELSE Info(t, q)
<1> DEFINE n == Len(p)
           node == [Along(t, p)[n] EXCEPT !.info = i]
           f == Ups(t, p, n, node)
<1>1. n \in Nat /\ n \in 0 .. n
  BY DirNames
<1>2. IsTree(node) /\ node.info = i /\ node.children = Along(t, p)[n].children
  BY <1>1, AlongRec, InfoSet
<1> HIDE DEF node
<1>3. Spine(t, p, n, f) /\ f[0] = Replaced(t, p, n, node) /\ f[n] = node
  BY <1>1, <1>2, ReplacedSpine
<1>4. tree_insert(t, p, i) = f[0]
  BY <1>3 DEF tree_insert, node
<1>5. IsTree(f[0]) /\ Shallow(f[0])
  BY <1>1, <1>3, SpineShallow DEF Spine
<1>6. ASSUME NEW q \in Dirs
      PROVE  Info(f[0], q) = IF q = p THEN i ELSE Info(t, q)
  <2>1. Len(q) = n /\ Agree(p, q, n) <=> q = p
    BY DEF Dirs, Agree
  <2>2. Info(f[0], q) = IF Len(q) = n /\ Agree(p, q, n) THEN f[n].info
                        ELSE Info(t, q)
    BY <1>3, SpineInfo
  <2> QED BY <1>2, <1>3, <2>1, <2>2
<1> QED BY <1>4, <1>5, <1>6

\* A tree_insert that runs out of memory leaves nodes behind and nothing stored.
THEOREM CutOffFacts ==
  ASSUME NEW t, IsTree(t), Shallow(t), NEW p \in Dirs, NEW n \in 0 .. Len(p)
  PROVE  LET u == InsertCutOff(t, p, n)
         IN /\ IsTree(u) /\ Shallow(u)
            /\ \A q \in Dirs : Info(u, q) = Info(t, q)
<1> DEFINE node == Along(t, p)[n]
           f == Ups(t, p, n, node)
<1>1. IsTree(node) /\ n \in Nat /\ n <= Len(p)
  BY AlongRec, DirNames
<1>2. Spine(t, p, n, f) /\ f[0] = InsertCutOff(t, p, n) /\ f[n] = node
  BY <1>1, ReplacedSpine DEF InsertCutOff
<1>3. IsTree(f[0]) /\ Shallow(f[0])
  BY <1>1, <1>2, SpineShallow DEF Spine
<1>4. ASSUME NEW q \in Dirs
      PROVE  Info(f[0], q) = Info(t, q)
  <2>1. Info(f[0], q) = IF Len(q) = n /\ Agree(p, q, n) THEN f[n].info
                        ELSE Info(t, q)
    BY <1>2, SpineInfo
  <2>2. Len(q) = n /\ Agree(p, q, n) => Along(t, q)[n] = node
    BY <1>1, AlongAgree
  <2> QED BY <1>2, <2>1, <2>2 DEF Info
<1> QED BY <1>2, <1>3, <1>4

-----------------------------------------------------------------------------
(***************************************************************************)
(* A removal. The nodes that are empty stay: the name that it looks for in *)
(* their stead is not there.                                               *)
(***************************************************************************)

\* What tree_remove makes of a node, from what it made of the one below.
Emptied(t, p, k, u) ==
  IF ~Has(Along(t, p)[k], p[k + 1]) THEN Along(t, p)[k]
  ELSE IF u = Along(t, p)[k + 1] THEN Along(t, p)[k]
       ELSE Pruned(WithBelow(Along(t, p)[k], p[k + 1], u), p[k + 1])

Cleared(t, p) == [Along(t, p)[Len(p)] EXCEPT !.info = NoInfo]

Removals(t, p) ==
  CHOOSE f : f = [k \in 0 .. Len(p) |-> IF k = Len(p) THEN Cleared(t, p)
                                        ELSE Emptied(t, p, k, f[k + 1])]

LEMMA RemovalsRec ==
  ASSUME NEW t, NEW p, Len(p) \in Nat
  PROVE  LET f == Removals(t, p)
             n == Len(p)
         IN /\ tree_remove(t, p) = f[0] /\ f[n] = Cleared(t, p)
            /\ \A k \in 0 .. n - 1 : f[k] = Emptied(t, p, k, f[k + 1])
<1> DEFINE n == Len(p)
           node == Cleared(t, p)
           R(k, u) == Emptied(t, p, k, u)
           Q(f, i) == /\ DOMAIN f = i .. n /\ f[n] = node
                      /\ \A k \in i .. n - 1 : f[k] = R(k, f[k + 1])
           P(f) == f = [k \in 0 .. n |-> IF k = n THEN node ELSE R(k, f[k + 1])]
           S == {m \in Nat : m <= n => \E f : Q(f, n - m)
                                              /\ f = [k \in (n - m) .. n |-> f[k]]}
<1>0. n \in Nat
  OBVIOUS
<1> HIDE DEF R, n, node
<1>1. 0 \in S
  <2> DEFINE f == [k \in n .. n |-> node]
  <2>1. /\ DOMAIN f = (n - 0) .. n /\ f[n] = node
        /\ f = [k \in (n - 0) .. n |-> f[k]]
        /\ \A k \in (n - 0) .. n - 1 : FALSE
    BY <1>0
  <2> HIDE DEF f
  <2> QED BY <2>1
<1>2. ASSUME NEW m \in Nat, m \in S
      PROVE  m + 1 \in S
  <2> SUFFICES ASSUME m + 1 <= n
               PROVE  \E f : Q(f, n - (m + 1))
                             /\ f = [k \in (n - (m + 1)) .. n |-> f[k]]
    OBVIOUS
  <2>1. PICK f : Q(f, n - m)
    BY <1>0, <1>2
  <2> DEFINE i == n - (m + 1)
             g == [k \in i .. n |-> IF k = i THEN R(i, f[i + 1]) ELSE f[k]]
  <2>2. /\ n - m = i + 1 /\ i \in Nat /\ i < n
        /\ \A k \in i + 1 .. n - 1 : k \in i .. n /\ k # i
                                     /\ k + 1 \in i .. n /\ k + 1 # i
        /\ i + 1 \in i .. n /\ i + 1 # i /\ n \in i .. n /\ n # i
        /\ \A k \in i .. n - 1 : k = i \/ k \in i + 1 .. n - 1
    BY <1>0
  <2> HIDE DEF i
  <2>3. Q(f, i + 1)
    BY <2>1, <2>2
  <2>4. /\ DOMAIN g = i .. n /\ g = [k \in i .. n |-> g[k]]
        /\ g[i] = R(i, f[i + 1])
        /\ \A k \in i .. n : k # i => g[k] = f[k]
    BY <1>0, <2>2
  <2> HIDE DEF g
  <2>5. Q(g, i)
    BY <2>2, <2>3, <2>4
  <2> QED BY <2>4, <2>5 DEF i
<1>3. n \in S
  <2> HIDE DEF S
  <2> QED BY <1>0, <1>1, <1>2, NatSetInduction
<1>4. PICK g : Q(g, 0) /\ g = [k \in 0 .. n |-> g[k]]
  BY <1>0, <1>3
<1>5. P(g)
  <2>1. ASSUME NEW k \in 0 .. n
        PROVE  g[k] = IF k = n THEN node ELSE R(k, g[k + 1])
    <3>1. k # n => k \in 0 .. n - 1
      BY <1>0
    <3> QED BY <1>4, <3>1
  <2> QED BY <1>4, <2>1
<1> DEFINE F == Removals(t, p)
<1>6. P(F)
  <2>1. F = CHOOSE f : P(f)
    BY DEF Removals, R, n, node
  <2> HIDE DEF P, F
  <2> QED BY <1>5, <2>1
<1>7. tree_remove(t, p) = F[0]
  BY DEF tree_remove, Removals, Emptied, Cleared
<1> HIDE DEF F
<1>8. F[n] = node /\ \A k \in 0 .. n - 1 : F[k] = R(k, F[k + 1])
  <2>1. n \in 0 .. n /\ \A k \in 0 .. n - 1 : k \in 0 .. n /\ k # n
    BY <1>0
  <2> QED BY <1>6, <2>1
<1> QED BY <1>7, <1>8 DEF F, R, n, node

-----------------------------------------------------------------------------
\* No node has the empty name, so nothing is pruned.
LEMMA PrunedIs ==
  ASSUME NEW t, IsTree(t), NEW x
  PROVE  Pruned(t, x) = t
<1>1. PICK T : t \in T /\ Closed(T)
  BY DEF IsTree
<1>2. get_key(NoName) \in Buckets
  BY KeyIn DEF NoName
<1>3. IsChain(Chain(t, NoName), get_key(NoName), T)
  BY <1>1, <1>2, NodeParts DEF Closed, Chain
<1>4. \A i \in DOMAIN Chain(t, NoName) : Chain(t, NoName)[i].name # NoName
  BY <1>3, ChainHas DEF Names
<1>5. ~Has(t, NoName)
  BY <1>4 DEF Has, Places
<1> QED BY <1>5 DEF Pruned, hash_remove

LEMMA EmptiedFacts ==
  ASSUME NEW t, IsTree(t), NEW p \in Dirs, NEW k \in 0 .. Len(p) - 1,
         NEW u, IsTree(u), Along(t, p)[k + 1] = EmptyTree => u = EmptyTree
  PROVE  LET v == Emptied(t, p, k, u)
             a == Along(t, p)[k]
         IN /\ IsTree(v) /\ v.info = a.info
            /\ Down(v, p[k + 1]) = u
            /\ \A y \in Names \ {p[k + 1]} : Down(v, y) = Down(a, y)
<1> DEFINE a == Along(t, p)[k]
           x == p[k + 1]
           b == Along(t, p)[k + 1]
           v == Emptied(t, p, k, u)
<1>1. k \in 0 .. Len(p) /\ k + 1 \in 1 .. Len(p) /\ (k + 1) - 1 = k
  BY DirNames
<1>2. IsTree(a) /\ x \in Names /\ b = Down(a, x)
  BY <1>1, AlongRec, DirNames
<1>3. v = IF ~Has(a, x) THEN a
          ELSE IF u = b THEN a ELSE Pruned(WithBelow(a, x, u), x)
  BY DEF Emptied
<1>4. b = EmptyTree => u = EmptyTree
  OBVIOUS
<1> HIDE DEF a, x, b, v
<1>5. CASE ~Has(a, x)
  <2>1. b = EmptyTree
    BY <1>2, <1>5, DownFacts
  <2> QED BY <1>2, <1>3, <1>4, <1>5, <2>1 DEF a, x, v
<1>6. CASE Has(a, x) /\ u = b
  BY <1>2, <1>3, <1>6 DEF a, x, v
<1>7. CASE Has(a, x) /\ u # b
  <2> DEFINE w == Put(a, x, u)
  <2>1. WithBelow(a, x, u) = w
    BY <1>7 DEF Put, Opened
  <2>2. /\ IsTree(w) /\ w.info = a.info /\ Down(w, x) = u
        /\ \A y \in Names \ {x} : Down(w, y) = Down(a, y)
    BY <1>2, PutFacts
  <2> HIDE DEF w
  <2>3. v = w
    BY <1>3, <1>7, <2>1, <2>2, PrunedIs
  <2> QED BY <2>2, <2>3 DEF a, x, v
<1> QED BY <1>5, <1>6, <1>7

\* tree_remove clears what is stored for the path and nothing else, although it
\* leaves the empty nodes.
THEOREM TreeRemoveFacts ==
  ASSUME NEW t, IsTree(t), Shallow(t), NEW p \in Dirs
  PROVE  LET u == tree_remove(t, p)
         IN /\ IsTree(u) /\ Shallow(u)
            /\ \A q \in Dirs : Info(u, q) = IF q = p THEN NoInfo ELSE Info(t, q)
<1> DEFINE n == Len(p)
           A == Along(t, p)
           node == Cleared(t, p)
           f == Removals(t, p)
           Good(k) == IsTree(f[k]) /\ (A[k] = EmptyTree => f[k] = EmptyTree)
           S == {m \in Nat : m <= n => Good(n - m)}
<1>1. n \in Nat /\ n \in 0 .. n /\ \A k \in 0 .. n : IsTree(A[k])
  BY DirNames, AlongRec
<1>2. /\ tree_remove(t, p) = f[0] /\ f[n] = node
      /\ \A k \in 0 .. n - 1 : f[k] = Emptied(t, p, k, f[k + 1])
  BY <1>1, RemovalsRec
<1>3. IsTree(node) /\ node.info = NoInfo /\ node.children = A[n].children
  BY <1>1, InfoSet DEF Cleared, NoInfo
<1>4. A[n] = EmptyTree => node = EmptyTree
  BY DEF Cleared, EmptyTree
<1>5. \A k \in 0 .. n - 1 : p[k + 1] \in Names /\ k \in 0 .. n /\ k + 1 \in 0 .. n
  BY <1>1, DirNames
<1> HIDE DEF f, node
<1>6. 0 \in S
  BY <1>1, <1>2, <1>3, <1>4
<1>7. ASSUME NEW m \in Nat, m \in S
      PROVE  m + 1 \in S
  <2> SUFFICES ASSUME m + 1 <= n
               PROVE  Good(n - (m + 1))
    OBVIOUS
  <2> DEFINE k == n - (m + 1)
  <2>1. k \in 0 .. n - 1 /\ k + 1 = n - m /\ m <= n
    BY <1>1
  <2>2. Good(k + 1)
    BY <1>7, <2>1
  <2> HIDE DEF k, S
  <2>3. f[k] = Emptied(t, p, k, f[k + 1])
    BY <1>2, <2>1
  <2>4. IsTree(f[k])
    BY <2>1, <2>2, <2>3, EmptiedFacts
  <2>5. A[k] = EmptyTree => f[k] = EmptyTree
    BY <1>5, <2>1, <2>3, DownEmpty DEF Emptied
  <2> QED BY <2>4, <2>5 DEF k
<1>8. \A k \in 0 .. n : Good(k)
  <2> HIDE DEF S, Good
  <2>1. \A m \in Nat : m \in S
    BY <1>6, <1>7, NatSetInduction
  <2>2. \A k \in 0 .. n : n - k \in Nat /\ n - k <= n /\ n - (n - k) = k
    BY <1>1
  <2> QED BY <2>1, <2>2 DEF S
<1>9. ASSUME NEW k \in 0 .. n - 1
      PROVE  /\ f[k].info = A[k].info
             /\ Down(f[k], p[k + 1]) = f[k + 1]
             /\ \A y \in Names \ {p[k + 1]} : Down(f[k], y) = Down(A[k], y)
  <2>1. Good(k + 1)
    BY <1>5, <1>8
  <2>2. f[k] = Emptied(t, p, k, f[k + 1])
    BY <1>2
  <2> DEFINE u == f[k + 1]
  <2> HIDE DEF u
  <2>3. IsTree(u) /\ (Along(t, p)[k + 1] = EmptyTree => u = EmptyTree)
    BY <2>1 DEF u
  <2> DEFINE v == Emptied(t, p, k, u)
  <2>4. /\ v.info = A[k].info /\ Down(v, p[k + 1]) = u
        /\ \A y \in Names \ {p[k + 1]} : Down(v, y) = Down(A[k], y)
    BY <2>3, EmptiedFacts
  <2>5. f[k] = v
    BY <2>2 DEF u
  <2> HIDE DEF v
  <2> QED BY ONLY <2>4, <2>5 DEF u
<1>10. \A y \in Names : Down(node, y) = Down(A[n], y) /\ (Has(node, y) <=> Has(A[n], y))
  BY <1>1, <1>3, SameBelow
<1>11. Spine(t, p, n, f)
  <2>1. \A k \in 0 .. n : IsTree(f[k])
    BY <1>8
  <2> HIDE DEF Good, S
  <2> QED BY <1>1, <1>2, <1>9, <1>10, <2>1 DEF Spine
<1>12. IsTree(f[0]) /\ Shallow(f[0])
  BY <1>1, <1>8, <1>11, SpineShallow
<1>13. ASSUME NEW q \in Dirs
       PROVE  Info(f[0], q) = IF q = p THEN NoInfo ELSE Info(t, q)
  <2>1. Len(q) = n /\ Agree(p, q, n) <=> q = p
    BY DEF Dirs, Agree
  <2>2. Info(f[0], q) = IF Len(q) = n /\ Agree(p, q, n) THEN f[n].info
                        ELSE Info(t, q)
    BY <1>11, SpineInfo
  <2> QED BY <1>2, <1>3, <2>1, <2>2
<1> QED BY <1>2, <1>12, <1>13

-----------------------------------------------------------------------------
(***************************************************************************)
(* The search for the first directory above a path that has something      *)
(* stored.                                                                 *)
(***************************************************************************)

\* What is found at a node, when u is found below; what is stored in the last.
InfoFrom(t, p, k, u) == IF Along(t, p)[k].info # NoInfo THEN Along(t, p)[k].info
                        ELSE IF ~Has(Along(t, p)[k], p[k + 1]) THEN NoInfo ELSE u

LastInfo(t, p) == Along(t, p)[Len(p)].info

Prefixes(t, p) ==
  CHOOSE f : f = [k \in 0 .. Len(p) |-> IF k = Len(p) THEN LastInfo(t, p)
                                        ELSE InfoFrom(t, p, k, f[k + 1])]

LEMMA PrefixesRec ==
  ASSUME NEW t, NEW p, Len(p) \in Nat
  PROVE  LET f == Prefixes(t, p)
             n == Len(p)
         IN /\ tree_find_prefix(t, p) = f[0] /\ f[n] = LastInfo(t, p)
            /\ \A k \in 0 .. n - 1 : f[k] = InfoFrom(t, p, k, f[k + 1])
<1> DEFINE n == Len(p)
           node == LastInfo(t, p)
           R(k, u) == InfoFrom(t, p, k, u)
           Q(f, i) == /\ DOMAIN f = i .. n /\ f[n] = node
                      /\ \A k \in i .. n - 1 : f[k] = R(k, f[k + 1])
           P(f) == f = [k \in 0 .. n |-> IF k = n THEN node ELSE R(k, f[k + 1])]
           S == {m \in Nat : m <= n => \E f : Q(f, n - m)
                                              /\ f = [k \in (n - m) .. n |-> f[k]]}
<1>0. n \in Nat
  OBVIOUS
<1> HIDE DEF R, n, node
<1>1. 0 \in S
  <2> DEFINE f == [k \in n .. n |-> node]
  <2>1. /\ DOMAIN f = (n - 0) .. n /\ f[n] = node
        /\ f = [k \in (n - 0) .. n |-> f[k]]
        /\ \A k \in (n - 0) .. n - 1 : FALSE
    BY <1>0
  <2> HIDE DEF f
  <2> QED BY <2>1
<1>2. ASSUME NEW m \in Nat, m \in S
      PROVE  m + 1 \in S
  <2> SUFFICES ASSUME m + 1 <= n
               PROVE  \E f : Q(f, n - (m + 1))
                             /\ f = [k \in (n - (m + 1)) .. n |-> f[k]]
    OBVIOUS
  <2>1. PICK f : Q(f, n - m)
    BY <1>0, <1>2
  <2> DEFINE i == n - (m + 1)
             g == [k \in i .. n |-> IF k = i THEN R(i, f[i + 1]) ELSE f[k]]
  <2>2. /\ n - m = i + 1 /\ i \in Nat /\ i < n
        /\ \A k \in i + 1 .. n - 1 : k \in i .. n /\ k # i
                                     /\ k + 1 \in i .. n /\ k + 1 # i
        /\ i + 1 \in i .. n /\ i + 1 # i /\ n \in i .. n /\ n # i
        /\ \A k \in i .. n - 1 : k = i \/ k \in i + 1 .. n - 1
    BY <1>0
  <2> HIDE DEF i
  <2>3. Q(f, i + 1)
    BY <2>1, <2>2
  <2>4. /\ DOMAIN g = i .. n /\ g = [k \in i .. n |-> g[k]]
        /\ g[i] = R(i, f[i + 1])
        /\ \A k \in i .. n : k # i => g[k] = f[k]
    BY <1>0, <2>2
  <2> HIDE DEF g
  <2>5. Q(g, i)
    BY <2>2, <2>3, <2>4
  <2> QED BY <2>4, <2>5 DEF i
<1>3. n \in S
  <2> HIDE DEF S
  <2> QED BY <1>0, <1>1, <1>2, NatSetInduction
<1>4. PICK g : Q(g, 0) /\ g = [k \in 0 .. n |-> g[k]]
  BY <1>0, <1>3
<1>5. P(g)
  <2>1. ASSUME NEW k \in 0 .. n
        PROVE  g[k] = IF k = n THEN node ELSE R(k, g[k + 1])
    <3>1. k # n => k \in 0 .. n - 1
      BY <1>0
    <3> QED BY <1>4, <3>1
  <2> QED BY <1>4, <2>1
<1> DEFINE F == Prefixes(t, p)
<1>6. P(F)
  <2>1. F = CHOOSE f : P(f)
    BY DEF Prefixes, R, n, node
  <2> HIDE DEF P, F
  <2> QED BY <1>5, <2>1
<1>7. tree_find_prefix(t, p) = F[0]
  <2> DEFINE W(f, k) == IF Along(t, p)[k].info # NoInfo THEN Along(t, p)[k].info
                        ELSE IF k = Len(p) \/ ~Has(Along(t, p)[k], p[k + 1])
                             THEN NoInfo ELSE f[k + 1]
  <2>1. tree_find_prefix(t, p) = (CHOOSE f : f = [k \in 0 .. Len(p) |-> W(f, k)])[0]
    BY DEF tree_find_prefix
  <2>2. \A f : \A k \in 0 .. Len(p) :
          W(f, k) = IF k = Len(p) THEN LastInfo(t, p) ELSE InfoFrom(t, p, k, f[k + 1])
    BY DEF InfoFrom, LastInfo
  <2> HIDE DEF W
  <2>3. \A f : [k \in 0 .. Len(p) |-> W(f, k)] =
               [k \in 0 .. Len(p) |-> IF k = Len(p) THEN LastInfo(t, p)
                                      ELSE InfoFrom(t, p, k, f[k + 1])]
    BY ONLY <2>2
  <2>4. (CHOOSE f : f = [k \in 0 .. Len(p) |-> W(f, k)]) = Prefixes(t, p)
    BY ONLY <2>3 DEF Prefixes
  <2> QED BY ONLY <2>1, <2>4 DEF F
<1> HIDE DEF F
<1>8. F[n] = node /\ \A k \in 0 .. n - 1 : F[k] = R(k, F[k + 1])
  <2>1. n \in 0 .. n /\ \A k \in 0 .. n - 1 : k \in 0 .. n /\ k # n
    BY <1>0
  <2> QED BY <1>6, <2>1
<1> QED BY <1>7, <1>8 DEF F, R, n, node

\* tree_find_prefix answers exactly when the path or a directory above it has
\* something stored, and with that.
THEOREM PrefixFacts ==
  ASSUME NEW t, IsTree(t), NEW p \in Dirs
  PROVE  LET i == tree_find_prefix(t, p)
         IN IF i = NoInfo
            THEN \A k \in 0 .. Len(p) : Along(t, p)[k].info = NoInfo
            ELSE \E k \in 0 .. Len(p) : Along(t, p)[k].info = i
<1> DEFINE n == Len(p)
           A == Along(t, p)
           f == Prefixes(t, p)
           Good(k) == IF f[k] = NoInfo
                      THEN \A j \in k .. n : A[j].info = NoInfo
                      ELSE \E j \in k .. n : A[j].info = f[k]
           S == {m \in Nat : m <= n => Good(n - m)}
<1>1. n \in Nat /\ n \in 0 .. n
  BY DirNames
<1>2. /\ tree_find_prefix(t, p) = f[0] /\ f[n] = A[n].info
      /\ \A k \in 0 .. n - 1 : f[k] = InfoFrom(t, p, k, f[k + 1])
  BY <1>1, PrefixesRec DEF LastInfo
<1>3. ASSUME NEW k \in 0 .. n - 1, ~Has(A[k], p[k + 1]), NEW j \in k + 1 .. n
      PROVE  A[j].info = NoInfo
  <2>1. k + 1 \in 1 .. n /\ (k + 1) - 1 = k /\ k \in 0 .. n /\ k + 1 \in 0 .. n
    BY <1>1
  <2>2. IsTree(A[k]) /\ p[k + 1] \in Names /\ A[k + 1] = Down(A[k], p[k + 1])
    BY <2>1, AlongRec, DirNames
  <2>3. A[k + 1] = EmptyTree
    BY <1>3, <2>2, DownFacts
  <2>4. A[j] = EmptyTree
    BY <2>1, <2>3, EmptyOn
  <2> QED BY <2>4, DownEmpty
<1> HIDE DEF f
<1>4. 0 \in S
  BY <1>1, <1>2
<1>5. ASSUME NEW m \in Nat, m \in S
      PROVE  m + 1 \in S
  <2> SUFFICES ASSUME m + 1 <= n
               PROVE  Good(n - (m + 1))
    OBVIOUS
  <2> DEFINE k == n - (m + 1)
  <2>1. k \in 0 .. n - 1 /\ k + 1 = n - m /\ m <= n
    BY <1>1
  <2>2. Good(k + 1)
    BY <1>5, <2>1
  <2> HIDE DEF k, S
  <2>3. f[k] = IF A[k].info # NoInfo THEN A[k].info
               ELSE IF ~Has(A[k], p[k + 1]) THEN NoInfo ELSE f[k + 1]
    BY <1>2, <2>1 DEF InfoFrom
  <2>4. /\ \A j \in k .. n : j = k \/ j \in k + 1 .. n
        /\ k \in k .. n /\ \A j \in k + 1 .. n : j \in k .. n
    BY <1>1, <2>1
  <2> HIDE DEF A
  <2>5. CASE A[k].info # NoInfo
    <3>1. f[k] # NoInfo /\ A[k].info = f[k]
      BY <2>3, <2>5
    <3>2. Good(k)
      BY <2>4, <3>1
    <3> QED BY <3>2 DEF k
  <2>6. CASE A[k].info = NoInfo /\ ~Has(A[k], p[k + 1])
    <3>1. f[k] = NoInfo
      BY <2>3, <2>6
    <3>2. \A j \in k .. n : A[j].info = NoInfo
      BY <1>3, <2>1, <2>4, <2>6
    <3> QED BY <3>1, <3>2 DEF k
  <2>7. CASE A[k].info = NoInfo /\ Has(A[k], p[k + 1])
    BY <2>2, <2>3, <2>4, <2>7 DEF k
  <2> QED BY <2>5, <2>6, <2>7 DEF k
<1>6. Good(0)
  <2>1. n \in S
    <3> HIDE DEF S
    <3> QED BY <1>1, <1>4, <1>5, NatSetInduction
  <2> QED BY <1>1, <2>1
<1> QED BY <1>2, <1>6

\* What the first names of a directory lead to.
LEMMA AlongPrefix ==
  ASSUME NEW t, IsTree(t), NEW p \in Dirs, NEW q \in Dirs,
         Len(q) <= Len(p), SubSeq(p, 1, Len(q)) = q
  PROVE  Info(t, q) = Along(t, p)[Len(q)].info /\ Len(q) \in 0 .. Len(p)
<1>1. Len(q) \in Nat /\ Len(q) <= Len(q) /\ Len(p) \in Nat
  BY DirNames
<1>2. Agree(p, q, Len(q))
  BY <1>1 DEF Agree, Dirs
<1>3. Along(t, p)[Len(q)] = Along(t, q)[Len(q)]
  BY <1>1, <1>2, AlongAgree
<1> QED BY <1>1, <1>3 DEF Info

LEMMA FirstNames ==
  ASSUME NEW p \in Dirs, NEW k \in 0 .. Len(p)
  PROVE  /\ SubSeq(p, 1, k) \in Dirs /\ Len(SubSeq(p, 1, k)) = k
         /\ \A i \in 1 .. k : SubSeq(p, 1, k)[i] = p[i]
BY SubSeqProperties DEF Dirs

-----------------------------------------------------------------------------
(***************************************************************************)
(* The paths with something stored, level by level.                        *)
(***************************************************************************)

LEMMA NamedIs ==
  ASSUME NEW T, Closed(T), NEW t \in T
  PROVE  /\ \A e \in Named(t) : /\ e \in [name : Names, node : T]
                                /\ Has(t, e.name) /\ e.node = Below(t, e.name)
         /\ \A x \in Names : Has(t, x) =>
              \E e \in Named(t) : e.name = x /\ e.node = Below(t, x)
<1>1. /\ DOMAIN t.children = Buckets
      /\ \A b \in Buckets : IsChain(t.children[b], b, T)
  BY NodeParts DEF Closed
<1>2. ASSUME NEW e \in Named(t)
      PROVE  /\ e \in [name : Names, node : T]
             /\ Has(t, e.name) /\ e.node = Below(t, e.name)
  <2>1. PICK b \in Buckets : \E i \in DOMAIN t.children[b] : e = t.children[b][i]
    BY DEF Named
  <2>2. PICK i \in DOMAIN t.children[b] : e = t.children[b][i]
    BY <2>1
  <2> DEFINE c == t.children[b]
  <2>3. IsChain(c, b, T)
    BY <1>1
  <2>4. /\ e = [name |-> e.name, node |-> e.node]
        /\ e.name \in Names /\ e.node \in T
    BY <2>2, <2>3, ChainHas
  <2>5. get_key(e.name) = b
    BY <2>2, <2>3 DEF IsChain
  <2>6. Chain(t, e.name) = c
    BY <2>5 DEF Chain
  <2>7. Places(c, e.name) # {} /\ Place(c, e.name) = i
    BY <2>2, <2>3, ChainLook
  <2> HIDE DEF c
  <2>8. Has(t, e.name) /\ e.node = Below(t, e.name)
    BY <2>2, <2>6, <2>7 DEF Has, Below, c
  <2>9. e \in [name : Names, node : T]
    BY ONLY <2>4
  <2> QED BY <2>8, <2>9
<1>3. ASSUME NEW x \in Names, Has(t, x)
      PROVE  \E e \in Named(t) : e.name = x /\ e.node = Below(t, x)
  <2> DEFINE b == get_key(x)
             c == t.children[b]
             i == Place(c, x)
  <2>1. b \in Buckets /\ c = Chain(t, x)
    BY KeyIn DEF Names, Chain
  <2>2. IsChain(c, b, T) /\ Places(c, x) # {}
    BY <1>1, <1>3, <2>1 DEF Has
  <2>3. i \in DOMAIN c /\ c[i].name = x
    BY <2>2, ChainHas
  <2>4. c[i] \in Named(t)
    BY <2>1, <2>3 DEF Named
  <2>5. c[i].node = Below(t, x)
    BY <2>1 DEF Below
  <2> QED BY <2>3, <2>4, <2>5
<1> QED BY <1>2, <1>3

\* The nodes on a level, and those below them.
Lower(X) == UNION {{[path |-> Append(u.path, e.name), node |-> e.node]
                      : e \in Named(u.node)} : u \in X}

Level(t) == CHOOSE f : f = [k \in Nat |->
                              IF k = 0 THEN {[path |-> <<>>, node |-> t]}
                              ELSE Lower(f[k - 1])]

LEMMA DirMore ==
  ASSUME NEW q \in Dirs, NEW x \in Names
  PROVE  /\ Append(q, x) \in Dirs /\ Len(Append(q, x)) = Len(q) + 1
         /\ \A i \in 1 .. Len(q) : Append(q, x)[i] = q[i]
         /\ Append(q, x)[Len(q) + 1] = x
BY AppendProperties DEF Dirs

LEMMA LowerItems ==
  ASSUME NEW X, NEW w
  PROVE  w \in Lower(X) <=>
           \E u \in X : \E e \in Named(u.node) :
             w = [path |-> Append(u.path, e.name), node |-> e.node]
BY DEF Lower

LEMMA LevelRec ==
  ASSUME NEW t, IsTree(t)
  PROVE  /\ Level(t)[0] = {[path |-> <<>>, node |-> t]}
         /\ \A k \in Nat : Level(t)[k + 1] = Lower(Level(t)[k])
<1>1. PICK T : Closed(T) /\ t \in T
  BY DEF IsTree
<1> DEFINE E == [path : Dirs, node : T]
           V == SUBSET E
           v == {[path |-> <<>>, node |-> t]}
           step == [X \in V |-> Lower(X)]
           P(f) == f = [k \in Nat |-> IF k = 0 THEN v ELSE Lower(f[k - 1])]
<1>2. v \in V
  <2>1. <<>> \in Dirs
    BY DEF Dirs
  <2> QED BY <1>1, <2>1
<1>3. ASSUME NEW X \in V
      PROVE  Lower(X) \in V
  <2>1. ASSUME NEW u \in X, NEW e \in Named(u.node)
        PROVE  [path |-> Append(u.path, e.name), node |-> e.node] \in E
    <3>1. u \in [path : Dirs, node : T]
      OBVIOUS
    <3>2. u.path \in Dirs /\ u.node \in T
      BY ONLY <3>1
    <3>3. e.name \in Names /\ e.node \in T
      BY <1>1, <3>2, NamedIs
    <3>4. Append(u.path, e.name) \in Dirs
      BY <3>2, <3>3, DirMore
    <3> DEFINE m == Append(u.path, e.name)
               z == e.node
    <3> HIDE DEF m, z
    <3>5. [path |-> m, node |-> z] \in E
      BY <3>3, <3>4 DEF m, z
    <3> QED BY <3>5 DEF m, z
  <2>2. \A w \in Lower(X) : w \in E
    <3> HIDE DEF E
    <3> QED BY <2>1, LowerItems
  <2> QED BY <2>2
<1>4. step \in [V -> V]
  <2> HIDE DEF V
  <2> QED BY <1>3
<1>5. PICK g : /\ g \in [Nat -> V] /\ g[0] = v
               /\ \A k \in Nat \ {0} : g[k] = step[g[k - 1]]
  <2> HIDE DEF V, v, step
  <2> QED BY <1>2, <1>4, Iteration
<1>6. P(g)
  <2>1. ASSUME NEW k \in Nat
        PROVE  g[k] = IF k = 0 THEN v ELSE Lower(g[k - 1])
    <3>1. k # 0 => k - 1 \in Nat /\ k \in Nat \ {0}
      OBVIOUS
    <3> HIDE DEF V, v
    <3> QED BY <1>5, <3>1
  <2> HIDE DEF V, v
  <2> QED BY <1>5, <2>1
<1> DEFINE F == Level(t)
<1>7. P(F)
  <2>1. F = CHOOSE f : P(f)
    BY DEF Level
  <2> HIDE DEF P, F
  <2> QED BY <1>6, <2>1
<1> HIDE DEF F, v
<1>8. F[0] = v /\ \A k \in Nat : F[k + 1] = Lower(F[k])
  <2>1. \A k \in Nat : k + 1 \in Nat /\ k + 1 # 0 /\ (k + 1) - 1 = k
    OBVIOUS
  <2> QED BY <1>7, <2>1
<1> QED BY <1>8 DEF F, v

-----------------------------------------------------------------------------
\* Every node on the way is there.
Full(t, q) == \A j \in 0 .. Len(q) - 1 : Has(Along(t, q)[j], q[j + 1])

LEMMA InfoFull ==
  ASSUME NEW t, IsTree(t), NEW q \in Dirs, Info(t, q) # NoInfo
  PROVE  Full(t, q)
<1> SUFFICES ASSUME NEW j \in 0 .. Len(q) - 1, ~Has(Along(t, q)[j], q[j + 1])
             PROVE  FALSE
  BY DEF Full
<1> DEFINE n == Len(q)
<1>1. /\ n \in Nat /\ j + 1 \in 1 .. n /\ (j + 1) - 1 = j
      /\ j \in 0 .. n /\ j + 1 \in 0 .. n /\ n \in j + 1 .. n
  BY DirNames
<1>2. /\ IsTree(Along(t, q)[j]) /\ q[j + 1] \in Names
      /\ Along(t, q)[j + 1] = Down(Along(t, q)[j], q[j + 1])
  BY <1>1, AlongRec, DirNames
<1>3. Along(t, q)[j + 1] = EmptyTree
  BY <1>2, DownFacts
<1>4. Along(t, q)[n] = EmptyTree
  BY <1>1, <1>3, EmptyOn
<1> QED BY <1>4, DownEmpty DEF Info

\* One name more.
LEMMA FullMore ==
  ASSUME NEW t, IsTree(t), NEW q \in Dirs, NEW x \in Names
  PROVE  LET r == Append(q, x)
             a == Along(t, q)[Len(q)]
         IN /\ Along(t, r)[Len(q) + 1] = Down(a, x)
            /\ Full(t, r) <=> Full(t, q) /\ Has(a, x)
<1> DEFINE r == Append(q, x)
           n == Len(q)
<1>1. /\ r \in Dirs /\ Len(r) = n + 1 /\ n \in Nat
      /\ \A i \in 1 .. n : r[i] = q[i]
      /\ r[n + 1] = x
  BY DirMore, DirNames
<1> HIDE DEF r
<1>2. \A j \in 0 .. n : Along(t, r)[j] = Along(t, q)[j]
  <2>1. ASSUME NEW j \in 0 .. n
        PROVE  j \in Nat /\ j <= Len(r) /\ j <= Len(q) /\ Agree(r, q, j)
    BY <1>1 DEF Agree
  <2> QED BY <1>1, <2>1, AlongAgree
<1>3. Along(t, r)[n + 1] = Down(Along(t, q)[n], x)
  <2>1. n + 1 \in 1 .. Len(r) /\ (n + 1) - 1 = n /\ n \in 0 .. n
    BY <1>1
  <2>2. Along(t, r)[n + 1] = Down(Along(t, r)[(n + 1) - 1], r[n + 1])
    BY <1>1, <2>1, AlongRec
  <2> QED BY <1>1, <1>2, <2>1, <2>2
<1>4. Full(t, r) <=> Full(t, q) /\ Has(Along(t, q)[n], x)
  <2>1. /\ \A j \in 0 .. Len(r) - 1 : j \in 0 .. n /\ (j = n \/ j \in 0 .. n - 1)
        /\ \A j \in 0 .. n - 1 : j \in 0 .. Len(r) - 1 /\ j \in 0 .. n
                                 /\ j + 1 \in 1 .. n
        /\ n \in 0 .. Len(r) - 1 /\ n \in 0 .. n
    BY <1>1
  <2>2. \A j \in 0 .. n - 1 : Has(Along(t, r)[j], r[j + 1])
                              <=> Has(Along(t, q)[j], q[j + 1])
    BY <1>1, <1>2, <2>1
  <2>3. Has(Along(t, r)[n], r[n + 1]) <=> Has(Along(t, q)[n], x)
    BY <1>1, <1>2, <2>1
  <2> QED BY <2>1, <2>2, <2>3 DEF Full
<1> QED BY <1>3, <1>4 DEF r

LEMMA LevelSound ==
  ASSUME NEW t, IsTree(t), NEW k \in Nat
  PROVE  \A u \in Level(t)[k] :
           /\ u.path \in Dirs /\ Len(u.path) = k /\ Full(t, u.path)
           /\ u = [path |-> u.path, node |-> Along(t, u.path)[k]]
<1> DEFINE Good(u, i) == /\ u.path \in Dirs /\ Len(u.path) = i /\ Full(t, u.path)
                         /\ u = [path |-> u.path, node |-> Along(t, u.path)[i]]
           S == {i \in Nat : \A u \in Level(t)[i] : Good(u, i)}
<1>1. 0 \in S
  <2>1. ASSUME NEW u \in Level(t)[0]
        PROVE  Good(u, 0)
    <3>1. u = [path |-> <<>>, node |-> t]
      BY <2>1, LevelRec
    <3>2. <<>> \in Dirs /\ Len(<<>>) = 0
      BY DEF Dirs
    <3>3. Along(t, <<>>)[0] = t
      BY <3>2, AlongRec
    <3>4. u.path = <<>> /\ u = [path |-> u.path, node |-> t]
      BY <3>1
    <3>5. Full(t, <<>>)
      BY <3>2 DEF Full
    <3> QED BY <3>2, <3>3, <3>4, <3>5
  <2> QED BY <2>1
<1>2. ASSUME NEW i \in Nat, i \in S
      PROVE  i + 1 \in S
  <2>1. ASSUME NEW w \in Level(t)[i + 1]
        PROVE  Good(w, i + 1)
    <3>1. PICK u \in Level(t)[i] : \E e \in Named(u.node) :
                 w = [path |-> Append(u.path, e.name), node |-> e.node]
      <4>1. Level(t)[i + 1] = Lower(Level(t)[i])
        BY LevelRec
      <4>2. w \in Lower(Level(t)[i])
        BY <4>1
      <4> QED BY <4>2, LowerItems
    <3>2. PICK e \in Named(u.node) :
                 w = [path |-> Append(u.path, e.name), node |-> e.node]
      BY <3>1
    <3>3. Good(u, i)
      BY <1>2
    <3> DEFINE q == u.path
               a == Along(t, q)[i]
               r == Append(q, e.name)
    <3>4. /\ q \in Dirs /\ Len(q) = i /\ Full(t, q) /\ u.node = a
      <4>1. \A x, y, z : z = [path |-> x, node |-> y] => z.node = y
        OBVIOUS
      <4> QED BY <3>3, <4>1
    <3> HIDE DEF Good, S
    <3>5. IsTree(a)
      BY <3>4, AlongRec
    <3>6. e.name \in Names /\ Has(a, e.name) /\ e.node = Below(a, e.name)
      <4>1. PICK T : a \in T /\ Closed(T)
        BY <3>5 DEF IsTree
      <4>2. e \in [name : Names, node : T] /\ Has(a, e.name) /\ e.node = Below(a, e.name)
        BY <3>4, <4>1, NamedIs
      <4>3. e.name \in Names
        BY ONLY <4>2
      <4> QED BY <4>2, <4>3
    <3>7. e.node = Down(a, e.name)
      BY <3>5, <3>6, DownFacts
    <3>8. /\ Along(t, r)[i + 1] = Down(a, e.name)
          /\ Full(t, r)
      BY <3>4, <3>6, FullMore
    <3>9. r \in Dirs /\ Len(r) = i + 1
      BY <3>4, <3>6, DirMore
    <3>10. w = [path |-> r, node |-> Along(t, r)[i + 1]]
      BY <3>2, <3>7, <3>8
    <3> HIDE DEF r, a, q
    <3>11. w.path = r
      BY <3>10
    <3> QED BY <3>8, <3>9, <3>10, <3>11 DEF Good
  <2> QED BY <2>1
<1> HIDE DEF S, Good
<1>3. k \in S
  BY <1>1, <1>2, NatSetInduction
<1> QED BY <1>3 DEF S, Good

LEMMA LevelComplete ==
  ASSUME NEW t, IsTree(t), NEW k \in Nat
  PROVE  \A q \in Dirs : Len(q) = k /\ Full(t, q) =>
           [path |-> q, node |-> Along(t, q)[k]] \in Level(t)[k]
<1> DEFINE Good(q, i) == [path |-> q, node |-> Along(t, q)[i]] \in Level(t)[i]
           S == {i \in Nat : \A q \in Dirs : Len(q) = i /\ Full(t, q) => Good(q, i)}
<1>1. 0 \in S
  <2>1. ASSUME NEW q \in Dirs, Len(q) = 0
        PROVE  Good(q, 0)
    <3>1. q = <<>>
      BY <2>1 DEF Dirs
    <3>2. Along(t, q)[0] = t
      BY AlongRec
    <3> QED BY <3>1, <3>2, LevelRec
  <2> QED BY <2>1
<1>2. ASSUME NEW i \in Nat, i \in S
      PROVE  i + 1 \in S
  <2>1. ASSUME NEW r \in Dirs, Len(r) = i + 1, Full(t, r)
        PROVE  Good(r, i + 1)
    <3> DEFINE q == SubSeq(r, 1, i)
               x == r[i + 1]
               a == Along(t, q)[i]
    <3>1. i \in 0 .. Len(r) /\ i + 1 \in 1 .. Len(r)
      BY <2>1
    <3>2. /\ q \in Dirs /\ Len(q) = i /\ \A j \in 1 .. i : q[j] = r[j]
          /\ x \in Names
      BY <3>1, FirstNames, DirNames
    <3> HIDE DEF q, x
    <3>3. r = Append(q, x)
      <4>1. /\ Append(q, x) \in Dirs /\ Len(Append(q, x)) = i + 1
            /\ \A j \in 1 .. i : Append(q, x)[j] = q[j]
            /\ Append(q, x)[i + 1] = x
        BY <3>2, DirMore
      <4> DEFINE s == Append(q, x)
      <4> HIDE DEF s
      <4>2. s \in Dirs /\ Len(s) = i + 1
            /\ \A j \in 1 .. i + 1 : s[j] = r[j]
        <5>1. \A j \in 1 .. i + 1 : j \in 1 .. i \/ j = i + 1
          OBVIOUS
        <5> QED BY <3>2, <4>1, <5>1 DEF s, x
      <4>3. r = s
        BY <2>1, <4>2 DEF Dirs
      <4> QED BY <4>3 DEF s
    <3>4. /\ Along(t, r)[i + 1] = Down(a, x)
          /\ Full(t, q) /\ Has(a, x)
      BY <2>1, <3>2, <3>3, FullMore
    <3>5. [path |-> q, node |-> a] \in Level(t)[i]
      BY <1>2, <3>2, <3>4
    <3>6. IsTree(a)
      BY <3>2, AlongRec
    <3> DEFINE u == [path |-> q, node |-> a]
    <3>7. PICK T : a \in T /\ Closed(T)
      BY <3>6 DEF IsTree
    <3>8. PICK e \in Named(a) : e.name = x /\ e.node = Below(a, x)
      BY <3>2, <3>4, <3>7, NamedIs
    <3>9. e.node = Along(t, r)[i + 1]
      BY <3>2, <3>4, <3>6, <3>8, DownFacts
    <3> HIDE DEF a, S
    <3>10. u.path = q /\ u.node = a
      OBVIOUS
    <3> HIDE DEF u
    <3> DEFINE w == [path |-> r, node |-> Along(t, r)[i + 1]]
    <3>11. w = [path |-> Append(u.path, e.name), node |-> e.node]
      BY <3>3, <3>8, <3>9, <3>10
    <3> HIDE DEF w
    <3>12. u \in Level(t)[i] /\ e \in Named(u.node)
      BY <3>5, <3>8, <3>10 DEF u
    <3>13. w \in Lower(Level(t)[i])
      BY <3>11, <3>12, LowerItems
    <3>14. w \in Level(t)[i + 1]
      BY <3>13, LevelRec
    <3> QED BY <3>14 DEF w
  <2> QED BY <2>1
<1> HIDE DEF S, Good
<1>3. k \in S
  BY <1>1, <1>2, NatSetInduction
<1> QED BY <1>3 DEF S, Good

-----------------------------------------------------------------------------
\* The union of levels, the last of which is empty.
Froms(L) == CHOOSE f : f = [k \in Nat |-> IF L[k] = {} THEN {}
                                          ELSE L[k] \cup f[k + 1]]

LEMMA FromsUnion ==
  ASSUME NEW L, \A k \in Nat : L[k] = {} => L[k + 1] = {},
         NEW d \in Nat, L[d] = {}
  PROVE  \A u : u \in Froms(L)[0] <=> \E k \in Nat : u \in L[k]
<1> DEFINE P(f) == f = [k \in Nat |-> IF L[k] = {} THEN {} ELSE L[k] \cup f[k + 1]]
           G(k) == UNION {L[j] : j \in {i \in Nat : k <= i}}
           g == [k \in Nat |-> G(k)]
           F == Froms(L)
<1>1. ASSUME NEW k \in Nat, NEW j \in Nat, k <= j, L[k] = {}
      PROVE  L[j] = {}
  <2> DEFINE S == {i \in Nat : k <= i => L[i] = {}}
  <2>1. 0 \in S
    BY <1>1
  <2>2. ASSUME NEW i \in Nat, i \in S
        PROVE  i + 1 \in S
    <3>1. k <= i + 1 => k <= i \/ k = i + 1
      OBVIOUS
    <3> QED BY <1>1, <2>2, <3>1
  <2> HIDE DEF S
  <2>3. j \in S
    BY <2>1, <2>2, NatSetInduction
  <2> QED BY <1>1, <2>3 DEF S
<1>2. \A k \in Nat : G(k) = L[k] \cup G(k + 1)
  <2> SUFFICES ASSUME NEW k \in Nat
               PROVE  {i \in Nat : k <= i} = {k} \cup {i \in Nat : k + 1 <= i}
    OBVIOUS
  <2> QED OBVIOUS
<1>3. \A k \in Nat : L[k] = {} => G(k) = {}
  BY <1>1
<1>4. P(g)
  <2> HIDE DEF G
  <2>1. \A k \in Nat : k + 1 \in Nat
    OBVIOUS
  <2>2. \A k \in Nat : g[k] = IF L[k] = {} THEN {} ELSE L[k] \cup g[k + 1]
    BY <1>2, <1>3, <2>1
  <2> QED BY <2>2
<1>5. P(F)
  <2>1. F = CHOOSE f : P(f)
    BY DEF Froms
  <2> HIDE DEF P, F, g
  <2> QED BY <1>4, <2>1
<1> HIDE DEF F
<1>6. \A k \in Nat : F[k] = IF L[k] = {} THEN {} ELSE L[k] \cup F[k + 1]
  BY <1>5
<1> HIDE DEF P
<1> DEFINE S == {m \in Nat : m <= d => F[d - m] = G(d - m)}
<1>7. 0 \in S
  <2>1. F[d] = {} /\ G(d) = {}
    BY <1>3, <1>6
  <2>2. d - 0 = d
    OBVIOUS
  <2> HIDE DEF G
  <2> QED BY <2>1, <2>2
<1>8. ASSUME NEW m \in Nat, m \in S
      PROVE  m + 1 \in S
  <2> SUFFICES ASSUME m + 1 <= d
               PROVE  F[d - (m + 1)] = G(d - (m + 1))
    OBVIOUS
  <2> DEFINE k == d - (m + 1)
  <2>1. k \in Nat /\ k + 1 = d - m /\ m <= d
    OBVIOUS
  <2> HIDE DEF G
  <2>2. F[k + 1] = G(k + 1)
    BY <1>8, <2>1
  <2> HIDE DEF k, S
  <2>3. F[k] = G(k)
    <3>1. CASE L[k] = {}
      BY <1>3, <1>6, <2>1, <3>1
    <3>2. CASE L[k] # {}
      <4>1. F[k] = L[k] \cup F[k + 1]
        BY <1>6, <2>1, <3>2
      <4>2. G(k) = L[k] \cup G(k + 1)
        BY <1>2, <2>1
      <4> QED BY <2>2, <4>1, <4>2
    <3> QED BY <3>1, <3>2
  <2> QED BY <2>3 DEF k
<1>9. F[0] = G(0)
  <2>1. d \in S
    <3> HIDE DEF S
    <3> QED BY <1>7, <1>8, NatSetInduction
  <2> HIDE DEF G
  <2>2. d <= d /\ d - d = 0
    OBVIOUS
  <2> QED BY <2>1, <2>2
<1>10. \A u : u \in G(0) <=> \E k \in Nat : u \in L[k]
  OBVIOUS
<1> QED BY <1>9, <1>10 DEF F

\* The paths that the levels of the tree list are those with something stored.
THEOREM StoredIs ==
  ASSUME NEW t, IsTree(t), Shallow(t)
  PROVE  \A r : r \in Stored(t) <=>
           \E q \in Dirs : Info(t, q) # NoInfo /\ r = [path |-> q, id |-> Info(t, q)]
<1> DEFINE L == Level(t)
           F == Froms(L)
           X == {u \in F[0] : u.node.info # NoInfo}
<1>1. PICK d \in Nat : \A q \in Dirs : \A k \in 0 .. Len(q) - 1 :
                         Has(Along(t, q)[k], q[k + 1]) => k < d
  BY DEF Shallow
<1>2. L[d + 1] = {}
  <2> SUFFICES ASSUME NEW u \in L[d + 1]
               PROVE  FALSE
    OBVIOUS
  <2> DEFINE q == u.path
  <2>1. q \in Dirs /\ Len(q) = d + 1 /\ Full(t, q)
    BY LevelSound
  <2> HIDE DEF q, L
  <2>2. d \in 0 .. Len(q) - 1
    BY <2>1
  <2>3. Has(Along(t, q)[d], q[d + 1])
    BY <2>1, <2>2 DEF Full
  <2>4. d < d
    BY <1>1, <2>1, <2>2, <2>3
  <2> QED BY <2>4
<1>3. \A k \in Nat : L[k] = {} => L[k + 1] = {}
  <2>1. Lower({}) = {}
    BY DEF Lower
  <2>2. \A k \in Nat : L[k + 1] = Lower(L[k])
    BY LevelRec
  <2> HIDE DEF L
  <2> QED BY <2>1, <2>2
<1>4. \A u : u \in F[0] <=> \E k \in Nat : u \in L[k]
  <2>1. d + 1 \in Nat
    OBVIOUS
  <2> HIDE DEF L
  <2> QED BY <1>2, <1>3, <2>1, FromsUnion
<1>5. Stored(t) = {[path |-> u.path, id |-> u.node.info] : u \in X}
  BY DEF Stored, Froms, Level, Lower
<1>6. ASSUME NEW u \in X
      PROVE  /\ u.path \in Dirs /\ u.node.info = Info(t, u.path)
             /\ Info(t, u.path) # NoInfo
  <2>1. PICK k \in Nat : u \in L[k]
    BY <1>4
  <2>2. /\ u.path \in Dirs /\ Len(u.path) = k
        /\ u = [path |-> u.path, node |-> Along(t, u.path)[k]]
    BY <2>1, LevelSound
  <2>3. u.node = Along(t, u.path)[k]
    <3>1. \A x, y, z : z = [path |-> x, node |-> y] => z.node = y
      OBVIOUS
    <3> QED BY ONLY <2>2, <3>1
  <2> QED BY <2>2, <2>3 DEF Info
<1>7. ASSUME NEW q \in Dirs, Info(t, q) # NoInfo
      PROVE  \E u \in X : u.path = q /\ u.node.info = Info(t, q)
  <2> DEFINE u == [path |-> q, node |-> Along(t, q)[Len(q)]]
  <2>1. Full(t, q) /\ Len(q) \in Nat
    BY <1>7, InfoFull, DirNames
  <2>2. u \in L[Len(q)]
    BY <2>1, LevelComplete
  <2>3. u \in F[0]
    <3> HIDE DEF u, L, F
    <3> QED BY <1>4, <2>1, <2>2
  <2>4. u.path = q /\ u.node.info = Info(t, q)
    BY DEF Info
  <2> HIDE DEF u, F
  <2> QED BY <1>7, <2>3, <2>4
<1> HIDE DEF X
<1>8. \A r : r \in Stored(t) <=>
        \E u \in X : r = [path |-> u.path, id |-> u.node.info]
  BY <1>5
<1> QED BY <1>6, <1>7, <1>8
=============================================================================

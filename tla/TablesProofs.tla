---------------------------- MODULE TablesProofs ----------------------------
(***************************************************************************)
(* Proofs about module Tables: any number of analyses and of starts, any   *)
(* directories, any priorities, any data file to begin with.               *)
(***************************************************************************)
EXTENDS PathTreeProofs

(***************************************************************************)
(* The cells that the records take.                                        *)
(***************************************************************************)
FlatTo(s) == CHOOSE f : f = [k \in 0 .. Len(s) |-> IF k = 0 THEN <<>>
                                                   ELSE f[k - 1] \o s[k]]

LEMMA FlatRec ==
  ASSUME NEW s \in Seq(Seq(Nat))
  PROVE  /\ Flat(s) = FlatTo(s)[Len(s)]
         /\ FlatTo(s)[0] = <<>>
         /\ \A k \in 1 .. Len(s) : FlatTo(s)[k] = FlatTo(s)[k - 1] \o s[k]
         /\ \A k \in 0 .. Len(s) : FlatTo(s)[k] \in Seq(Nat)
<1> DEFINE n == Len(s)
           V == Seq(Nat)
           H == [x \in (1 .. n) \X V |-> x[2] \o s[x[1]]]
           P(f) == f = [k \in 0 .. Len(s) |-> IF k = 0 THEN <<>>
                                              ELSE f[k - 1] \o s[k]]
<1>1. n \in Nat /\ \A k \in 1 .. n : s[k] \in V
  OBVIOUS
<1>2. IsLoop(n, V, <<>>, H)
  <2>1. ASSUME NEW x \in (1 .. n) \X V
        PROVE  x[2] \o s[x[1]] \in V
    <3>1. x[2] \in V /\ s[x[1]] \in V
      BY <1>1
    <3> HIDE DEF n
    <3> QED BY <3>1, ConcatProperties
  <2>2. H \in [(1 .. n) \X V -> V]
    BY <2>1
  <2>3. <<>> \in V
    OBVIOUS
  <2> HIDE DEF n, V, H
  <2> QED BY <1>1, <2>2, <2>3 DEF IsLoop
<1>3. PICK g : Loop(g, n, V, <<>>, H)
  <2> HIDE DEF n, V, H
  <2> QED BY <1>2, LoopExists
<1>4. /\ g \in [0 .. n -> V] /\ g[0] = <<>>
      /\ \A k \in 1 .. n : g[k] = g[k - 1] \o s[k]
  <2>1. /\ g \in [0 .. n -> V] /\ g[0] = <<>>
        /\ \A k \in 1 .. n : g[k] = H[<<k, g[k - 1]>>]
    <3> HIDE DEF n, V, H
    <3> QED BY <1>3 DEF Loop
  <2>2. ASSUME NEW k \in 1 .. n
        PROVE  g[k] = g[k - 1] \o s[k]
    <3>1. k - 1 \in 0 .. n
      BY <1>1
    <3>2. <<k, g[k - 1]>> \in (1 .. n) \X V
      BY <2>1, <3>1
    <3> QED BY <2>1, <3>2
  <2> QED BY <2>1, <2>2
<1>5. P(g)
  <2> SUFFICES g = [k \in 0 .. n |-> IF k = 0 THEN <<>> ELSE g[k - 1] \o s[k]]
    OBVIOUS
  <2>1. ASSUME NEW k \in 0 .. n
        PROVE  g[k] = IF k = 0 THEN <<>> ELSE g[k - 1] \o s[k]
    <3>1. k # 0 => k \in 1 .. n
      BY <1>1
    <3> HIDE DEF n
    <3> QED BY <1>4, <3>1
  <2> HIDE DEF n
  <2> QED BY <1>4, <2>1
<1> DEFINE F == FlatTo(s)
<1>6. P(F)
  <2>1. F = CHOOSE f : P(f)
    BY DEF FlatTo
  <2> HIDE DEF P, F
  <2> QED BY <1>5, <2>1
<1>7. Flat(s) = F[n]
  BY DEF Flat, FlatTo
<1> HIDE DEF F
<1>8. F[0] = <<>> /\ \A k \in 1 .. n : F[k] = F[k - 1] \o s[k]
  BY <1>6
<1> HIDE DEF P, n, V
<1>9. \A k \in 0 .. n : F[k] \in Seq(Nat)
  <2> DEFINE S == {k \in Nat : k <= n => F[k] \in Seq(Nat)}
  <2>1. 0 \in S
    <3>1. F[0] = <<>> /\ <<>> \in Seq(Nat)
      BY <1>8
    <3> QED BY <3>1
  <2>2. ASSUME NEW k \in Nat, k \in S
        PROVE  k + 1 \in S
    <3> SUFFICES ASSUME k + 1 <= n
                 PROVE  F[k + 1] \in Seq(Nat)
      OBVIOUS
    <3>1. k + 1 \in 1 .. n /\ (k + 1) - 1 = k /\ k <= n
      BY <1>1
    <3>2. F[k] \in Seq(Nat)
      BY <2>2, <3>1
    <3>3. s[k + 1] \in Seq(Nat)
      BY <1>1, <3>1 DEF V
    <3>4. F[k + 1] = F[k] \o s[k + 1]
      BY <1>8, <3>1
    <3> QED BY <3>2, <3>3, <3>4, ConcatProperties
  <2> HIDE DEF S
  <2>3. \A k \in Nat : k \in S
    BY <2>1, <2>2, NatSetInduction
  <2> QED BY <1>1, <2>3 DEF S
<1> QED BY <1>7, <1>8, <1>9 DEF n, F

-----------------------------------------------------------------------------
(***************************************************************************)
(* What is read from a file f.                                              *)
(***************************************************************************)
\* The record that begins at cell c, and the place after it.
RecordAt(f, c) ==
  [id        |-> Cell(f, c),
   path      |-> [j \in 1 .. Cell(f, c + 1) |-> Cell(f, c + 1 + j)],
   status    |-> Cell(f, c + 2 + Cell(f, c + 1)),
   suspended |-> Cell(f, c + 3 + Cell(f, c + 1))]
After(f, c) == c + 4 + Cell(f, c + 1)

ReadTo(f, i, n) ==
  CHOOSE g : g = [k \in 0 .. n |->
    IF k = 0 THEN [cell |-> i, records |-> <<>>]
    ELSE [cell    |-> After(f, g[k - 1].cell),
          records |-> Append(g[k - 1].records, RecordAt(f, g[k - 1].cell))]]
ReadOf(f) == ReadTo(f, 2, Cell(f, 1))[Cell(f, 1)].records

Saveds    == [id : Nat, path : Seq(Nat), status : Nat, suspended : Nat]
Positions == [cell : Nat \ {0}, records : Seq(Saveds)]

LEMMA ReadIs == \A f : Read(f) = ReadOf(f)
BY DEF Read, Records, ReadOf, ReadTo, RecordAt, After

LEMMA CellNat ==
  ASSUME NEW f \in Seq(Nat), NEW i \in Nat \ {0}
  PROVE  Cell(f, i) \in Nat
BY DEF Cell

LEMMA RecordAtSaved ==
  ASSUME NEW f \in Seq(Nat), NEW c \in Nat \ {0}
  PROVE  RecordAt(f, c) \in Saveds /\ After(f, c) \in Nat \ {0}
<1> DEFINE len == Cell(f, c + 1)
           path == [j \in 1 .. len |-> Cell(f, c + 1 + j)]
<1>1. len \in Nat /\ c + 1 \in Nat \ {0}
  BY CellNat
<1> HIDE DEF len
<1>2. path \in Seq(Nat)
  <2>1. ASSUME NEW j \in 1 .. len
        PROVE  Cell(f, c + 1 + j) \in Nat
    <3>1. c + 1 + j \in Nat \ {0}
      BY <1>1
    <3> QED BY <3>1, CellNat
  <2>2. path \in [1 .. len -> Nat]
    BY <2>1
  <2> HIDE DEF path
  <2> QED BY <1>1, <2>2
<1>3. Cell(f, c) \in Nat
  BY CellNat
<1>4. Cell(f, c + 2 + len) \in Nat /\ Cell(f, c + 3 + len) \in Nat
  <2>1. c + 2 + len \in Nat \ {0} /\ c + 3 + len \in Nat \ {0}
    BY <1>1
  <2> QED BY <2>1, CellNat
<1>5. c + 4 + len \in Nat \ {0}
  BY <1>1
<1>6. /\ RecordAt(f, c) = [id |-> Cell(f, c), path |-> path,
                           status |-> Cell(f, c + 2 + len),
                           suspended |-> Cell(f, c + 3 + len)]
      /\ After(f, c) = c + 4 + len
  BY DEF RecordAt, After, len
<1> HIDE DEF path
<1> QED BY <1>2, <1>3, <1>4, <1>5, <1>6 DEF Saveds

LEMMA ReadRec ==
  ASSUME NEW f \in Seq(Nat), NEW i \in Nat \ {0}, NEW n \in Nat
  PROVE  /\ ReadTo(f, i, n)[0] = [cell |-> i, records |-> <<>>]
         /\ \A k \in 1 .. n : ReadTo(f, i, n)[k] =
              [cell    |-> After(f, ReadTo(f, i, n)[k - 1].cell),
               records |-> Append(ReadTo(f, i, n)[k - 1].records,
                                  RecordAt(f, ReadTo(f, i, n)[k - 1].cell))]
         /\ \A k \in 0 .. n : /\ ReadTo(f, i, n)[k] \in Positions
                              /\ Len(ReadTo(f, i, n)[k].records) = k
<1> DEFINE V == Positions
           v == [cell |-> i, records |-> <<>>]
           Onto(r) == [cell    |-> After(f, r.cell),
                       records |-> Append(r.records, RecordAt(f, r.cell))]
           H == [x \in (1 .. n) \X V |-> Onto(x[2])]
           P(g) == g = [k \in 0 .. n |-> IF k = 0 THEN v ELSE Onto(g[k - 1])]
<1>1. ASSUME NEW r \in V
      PROVE  Onto(r) \in V /\ Len(Onto(r).records) = Len(r.records) + 1
  <2>1. r.cell \in Nat \ {0} /\ r.records \in Seq(Saveds)
    BY DEF Positions
  <2>2. RecordAt(f, r.cell) \in Saveds /\ After(f, r.cell) \in Nat \ {0}
    BY <2>1, RecordAtSaved
  <2>3. /\ Append(r.records, RecordAt(f, r.cell)) \in Seq(Saveds)
        /\ Len(Append(r.records, RecordAt(f, r.cell))) = Len(r.records) + 1
    BY <2>1, <2>2, AppendProperties
  <2> QED BY <2>2, <2>3 DEF Positions
<1>2. v \in V /\ Len(v.records) = 0
  BY DEF Positions
<1>3. H \in [(1 .. n) \X V -> V]
  <2> HIDE DEF V, Onto
  <2> QED BY <1>1
<1>4. PICK g : Loop(g, n, V, v, H)
  <2> HIDE DEF V, v, H
  <2>1. IsLoop(n, V, v, H)
    BY <1>2, <1>3 DEF IsLoop
  <2> QED BY <2>1, LoopExists
<1>5. /\ g \in [0 .. n -> V] /\ g[0] = v
      /\ \A k \in 1 .. n : g[k] = H[<<k, g[k - 1]>>]
  <2> HIDE DEF V, v, H
  <2> QED BY <1>4 DEF Loop
<1>6. ASSUME NEW k \in 1 .. n
      PROVE  g[k] = Onto(g[k - 1])
  <2> HIDE DEF V, v, Onto
  <2>1. k - 1 \in 0 .. n
    OBVIOUS
  <2>2. <<k, g[k - 1]>> \in (1 .. n) \X V
    BY <1>5, <2>1
  <2> QED BY <1>5, <2>2
<1>7. P(g)
  <2> HIDE DEF V, v, Onto, H
  <2>1. ASSUME NEW k \in 0 .. n
        PROVE  g[k] = IF k = 0 THEN v ELSE Onto(g[k - 1])
    <3>1. k # 0 => k \in 1 .. n
      OBVIOUS
    <3> QED BY <1>5, <1>6, <3>1
  <2> QED BY <1>5, <2>1
<1> DEFINE F == ReadTo(f, i, n)
<1>8. P(F)
  <2>1. F = CHOOSE h : P(h)
    BY DEF ReadTo
  <2> HIDE DEF P, F
  <2> QED BY <1>7, <2>1
<1> HIDE DEF F, V, v, Onto, H
<1>9. F[0] = v /\ \A k \in 1 .. n : F[k] = Onto(F[k - 1])
  BY <1>8
<1> HIDE DEF P
<1>10. \A k \in 0 .. n : F[k] \in V /\ Len(F[k].records) = k
  <2> DEFINE S == {k \in Nat : k <= n => F[k] \in V /\ Len(F[k].records) = k}
  <2>1. 0 \in S
    BY <1>2, <1>9
  <2>2. ASSUME NEW k \in Nat, k \in S
        PROVE  k + 1 \in S
    <3> SUFFICES ASSUME k + 1 <= n
                 PROVE  F[k + 1] \in V /\ Len(F[k + 1].records) = k + 1
      OBVIOUS
    <3>1. k + 1 \in 1 .. n /\ (k + 1) - 1 = k /\ k <= n
      OBVIOUS
    <3>2. F[k] \in V /\ Len(F[k].records) = k
      BY <2>2, <3>1
    <3>3. F[k + 1] = Onto(F[k])
      BY <1>9, <3>1
    <3> QED BY <1>1, <3>2, <3>3
  <2> HIDE DEF S
  <2>3. \A k \in Nat : k \in S
    BY <2>1, <2>2, NatSetInduction
  <2> QED BY <2>3 DEF S
<1> QED BY <1>9, <1>10 DEF F, V, v, Onto

LEMMA ReadSaved ==
  ASSUME NEW f \in Seq(Nat)
  PROVE  /\ Cell(f, 1) \in Nat
         /\ ReadOf(f) \in Seq(Saveds) /\ Len(ReadOf(f)) = Cell(f, 1)
<1>1. Cell(f, 1) \in Nat
  BY CellNat
<1> DEFINE n == Cell(f, 1)
<1>2. n \in Nat /\ n \in 0 .. n
  BY <1>1
<1> HIDE DEF n
<1>3. ReadTo(f, 2, n)[n] \in Positions /\ Len(ReadTo(f, 2, n)[n].records) = n
  <2>1. 2 \in Nat \ {0} /\ n \in Nat
    BY <1>2
  <2>2. \A k \in 0 .. n : /\ ReadTo(f, 2, n)[k] \in Positions
                          /\ Len(ReadTo(f, 2, n)[k].records) = k
    BY <2>1, ReadRec
  <2> QED BY <1>2, <2>2
<1> QED BY <1>2, <1>3 DEF ReadOf, Positions, n

-----------------------------------------------------------------------------
(***************************************************************************)
(* The tables after the records were inserted one by one, and the pool of  *)
(* the ids that they leave.                                                *)
(***************************************************************************)

SearchTrees == {t \in Trees : Sorted(InOrder(t))}

\* The node that threads_startup makes for the record s[k].
StartNode(s, heap, k) == NewNode(s[k].id, heap[s[k].id], Forked(s[k]))

LEMMA HeapIn ==
  ASSUME NEW heap \in [Ids -> HeapVals], NEW i \in Nat
  PROVE  heap[i] \in Heaps
BY DEF Heaps

LEMMA ForkedAnal ==
  ASSUME NEW r \in Saveds
  PROVE  /\ Forked(r) \in Anals
         /\ Forked(r).path = r.path /\ Forked(r).status = r.status
         /\ Forked(r).suspended = r.suspended
         /\ Forked(r).proc = IF r.status # Complete THEN "runs" ELSE "none"
BY DEF Forked, Anals, Saveds

LEMMA StartNodeLone ==
  ASSUME NEW s \in Seq(Saveds), NEW heap \in [Ids -> HeapVals], NEW k \in 1 .. Len(s)
  PROVE  /\ StartNode(s, heap, k) \in Lone
         /\ StartNode(s, heap, k).id = s[k].id
         /\ StartNode(s, heap, k).anal = Forked(s[k])
         /\ s[k] \in Saveds
<1>1. s[k] \in Saveds
  OBVIOUS
<1>2. s[k].id \in Nat
  BY <1>1 DEF Saveds
<1>3. heap[s[k].id] \in Heaps /\ Forked(s[k]) \in Anals \cup {Null}
  BY <1>1, <1>2, HeapIn, ForkedAnal
<1> QED BY <1>1, <1>2, <1>3, NewNodeLone DEF StartNode

LEMMA InsertSearch ==
  ASSUME NEW t \in SearchTrees, NEW node \in Lone
  PROVE  treap_insert_node(t, node) \in SearchTrees
BY IdsInserted DEF SearchTrees

LEMMA NullSearch ==
  /\ Null \in SearchTrees /\ InOrder(Null) = <<>> /\ Len(InOrder(Null)) = 0
  /\ Elems(InOrder(Null)) = {} /\ TreapIds(Null) = {}
<1>1. InOrder(Null) = <<>> /\ Elems(<<>>) = {}
  BY InOrderRec DEF Elems
<1>2. Sorted(<<>>)
  BY DEF Sorted
<1>3. TreapIds(Null) = {}
  BY <1>1, IdsElems
<1> QED BY <1>1, <1>2, <1>3, NullIsTree DEF SearchTrees

LEMMA TreapOfFacts ==
  ASSUME NEW s \in Seq(Saveds), NEW heap \in [Ids -> HeapVals]
  PROVE  /\ TreapOf(s, heap) \in SearchTrees
         /\ Len(InOrder(TreapOf(s, heap))) = Len(s)
         /\ Elems(InOrder(TreapOf(s, heap))) =
              {StartNode(s, heap, k) : k \in 1 .. Len(s)}
<1> DEFINE n == Len(s)
           V == SearchTrees
           node(k) == StartNode(s, heap, k)
           H == [x \in (1 .. n) \X V |-> treap_insert_node(x[2], node(x[1]))]
           P(g) == g = [k \in 0 .. Len(s) |->
                          IF k = 0 THEN Null
                          ELSE treap_insert_new(g[k - 1], s[k].id, heap[s[k].id],
                                                Forked(s[k]))]
<1>1. n \in Nat /\ \A k \in 1 .. n : node(k) \in Lone
  BY StartNodeLone
<1>2. \A t, k : treap_insert_new(t, s[k].id, heap[s[k].id], Forked(s[k])) =
                  treap_insert_node(t, node(k))
  BY DEF treap_insert_new, StartNode
<1> HIDE DEF n, node
<1>3. H \in [(1 .. n) \X V -> V]
  BY <1>1, InsertSearch
<1>4. PICK g : Loop(g, n, V, Null, H)
  <2> HIDE DEF V, H
  <2>1. IsLoop(n, V, Null, H)
    BY <1>1, <1>3, NullSearch DEF IsLoop, V
  <2> QED BY <2>1, LoopExists
<1>5. /\ g \in [0 .. n -> V] /\ g[0] = Null
      /\ \A k \in 1 .. n : g[k] = H[<<k, g[k - 1]>>]
  <2> HIDE DEF V, H
  <2> QED BY <1>4 DEF Loop
<1>6. ASSUME NEW k \in 1 .. n
      PROVE  g[k] = treap_insert_node(g[k - 1], node(k))
  <2> HIDE DEF V
  <2>1. k - 1 \in 0 .. n
    BY <1>1
  <2>2. <<k, g[k - 1]>> \in (1 .. n) \X V
    BY <1>5, <2>1
  <2> QED BY <1>5, <2>2
<1>7. P(g)
  <2> HIDE DEF V, H
  <2>1. ASSUME NEW k \in 0 .. n
        PROVE  g[k] = IF k = 0 THEN Null
                      ELSE treap_insert_new(g[k - 1], s[k].id, heap[s[k].id],
                                            Forked(s[k]))
    <3>1. k # 0 => k \in 1 .. n
      BY <1>1
    <3> QED BY <1>2, <1>5, <1>6, <3>1
  <2> QED BY <1>5, <2>1 DEF n
<1> DEFINE F == CHOOSE h : P(h)
<1>8. P(F)
  <2> HIDE DEF P
  <2> QED BY <1>7
<1>9. TreapOf(s, heap) = F[n]
  BY DEF TreapOf, n
<1> HIDE DEF F, H
<1>10. F[0] = Null /\ \A k \in 1 .. n : F[k] = treap_insert_node(F[k - 1], node(k))
  BY <1>1, <1>2, <1>8 DEF n
<1> HIDE DEF P
<1> DEFINE S == {k \in Nat : k <= n =>
                   /\ F[k] \in V /\ Len(InOrder(F[k])) = k
                   /\ Elems(InOrder(F[k])) = {node(i) : i \in 1 .. k}}
<1>11. 0 \in S
  <2>1. {node(i) : i \in 1 .. 0} = {}
    OBVIOUS
  <2> QED BY <1>10, <2>1, NullSearch
<1>12. ASSUME NEW k \in Nat, k \in S
       PROVE  k + 1 \in S
  <2> SUFFICES ASSUME k + 1 <= n
               PROVE  /\ F[k + 1] \in V /\ Len(InOrder(F[k + 1])) = k + 1
                      /\ Elems(InOrder(F[k + 1])) = {node(i) : i \in 1 .. k + 1}
    OBVIOUS
  <2>1. k + 1 \in 1 .. n /\ (k + 1) - 1 = k /\ k <= n
    BY <1>1
  <2>2. /\ F[k] \in V /\ Len(InOrder(F[k])) = k
        /\ Elems(InOrder(F[k])) = {node(i) : i \in 1 .. k}
    BY <1>12, <2>1
  <2>3. F[k + 1] = treap_insert_node(F[k], node(k + 1)) /\ node(k + 1) \in Lone
    BY <1>1, <1>10, <2>1
  <2> HIDE DEF S
  <2>4. /\ F[k + 1] \in V
        /\ Elems(InOrder(F[k + 1])) = Elems(InOrder(F[k])) \cup {node(k + 1)}
    BY <2>2, <2>3, IdsInserted DEF SearchTrees
  <2>5. Len(InOrder(F[k + 1])) = Len(InOrder(F[k])) + 1
    BY <2>2, <2>3, IdsInserted DEF SearchTrees
  <2>6. \A i : i \in 1 .. k + 1 <=> i \in 1 .. k \/ i = k + 1
    OBVIOUS
  <2>7. {node(i) : i \in 1 .. k + 1} = {node(i) : i \in 1 .. k} \cup {node(k + 1)}
    BY <2>6
  <2> QED BY <2>2, <2>4, <2>5, <2>7
<1> HIDE DEF S
<1>13. n \in S
  BY <1>1, <1>11, <1>12, NatSetInduction
<1> QED BY <1>1, <1>9, <1>13 DEF n, S, node

LEMMA PoolUpToFacts ==
  ASSUME NEW n \in Nat, NEW t, NEW heap \in [Ids -> HeapVals]
  PROVE  /\ PoolUpTo(n, t, heap) \in SearchTrees
         /\ TreapIds(PoolUpTo(n, t, heap)) = {i \in 1 .. n : treap_find(t, i) = Null}
<1> DEFINE V == SearchTrees
           node(k) == NewNode(k, heap[k], Null)
           Onto(k, u) == IF treap_find(t, k) # Null THEN u
                         ELSE treap_insert_node(u, node(k))
           H == [x \in (1 .. n) \X V |-> Onto(x[1], x[2])]
           P(g) == g = [i \in 0 .. n |->
                          IF i = 0 THEN Null
                          ELSE IF treap_find(t, i) # Null THEN g[i - 1]
                          ELSE treap_insert_new(g[i - 1], i, heap[i], Null)]
<1>1. \A k \in 1 .. n : node(k) \in Lone /\ node(k).id = k
  <2> TAKE k \in 1 .. n
  <2>1. k \in Nat /\ heap[k] \in Heaps /\ Null \in Anals \cup {Null}
    BY HeapIn
  <2> QED BY <2>1, NewNodeLone
<1>2. \A u, k : treap_insert_new(u, k, heap[k], Null) = treap_insert_node(u, node(k))
  BY DEF treap_insert_new
<1> HIDE DEF node
<1>3. H \in [(1 .. n) \X V -> V]
  <2>1. ASSUME NEW k \in 1 .. n, NEW u \in V
        PROVE  Onto(k, u) \in V
    BY <1>1, InsertSearch
  <2> HIDE DEF V, Onto
  <2> QED BY <2>1
<1>4. PICK g : Loop(g, n, V, Null, H)
  <2> HIDE DEF V, H
  <2>1. IsLoop(n, V, Null, H)
    BY <1>3, NullSearch DEF IsLoop, V
  <2> QED BY <2>1, LoopExists
<1>5. /\ g \in [0 .. n -> V] /\ g[0] = Null
      /\ \A k \in 1 .. n : g[k] = H[<<k, g[k - 1]>>]
  <2> HIDE DEF V, H
  <2> QED BY <1>4 DEF Loop
<1>6. ASSUME NEW k \in 1 .. n
      PROVE  g[k] = Onto(k, g[k - 1])
  <2> HIDE DEF V, Onto
  <2>1. k - 1 \in 0 .. n
    OBVIOUS
  <2>2. <<k, g[k - 1]>> \in (1 .. n) \X V
    BY <1>5, <2>1
  <2> QED BY <1>5, <2>2
<1>7. P(g)
  <2> HIDE DEF V, H
  <2>1. ASSUME NEW k \in 0 .. n
        PROVE  g[k] = IF k = 0 THEN Null
                      ELSE IF treap_find(t, k) # Null THEN g[k - 1]
                      ELSE treap_insert_new(g[k - 1], k, heap[k], Null)
    <3>1. k # 0 => k \in 1 .. n
      OBVIOUS
    <3> QED BY <1>2, <1>5, <1>6, <3>1
  <2> QED BY <1>5, <2>1
<1> DEFINE F == CHOOSE h : P(h)
<1>8. P(F)
  <2> HIDE DEF P
  <2> QED BY <1>7
<1>9. PoolUpTo(n, t, heap) = F[n]
  BY DEF PoolUpTo
<1> HIDE DEF F, H
<1>10. F[0] = Null /\ \A k \in 1 .. n : F[k] = Onto(k, F[k - 1])
  BY <1>2, <1>8
<1> HIDE DEF P
<1> DEFINE S == {k \in Nat : k <= n =>
                   /\ F[k] \in V
                   /\ TreapIds(F[k]) = {i \in 1 .. k : treap_find(t, i) = Null}}
<1>11. 0 \in S
  <2>1. {i \in 1 .. 0 : treap_find(t, i) = Null} = {}
    OBVIOUS
  <2> QED BY <1>10, <2>1, NullSearch
<1>12. ASSUME NEW k \in Nat, k \in S
       PROVE  k + 1 \in S
  <2> SUFFICES ASSUME k + 1 <= n
               PROVE  /\ F[k + 1] \in V
                      /\ TreapIds(F[k + 1]) =
                           {i \in 1 .. k + 1 : treap_find(t, i) = Null}
    OBVIOUS
  <2>1. k + 1 \in 1 .. n /\ (k + 1) - 1 = k /\ k <= n
    OBVIOUS
  <2>2. F[k] \in V /\ TreapIds(F[k]) = {i \in 1 .. k : treap_find(t, i) = Null}
    BY <1>12, <2>1
  <2>3. F[k + 1] = Onto(k + 1, F[k]) /\ node(k + 1) \in Lone /\ node(k + 1).id = k + 1
    BY <1>1, <1>10, <2>1
  <2>4. \A i : i \in 1 .. k + 1 <=> i \in 1 .. k \/ i = k + 1
    OBVIOUS
  <2> HIDE DEF S
  <2>5. CASE treap_find(t, k + 1) # Null
    BY <2>2, <2>3, <2>4, <2>5
  <2>6. CASE treap_find(t, k + 1) = Null
    <3>1. F[k + 1] = treap_insert_node(F[k], node(k + 1))
      BY <2>3, <2>6
    <3>2. F[k + 1] \in V /\ TreapIds(F[k + 1]) = TreapIds(F[k]) \cup {k + 1}
      BY <2>2, <2>3, <3>1, IdsInserted DEF SearchTrees
    <3> QED BY <2>2, <2>4, <2>6, <3>2
  <2> QED BY <2>5, <2>6
<1> HIDE DEF S
<1>13. n \in S
  BY <1>11, <1>12, NatSetInduction
<1> QED BY <1>9, <1>13 DEF S

-----------------------------------------------------------------------------
(***************************************************************************)
(* The cells of the records, as they are written.                          *)
(***************************************************************************)

\* What is saved of a node.
Entry(n) == [id |-> n.id, path |-> n.anal.path, status |-> n.anal.status,
             suspended |-> n.anal.suspended]

Cells == Seq(Nat)

LEMMA CellsConcat ==
  ASSUME NEW p \in Cells, NEW q \in Cells
  PROVE  /\ Cat(p, q) \in Cells
         /\ Len(Cat(p, q)) = Len(p) + Len(q)
         /\ Len(Cat(p, q)) \in Nat /\ Len(p) \in Nat /\ Len(q) \in Nat
         /\ Len(p) <= Len(Cat(p, q))
         /\ \A i \in 1 .. Len(p) : Cat(p, q)[i] = p[i]
         /\ \A j \in 1 .. Len(q) : Cat(p, q)[Len(p) + j] = q[j]
<1> USE DEF Cells
<1>1. Cat(p, q) \in Seq(Nat) /\ Len(Cat(p, q)) = Len(p) + Len(q)
  BY ConcatProperties DEF Cat
<1>2. \A i \in 1 .. Len(p) + Len(q) :
        Cat(p, q)[i] = IF i <= Len(p) THEN p[i] ELSE q[i - Len(p)]
  BY ConcatProperties DEF Cat
<1>3. Len(p) \in Nat /\ Len(q) \in Nat
  OBVIOUS
<1>4. ASSUME NEW j \in 1 .. Len(q)
      PROVE  Cat(p, q)[Len(p) + j] = q[j]
  <2>1. /\ Len(p) + j \in 1 .. Len(p) + Len(q) /\ ~(Len(p) + j <= Len(p))
        /\ (Len(p) + j) - Len(p) = j
    BY <1>3
  <2> QED BY <1>2, <2>1
<1>5. ASSUME NEW i \in 1 .. Len(p)
      PROVE  Cat(p, q)[i] = p[i]
  <2>1. i \in 1 .. Len(p) + Len(q) /\ i <= Len(p)
    BY <1>3
  <2> QED BY <1>2, <2>1
<1>6. Len(Cat(p, q)) \in Nat /\ Len(p) <= Len(Cat(p, q))
  BY <1>1, <1>3
<1> QED BY <1>1, <1>3, <1>4, <1>5, <1>6

LEMMA Within ==
  /\ \A a, b, c \in Nat : a <= b /\ b <= c => a <= c
  /\ \A a, b, c, d \in Nat : c = a + b /\ c <= d =>
       \A j \in 1 .. b : a + j \in 1 .. d
OBVIOUS

\* A record that follows p cells ends within the file.
LEMMA Ends ==
  \A p, q, t, e, m \in Nat :
    t = p + q /\ t <= e /\ e + 1 <= m =>
      2 + p \in Nat \ {0} /\ (2 + p) + q <= m + 1
OBVIOUS

\* Where the cells of s[m] are among all of them.
LEMMA FlatPlaces ==
  ASSUME NEW s \in Seq(Seq(Nat))
  PROVE  /\ Flat(s) \in Cells
         /\ FlatTo(s)[0] = <<>>
         /\ \A m \in 1 .. Len(s) :
              /\ Len(FlatTo(s)[m - 1]) \in Nat /\ Len(s[m]) \in Nat
              /\ Len(FlatTo(s)[m]) = Len(FlatTo(s)[m - 1]) + Len(s[m])
              /\ Len(FlatTo(s)[m]) \in Nat
              /\ Len(FlatTo(s)[m]) <= Len(Flat(s))
              /\ \A j \in 1 .. Len(s[m]) :
                   Flat(s)[Len(FlatTo(s)[m - 1]) + j] = s[m][j]
<1> DEFINE n == Len(s)
           F(k) == FlatTo(s)[k]
           R(k) == s[k]
<1>1. /\ Flat(s) = F(n) /\ F(0) = <<>>
      /\ \A k \in 1 .. n : F(k) = Cat(F(k - 1), R(k))
      /\ \A k \in 0 .. n : F(k) \in Cells
  BY FlatRec DEF Cat, Cells
<1>2. n \in Nat /\ \A k \in 1 .. n : R(k) \in Cells
  BY DEF Cells
<1> HIDE DEF n, F, R
<1>3. ASSUME NEW k \in 1 .. n
      PROVE  /\ Len(F(k)) = Len(F(k - 1)) + Len(R(k))
             /\ Len(F(k)) \in Nat /\ Len(F(k - 1)) \in Nat /\ Len(R(k)) \in Nat
             /\ Len(F(k - 1)) <= Len(F(k))
             /\ \A i \in 1 .. Len(F(k - 1)) : F(k)[i] = F(k - 1)[i]
             /\ \A j \in 1 .. Len(R(k)) : F(k)[Len(F(k - 1)) + j] = R(k)[j]
  <2>1. k \in 0 .. n /\ k - 1 \in 0 .. n
    BY <1>2
  <2>2. F(k - 1) \in Cells /\ R(k) \in Cells /\ F(k) = Cat(F(k - 1), R(k))
    BY <1>1, <1>2, <2>1
  <2> QED BY <2>2, CellsConcat
<1> DEFINE In(m, k) == /\ Len(F(m)) <= Len(F(k))
                       /\ \A j \in 1 .. Len(R(m)) :
                            F(k)[Len(F(m - 1)) + j] = R(m)[j]
           S == {k \in Nat : k <= n => \A m \in 1 .. k : In(m, k)}
<1>4. 0 \in S
  OBVIOUS
<1>5. ASSUME NEW k \in Nat, k \in S
      PROVE  k + 1 \in S
  <2> SUFFICES ASSUME k + 1 <= n, NEW m \in 1 .. k + 1
               PROVE  In(m, k + 1)
    OBVIOUS
  <2>1. k + 1 \in 1 .. n /\ (k + 1) - 1 = k /\ k <= n /\ m \in 1 .. n
    BY <1>2
  <2>2. /\ Len(F(k + 1)) \in Nat /\ Len(F(k)) \in Nat
        /\ Len(F(k)) <= Len(F(k + 1))
        /\ \A i \in 1 .. Len(F(k)) : F(k + 1)[i] = F(k)[i]
        /\ \A j \in 1 .. Len(R(k + 1)) : F(k + 1)[Len(F(k)) + j] = R(k + 1)[j]
    BY <1>3, <2>1
  <2>3. CASE m = k + 1
    <3>1. Len(F(m)) <= Len(F(k + 1))
      BY <2>2, <2>3
    <3>2. m - 1 = k
      BY <2>3
    <3> QED BY <2>2, <2>3, <3>1, <3>2
  <2>4. CASE m # k + 1
    <3>1. m \in 1 .. k
      BY <2>4
    <3>2. In(m, k)
      BY <1>5, <2>1, <3>1
    <3>3. /\ Len(F(m - 1)) \in Nat /\ Len(R(m)) \in Nat /\ Len(F(m)) \in Nat
          /\ Len(F(m)) = Len(F(m - 1)) + Len(R(m))
      BY <1>3, <2>1
    <3>4. Len(F(m)) <= Len(F(k + 1))
      BY <2>2, <3>2, <3>3, Within
    <3>5. ASSUME NEW j \in 1 .. Len(R(m))
          PROVE  F(k + 1)[Len(F(m - 1)) + j] = R(m)[j]
      <4>1. Len(F(m - 1)) + j \in 1 .. Len(F(k))
        BY <2>2, <3>2, <3>3, Within
      <4> QED BY <2>2, <3>2, <4>1
    <3> QED BY <3>4, <3>5
  <2> QED BY <2>3, <2>4
<1> HIDE DEF S
<1>6. n \in S
  BY <1>2, <1>4, <1>5, NatSetInduction
<1>7. \A m \in 1 .. n : In(m, n)
  BY <1>2, <1>6 DEF S
<1>8. n \in 0 .. n
  BY <1>2
<1>9. F(n) \in Cells
  BY <1>1, <1>8
<1> QED BY <1>1, <1>3, <1>7, <1>9 DEF n, F, R

LEMMA RecordCells ==
  ASSUME NEW x \in Lone, x.anal \in Anals
  PROVE  /\ Record(x) \in Cells
         /\ x.anal.path \in Seq(Nat) /\ Len(x.anal.path) \in Nat
         /\ Len(Record(x)) = Len(x.anal.path) + 4
         /\ Record(x)[1] = x.id /\ Record(x)[2] = Len(x.anal.path)
         /\ \A j \in 1 .. Len(x.anal.path) : Record(x)[2 + j] = x.anal.path[j]
         /\ Record(x)[3 + Len(x.anal.path)] = x.anal.status
         /\ Record(x)[4 + Len(x.anal.path)] = x.anal.suspended
<1> DEFINE p == x.anal.path
           a == <<x.id, Len(p)>>
           z == <<x.anal.status, x.anal.suspended>>
<1>1. x.id \in Nat
  BY LoneIds
<1>2. p \in Seq(Nat) /\ x.anal.status \in Nat /\ x.anal.suspended \in Nat
  BY DEF Anals
<1>3. Len(p) \in Nat
  BY <1>2
<1>4. /\ a \in Cells /\ Len(a) = 2 /\ a[1] = x.id /\ a[2] = Len(p)
      /\ z \in Cells /\ Len(z) = 2 /\ z[1] = x.anal.status
      /\ z[2] = x.anal.suspended
  BY <1>1, <1>2, <1>3 DEF Cells
<1>4a. p \in Cells
  BY <1>2 DEF Cells
<1>5. Record(x) = Cat(Cat(a, p), z)
  BY DEF Record, Cat
<1> HIDE DEF a, z, p
<1> DEFINE b == Cat(a, p)
<1>6. /\ b \in Cells /\ Len(b) = 2 + Len(p)
      /\ \A i \in 1 .. 2 : b[i] = a[i]
      /\ \A j \in 1 .. Len(p) : b[2 + j] = p[j]
  <2>1. /\ b \in Cells /\ Len(b) = Len(a) + Len(p)
        /\ \A i \in 1 .. Len(a) : b[i] = a[i]
        /\ \A j \in 1 .. Len(p) : b[Len(a) + j] = p[j]
    BY <1>4, <1>4a, CellsConcat
  <2> QED BY <1>4, <2>1
<1> HIDE DEF b
<1> DEFINE r == Cat(b, z)
<1>7. /\ r \in Cells /\ Len(r) = Len(b) + 2
      /\ \A i \in 1 .. Len(b) : r[i] = b[i]
      /\ \A j \in 1 .. 2 : r[Len(b) + j] = z[j]
  <2>1. /\ r \in Cells /\ Len(r) = Len(b) + Len(z)
        /\ \A i \in 1 .. Len(b) : r[i] = b[i]
        /\ \A j \in 1 .. Len(z) : r[Len(b) + j] = z[j]
    BY <1>4, <1>6, CellsConcat
  <2> QED BY <1>4, <2>1
<1> HIDE DEF r
<1>8. r[1] = x.id /\ r[2] = Len(p)
  BY <1>3, <1>4, <1>6, <1>7
<1>9. ASSUME NEW j \in 1 .. Len(p)
      PROVE  r[2 + j] = p[j]
  <2>1. 2 + j \in 1 .. Len(b)
    BY <1>3, <1>6
  <2> QED BY <1>6, <1>7, <2>1
<1>10. r[3 + Len(p)] = x.anal.status /\ r[4 + Len(p)] = x.anal.suspended
  <2>1. 3 + Len(p) = Len(b) + 1 /\ 4 + Len(p) = Len(b) + 2
    BY <1>3, <1>6
  <2>2. r[Len(b) + 1] = z[1] /\ r[Len(b) + 2] = z[2]
    BY <1>7
  <2> QED BY <1>4, <2>1, <2>2
<1>11. Len(r) = Len(p) + 4
  BY <1>3, <1>6, <1>7
<1>12. Record(x) = r
  BY <1>5 DEF r, b
<1> QED BY <1>2, <1>3, <1>7, <1>8, <1>9, <1>10, <1>11, <1>12 DEF p

\* A record is read as it was written.
LEMMA RecordRead ==
  ASSUME NEW x \in Lone, x.anal \in Anals, NEW f \in Seq(Nat), NEW c \in Nat \ {0},
         c + Len(Record(x)) <= Len(f) + 1,
         \A j \in 1 .. Len(Record(x)) : f[(c - 1) + j] = Record(x)[j]
  PROVE  RecordAt(f, c) = Entry(x) /\ After(f, c) = c + Len(Record(x))
<1> DEFINE p == x.anal.path
           len == Len(p)
           r == Record(x)
<1>1. /\ p \in Seq(Nat) /\ len \in Nat /\ Len(r) = len + 4
      /\ r[1] = x.id /\ r[2] = len
      /\ \A j \in 1 .. len : r[2 + j] = p[j]
      /\ r[3 + len] = x.anal.status /\ r[4 + len] = x.anal.suspended
  BY RecordCells
<1>2. Len(f) \in Nat
  OBVIOUS
<1> HIDE DEF r, len, p
<1>0. len \in Nat
  BY <1>1
<1>3. ASSUME NEW j \in 1 .. len + 4
      PROVE  Cell(f, (c - 1) + j) = r[j]
  <2>1. (c - 1) + j <= Len(f) /\ j \in 1 .. Len(r)
    BY <1>1, <1>2 DEF r
  <2>2. f[(c - 1) + j] = r[j]
    BY <2>1 DEF r
  <2> QED BY <2>1, <2>2 DEF Cell
<1>4. Cell(f, c) = x.id /\ Cell(f, c + 1) = len
  <2>1. 1 \in 1 .. len + 4 /\ 2 \in 1 .. len + 4 /\ (c - 1) + 1 = c /\ (c - 1) + 2 = c + 1
    BY <1>1
  <2> QED BY <1>1, <1>3, <2>1
<1>5. /\ Cell(f, c + 2 + len) = x.anal.status
      /\ Cell(f, c + 3 + len) = x.anal.suspended
  <2>1. /\ 3 + len \in 1 .. len + 4 /\ 4 + len \in 1 .. len + 4
        /\ (c - 1) + (3 + len) = c + 2 + len /\ (c - 1) + (4 + len) = c + 3 + len
    BY ONLY <1>0, c \in Nat \ {0}
  <2> QED BY <1>1, <1>3, <2>1
<1>6. [j \in 1 .. len |-> Cell(f, c + 1 + j)] = p
  <2>1. ASSUME NEW j \in 1 .. len
        PROVE  Cell(f, c + 1 + j) = p[j]
    <3>1. 2 + j \in 1 .. len + 4 /\ (c - 1) + (2 + j) = c + 1 + j
      BY <1>1
    <3> QED BY <1>1, <1>3, <3>1
  <2>2. p = [j \in 1 .. len |-> p[j]]
    BY <1>1 DEF len
  <2> QED BY <2>1, <2>2
<1>7. RecordAt(f, c) = Entry(x)
  BY <1>4, <1>5, <1>6 DEF RecordAt, Entry, p
<1>8. After(f, c) = c + (len + 4)
  BY <1>1, <1>4 DEF After
<1> QED BY <1>1, <1>7, <1>8 DEF r

-----------------------------------------------------------------------------
(***************************************************************************)
(* What is read of what was written; the greatest id.                      *)
(***************************************************************************)

\* What threads_shutdown has written threads_startup reads, whatever a longer
\* file left behind it.
THEOREM RoundTrip ==
  ASSUME NEW s \in Seq(Lone), \A i \in 1 .. Len(s) : s[i].anal \in Anals,
         NEW rest \in Cells, NEW f,
         f = Cat(Cat(<<Len(s)>>, Flat([i \in DOMAIN s |-> Record(s[i])])), rest)
  PROVE  /\ f \in Seq(Nat)
         /\ Len(ReadOf(f)) = Len(s)
         /\ \A i \in 1 .. Len(s) : ReadOf(f)[i] = Entry(s[i])
<1> DEFINE n == Len(s)
           R == [i \in DOMAIN s |-> Record(s[i])]
           Fl == Flat(R)
           F(k) == FlatTo(R)[k]
           G(k) == ReadTo(f, 2, n)[k]
<1>1. n \in Nat /\ \A i \in 1 .. n : s[i] \in Lone
  OBVIOUS
<1>2. /\ R \in Seq(Seq(Nat)) /\ Len(R) = n
      /\ \A i \in 1 .. n : R[i] = Record(s[i])
  <2>1. \A i \in 1 .. n : Record(s[i]) \in Seq(Nat)
    BY <1>1, RecordCells DEF Cells
  <2>2. DOMAIN s = 1 .. n
    OBVIOUS
  <2>3. R = [i \in 1 .. n |-> Record(s[i])]
    BY <2>2
  <2> HIDE DEF n, R
  <2>4. R \in [1 .. n -> Seq(Nat)]
    BY <2>1, <2>3
  <2> QED BY <1>1, <2>3, <2>4
<1> HIDE DEF R
<1>3. /\ Fl \in Cells /\ F(0) = <<>>
      /\ \A m \in 1 .. n :
           /\ Len(F(m - 1)) \in Nat /\ Len(R[m]) \in Nat
           /\ Len(F(m)) = Len(F(m - 1)) + Len(R[m])
           /\ Len(F(m)) \in Nat /\ Len(F(m)) <= Len(Fl)
           /\ \A j \in 1 .. Len(R[m]) : Fl[Len(F(m - 1)) + j] = R[m][j]
  BY <1>2, FlatPlaces
<1> HIDE DEF n, Fl, F
<1> DEFINE one == <<n>>
           a == Cat(one, Fl)
<1>4. one \in Cells /\ Len(one) = 1 /\ one[1] = n
  BY <1>1 DEF Cells
<1>5. f = Cat(a, rest)
  BY DEF Fl, R, n
<1> HIDE DEF one
<1>6. /\ a \in Cells /\ Len(a) = Len(one) + Len(Fl) /\ Len(a) \in Nat
      /\ Len(Fl) \in Nat
      /\ \A i \in 1 .. Len(one) : a[i] = one[i]
      /\ \A j \in 1 .. Len(Fl) : a[Len(one) + j] = Fl[j]
  BY <1>3, <1>4, CellsConcat
<1> HIDE DEF a
<1>7. /\ f \in Cells /\ Len(f) \in Nat /\ Len(a) <= Len(f)
      /\ \A i \in 1 .. Len(a) : f[i] = a[i]
  <2> DEFINE b == Cat(a, rest)
  <2>1. /\ b \in Cells /\ Len(b) \in Nat /\ Len(a) <= Len(b)
        /\ \A i \in 1 .. Len(a) : b[i] = a[i]
    BY ONLY rest \in Cells, <1>6, CellsConcat
  <2> HIDE DEF b
  <2>2. f = b
    BY <1>5 DEF b
  <2> QED BY <2>1, <2>2
<1>8. Len(a) = 1 + Len(Fl) /\ a[1] = n /\ \A j \in 1 .. Len(Fl) : a[1 + j] = Fl[j]
  BY <1>4, <1>6
<1>9. f[1] = n /\ 1 <= Len(f)
  BY <1>6, <1>7, <1>8
<1>10. ASSUME NEW j \in 1 .. Len(Fl)
       PROVE  f[1 + j] = Fl[j]
  <2>1. 1 + j \in 1 .. Len(a)
    BY <1>6, <1>8
  <2> QED BY <1>7, <1>8, <2>1
<1>11. Len(Fl) + 1 <= Len(f)
  BY <1>6, <1>7, <1>8
<1>12. f \in Seq(Nat)
  BY <1>7 DEF Cells
<1>13. Cell(f, 1) = n
  BY <1>9 DEF Cell
<1>14. /\ G(0) = [cell |-> 2, records |-> <<>>]
       /\ \A k \in 1 .. n : G(k) =
            [cell    |-> After(f, G(k - 1).cell),
             records |-> Append(G(k - 1).records, RecordAt(f, G(k - 1).cell))]
       /\ \A k \in 0 .. n : G(k) \in Positions /\ Len(G(k).records) = k
  <2>1. 2 \in Nat \ {0}
    OBVIOUS
  <2> QED BY <1>1, <1>12, <2>1, ReadRec
<1> HIDE DEF G
<1> DEFINE Good(k) == /\ G(k).cell = 2 + Len(F(k))
                      /\ \A i \in 1 .. k : G(k).records[i] = Entry(s[i])
           S == {k \in Nat : k <= n => Good(k)}
<1>15. 0 \in S
  <2>1. G(0).cell = 2 /\ Len(F(0)) = 0
    BY <1>3, <1>14
  <2> QED BY <2>1
<1>16. ASSUME NEW k \in Nat, k \in S
       PROVE  k + 1 \in S
  <2> SUFFICES ASSUME k + 1 <= n
               PROVE  Good(k + 1)
    OBVIOUS
  <2>1. k + 1 \in 1 .. n /\ (k + 1) - 1 = k /\ k <= n /\ k \in 0 .. n
    BY <1>1
  <2>2. Good(k)
    BY <1>16, <2>1
  <2> DEFINE l == Len(F(k))
             r == Record(s[k + 1])
             c == 2 + l
  <2>3. /\ l \in Nat /\ Len(r) \in Nat /\ Len(F(k + 1)) = l + Len(r)
        /\ Len(F(k + 1)) \in Nat /\ Len(F(k + 1)) <= Len(Fl)
        /\ \A j \in 1 .. Len(r) : Fl[l + j] = r[j]
    <3>1. R[k + 1] = r
      BY <1>2, <2>1
    <3>2. /\ Len(F((k + 1) - 1)) \in Nat /\ Len(R[k + 1]) \in Nat
          /\ Len(F(k + 1)) = Len(F((k + 1) - 1)) + Len(R[k + 1])
          /\ Len(F(k + 1)) \in Nat /\ Len(F(k + 1)) <= Len(Fl)
          /\ \A j \in 1 .. Len(R[k + 1]) :
               Fl[Len(F((k + 1) - 1)) + j] = R[k + 1][j]
      BY ONLY <1>3, k + 1 \in 1 .. n, <2>1
    <3>3. (k + 1) - 1 = k
      BY ONLY <2>1
    <3> HIDE DEF r
    <3> QED BY ONLY <3>1, <3>2, <3>3 DEF l
  <2>4. G(k).cell = c
    BY <2>2
  <2> HIDE DEF S, Good, l, r
  <2>5. c \in Nat \ {0} /\ c + Len(r) <= Len(f) + 1
    <3>1. /\ l \in Nat /\ Len(r) \in Nat /\ Len(F(k + 1)) \in Nat
          /\ Len(F(k + 1)) = l + Len(r) /\ Len(F(k + 1)) <= Len(Fl)
      BY ONLY <2>3
    <3>2. 2 + l \in Nat \ {0} /\ (2 + l) + Len(r) <= Len(f) + 1
      BY ONLY <1>6, <1>7, <1>11, <3>1, Ends
    <3> QED BY ONLY <3>2 DEF c
  <2>6. ASSUME NEW j \in 1 .. Len(r)
        PROVE  f[(c - 1) + j] = r[j]
    <3>1. l + j \in 1 .. Len(Fl)
      BY <1>6, <2>3, Within
    <3>2. (c - 1) + j = 1 + (l + j)
      BY <2>3
    <3> QED BY <1>10, <2>3, <3>1, <3>2
  <2>7. s[k + 1] \in Lone /\ s[k + 1].anal \in Anals
    BY <1>1, <2>1 DEF n
  <2> HIDE DEF c
  <2>8. RecordAt(f, c) = Entry(s[k + 1]) /\ After(f, c) = c + Len(r)
    BY <1>12, <2>5, <2>6, <2>7, RecordRead DEF r
  <2>9. G(k + 1) = [cell |-> After(f, c),
                    records |-> Append(G(k).records, Entry(s[k + 1]))]
    BY <1>14, <2>1, <2>4, <2>8
  <2>10. G(k + 1).cell = 2 + Len(F(k + 1))
    <3>1. G(k + 1).cell = After(f, c)
      <4>1. \A g, x, y : g = [cell |-> x, records |-> y] => g.cell = x
        OBVIOUS
      <4> QED BY ONLY <2>9, <4>1
    <3>2. G(k + 1).cell = (2 + l) + Len(r)
      BY <2>8, <3>1 DEF c
    <3>3. \A x, y, z \in Nat : z = x + y => (2 + x) + y = 2 + z
      OBVIOUS
    <3>4. l \in Nat /\ Len(r) \in Nat /\ Len(F(k + 1)) \in Nat
          /\ Len(F(k + 1)) = l + Len(r)
      BY ONLY <2>3
    <3>5. (2 + l) + Len(r) = 2 + Len(F(k + 1))
      BY ONLY <3>3, <3>4
    <3> QED BY ONLY <3>2, <3>5
  <2>11. G(k).records \in Seq(Saveds) /\ Len(G(k).records) = k
    BY <1>14, <2>1 DEF Positions
  <2>12. Entry(s[k + 1]) \in Saveds
    BY <1>12, <2>5, <2>8, RecordAtSaved
  <2>13. ASSUME NEW i \in 1 .. k + 1
         PROVE  G(k + 1).records[i] = Entry(s[i])
    <3>1. G(k + 1).records[i] = IF i <= k THEN G(k).records[i] ELSE Entry(s[k + 1])
      <4> DEFINE q == G(k).records
                 e == Entry(s[k + 1])
      <4>1. G(k + 1).records = Append(q, e)
        BY <2>9
      <4>2. q \in Seq(Saveds) /\ e \in Saveds /\ Len(q) = k
        BY <2>11, <2>12
      <4> HIDE DEF q, e
      <4>3. Append(q, e)[i] = IF i <= k THEN q[i] ELSE e
        BY <4>2
      <4> QED BY <4>1, <4>3 DEF q, e
    <3> QED BY <2>2, <3>1 DEF Good
  <2> QED BY <2>10, <2>13 DEF Good
<1> HIDE DEF S
<1>17. n \in S
  BY <1>1, <1>15, <1>16, NatSetInduction
<1>18. Good(n) /\ Len(G(n).records) = n
  BY <1>1, <1>14, <1>17 DEF S
<1>19. ReadOf(f) = G(n).records
  BY <1>13 DEF ReadOf, G
<1> QED BY <1>12, <1>18, <1>19 DEF n

LEMMA GreatestFacts ==
  ASSUME NEW s \in Seq(Saveds)
  PROVE  /\ GreatestId(s) \in Nat
         /\ GreatestId(s) = 0 \/ \E i \in DOMAIN s : s[i].id = GreatestId(s)
         /\ \A i \in DOMAIN s : s[i].id <= GreatestId(s)
<1> DEFINE n == Len(s)
           id(i) == s[i].id
           S == {k \in Nat : k <= n =>
                   \E m \in {id(i) : i \in 1 .. k} \cup {0} :
                     \A i \in 1 .. k : id(i) <= m}
<1>1. n \in Nat /\ DOMAIN s = 1 .. n /\ \A i \in 1 .. n : id(i) \in Nat
  <2>1. n \in Nat /\ DOMAIN s = 1 .. n /\ \A i \in 1 .. n : s[i] \in Saveds
    OBVIOUS
  <2> QED BY <2>1 DEF Saveds
<1> HIDE DEF n, id
<1>2. 0 \in S
  OBVIOUS
<1>3. ASSUME NEW k \in Nat, k \in S
      PROVE  k + 1 \in S
  <2> SUFFICES ASSUME k + 1 <= n
               PROVE  \E m \in {id(i) : i \in 1 .. k + 1} \cup {0} :
                        \A i \in 1 .. k + 1 : id(i) <= m
    OBVIOUS
  <2>1. PICK m \in {id(i) : i \in 1 .. k} \cup {0} : \A i \in 1 .. k : id(i) <= m
    BY <1>1, <1>3
  <2>2. \A i \in 1 .. k + 1 : i \in 1 .. n /\ (i \in 1 .. k \/ i = k + 1)
    BY <1>1
  <2>3. m \in Nat /\ id(k + 1) \in Nat
    BY <1>1, <2>2
  <2>4. CASE id(k + 1) <= m
    <3>1. m \in {id(i) : i \in 1 .. k + 1} \cup {0}
      <4>1. \A i \in 1 .. k : i \in 1 .. k + 1
        OBVIOUS
      <4> QED BY <2>1, <4>1
    <3>2. \A i \in 1 .. k + 1 : id(i) <= m
      BY <2>1, <2>2, <2>4
    <3> QED BY <3>1, <3>2
  <2>5. CASE ~(id(k + 1) <= m)
    <3>1. ASSUME NEW i \in 1 .. k
          PROVE  id(i) <= id(k + 1)
      <4>1. id(i) \in Nat /\ id(i) <= m
        BY <1>1, <2>1, <2>2
      <4> QED BY ONLY <2>3, <2>5, <4>1
    <3>2. \A i \in 1 .. k + 1 : id(i) <= id(k + 1)
      BY <2>2, <2>3, <3>1
    <3>3. id(k + 1) \in {id(i) : i \in 1 .. k + 1} \cup {0}
      OBVIOUS
    <3> QED BY <3>2, <3>3
  <2> QED BY <2>4, <2>5
<1> HIDE DEF S
<1>4. n \in S
  BY <1>1, <1>2, <1>3, NatSetInduction
<1>5. PICK m \in {id(i) : i \in 1 .. n} \cup {0} : \A i \in 1 .. n : id(i) <= m
  BY <1>1, <1>4 DEF S
<1> DEFINE X == {id(i) : i \in 1 .. n} \cup {0}
           P(x) == x \in X /\ \A i \in 1 .. n : id(i) <= x
<1>6. GreatestId(s) = CHOOSE x : P(x)
  <2>1. GreatestId(s) = CHOOSE x \in {s[i].id : i \in DOMAIN s} \cup {0} :
                          \A i \in DOMAIN s : s[i].id <= x
    BY DEF GreatestId
  <2> QED BY <1>1, <2>1 DEF id
<1>7. P(m)
  BY <1>5
<1>8. P(GreatestId(s))
  <2> HIDE DEF P
  <2> QED BY <1>6, <1>7
<1> QED BY <1>1, <1>8 DEF id

-----------------------------------------------------------------------------
(***************************************************************************)
(* The inductive invariant. The order of the treaps is all that the        *)
(* operations need to keep each other right; that an analysis has a        *)
(* process as long as it is not complete is known of what the treap holds; *)
(* and saved is at any time what a start would read.                       *)
(***************************************************************************)

\* An analysis that has a process as long as it is not complete.
Sound(a) == a \in Anals /\ ((a.status # Complete) <=> (a.proc # "none"))

AllSound(t) == \A x \in Elems(InOrder(t)) : Sound(x.anal)

SavedOf(f) == {ReadOf(f)[i] : i \in DOMAIN ReadOf(f)}

TablesInv ==
  /\ analyses \in SearchTrees /\ available \in SearchTrees
  /\ AllSound(analyses)
  /\ analysis_cnt = Len(InOrder(analyses))
  /\ file \in Seq(Nat) /\ saved = SavedOf(file)

LEMMA TreesApart ==
  ASSUME TablesInv, Distinct
  PROVE  /\ analyses \in InTrees /\ available \in InTrees
         /\ TreapIds(analyses) \cap TreapIds(available) = {}
<1>1. /\ analyses \in Trees /\ Sorted(InOrder(analyses))
      /\ available \in Trees /\ Sorted(InOrder(available))
  BY DEF TablesInv, SearchTrees
<1>2. UniqueKeys(analyses) /\ UniqueKeys(available)
  BY DEF Distinct
<1>3. Strict(InOrder(analyses)) /\ Strict(InOrder(available))
  BY <1>1, <1>2, UniqueStrict
<1> QED BY <1>1, <1>3 DEF InTrees, Distinct

LEMMA InSearch == InTrees \subseteq SearchTrees
BY InTreesSorted DEF SearchTrees

LEMMA OrderLen ==
  ASSUME NEW t \in SearchTrees
  PROVE  Len(InOrder(t)) \in Nat /\ InOrder(t) \in Seq(Lone)
<1>1. InOrder(t) \in Seq(Lone)
  BY InOrderRec DEF SearchTrees
<1> QED BY <1>1

LEMMA NewAnalSound ==
  ASSUME NEW p \in Paths
  PROVE  Sound(NewAnal(p)) /\ NewAnal(p) \in Anals
<1>1. p \in Seq(Nat \ {NoName})
  BY TablesAssumption
<1>2. p \in Seq(Nat)
  BY <1>1
<1> QED BY <1>2 DEF Sound, NewAnal, Anals, InProgress, Complete, Resumed

\* What get_free_id gives to threads_add, and the tree with the new node.
LEMMA AddFacts ==
  ASSUME TablesInv, Distinct, NEW h \in HeapVals, NEW got,
         got = get_free_id(available, h), got.node # Null, NEW p \in Paths
  PROVE  /\ got.tree \in InTrees /\ got.node \in Lone
         /\ Inserted(p, got) \in InTrees
         /\ got.node.id \in TreapIds(Inserted(p, got))
         /\ AllSound(Inserted(p, got))
         /\ Len(InOrder(Inserted(p, got))) = Len(InOrder(analyses)) + 1
<1>1. /\ analyses \in InTrees /\ available \in InTrees
      /\ TreapIds(analyses) \cap TreapIds(available) = {}
  BY TreesApart
<1>2. h \in Heaps
  BY DEF Heaps
<1>3. PoolGet(available, got)
  BY <1>1, <1>2, GetFacts
<1>4. /\ got.tree \in InTrees /\ got.node \in Lone
      /\ got.node.id \notin TreapIds(analyses)
  BY <1>1, <1>3 DEF PoolGet
<1> DEFINE n == [got.node EXCEPT !.anal = NewAnal(p)]
<1>5. n \in Lone /\ n.id = got.node.id /\ n.anal = NewAnal(p)
  BY <1>4, NewAnalSound, WithAnalLone
<1>6. Inserted(p, got) = treap_insert_node(analyses, n)
  BY DEF Inserted
<1> HIDE DEF n
<1> DEFINE u == treap_insert_node(analyses, n)
<1>7. analyses \in Trees /\ Sorted(InOrder(analyses)) /\ Strict(InOrder(analyses))
  BY <1>1, InTreesSorted
<1>8. /\ u \in InTrees /\ TreapIds(u) = TreapIds(analyses) \cup {n.id}
      /\ Elems(InOrder(u)) = Elems(InOrder(analyses)) \cup {n}
  BY <1>4, <1>5, <1>7, IdsInserted DEF InTrees
<1>9. Len(InOrder(u)) = Len(InOrder(analyses)) + 1
  BY <1>5, <1>7, IdsInserted
<1> HIDE DEF u
<1>10. AllSound(u)
  BY <1>5, <1>8, NewAnalSound DEF TablesInv, AllSound
<1>11. Inserted(p, got) = u
  BY <1>6 DEF u
<1> QED BY <1>4, <1>5, <1>8, <1>9, <1>10, <1>11

\* An extraction leaves the analyses sound and one fewer.
LEMMA TakeFacts ==
  ASSUME NEW t \in InTrees, NEW id \in TreapIds(t), AllSound(t)
  PROVE  LET x == treap_extract(t, id)
         IN /\ x.tree \in InTrees /\ AllSound(x.tree) /\ x.node \in Lone
            /\ Len(InOrder(t)) = Len(InOrder(x.tree)) + 1
<1> DEFINE x == treap_extract(t, id)
<1>1. /\ x.tree \in InTrees /\ x.node \in Lone
      /\ Elems(InOrder(t)) = Elems(InOrder(x.tree)) \cup {x.node}
  BY IdsTaken
<1>2. Len(InOrder(t)) = Len(InOrder(x.tree)) + 1
  BY IdsTaken
<1> HIDE DEF x
<1>3. AllSound(x.tree)
  BY <1>1 DEF AllSound
<1> QED BY <1>1, <1>2, <1>3 DEF x

LEMMA AddKeeps ==
  ASSUME TablesInv, Distinct, NEW h \in HeapVals, NEW got,
         got = get_free_id(available, h), got.node # Null, NEW p \in Paths,
         Add(p, got)
  PROVE  TablesInv'
<1>1. /\ analyses' \in SearchTrees /\ available' \in SearchTrees
      /\ AllSound(analyses')
  BY AddFacts, InSearch DEF Add
<1>2. analysis_cnt' = Len(InOrder(analyses'))
  <2>1. /\ Len(InOrder(Inserted(p, got))) = Len(InOrder(analyses)) + 1
        /\ analysis_cnt = Len(InOrder(analyses))
        /\ analyses' = Inserted(p, got) /\ analysis_cnt' = analysis_cnt + 1
    BY AddFacts DEF Add, TablesInv
  <2> QED BY ONLY <2>1
<1>3. file' \in Seq(Nat) /\ saved' = SavedOf(file')
  BY DEF Add, TablesInv
<1> QED BY <1>1, <1>2, <1>3 DEF TablesInv

LEMMA AddNoMemoryKeeps ==
  ASSUME TablesInv, Distinct, NEW h \in HeapVals, NEW got,
         got = get_free_id(available, h), got.node # Null, NEW p \in Paths,
         NEW n, AddNoMemory(p, got, n)
  PROVE  TablesInv'
<1>1. got.tree \in InTrees /\ got.node \in Lone
  BY AddFacts
<1>2. available' \in SearchTrees
  BY <1>1, ReturnFacts DEF AddNoMemory, SearchTrees
<1> QED BY <1>2 DEF TablesInv, AddNoMemory

LEMMA AddForkFailsKeeps ==
  ASSUME TablesInv, Distinct, NEW h \in HeapVals, NEW got,
         got = get_free_id(available, h), got.node # Null, NEW p \in Paths,
         AddForkFails(p, got)
  PROVE  TablesInv'
<1> DEFINE u == Inserted(p, got)
           x == treap_extract(u, got.node.id)
<1>1. /\ got.tree \in InTrees /\ u \in InTrees /\ AllSound(u)
      /\ got.node.id \in TreapIds(u)
  BY AddFacts
<1>2. Len(InOrder(u)) = Len(InOrder(analyses)) + 1
  BY AddFacts
<1>3. /\ analyses' = x.tree /\ available' = return_id(got.tree, x.node)
      /\ UNCHANGED <<analysis_cnt, file, saved>>
  BY DEF AddForkFails
<1> HIDE DEF u
<1>4. x.tree \in InTrees /\ AllSound(x.tree) /\ x.node \in Lone
  BY <1>1, TakeFacts
<1>5. Len(InOrder(u)) = Len(InOrder(x.tree)) + 1
  BY <1>1, TakeFacts
<1> HIDE DEF x
<1>6. available' \in SearchTrees
  BY <1>1, <1>3, <1>4, ReturnFacts DEF SearchTrees
<1>7. analysis_cnt' = Len(InOrder(analyses'))
  <2>1. x.tree \in SearchTrees /\ analyses \in SearchTrees
    BY <1>4, InSearch DEF TablesInv
  <2>2. Len(InOrder(x.tree)) \in Nat /\ Len(InOrder(analyses)) \in Nat
    BY <2>1, OrderLen
  <2>3. Len(InOrder(x.tree)) = Len(InOrder(analyses))
    BY <1>2, <1>5, <2>2
  <2> QED BY <1>3, <2>3 DEF TablesInv
<1> QED BY <1>3, <1>4, <1>6, <1>7, InSearch DEF TablesInv

-----------------------------------------------------------------------------
(***************************************************************************)
(* The other requests, stops and starts.                                   *)
(***************************************************************************)

\* The node that treap_find finds, and its analysis.
LEMMA FoundFacts ==
  ASSUME TablesInv, NEW n \in Found
  PROVE  n.id \in TreapIds(analyses) /\ Sound(n.anal)
<1>1. PICK i \in Ids : n = treap_find(analyses, i) /\ n # Null
  BY DEF Found
<1>2. analyses \in Trees
  BY DEF TablesInv, SearchTrees
<1>3. n \in Proper /\ Alone(n) \in Elems(InOrder(analyses))
  BY <1>1, <1>2, FindFacts
<1>4. Alone(n).id = n.id /\ Alone(n).anal = n.anal
  BY <1>3, AloneLone
<1> QED BY <1>3, <1>4, IdsElems DEF TablesInv, AllSound

LEMMA SetAnalKeeps ==
  ASSUME TablesInv, NEW n, NEW a, Sound(a), SetAnal(n, a)
  PROVE  TablesInv'
<1> DEFINE u == WithAnal(analyses, n.id, a)
<1>1. a \in Anals /\ analyses \in Trees /\ Sorted(InOrder(analyses))
  BY DEF TablesInv, SearchTrees, Sound
<1>2. u \in Trees
  BY <1>1, WithAnalRec
<1>3. SameBut(InOrder(u), InOrder(analyses), n.id, a)
  BY <1>1, WithAnalFacts
<1>4. analyses' = u /\ UNCHANGED <<available, analysis_cnt, file, saved>>
  BY DEF SetAnal
<1> HIDE DEF u
<1>5. /\ Len(InOrder(u)) = Len(InOrder(analyses)) /\ Sorted(InOrder(u))
      /\ \A y \in Elems(InOrder(u)) : \E z \in Elems(InOrder(analyses)) :
           y.anal = z.anal \/ y.anal = a
  BY <1>1, <1>3 DEF SameBut, Twin
<1>6. AllSound(u)
  BY <1>5 DEF TablesInv, AllSound
<1> QED BY <1>2, <1>4, <1>5, <1>6 DEF TablesInv, SearchTrees

LEMMA RequestKeeps ==
  ASSUME TablesInv, NEW n \in Found, Suspend(n) \/ Resume(n) \/ Result(n)
  PROVE  TablesInv'
<1>1. Sound(n.anal) /\ n.anal \in Anals
  BY FoundFacts DEF Sound
<1>2. CASE Suspend(n)
  <2> DEFINE a == [n.anal EXCEPT !.suspended = Suspended, !.proc = "stopped"]
  <2>1. Sound(a)
    BY <1>1, <1>2 DEF Sound, Suspend, Anals, Suspended
  <2> QED BY <1>2, <2>1, SetAnalKeeps DEF Suspend
<1>3. CASE Resume(n)
  <2> DEFINE a == [n.anal EXCEPT !.suspended = Resumed,
                                 !.proc = IF @ = "stopped" THEN "runs" ELSE @]
  <2>1. Sound(a)
    BY <1>1 DEF Sound, Anals, Resumed
  <2> QED BY <1>3, <2>1, SetAnalKeeps DEF Resume
<1>4. CASE Result(n)
  <2> DEFINE a == [n.anal EXCEPT !.status = Complete, !.proc = "none"]
  <2>1. Sound(a)
    BY <1>1 DEF Sound, Anals, Complete
  <2> QED BY <1>4, <2>1, SetAnalKeeps DEF Result
<1> QED BY <1>2, <1>3, <1>4

LEMMA RemoveKeeps ==
  ASSUME TablesInv, Distinct, NEW n \in Found, Remove(n)
  PROVE  TablesInv'
<1> DEFINE x == treap_extract(analyses, n.id)
           y == [x.node EXCEPT !.anal = Null]
<1>1. analyses \in InTrees /\ n.id \in TreapIds(analyses) /\ AllSound(analyses)
  BY TreesApart, FoundFacts DEF TablesInv
<1>2. x.tree \in InTrees /\ AllSound(x.tree) /\ x.node \in Lone
  BY <1>1, TakeFacts
<1>3. Len(InOrder(analyses)) = Len(InOrder(x.tree)) + 1
  BY <1>1, TakeFacts
<1>4. /\ analyses' = x.tree /\ analysis_cnt' = analysis_cnt - 1
      /\ available' = treap_insert_node(available, y)
      /\ UNCHANGED <<file, saved>>
  BY DEF Remove
<1>5. y \in Lone
  BY <1>2, WithAnalLone
<1> HIDE DEF x, y
<1>6. available' \in SearchTrees
  BY <1>4, <1>5, InsertSearch DEF TablesInv
<1>7. analysis_cnt' = Len(InOrder(analyses'))
  <2>1. Len(InOrder(x.tree)) \in Nat
    BY <1>2, InSearch, OrderLen
  <2>2. /\ analysis_cnt = Len(InOrder(analyses)) /\ analysis_cnt' = analysis_cnt - 1
        /\ analyses' = x.tree
    BY <1>4 DEF TablesInv
  <2> QED BY ONLY <1>3, <2>1, <2>2
<1> QED BY <1>2, <1>4, <1>6, <1>7, InSearch DEF TablesInv

\* What the tables of a manager that is not up are.
LEMMA NothingKept ==
  /\ Null \in SearchTrees /\ AllSound(Null) /\ 0 = Len(InOrder(Null))
BY NullSearch DEF AllSound

LEMMA DieKeeps ==
  ASSUME TablesInv, Die
  PROVE  TablesInv'
BY NothingKept DEF Die, Gone, TablesInv

LEMMA EntriesOf ==
  ASSUME NEW t
  PROVE  Entries(t) = {Entry(n) : n \in Elems(InOrder(t))}
BY IdsElems DEF Entries, Entry

LEMMA ShutdownKeeps ==
  ASSUME TablesInv, Distinct, Shutdown
  PROVE  TablesInv'
<1> DEFINE s == SaveOrder(analyses)
           n == Len(s)
           rest == SubSeq(file, Len(Data) + 1, Len(file))
           f == Overwritten(Data)
<1>1. analyses \in InTrees
  BY TreesApart
<1>2. /\ s \in Seq(Lone) /\ Elems(s) = Elems(InOrder(analyses))
      /\ n = Len(InOrder(analyses))
  BY <1>1, SaveOrderFacts
<1>3. \A i \in 1 .. n : s[i].anal \in Anals
  <2>1. ASSUME NEW i \in 1 .. n
        PROVE  s[i] \in Elems(s)
    BY <1>2 DEF Elems
  <2> HIDE DEF s, n
  <2> QED BY <1>2, <2>1 DEF TablesInv, AllSound, Sound
<1>4. Data = Cat(<<n>>, Flat([i \in DOMAIN s |-> Record(s[i])]))
  <2>1. analysis_cnt = n
    BY <1>2 DEF TablesInv
  <2> QED BY <2>1 DEF Data, Cat
<1> HIDE DEF n
<1>5. Data \in Cells
  <2>1. n \in Nat
    BY <1>2 DEF n
  <2> DEFINE R == [i \in DOMAIN s |-> Record(s[i])]
  <2>2. R \in Seq(Seq(Nat))
    <3>1. DOMAIN s = 1 .. n
      BY <1>2 DEF n
    <3>2. \A i \in 1 .. n : Record(s[i]) \in Seq(Nat)
      <4>1. \A i \in 1 .. n : s[i] \in Lone
        BY <1>2 DEF n
      <4> QED BY <1>3, <4>1, RecordCells DEF Cells
    <3> HIDE DEF s
    <3>3. R = [i \in 1 .. n |-> Record(s[i])]
      BY <3>1
    <3> HIDE DEF R
    <3>4. R \in [1 .. n -> Seq(Nat)]
      BY <3>2, <3>3
    <3> QED BY <2>1, <3>4
  <2> HIDE DEF R, s
  <2>3. Flat(R) \in Cells
    BY <2>2, FlatPlaces
  <2>4. <<n>> \in Cells
    BY <2>1 DEF Cells
  <2>5. Cat(<<n>>, Flat(R)) \in Cells
    BY <2>3, <2>4, CellsConcat
  <2> QED BY <1>4, <2>5 DEF R
<1>6. rest \in Cells
  <2> DEFINE m == Len(Data) + 1
             l == Len(file)
  <2>1. file \in Seq(Nat) /\ Len(Data) \in Nat
    BY <1>5 DEF TablesInv, Cells
  <2>2. m \in Int /\ l \in Int /\ m >= 1
    BY <2>1
  <2>3. \A i \in m .. l : file[i] \in Nat
    BY <2>1, <2>2
  <2> HIDE DEF m
  <2>4. SubSeq(file, m, l) \in Seq(Nat)
    BY <2>2, <2>3, SubSeqProperties
  <2> QED BY <2>4 DEF Cells, m
<1>7. f = Cat(Data, rest)
  BY DEF Overwritten, Cat
<1> HIDE DEF rest, f
<1>8. f = Cat(Cat(<<n>>, Flat([i \in DOMAIN s |-> Record(s[i])])), rest)
  BY <1>4, <1>7
<1> HIDE DEF s
<1>9. /\ f \in Seq(Nat) /\ Len(ReadOf(f)) = Len(s)
      /\ \A i \in 1 .. Len(s) : ReadOf(f)[i] = Entry(s[i])
  BY <1>2, <1>3, <1>6, <1>8, RoundTrip DEF n
<1>10. SavedOf(f) = Entries(analyses)
  <2>1. ReadOf(f) \in Seq(Saveds)
    BY <1>9, ReadSaved
  <2>2. DOMAIN ReadOf(f) = 1 .. Len(s) /\ DOMAIN s = 1 .. Len(s)
    BY <1>2, <1>9, <2>1
  <2>3. SavedOf(f) = {Entry(s[i]) : i \in DOMAIN s}
    BY <1>9, <2>2 DEF SavedOf
  <2>4. {Entry(s[i]) : i \in DOMAIN s} = {Entry(x) : x \in Elems(s)}
    BY DEF Elems
  <2> QED BY <1>2, <2>3, <2>4, EntriesOf
<1>11. /\ analyses' = Null /\ available' = Null /\ analysis_cnt' = 0
       /\ file' = f /\ saved' = Entries(analyses)
  BY DEF Shutdown, Gone, f
<1> QED BY <1>9, <1>10, <1>11, NothingKept DEF TablesInv

\* The tables that a manager starts with.
LEMMA StartFacts ==
  ASSUME TablesInv, NEW heap \in [Ids -> HeapVals], Start(heap)
  PROVE  /\ TablesInv'
         /\ Entries(analyses') = saved
         /\ TreapIds(available') = Rebuild({e.id : e \in saved})
<1> DEFINE s == ReadOf(file)
           mx == GreatestId(s)
           m == IF mx < IdMax THEN mx + 1 ELSE IdMax
           t == TreapOf(s, heap)
           node(k) == StartNode(s, heap, k)
<1>1. /\ analyses' = t /\ available' = PoolUpTo(m, t, heap)
      /\ analysis_cnt' = Cell(file, 1) /\ UNCHANGED <<file, saved>>
  BY ReadIs DEF Start
<1>2. file \in Seq(Nat) /\ saved = {s[i] : i \in DOMAIN s}
  BY DEF TablesInv, SavedOf
<1>3. /\ s \in Seq(Saveds) /\ Len(s) = Cell(file, 1) /\ Len(s) \in Nat
      /\ DOMAIN s = 1 .. Len(s)
  BY <1>2, ReadSaved
<1> HIDE DEF s
<1>4. /\ mx \in Nat
      /\ mx = 0 \/ \E i \in DOMAIN s : s[i].id = mx
      /\ \A i \in DOMAIN s : s[i].id <= mx
  BY <1>3, GreatestFacts
<1>5. /\ t \in SearchTrees /\ Len(InOrder(t)) = Len(s)
      /\ Elems(InOrder(t)) = {node(k) : k \in 1 .. Len(s)}
  BY <1>3, TreapOfFacts
<1>6. \A k \in 1 .. Len(s) :
        /\ node(k) \in Lone /\ node(k).id = s[k].id
        /\ node(k).anal = Forked(s[k]) /\ s[k] \in Saveds
  BY <1>3, StartNodeLone
<1> HIDE DEF mx, t, node
<1>7. m \in Nat
  BY <1>4, IdMaxAssumption
<1>8. /\ PoolUpTo(m, t, heap) \in SearchTrees
      /\ TreapIds(PoolUpTo(m, t, heap)) = {i \in 1 .. m : treap_find(t, i) = Null}
  BY <1>7, PoolUpToFacts
<1>9. AllSound(t)
  <2> SUFFICES ASSUME NEW k \in 1 .. Len(s)
               PROVE  Sound(node(k).anal)
    BY <1>5 DEF AllSound
  <2>1. node(k).anal = Forked(s[k]) /\ s[k] \in Saveds
    BY <1>6
  <2> QED BY <2>1, ForkedAnal DEF Sound
<1>10. TablesInv'
  BY <1>1, <1>2, <1>3, <1>5, <1>8, <1>9 DEF TablesInv
<1>11. Entries(t) = saved
  <2>1. ASSUME NEW k \in 1 .. Len(s)
        PROVE  Entry(node(k)) = s[k]
    <3>1. /\ node(k).id = s[k].id /\ node(k).anal = Forked(s[k])
          /\ s[k] \in Saveds
      BY <1>6
    <3>2. s[k] = [id |-> s[k].id, path |-> s[k].path, status |-> s[k].status,
                  suspended |-> s[k].suspended]
      BY <3>1 DEF Saveds
    <3> QED BY <3>1, <3>2, ForkedAnal DEF Entry
  <2>2. Entries(t) = {Entry(node(k)) : k \in 1 .. Len(s)}
    BY <1>5, EntriesOf
  <2> QED BY <1>2, <1>3, <2>1, <2>2
<1> DEFINE U == {e.id : e \in saved}
<1>12. U = {s[i].id : i \in DOMAIN s}
  BY <1>2
<1>13. \A i \in 1 .. m : treap_find(t, i) = Null <=> i \notin U
  <2> TAKE i \in 1 .. m
  <2>1. i \in Nat /\ t \in Trees /\ Sorted(InOrder(t))
    BY <1>5, <1>7 DEF SearchTrees
  <2>2. HasId(InOrder(t), i) <=> i \in U
    BY <1>3, <1>5, <1>6, <1>12 DEF HasId
  <2>3. HasId(InOrder(t), i) => treap_find(t, i) # Null
    BY <2>1, FindComplete
  <2>4. treap_find(t, i) # Null => HasId(InOrder(t), i)
    <3> SUFFICES ASSUME treap_find(t, i) # Null
                 PROVE  HasId(InOrder(t), i)
      OBVIOUS
    <3> DEFINE y == treap_find(t, i)
    <3>1. y \in Proper /\ y.id = i /\ Alone(y) \in Elems(InOrder(t))
      BY <2>1, FindFacts
    <3>2. Alone(y).id = y.id
      BY <3>1, AloneLone
    <3> QED BY <3>1, <3>2 DEF HasId
  <2> QED BY <2>2, <2>3, <2>4
<1>14. {i \in 1 .. m : i \notin U} = Rebuild(U)
  <2>1. /\ \A u \in U : u \in Nat /\ u <= mx
        /\ mx = 0 \/ mx \in U
    <3>1. \A i \in DOMAIN s : s[i].id \in Nat /\ s[i].id <= mx
      BY <1>3, <1>4, <1>6 DEF Saveds
    <3> QED BY <1>4, <1>12, <3>1
  <2> HIDE DEF U, m
  <2>2. m = IF mx < IdMax THEN mx + 1 ELSE IdMax
    BY DEF m
  <2>3. IdMax \in Nat \ {0}
    BY IdMaxAssumption
  <2>4. \A i \in Nat : i \in 1 .. m <=> i \in Ids /\ i <= mx + 1
    BY <1>4, <2>2, <2>3 DEF Ids
  <2>5. \A i \in Nat \ {0} : i <= mx + 1 <=> i = 1 \/ \E u \in U : i <= u + 1
    BY <1>4, <2>1
  <2> QED BY <2>3, <2>4, <2>5, <1>7 DEF Rebuild, Ids
<1> HIDE DEF U
<1>15. TreapIds(available') = Rebuild(U)
  BY <1>1, <1>8, <1>13, <1>14
<1> QED BY <1>1, <1>10, <1>11, <1>15 DEF U

-----------------------------------------------------------------------------
(***************************************************************************)
(* The theorems that follow.                                               *)
(***************************************************************************)

LEMMA InitInv ==
  ASSUME Init
  PROVE  TablesInv
<1>1. file \in Seq(Nat)
  BY TablesAssumption DEF Init
<1>2. saved = SavedOf(file)
  BY ReadIs DEF Init, SavedOf
<1> QED BY <1>1, <1>2, NothingKept DEF Init, TablesInv

LEMMA NextInv ==
  ASSUME TablesInv, [Next]_vars
  PROVE  TablesInv'
<1>1. CASE Next
  <2>1. Distinct
    BY <1>1 DEF Next
  <2>2. CASE threads_add
    <3>1. PICK h \in HeapVals, p \in Paths :
            LET got == get_free_id(available, h)
            IN /\ got.node # Null
               /\ \/ Add(p, got) \/ AddForkFails(p, got)
                  \/ \E n \in 0 .. Len(p) - 1 : AddNoMemory(p, got, n)
      BY <2>2 DEF threads_add, Addable
    <3> DEFINE got == get_free_id(available, h)
    <3> HIDE DEF got
    <3>2. got = get_free_id(available, h) /\ got.node # Null
      BY <3>1 DEF got
    <3>3. CASE Add(p, got)
      BY <2>1, <3>2, <3>3, AddKeeps
    <3>4. CASE AddForkFails(p, got)
      BY <2>1, <3>2, <3>4, AddForkFailsKeeps
    <3>5. CASE \E n \in 0 .. Len(p) - 1 : AddNoMemory(p, got, n)
      BY <2>1, <3>2, <3>5, AddNoMemoryKeeps
    <3> QED BY <3>1, <3>3, <3>4, <3>5 DEF got
  <2>3. ASSUME NEW n \in Found, Suspend(n) \/ Resume(n) \/ Result(n) \/ Remove(n)
        PROVE  TablesInv'
    BY <2>1, <2>3, RequestKeeps, RemoveKeeps
  <2>4. ASSUME NEW heap \in [Ids -> HeapVals], Start(heap)
        PROVE  TablesInv'
    BY <2>4, StartFacts
  <2>5. CASE Shutdown
    BY <2>1, <2>5, ShutdownKeeps
  <2>6. CASE Die
    BY <2>6, DieKeeps
  <2> QED BY <1>1, <2>2, <2>3, <2>4, <2>5, <2>6 DEF Next
<1>2. CASE UNCHANGED vars
  <2>1. UNCHANGED <<analyses, available, analysis_cnt, file, saved>>
    BY <1>2 DEF vars, mem
  <2> QED BY <2>1 DEF TablesInv
<1> QED BY <1>1, <1>2

\* The invariant: search trees, sound analyses, a count that is theirs, and a
\* file that holds what was saved last.
THEOREM TablesInvariant == Spec => []TablesInv
BY InitInv, NextInv, PTL DEF Spec

\* Rotations keep the search order of both treaps, through any sequence of
\* requests, failures, stops and starts.
THEOREM TreapsStayOrdered == Spec => []SearchOrder
<1>1. TablesInv => SearchOrder
  BY IdsElems DEF TablesInv, SearchTrees, SearchOrder
<1> QED BY <1>1, TablesInvariant, PTL

\* The treap available_ids behaves as the set of its ids, the one that module
\* IdPool proves about, for every shape that priorities can give it.
THEOREM PoolKeepsItsIds == Spec => []PoolIsSet
<1>1. ASSUME TablesInv
      PROVE  PoolIsSet
  <2> DEFINE S == TreapIds(available)
  <2> SUFFICES ASSUME UniqueKeys(available)
               PROVE  /\ \A h \in HeapVals :
                           LET got == get_free_id(available, h) IN
                           IF S = {} THEN got.node = Null
                           ELSE /\ got.node.id \in GetChoices(S)
                                /\ TreapIds(got.tree) = AfterGet(S, got.node.id)
                      /\ \A h \in HeapVals, i \in Ids \ S :
                           LET n == NewNode(i, h, Null) IN
                           /\ TreapIds(return_id(available, n)) = AfterReturn(S, i)
                           /\ TreapIds(treap_insert_node(available, n)) =
                                AfterRemove(S, i)
    BY DEF PoolIsSet
  <2>1. available \in Trees /\ Sorted(InOrder(available))
    BY <1>1 DEF TablesInv, SearchTrees
  <2>2. available \in InTrees
    BY <2>1, UniqueStrict DEF InTrees
  <2>3. \A h \in HeapVals : h \in Heaps
    BY DEF Heaps
  <2>4. ASSUME NEW h \in HeapVals
        PROVE  LET got == get_free_id(available, h) IN
               IF S = {} THEN got.node = Null
               ELSE /\ got.node.id \in GetChoices(S)
                    /\ TreapIds(got.tree) = AfterGet(S, got.node.id)
    BY <2>2, <2>3, GetFacts DEF PoolGet
  <2>5. ASSUME NEW h \in HeapVals, NEW i \in Ids \ S
        PROVE  LET n == NewNode(i, h, Null) IN
               /\ TreapIds(return_id(available, n)) = AfterReturn(S, i)
               /\ TreapIds(treap_insert_node(available, n)) = AfterRemove(S, i)
    <3> DEFINE n == NewNode(i, h, Null)
    <3>1. i \in Nat
      BY DEF Ids
    <3>2. n \in Lone /\ n.id = i
      BY <2>3, <3>1, NewNodeLone
    <3> HIDE DEF n
    <3>3. TreapIds(return_id(available, n)) = AfterReturn(S, i)
      BY <2>2, <3>2, ReturnFacts
    <3>4. TreapIds(treap_insert_node(available, n)) = AfterRemove(S, i)
      BY <2>1, <3>2, IdsInserted DEF AfterRemove
    <3> QED BY <3>3, <3>4 DEF n
  <2> QED BY <2>4, <2>5
<1> QED BY <1>1, TablesInvariant, PTL

\* The number that lists and the data file announce is that of the analyses,
\* also after adds that fail half way.
THEOREM CountKept == Spec => []CountExact
<1>1. TablesInv => CountExact
  BY DEF TablesInv, CountExact
<1> QED BY <1>1, TablesInvariant, PTL

\* What is not complete has a process and what is complete has none, also after
\* suspensions and restarts.
THEOREM UnfinishedKeepRunning == Spec => []UnfinishedRun
<1>1. TablesInv => UnfinishedRun
  BY IdsElems DEF TablesInv, UnfinishedRun, AllSound, Sound
<1> QED BY <1>1, TablesInvariant, PTL

\* A start finds the analyses that the last stop saved, whatever a longer file
\* left behind them, and makes the pool of the ids that they leave.
THEOREM RestartsFromFile == Spec => StartsAsSaved
<1>1. ASSUME TablesInv, [Next]_vars
      PROVE  [up' /\ ~up => /\ Entries(analyses') = saved
                            /\ TreapIds(available') = Rebuild({e.id : e \in saved})]_vars
  <2>1. CASE UNCHANGED vars
    BY <2>1
  <2>2. CASE Next /\ up' /\ ~up
    <3>1. PICK heap \in [Ids -> HeapVals] : Start(heap)
      BY <2>2 DEF Next, threads_add, Serving, Shutdown, Die, Gone
    <3> QED BY <1>1, <3>1, StartFacts
  <2> QED BY <1>1, <2>1, <2>2
<1> QED BY <1>1, TablesInvariant, PTL DEF Spec, StartsAsSaved

-----------------------------------------------------------------------------
(***************************************************************************)
(* The path tree and the analyses: what a path tree has stored is a set of *)
(* directories with their ids, and the operations on it add to that set    *)
(* and take away from it.                                                  *)
(***************************************************************************)

\* The directories of the analyses in a treap, each with its id.
Site(n)  == [path |-> n.anal.path, id |-> n.id]
Sites(t) == {Site(n) : n \in Elems(InOrder(t))}

\* The path tree t has exactly what S has.
Matches(t, S) ==
  /\ IsTree(t) /\ Shallow(t)
  /\ \A r \in S : /\ r.path \in Dirs /\ r.id \in Nat \ {NoInfo}
                  /\ r = [path |-> r.path, id |-> r.id]
                  /\ Info(t, r.path) = r.id
  /\ \A q \in Dirs : Info(t, q) # NoInfo => [path |-> q, id |-> Info(t, q)] \in S

LEMMA MatchesStored ==
  ASSUME NEW t, NEW S, Matches(t, S)
  PROVE  Stored(t) = S
<1>1. \A r : r \in Stored(t) <=>
        \E q \in Dirs : Info(t, q) # NoInfo /\ r = [path |-> q, id |-> Info(t, q)]
  BY StoredIs DEF Matches
<1>2. ASSUME NEW r \in S
      PROVE  r \in Stored(t)
  <2>1. /\ r.path \in Dirs /\ Info(t, r.path) # NoInfo
        /\ r = [path |-> r.path, id |-> Info(t, r.path)]
    BY DEF Matches
  <2> QED BY <1>1, <2>1
<1>3. ASSUME NEW r \in Stored(t)
      PROVE  r \in S
  BY <1>1 DEF Matches
<1> QED BY <1>2, <1>3

LEMMA MatchesInsert ==
  ASSUME NEW t, NEW S, Matches(t, S), NEW p \in Dirs, NEW i \in Nat \ {NoInfo},
         Info(t, p) \in {NoInfo, i}
  PROVE  Matches(tree_insert(t, p, i), S \cup {[path |-> p, id |-> i]})
<1> DEFINE u == tree_insert(t, p, i)
<1>1. /\ IsTree(u) /\ Shallow(u)
      /\ \A q \in Dirs : Info(u, q) = IF q = p THEN i ELSE Info(t, q)
  BY TreeInsertFacts DEF Matches
<1> HIDE DEF u
<1>2. \A r \in S : /\ r.path \in Dirs /\ r.id \in Nat \ {NoInfo}
                   /\ r = [path |-> r.path, id |-> r.id]
                   /\ Info(u, r.path) = r.id
  BY <1>1 DEF Matches
<1>3. \A q \in Dirs : Info(u, q) # NoInfo =>
        [path |-> q, id |-> Info(u, q)] \in S \cup {[path |-> p, id |-> i]}
  BY <1>1 DEF Matches
<1> DEFINE r == [path |-> p, id |-> i]
<1>4. r.path = p /\ r.id = i
  OBVIOUS
<1>5. /\ r.path \in Dirs /\ r.id \in Nat \ {NoInfo}
      /\ r = [path |-> r.path, id |-> r.id]
      /\ Info(u, r.path) = r.id
  BY <1>1, <1>4
<1> QED BY <1>1, <1>2, <1>3, <1>5 DEF Matches, u

LEMMA MatchesSame ==
  ASSUME NEW t, NEW S, Matches(t, S), NEW u, IsTree(u), Shallow(u),
         \A q \in Dirs : Info(u, q) = Info(t, q)
  PROVE  Matches(u, S)
BY DEF Matches

LEMMA MatchesRemove ==
  ASSUME NEW t, NEW S, Matches(t, S), NEW p \in Dirs
  PROVE  Matches(tree_remove(t, p), {r \in S : r.path # p})
<1> DEFINE u == tree_remove(t, p)
<1>1. /\ IsTree(u) /\ Shallow(u)
      /\ \A q \in Dirs : Info(u, q) = IF q = p THEN NoInfo ELSE Info(t, q)
  BY TreeRemoveFacts DEF Matches
<1> HIDE DEF u
<1>2. \A r \in S : r.path # p =>
                   /\ r.path \in Dirs /\ r.id \in Nat \ {NoInfo}
                   /\ r = [path |-> r.path, id |-> r.id]
                   /\ Info(u, r.path) = r.id
  BY <1>1 DEF Matches
<1>3. ASSUME NEW q \in Dirs, Info(u, q) # NoInfo
      PROVE  [path |-> q, id |-> Info(u, q)] \in {r \in S : r.path # p}
  <2>1. q # p /\ Info(u, q) = Info(t, q)
    BY <1>1, <1>3
  <2>2. [path |-> q, id |-> Info(u, q)] \in S
    BY <1>3, <2>1 DEF Matches
  <2> QED BY <2>1, <2>2
<1> QED BY <1>1, <1>2, <1>3 DEF Matches, u

LEMMA MatchesNone == Matches(EmptyTree, {})
<1>1. \A q \in Dirs : Info(EmptyTree, q) = NoInfo
  <2> TAKE q \in Dirs
  <2>1. Len(q) \in Nat
    BY DirNames
  <2>2. Along(EmptyTree, q)[0] = EmptyTree
    BY EmptyIsTree, AlongRec
  <2>3. Along(EmptyTree, q)[Len(q)] = EmptyTree
    BY <2>1, <2>2, EmptyIsTree, EmptyOn
  <2> QED BY <2>3, DownEmpty DEF Info
<1>2. Shallow(EmptyTree)
  <2>1. ASSUME NEW q \in Dirs, NEW k \in 0 .. Len(q) - 1
        PROVE  ~Has(Along(EmptyTree, q)[k], q[k + 1])
    <3>1. Len(q) \in Nat /\ q[k + 1] \in Names
      BY DirNames
    <3>2. Along(EmptyTree, q)[0] = EmptyTree
      BY EmptyIsTree, AlongRec
    <3>3. Along(EmptyTree, q)[k] = EmptyTree
      BY <3>1, <3>2, EmptyIsTree, EmptyOn
    <3> QED BY <3>1, <3>3, DownEmpty
  <2>2. 0 \in Nat
    OBVIOUS
  <2> QED BY <2>1, <2>2 DEF Shallow
<1> QED BY <1>1, <1>2, EmptyIsTree DEF Matches

-----------------------------------------------------------------------------
(***************************************************************************)
(* The second invariant: the path tree has the directories of the          *)
(* analyses, and what is saved has one id for a directory. An add leaves a *)
(* tree with more nodes when it fails, but with nothing else stored.       *)
(***************************************************************************)

\* What a data file may say: no two ids for a directory, and none is 0.
GoodEntries(E) == \A e \in E : /\ e.id # NoInfo /\ e.path \in Dirs
                               /\ \A g \in E : e.path = g.path => e.id = g.id

PathsInv == /\ TablesInv
            /\ Matches(paths, Sites(analyses))
            /\ NoInfo \notin TreapIds(available)
            /\ GoodEntries(saved)

LEMMA PathsDirs == Paths \subseteq Dirs
BY TablesAssumption DEF Dirs, Names

\* Nothing is stored for a directory that threads_add takes.
LEMMA AddableFree ==
  ASSUME PathsInv, NEW p \in Addable
  PROVE  p \in Dirs /\ p \in Paths /\ Info(paths, p) = NoInfo
<1>1. p \in Paths /\ tree_find_prefix(paths, p) = NoInfo
  BY DEF Addable
<1>2. p \in Dirs /\ Len(p) \in Nat
  BY <1>1, PathsDirs, DirNames
<1>3. IsTree(paths)
  BY DEF PathsInv, Matches
<1>4. \A k \in 0 .. Len(p) : Along(paths, p)[k].info = NoInfo
  BY <1>1, <1>2, <1>3, PrefixFacts
<1>5. Len(p) \in 0 .. Len(p)
  BY <1>2
<1> QED BY <1>1, <1>2, <1>4, <1>5 DEF Info

\* The node that threads_add takes from the pool and puts into analyses.
LEMMA AddSites ==
  ASSUME PathsInv, Distinct, NEW h \in HeapVals, NEW got,
         got = get_free_id(available, h), got.node # Null, NEW p \in Paths
  PROVE  LET i == got.node.id
             u == Inserted(p, got)
         IN /\ i \in Nat \ {NoInfo} /\ got.node \in Lone /\ got.tree \in InTrees
            /\ NoInfo \notin TreapIds(got.tree)
            /\ u \in InTrees /\ i \in TreapIds(u)
            /\ Sites(u) = Sites(analyses) \cup {[path |-> p, id |-> i]}
            /\ \E n : /\ Elems(InOrder(u)) = Elems(InOrder(analyses)) \cup {n}
                      /\ n.id = i /\ i \notin TreapIds(analyses)
<1>1. /\ analyses \in InTrees /\ available \in InTrees
      /\ TreapIds(analyses) \cap TreapIds(available) = {}
  BY TreesApart DEF PathsInv
<1>2. h \in Heaps
  BY DEF Heaps
<1>3. PoolGet(available, got)
  BY <1>1, <1>2, GetFacts
<1>4. /\ got.tree \in InTrees /\ got.node \in Lone
      /\ got.node.id \notin TreapIds(analyses) /\ got.node.id \in TreapIds(available)
      /\ TreapIds(got.tree) = AfterGet(TreapIds(available), got.node.id)
  BY <1>1, <1>3 DEF PoolGet
<1>5. got.node.id \in Nat \ {NoInfo}
  BY <1>1, <1>4, InTreesSorted DEF PathsInv
<1>6. NoInfo \notin TreapIds(got.tree)
  BY <1>4, <1>5 DEF PathsInv, AfterGet, NoInfo
<1> DEFINE n == [got.node EXCEPT !.anal = NewAnal(p)]
<1>7. n \in Lone /\ n.id = got.node.id /\ n.anal = NewAnal(p)
  BY <1>4, NewAnalSound, WithAnalLone
<1>8. Inserted(p, got) = treap_insert_node(analyses, n)
  BY DEF Inserted
<1> HIDE DEF n
<1> DEFINE u == treap_insert_node(analyses, n)
<1>9. analyses \in Trees /\ Sorted(InOrder(analyses)) /\ Strict(InOrder(analyses))
  BY <1>1, InTreesSorted
<1>10. /\ u \in InTrees /\ TreapIds(u) = TreapIds(analyses) \cup {n.id}
       /\ Elems(InOrder(u)) = Elems(InOrder(analyses)) \cup {n}
  BY <1>4, <1>7, <1>9, IdsInserted DEF InTrees
<1> HIDE DEF u
<1>11. Sites(u) = Sites(analyses) \cup {Site(n)}
  BY <1>10 DEF Sites
<1>12. Site(n) = [path |-> p, id |-> got.node.id]
  BY <1>7 DEF Site, NewAnal
<1>13. Inserted(p, got) = u
  BY <1>8 DEF u
<1> QED BY <1>4, <1>5, <1>6, <1>7, <1>10, <1>11, <1>12, <1>13

LEMMA AddMatches ==
  ASSUME PathsInv, Distinct, NEW h \in HeapVals, NEW got,
         got = get_free_id(available, h), got.node # Null, NEW p \in Addable,
         Add(p, got)
  PROVE  PathsInv'
<1>1. p \in Dirs /\ p \in Paths /\ Info(paths, p) = NoInfo
  BY AddableFree
<1>2. TablesInv'
  BY <1>1, AddKeeps DEF PathsInv
<1>3. /\ got.node.id \in Nat \ {NoInfo} /\ NoInfo \notin TreapIds(got.tree)
      /\ Sites(Inserted(p, got)) =
           Sites(analyses) \cup {[path |-> p, id |-> got.node.id]}
  BY <1>1, AddSites
<1>4. /\ analyses' = Inserted(p, got) /\ available' = got.tree
      /\ paths' = tree_insert(paths, p, got.node.id) /\ saved' = saved
  BY DEF Add
<1>5. Matches(paths', Sites(analyses'))
  BY <1>1, <1>3, <1>4, MatchesInsert DEF PathsInv
<1> QED BY <1>2, <1>3, <1>4, <1>5 DEF PathsInv

LEMMA AddNoMemoryMatches ==
  ASSUME PathsInv, Distinct, NEW h \in HeapVals, NEW got,
         got = get_free_id(available, h), got.node # Null, NEW p \in Addable,
         NEW n \in 0 .. Len(p) - 1, AddNoMemory(p, got, n)
  PROVE  PathsInv'
<1>1. p \in Dirs /\ p \in Paths /\ Len(p) \in Nat
  BY AddableFree, DirNames
<1>2. TablesInv'
  BY <1>1, AddNoMemoryKeeps DEF PathsInv
<1>3. /\ paths' = InsertCutOff(paths, p, n) /\ analyses' = analyses
      /\ available' = return_id(got.tree, got.node) /\ saved' = saved
  BY DEF AddNoMemory
<1>4. Matches(paths', Sites(analyses))
  <2>1. n \in 0 .. Len(p)
    BY <1>1
  <2>2. IsTree(paths) /\ Shallow(paths)
    BY DEF PathsInv, Matches
  <2>3. /\ IsTree(paths') /\ Shallow(paths')
        /\ \A q \in Dirs : Info(paths', q) = Info(paths, q)
    BY <1>1, <1>3, <2>1, <2>2, CutOffFacts
  <2> QED BY <2>3, MatchesSame DEF PathsInv
<1>5. NoInfo \notin TreapIds(available')
  <2>1. /\ got.node.id \in Nat \ {NoInfo} /\ got.node \in Lone
        /\ got.tree \in InTrees /\ NoInfo \notin TreapIds(got.tree)
    BY <1>1, AddSites
  <2>2. TreapIds(available') = AfterReturn(TreapIds(got.tree), got.node.id)
    BY <1>3, <2>1, ReturnFacts
  <2> QED BY <2>1, <2>2 DEF AfterReturn
<1> QED BY <1>2, <1>3, <1>4, <1>5 DEF PathsInv

LEMMA AddForkFailsMatches ==
  ASSUME PathsInv, Distinct, NEW h \in HeapVals, NEW got,
         got = get_free_id(available, h), got.node # Null, NEW p \in Addable,
         AddForkFails(p, got)
  PROVE  PathsInv'
<1> DEFINE u == Inserted(p, got)
           i == got.node.id
           x == treap_extract(u, i)
<1>1. p \in Dirs /\ p \in Paths /\ Info(paths, p) = NoInfo
  BY AddableFree
<1>2. TablesInv'
  BY <1>1, AddForkFailsKeeps DEF PathsInv
<1>3. /\ i \in Nat \ {NoInfo} /\ got.tree \in InTrees
      /\ NoInfo \notin TreapIds(got.tree)
      /\ u \in InTrees /\ i \in TreapIds(u)
  BY <1>1, AddSites
<1>4. PICK n : /\ Elems(InOrder(u)) = Elems(InOrder(analyses)) \cup {n}
               /\ n.id = i /\ i \notin TreapIds(analyses)
  BY <1>1, AddSites
<1>5. /\ analyses' = x.tree /\ available' = return_id(got.tree, x.node)
      /\ paths' = tree_remove(tree_insert(paths, p, i), p) /\ saved' = saved
  BY DEF AddForkFails
<1> HIDE DEF u, i
<1>6. /\ x.node \in Lone /\ x.node.id = i
      /\ Elems(InOrder(u)) = Elems(InOrder(x.tree)) \cup {x.node}
      /\ TreapIds(x.tree) = TreapIds(u) \ {i}
  BY <1>3, IdsTaken
<1> HIDE DEF x
<1>7. Elems(InOrder(x.tree)) = Elems(InOrder(analyses))
  <2>1. \A e \in Elems(InOrder(x.tree)) : e.id # i
    BY <1>6, IdsElems
  <2>2. \A e \in Elems(InOrder(analyses)) : e.id # i
    BY <1>4, IdsElems
  <2> QED BY <1>4, <1>6, <2>1, <2>2
<1>8. Sites(analyses') = Sites(analyses)
  BY <1>5, <1>7 DEF Sites
<1>9. Matches(paths', Sites(analyses))
  <2> DEFINE v == tree_insert(paths, p, i)
  <2>1. IsTree(paths) /\ Shallow(paths)
    BY DEF PathsInv, Matches
  <2>2. /\ IsTree(v) /\ Shallow(v)
        /\ \A q \in Dirs : Info(v, q) = IF q = p THEN i ELSE Info(paths, q)
    BY <1>1, <1>3, <2>1, TreeInsertFacts
  <2> HIDE DEF v
  <2>3. /\ IsTree(tree_remove(v, p)) /\ Shallow(tree_remove(v, p))
        /\ \A q \in Dirs : Info(tree_remove(v, p), q) =
                             IF q = p THEN NoInfo ELSE Info(v, q)
    BY <1>1, <2>2, TreeRemoveFacts
  <2>4. paths' = tree_remove(v, p)
    BY <1>5 DEF v
  <2>5. \A q \in Dirs : Info(paths', q) = Info(paths, q)
    BY <1>1, <2>2, <2>3, <2>4
  <2> QED BY <2>3, <2>4, <2>5, MatchesSame DEF PathsInv
<1>10. NoInfo \notin TreapIds(available')
  <2>1. TreapIds(available') = AfterReturn(TreapIds(got.tree), x.node.id)
    BY <1>3, <1>5, <1>6, ReturnFacts
  <2> QED BY <1>3, <1>6, <2>1 DEF AfterReturn
<1> QED BY <1>2, <1>5, <1>8, <1>9, <1>10 DEF PathsInv

-----------------------------------------------------------------------------
(***************************************************************************)
(* The other requests, and the end of a manager.                           *)
(***************************************************************************)

\* A request about an analysis leaves its directory as it is.
LEMMA SetAnalMatches ==
  ASSUME PathsInv, Distinct, NEW n \in Found, NEW a, Sound(a),
         a.path = n.anal.path, SetAnal(n, a)
  PROVE  PathsInv'
<1> DEFINE u == WithAnal(analyses, n.id, a)
<1>1. TablesInv'
  BY SetAnalKeeps DEF PathsInv
<1>2. PICK i \in Ids : n = treap_find(analyses, i) /\ n # Null
  BY DEF Found
<1>3. /\ analyses \in Trees /\ InOrder(analyses) \in Seq(Lone)
      /\ Strict(InOrder(analyses)) /\ a \in Anals
  BY TreesApart, InTreesSorted DEF PathsInv, Sound
<1>4. /\ Alone(n) \in Elems(InOrder(analyses))
      /\ Alone(n).id = n.id /\ Alone(n).anal = n.anal
  BY <1>2, <1>3, FindFacts, AloneLone
<1>5. SameBut(InOrder(u), InOrder(analyses), n.id, a)
  BY <1>3, WithAnalFacts
<1>6. /\ analyses' = u
      /\ UNCHANGED <<available, paths, saved>>
  BY DEF SetAnal
<1> HIDE DEF u
<1>7. ASSUME NEW y, NEW z \in Elems(InOrder(analyses)), Twin(y, z, n.id, a)
      PROVE  Site(y) = Site(z)
  <2>1. CASE y.anal = z.anal
    BY <1>7, <2>1 DEF Twin, Site
  <2>2. CASE y.id = n.id /\ y.anal = a
    <3>1. z = Alone(n)
      BY <1>3, <1>4, <1>7, <2>2, StrictUnique DEF Twin
    <3> QED BY <1>4, <1>7, <2>2, <3>1 DEF Twin, Site
  <2> QED BY <1>7, <2>1, <2>2 DEF Twin
<1>8. Sites(u) = Sites(analyses)
  <2>1. ASSUME NEW y \in Elems(InOrder(u))
        PROVE  Site(y) \in Sites(analyses)
    BY <1>5, <1>7 DEF SameBut, Sites
  <2>2. ASSUME NEW z \in Elems(InOrder(analyses))
        PROVE  Site(z) \in Sites(u)
    <3>1. PICK y \in Elems(InOrder(u)) : Twin(y, z, n.id, a)
      BY <1>5 DEF SameBut
    <3>2. Site(y) = Site(z)
      BY <1>7, <3>1
    <3> QED BY <3>2 DEF Sites
  <2> QED BY <2>1, <2>2 DEF Sites
<1> QED BY <1>1, <1>6, <1>8 DEF PathsInv

LEMMA RequestMatches ==
  ASSUME PathsInv, Distinct, NEW n \in Found, Suspend(n) \/ Resume(n) \/ Result(n)
  PROVE  PathsInv'
<1>1. Sound(n.anal) /\ n.anal \in Anals
  BY FoundFacts DEF Sound, PathsInv
<1>2. CASE Suspend(n)
  <2> DEFINE a == [n.anal EXCEPT !.suspended = Suspended, !.proc = "stopped"]
  <2>1. Sound(a) /\ a.path = n.anal.path
    BY <1>1, <1>2 DEF Sound, Suspend, Anals, Suspended
  <2> QED BY <1>2, <2>1, SetAnalMatches DEF Suspend
<1>3. CASE Resume(n)
  <2> DEFINE a == [n.anal EXCEPT !.suspended = Resumed,
                                 !.proc = IF @ = "stopped" THEN "runs" ELSE @]
  <2>1. Sound(a) /\ a.path = n.anal.path
    BY <1>1 DEF Sound, Anals, Resumed
  <2> QED BY <1>3, <2>1, SetAnalMatches DEF Resume
<1>4. CASE Result(n)
  <2> DEFINE a == [n.anal EXCEPT !.status = Complete, !.proc = "none"]
  <2>1. Sound(a) /\ a.path = n.anal.path
    BY <1>1 DEF Sound, Anals, Complete
  <2> QED BY <1>4, <2>1, SetAnalMatches DEF Result
<1> QED BY <1>2, <1>3, <1>4

\* A removal: the directory that is cut off was that of the analysis alone.
LEMMA RemoveMatches ==
  ASSUME PathsInv, Distinct, NEW n \in Found, Remove(n)
  PROVE  PathsInv'
<1> DEFINE x == treap_extract(analyses, n.id)
           y == [x.node EXCEPT !.anal = Null]
           S == Sites(analyses)
<1>1. TablesInv'
  BY RemoveKeeps DEF PathsInv
<1>2. /\ analyses \in InTrees /\ n.id \in TreapIds(analyses)
      /\ available \in Trees /\ Sorted(InOrder(available))
  BY TreesApart, FoundFacts, InTreesSorted DEF PathsInv
<1>3. /\ x.node \in Lone /\ x.node.id = n.id
      /\ Elems(InOrder(analyses)) = Elems(InOrder(x.tree)) \cup {x.node}
      /\ TreapIds(x.tree) = TreapIds(analyses) \ {n.id}
  BY <1>2, IdsTaken
<1>4. /\ analyses' = x.tree /\ saved' = saved
      /\ paths' = tree_remove(paths, x.node.anal.path)
      /\ available' = treap_insert_node(available, y)
  BY DEF Remove
<1>5. y \in Lone /\ y.id = n.id
  BY <1>3, WithAnalLone
<1> HIDE DEF x, y
<1> DEFINE p == x.node.anal.path
<1>6. Site(x.node).path = p /\ Site(x.node).id = n.id /\ Site(x.node) \in S
  BY <1>3 DEF Site, Sites
<1> HIDE DEF S
<1>7. p \in Dirs /\ n.id \in Nat \ {NoInfo} /\ Info(paths, p) = n.id
  BY <1>6 DEF PathsInv, Matches, S
<1>8. Sites(x.tree) = {r \in S : r.path # p}
  <2>1. ASSUME NEW e \in Elems(InOrder(x.tree))
        PROVE  Site(e) \in S /\ Site(e).path # p
    <3>1. Site(e) \in S /\ Site(e).id = e.id
      BY <1>3 DEF Site, Sites, S
    <3>2. e.id # n.id
      BY <1>3, IdsElems
    <3>3. Info(paths, Site(e).path) = e.id
      BY <3>1 DEF PathsInv, Matches, S
    <3> QED BY <1>7, <3>1, <3>2, <3>3
  <2>2. ASSUME NEW r \in S, r.path # p
        PROVE  r \in Sites(x.tree)
    <3>1. PICK e \in Elems(InOrder(analyses)) : r = Site(e)
      BY DEF S, Sites
    <3>2. e # x.node
      BY <1>6, <2>2, <3>1
    <3> QED BY <1>3, <3>1, <3>2 DEF Sites
  <2> QED BY <2>1, <2>2 DEF Sites
<1>9. Matches(paths', Sites(analyses'))
  BY <1>4, <1>7, <1>8, MatchesRemove DEF PathsInv, S
<1>10. NoInfo \notin TreapIds(available')
  <2>1. TreapIds(available') = TreapIds(available) \cup {n.id}
    BY <1>2, <1>4, <1>5, IdsInserted
  <2> QED BY <1>7, <2>1 DEF PathsInv
<1> QED BY <1>1, <1>4, <1>9, <1>10 DEF PathsInv

\* The tables of a manager that is not up say the same: nothing.
LEMMA GoneMatches ==
  ASSUME Gone
  PROVE  /\ Matches(paths', Sites(analyses'))
         /\ NoInfo \notin TreapIds(available')
<1>1. analyses' = Null /\ available' = Null /\ paths' = EmptyTree
  BY DEF Gone
<1>2. Sites(Null) = {} /\ TreapIds(Null) = {}
  BY NullSearch DEF Sites
<1> QED BY <1>1, <1>2, MatchesNone

LEMMA DieMatches ==
  ASSUME PathsInv, Die
  PROVE  PathsInv'
BY DieKeeps, GoneMatches DEF PathsInv, Die

\* What is saved is in the path tree, which has one id for a directory.
LEMMA ShutdownMatches ==
  ASSUME PathsInv, Distinct, Shutdown
  PROVE  PathsInv'
<1>1. TablesInv'
  BY ShutdownKeeps DEF PathsInv
<1>2. Gone /\ saved' = Entries(analyses)
  BY DEF Shutdown
<1>3. saved' = {Entry(n) : n \in Elems(InOrder(analyses))}
  BY <1>2, EntriesOf
<1>4. \A n \in Elems(InOrder(analyses)) :
        /\ n.anal.path \in Dirs /\ n.id # NoInfo
        /\ Info(paths, n.anal.path) = n.id
  <2> TAKE n \in Elems(InOrder(analyses))
  <2>1. /\ Site(n) \in Sites(analyses)
        /\ Site(n).path = n.anal.path /\ Site(n).id = n.id
    BY DEF Site, Sites
  <2> QED BY <2>1 DEF PathsInv, Matches
<1>5. \A n : Entry(n).id = n.id /\ Entry(n).path = n.anal.path
  BY DEF Entry
<1>6. GoodEntries(saved')
  BY <1>3, <1>4, <1>5 DEF GoodEntries
<1> QED BY <1>1, <1>2, <1>6, GoneMatches DEF PathsInv

-----------------------------------------------------------------------------
(***************************************************************************)
(* The path tree after the records were inserted one by one.               *)
(***************************************************************************)

\* The path trees of the loop over the records.
Insertions(s) ==
  CHOOSE f : f = [k \in 0 .. Len(s) |-> IF k = 0 THEN EmptyTree
                                        ELSE tree_insert(f[k - 1], s[k].path, s[k].id)]

LEMMA InsertionsRec ==
  ASSUME NEW s, Len(s) \in Nat
  PROVE  LET f == Insertions(s)
         IN /\ PathsOf(s) = f[Len(s)] /\ f[0] = EmptyTree
            /\ \A k \in 1 .. Len(s) : f[k] = tree_insert(f[k - 1], s[k].path, s[k].id)
<1> DEFINE n == Len(s)
           R(k, u) == tree_insert(u, s[k].path, s[k].id)
           Q(f, m) == /\ f = [k \in 0 .. m |-> f[k]] /\ f[0] = EmptyTree
                      /\ \A k \in 1 .. m : f[k] = R(k, f[k - 1])
           P(f) == f = [k \in 0 .. n |-> IF k = 0 THEN EmptyTree ELSE R(k, f[k - 1])]
           S == {m \in Nat : \E f : Q(f, m)}
<1>0. n \in Nat
  OBVIOUS
<1>8. ASSUME NEW f, P(f)
      PROVE  f[0] = EmptyTree /\ \A k \in 1 .. n : f[k] = R(k, f[k - 1])
  <2> HIDE DEF R, n
  <2>1. \A k \in 0 .. n : f[k] = IF k = 0 THEN EmptyTree ELSE R(k, f[k - 1])
    BY <1>8
  <2>2. 0 \in 0 .. n /\ \A k \in 1 .. n : k \in 0 .. n /\ k # 0
    BY <1>0
  <2> QED BY <2>1, <2>2
<1> DEFINE F == Insertions(s)
<1>9. F = CHOOSE f : P(f)
  BY DEF Insertions
<1>10. PathsOf(s) = F[n]
  BY DEF PathsOf, Insertions
<1> HIDE DEF R, F, n
<1>1. 0 \in S
  <2> DEFINE f == [k \in 0 .. 0 |-> EmptyTree]
  <2>1. /\ f = [k \in 0 .. 0 |-> f[k]] /\ f[0] = EmptyTree
        /\ \A k \in 1 .. 0 : FALSE
    OBVIOUS
  <2> HIDE DEF f
  <2> QED BY <2>1
<1>2. ASSUME NEW m \in Nat, m \in S
      PROVE  m + 1 \in S
  <2>1. PICK f : Q(f, m)
    BY <1>2
  <2> DEFINE g == [k \in 0 .. m + 1 |-> IF k = m + 1 THEN R(k, f[m]) ELSE f[k]]
  <2>2. /\ \A k \in 1 .. m : k \in 0 .. m + 1 /\ k # m + 1
                             /\ k - 1 \in 0 .. m + 1 /\ k - 1 # m + 1
        /\ m + 1 \in 0 .. m + 1 /\ 0 \in 0 .. m + 1 /\ 0 # m + 1
        /\ m \in 0 .. m + 1 /\ m # m + 1 /\ (m + 1) - 1 = m
        /\ \A k \in 1 .. m + 1 : k = m + 1 \/ k \in 1 .. m
    OBVIOUS
  <2>3. /\ g = [k \in 0 .. m + 1 |-> g[k]] /\ g[m + 1] = R(m + 1, f[m])
        /\ \A k \in 0 .. m + 1 : k # m + 1 => g[k] = f[k]
    BY <2>2
  <2> HIDE DEF g
  <2>4. g[0] = EmptyTree
    BY <2>1, <2>2, <2>3
  <2>5. ASSUME NEW k \in 1 .. m + 1
        PROVE  g[k] = R(k, g[k - 1])
    <3>1. CASE k = m + 1
      BY <2>2, <2>3, <3>1
    <3>2. CASE k \in 1 .. m
      BY <2>1, <2>2, <2>3, <3>2
    <3> QED BY <2>2, <3>1, <3>2
  <2>6. Q(g, m + 1)
    BY <2>3, <2>4, <2>5
  <2> HIDE DEF Q
  <2> QED BY <2>6
<1>3. n \in S
  <2> HIDE DEF S
  <2> QED BY <1>0, <1>1, <1>2, NatSetInduction
<1>4. PICK g : Q(g, n)
  BY <1>3
<1>5. P(g)
  <2>1. ASSUME NEW k \in 0 .. n
        PROVE  g[k] = IF k = 0 THEN EmptyTree ELSE R(k, g[k - 1])
    <3>1. k # 0 => k \in 1 .. n
      BY <1>0
    <3> QED BY <1>4, <3>1
  <2> QED BY <1>4, <2>1
<1>6. P(F)
  <2> HIDE DEF P
  <2> QED BY <1>5, <1>9
<1>7. F[0] = EmptyTree /\ \A k \in 1 .. n : F[k] = R(k, F[k - 1])
  <2> HIDE DEF P
  <2> QED BY <1>6, <1>8
<1> QED BY <1>7, <1>10 DEF R, F, n

\* The path tree that the loop makes of records that are good.
LEMMA PathsOfMatches ==
  ASSUME NEW s \in Seq(Saveds), GoodEntries({s[i] : i \in DOMAIN s})
  PROVE  Matches(PathsOf(s), {[path |-> s[k].path, id |-> s[k].id] : k \in 1 .. Len(s)})
<1> DEFINE F == Insertions(s)
           n == Len(s)
           r(k) == [path |-> s[k].path, id |-> s[k].id]
           upTo(k) == {r(j) : j \in 1 .. k}
           S == {k \in Nat : k <= n => Matches(F[k], upTo(k))}
<1>1. /\ PathsOf(s) = F[n] /\ F[0] = EmptyTree
      /\ \A k \in 1 .. n : F[k] = tree_insert(F[k - 1], s[k].path, s[k].id)
  BY InsertionsRec
<1>2. n \in Nat /\ DOMAIN s = 1 .. n /\ \A k \in 1 .. n : s[k].id \in Nat
  <2>1. \A k \in 1 .. n : s[k] \in Saveds
    OBVIOUS
  <2> QED BY <2>1 DEF Saveds
<1>3. \A k \in 1 .. n : r(k).path = s[k].path /\ r(k).id = s[k].id
  OBVIOUS
<1>4. \A k \in 1 .. n : /\ s[k].path \in Dirs /\ s[k].id \in Nat \ {NoInfo}
                        /\ \A j \in 1 .. n : s[k].path = s[j].path => s[k].id = s[j].id
  BY <1>2 DEF GoodEntries
<1> HIDE DEF F, n
<1>5. 0 \in S
  <2>1. upTo(0) = {}
    OBVIOUS
  <2> QED BY <1>1, <2>1, MatchesNone
<1>6. ASSUME NEW k \in Nat, k \in S
      PROVE  k + 1 \in S
  <2> SUFFICES ASSUME k + 1 <= n
               PROVE  Matches(F[k + 1], upTo(k + 1))
    OBVIOUS
  <2>1. /\ k + 1 \in 1 .. n /\ (k + 1) - 1 = k /\ k <= n
        /\ \A j \in 1 .. k : j \in 1 .. n
        /\ \A j : j \in 1 .. k + 1 <=> j \in 1 .. k \/ j = k + 1
    BY <1>2
  <2>2. Matches(F[k], upTo(k))
    BY <1>6, <2>1
  <2>3. F[k + 1] = tree_insert(F[k], s[k + 1].path, s[k + 1].id)
    BY <1>1, <2>1
  <2>4. upTo(k + 1) = upTo(k) \cup {r(k + 1)}
    BY <2>1
  <2> DEFINE p == s[k + 1].path
             i == s[k + 1].id
  <2>5. p \in Dirs /\ i \in Nat \ {NoInfo}
    BY <1>4, <2>1
  <2>6. Info(F[k], p) \in {NoInfo, i}
    <3> SUFFICES ASSUME Info(F[k], p) # NoInfo
                 PROVE  Info(F[k], p) = i
      OBVIOUS
    <3>1. [path |-> p, id |-> Info(F[k], p)] \in upTo(k)
      BY <2>2, <2>5 DEF Matches
    <3>2. PICK j \in 1 .. k : [path |-> p, id |-> Info(F[k], p)] = r(j)
      BY <3>1
    <3>3. p = s[j].path /\ Info(F[k], p) = s[j].id
      BY <3>2
    <3> QED BY <1>4, <2>1, <3>3
  <2> HIDE DEF p, i
  <2>7. Matches(tree_insert(F[k], p, i), upTo(k) \cup {[path |-> p, id |-> i]})
    <3> HIDE DEF upTo
    <3> QED BY <2>2, <2>5, <2>6, MatchesInsert
  <2> QED BY <2>3, <2>4, <2>7 DEF p, i
<1> HIDE DEF S
<1>7. n \in S
  BY <1>2, <1>5, <1>6, NatSetInduction
<1>8. Matches(F[n], upTo(n))
  BY <1>7 DEF S
<1> QED BY <1>1, <1>8 DEF n

LEMMA StartMatches ==
  ASSUME PathsInv, NEW heap \in [Ids -> HeapVals], Start(heap)
  PROVE  PathsInv'
<1> DEFINE s == ReadOf(file)
           t == TreapOf(s, heap)
<1>1. /\ TablesInv' /\ TreapIds(available') = Rebuild({e.id : e \in saved})
  BY StartFacts DEF PathsInv
<1>2. /\ analyses' = t /\ paths' = PathsOf(s) /\ saved' = saved
  BY ReadIs DEF Start
<1>3. /\ saved = {s[i] : i \in DOMAIN s} /\ s \in Seq(Saveds)
  BY ReadSaved DEF PathsInv, TablesInv, SavedOf
<1> HIDE DEF s
<1>4. Elems(InOrder(t)) = {StartNode(s, heap, k) : k \in 1 .. Len(s)}
  BY <1>3, TreapOfFacts
<1>5. \A k \in 1 .. Len(s) :
        Site(StartNode(s, heap, k)) = [path |-> s[k].path, id |-> s[k].id]
  <2> TAKE k \in 1 .. Len(s)
  <2>1. /\ StartNode(s, heap, k).id = s[k].id
        /\ StartNode(s, heap, k).anal = Forked(s[k]) /\ s[k] \in Saveds
    BY <1>3, StartNodeLone
  <2> QED BY <2>1, ForkedAnal DEF Site
<1> HIDE DEF t
<1>6. Sites(t) = {[path |-> s[k].path, id |-> s[k].id] : k \in 1 .. Len(s)}
  BY <1>4, <1>5 DEF Sites
<1>7. GoodEntries({s[i] : i \in DOMAIN s})
  BY <1>3 DEF PathsInv
<1>8. Matches(paths', Sites(analyses'))
  BY <1>2, <1>3, <1>6, <1>7, PathsOfMatches
<1>9. NoInfo \notin TreapIds(available')
  BY <1>1 DEF Rebuild, Ids, NoInfo
<1> QED BY <1>1, <1>2, <1>8, <1>9 DEF PathsInv

-----------------------------------------------------------------------------
(***************************************************************************)
(* The theorems that follow.                                               *)
(***************************************************************************)

LEMMA InitMatches ==
  ASSUME Init
  PROVE  PathsInv
<1>1. TablesInv
  BY InitInv
<1>2. Matches(paths, Sites(analyses)) /\ NoInfo \notin TreapIds(available)
  <2>1. analyses = Null /\ available = Null /\ paths = EmptyTree
    BY DEF Init
  <2>2. Sites(Null) = {} /\ TreapIds(Null) = {}
    BY NullSearch DEF Sites
  <2> QED BY <2>1, <2>2, MatchesNone
<1>3. GoodEntries(saved)
  <2>1. file \in OldFiles /\ saved = {Read(file)[i] : i \in DOMAIN Read(file)}
    BY DEF Init
  <2>2. \A i, j \in DOMAIN Read(file) :
          /\ Read(file)[i].id # NoInfo /\ Read(file)[i].path \in Dirs
          /\ Read(file)[i].path = Read(file)[j].path =>
               Read(file)[i].id = Read(file)[j].id
    BY <2>1, FilesAssumption DEF Dirs, Names
  <2> QED BY <2>1, <2>2 DEF GoodEntries
<1> QED BY <1>1, <1>2, <1>3 DEF PathsInv

LEMMA NextMatches ==
  ASSUME PathsInv, [Next]_vars
  PROVE  PathsInv'
<1>1. CASE Next
  <2>1. Distinct
    BY <1>1 DEF Next
  <2>2. CASE threads_add
    <3>1. PICK h \in HeapVals, p \in Addable :
            LET got == get_free_id(available, h)
            IN /\ got.node # Null
               /\ \/ Add(p, got) \/ AddForkFails(p, got)
                  \/ \E n \in 0 .. Len(p) - 1 : AddNoMemory(p, got, n)
      BY <2>2 DEF threads_add
    <3> DEFINE got == get_free_id(available, h)
    <3> HIDE DEF got
    <3>2. got = get_free_id(available, h) /\ got.node # Null
      BY <3>1 DEF got
    <3>3. CASE Add(p, got)
      BY <2>1, <3>2, <3>3, AddMatches
    <3>4. CASE AddForkFails(p, got)
      BY <2>1, <3>2, <3>4, AddForkFailsMatches
    <3>5. CASE \E n \in 0 .. Len(p) - 1 : AddNoMemory(p, got, n)
      BY <2>1, <3>2, <3>5, AddNoMemoryMatches
    <3> QED BY <3>1, <3>3, <3>4, <3>5 DEF got
  <2>3. ASSUME NEW n \in Found, Suspend(n) \/ Resume(n) \/ Result(n) \/ Remove(n)
        PROVE  PathsInv'
    BY <2>1, <2>3, RequestMatches, RemoveMatches
  <2>4. ASSUME NEW heap \in [Ids -> HeapVals], Start(heap)
        PROVE  PathsInv'
    BY <2>4, StartMatches
  <2>5. CASE Shutdown
    BY <2>1, <2>5, ShutdownMatches
  <2>6. CASE Die
    BY <2>6, DieMatches
  <2> QED BY <1>1, <2>2, <2>3, <2>4, <2>5, <2>6 DEF Next
<1>2. CASE UNCHANGED vars
  <2>1. UNCHANGED <<analyses, available, paths, saved>> /\ TablesInv'
    BY <1>2, NextInv DEF vars, mem, PathsInv
  <2> QED BY <2>1 DEF PathsInv
<1> QED BY <1>1, <1>2

\* What the path tree answers for a directory.
LEMMA PrefixAnswers ==
  ASSUME PathsInv, Distinct, NEW p \in Paths
  PROVE  LET i == tree_find_prefix(paths, p)
             Above(q) == Len(q) <= Len(p) /\ SubSeq(p, 1, Len(q)) = q
         IN IF i = NoInfo THEN \A n \in Nodes(analyses) : ~Above(n.anal.path)
            ELSE Above(AnalOf(i).path)
<1> DEFINE i == tree_find_prefix(paths, p)
           Above(q) == Len(q) <= Len(p) /\ SubSeq(p, 1, Len(q)) = q
<1>1. p \in Dirs /\ IsTree(paths) /\ Nodes(analyses) = Elems(InOrder(analyses))
  BY PathsDirs, IdsElems DEF PathsInv, Matches
<1>2. IF i = NoInfo
      THEN \A k \in 0 .. Len(p) : Along(paths, p)[k].info = NoInfo
      ELSE \E k \in 0 .. Len(p) : Along(paths, p)[k].info = i
  BY <1>1, PrefixFacts
<1> HIDE DEF i
<1>3. ASSUME i = NoInfo, NEW n \in Elems(InOrder(analyses)), Above(n.anal.path)
      PROVE  FALSE
  <2> DEFINE q == n.anal.path
  <2>1. /\ Site(n) \in Sites(analyses) /\ Site(n).path = q /\ Site(n).id = n.id
    BY DEF Site, Sites
  <2>2. q \in Dirs /\ Info(paths, q) # NoInfo
    BY <2>1 DEF PathsInv, Matches
  <2>3. /\ Info(paths, q) = Along(paths, p)[Len(q)].info
        /\ Len(q) \in 0 .. Len(p)
    BY <1>1, <1>3, <2>2, AlongPrefix
  <2> QED BY <1>2, <1>3, <2>2, <2>3
<1>4. ASSUME i # NoInfo
      PROVE  Above(AnalOf(i).path)
  <2>1. PICK k \in 0 .. Len(p) : Along(paths, p)[k].info = i
    BY <1>2, <1>4
  <2> DEFINE q == SubSeq(p, 1, k)
  <2>2. q \in Dirs /\ Len(q) = k
    BY <1>1, FirstNames
  <2>3. Len(q) <= Len(p) /\ SubSeq(p, 1, Len(q)) = q
    <3>1. Len(p) \in Nat
      BY <1>1, DirNames
    <3> QED BY <2>2, <3>1
  <2> HIDE DEF q
  <2>4. Info(paths, q) = i
    BY <1>1, <2>1, <2>2, <2>3, AlongPrefix
  <2>5. [path |-> q, id |-> i] \in Sites(analyses)
    BY <1>4, <2>2, <2>4 DEF PathsInv, Matches
  <2>6. PICK n \in Elems(InOrder(analyses)) : n.anal.path = q /\ n.id = i
    <3>1. PICK n \in Elems(InOrder(analyses)) : [path |-> q, id |-> i] = Site(n)
      BY <2>5 DEF Sites
    <3>2. q = n.anal.path /\ i = n.id
      BY <3>1 DEF Site
    <3> QED BY <3>2
  <2>7. /\ analyses \in Trees /\ InOrder(analyses) \in Seq(Lone)
        /\ Sorted(InOrder(analyses)) /\ Strict(InOrder(analyses))
        /\ TreapIds(analyses) \subseteq Nat
    BY TreesApart, InTreesSorted DEF PathsInv
  <2>8. i \in Nat /\ HasId(InOrder(analyses), i)
    BY <2>6, <2>7, IdsElems DEF HasId
  <2> DEFINE y == treap_find(analyses, i)
  <2>9. y # Null
    BY <2>7, <2>8, FindComplete
  <2>10. /\ y \in Proper /\ y.id = i
         /\ Alone(y) \in Elems(InOrder(analyses))
    BY <2>7, <2>9, FindFacts
  <2> HIDE DEF y
  <2>11. Alone(y).id = i /\ Alone(y).anal = y.anal
    BY <2>10, AloneLone
  <2>12. Alone(y) = n
    BY <2>6, <2>7, <2>10, <2>11, StrictUnique
  <2>13. AnalOf(i).path = q
    BY <2>6, <2>11, <2>12 DEF AnalOf, y
  <2> QED BY <2>3, <2>13
<1> QED BY <1>1, <1>3, <1>4 DEF i

\* The second invariant.
THEOREM PathsInvariant == Spec => []PathsInv
BY InitMatches, NextMatches, PTL DEF Spec

\* The path tree has the directories of the analyses, each with its id, whatever
\* failed adds and removals leave of its nodes, over restarts from the data file;
\* and it answers for a directory exactly when an analysis includes it.
THEOREM PathsStayExact == Spec => []PathsExact
<1>1. ASSUME PathsInv
      PROVE  PathsExact
  <2> SUFFICES ASSUME Distinct
               PROVE  /\ Stored(paths) = {[path |-> n.anal.path, id |-> n.id]
                                            : n \in Nodes(analyses)}
                      /\ \A p \in Paths :
                           LET i == tree_find_prefix(paths, p)
                               Above(q) == /\ Len(q) <= Len(p)
                                           /\ SubSeq(p, 1, Len(q)) = q
                           IN IF i = NoInfo
                              THEN \A n \in Nodes(analyses) : ~Above(n.anal.path)
                              ELSE Above(AnalOf(i).path)
    BY DEF PathsExact
  <2>1. Stored(paths) = Sites(analyses)
    BY <1>1, MatchesStored DEF PathsInv
  <2>2. Sites(analyses) = {[path |-> n.anal.path, id |-> n.id]
                             : n \in Nodes(analyses)}
    BY IdsElems DEF Sites, Site
  <2> QED BY <1>1, <2>1, <2>2, PrefixAnswers
<1> QED BY <1>1, PathsInvariant, PTL
=============================================================================

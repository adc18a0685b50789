------------------------------- MODULE Treap --------------------------------
(***************************************************************************)
(* The treaps of the threads manager, as the trees that treap.c builds:    *)
(* search trees on the ids, rotated so that priorities should not decrease *)
(* downwards.  A tree is Null or its root, a record.                       *)
(*                                                                         *)
(* The operators go along the recursion of the code, so they do with equal *)
(* ids, and with priorities out of order, what the code does with them.    *)
(* A recursion down a tree is one over its steps: the trees that it comes  *)
(* to, one after the other, and what it returns, last step first.          *)
(***************************************************************************)
EXTENDS Integers, Sequences, FiniteSets

Null == <<>>

\* treap_create_node
NewNode(id, heap, anal) ==
  [id |-> id, heap |-> heap, anal |-> anal, left |-> Null, right |-> Null]

Alone(t)       == [t EXCEPT !.left = Null, !.right = Null]
swing_left(t)  == [t.left EXCEPT !.right = [t EXCEPT !.left = @.right]]
swing_right(t) == [t.right EXCEPT !.left = [t EXCEPT !.right = @.left]]

\* The end of treap_insert_new and treap_insert_node.
Rotated(t) == IF t.left # Null /\ t.heap > t.left.heap THEN swing_left(t)
              ELSE IF t.right # Null /\ t.heap > t.right.heap
                   THEN swing_right(t) ELSE t

\* The subtree on one side, and the tree with another one there.
Child(t, left) == IF t = Null THEN Null ELSE IF left THEN t.left ELSE t.right
WithChild(t, left, u) == IF left THEN [t EXCEPT !.left = u]
                         ELSE [t EXCEPT !.right = u]

\* The trees that a descent from t comes to on its way to id.
Descent(t, id) ==
  LET at[k \in Nat] == IF k = 0 THEN t
                       ELSE LET u == at[k - 1] IN Child(u, id < u.id)
  IN at

\* A mutant: what is inserted goes to the wrong side.
InsertReversed(t, node) ==
  LET at[k \in Nat] == IF k = 0 THEN t
                       ELSE LET u == at[k - 1] IN Child(u, node.id > u.id)
      with[k \in Nat] ==
        LET u == at[k]
        IN IF u = Null THEN node
           ELSE Rotated(WithChild(u, node.id > u.id, with[k + 1]))
  IN with[0]

treap_insert_node(t, node) ==
  LET at == Descent(t, node.id)
      with[k \in Nat] ==
        LET u == at[k]
        IN IF u = Null THEN node
           ELSE Rotated(WithChild(u, node.id < u.id, with[k + 1]))
  IN with[0]

treap_insert_new(t, id, heap, anal) == treap_insert_node(t, NewNode(id, heap, anal))

\* The node with this id that the search meets first, or Null.
treap_find(t, id) ==
  LET at == Descent(t, id)
      find[k \in Nat] ==
        LET u == at[k] IN IF u = Null \/ u.id = id THEN u ELSE find[k + 1]
  IN find[0]

\* The tree with another analysis in that node.
WithAnal(t, id, a) ==
  LET at == Descent(t, id)
      with[k \in Nat] ==
        LET u == at[k]
        IN IF u = Null THEN Null
           ELSE IF u.id = id THEN [u EXCEPT !.anal = a]
           ELSE WithChild(u, id < u.id, with[k + 1])
  IN with[0]

\* Both children: one of them is rotated up.
Lifted(t) == IF t.left.heap < t.right.heap THEN swing_right(t)
             ELSE swing_left(t)

\* The tree as the step that finds the id at its root leaves it, if it can
\* not be taken out at once.
Turned(t, id) ==
  IF t # Null /\ t.id = id /\ t.left # Null /\ t.right # Null THEN Lifted(t)
  ELSE t

\* The tree without the node, and the node, or Null: after a rotation the
\* search goes on below the new root, to its left if that has this id too.
treap_extract(t, id) ==
  LET at[k \in Nat] == IF k = 0 THEN t
                       ELSE LET v == Turned(at[k - 1], id)
                            IN Child(v, ~ v.id < id)
      without[k \in Nat] ==
        LET u == at[k]
            v == Turned(u, id)
            x == without[k + 1]
        IN IF u = Null THEN [tree |-> Null, node |-> Null]
           ELSE IF u.id = id /\ u.left = Null
                THEN [tree |-> u.right, node |-> Alone(u)]
           ELSE IF u.id = id /\ u.right = Null
                THEN [tree |-> u.left, node |-> Alone(u)]
           ELSE [tree |-> WithChild(v, ~ v.id < id, x.tree), node |-> x.node]
  IN without[0]

treap_remove(t, id) == treap_extract(t, id).tree

\* The nodes in the order of threads_show_in_order.  The tree at 0 is t, the
\* subtrees of the one at p are at 2p + 1 and 2p + 2.
InOrder(t) ==
  LET at[p \in Nat] ==
        IF p = 0 THEN t ELSE Child(at[(p - 1) \div 2], p % 2 = 1)
      seq[p \in Nat] ==
        LET u == at[p]
        IN IF u = Null THEN <<>>
           ELSE seq[2 * p + 1] \o <<Alone(u)>> \o seq[2 * p + 2]
  IN seq[0]

\* The nodes in the order in which treap_save writes them: as long as there
\* is a root it is written and removed.
SaveOrder(t) ==
  LET rest[k \in Nat] == IF k = 0 THEN t
                         ELSE LET u == rest[k - 1] IN treap_remove(u, u.id)
      seq[k \in Nat] ==
        LET u == rest[k]
        IN IF u = Null THEN <<>> ELSE <<Alone(u)>> \o seq[k + 1]
  IN seq[0]

Nodes(t)    == LET s == InOrder(t) IN {s[i] : i \in DOMAIN s}
TreapIds(t) == {n.id : n \in Nodes(t)}

\* As many ids as nodes.
UniqueKeys(t) == Cardinality(TreapIds(t)) = Len(InOrder(t))

\* What the search relies on: no greater id to the left, no smaller one to
\* the right.
Ordered(t) == LET s == InOrder(t)
              IN \A i, j \in DOMAIN s : i < j => s[i].id <= s[j].id
=============================================================================

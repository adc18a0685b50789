---------------------------- MODULE ProgressFile ----------------------------
(***************************************************************************)
(* The form in which a progress file holds the tree of a process: for each *)
(* node a state, then for each child its name and the child, then an end   *)
(* mark.                                                                   *)
(***************************************************************************)
EXTENDS ProgressTree, FiniteSets

\* The nodes of the children of p, in an order.
Children(tree, p) ==
  LET S == {q \in DOMAIN tree \ {<<>>} : Above(q) = p}
  IN CHOOSE c \in [1 .. Cardinality(S) -> S] : {c[i] : i \in DOMAIN c} = S

Plus(name) == [sign |-> "+", name |-> name]
Minus      == [sign |-> "-"]

\* A mutant: a node without children gets no end mark.
SavedNoMinus(tree, p) ==
  LET saved[q \in DOMAIN tree] ==
        LET c == Children(tree, q)
            text[i \in 0 .. Len(c)] ==
              IF i = 0 THEN <<tree[q]>>
              ELSE text[i - 1] \o <<Plus(NameOf(c[i]))>> \o saved[c[i]]
        IN text[Len(c)] \o (IF c = <<>> THEN <<>> ELSE <<Minus>>)
  IN saved[p]

\* tree_save, hash_save, list_save, state_write: text[i] goes up to the
\* child i.
Saved(tree, p) ==
  LET saved[q \in DOMAIN tree] ==
        LET c == Children(tree, q)
            text[i \in 0 .. Len(c)] ==
              IF i = 0 THEN <<tree[q]>>
              ELSE text[i - 1] \o <<Plus(NameOf(c[i]))>> \o saved[c[i]]
        IN text[Len(c)] \o <<Minus>>
  IN saved[p]

\* hash_build, state_read: the next item, at the node s.at.
ReadItem(s, item) ==
  IF "sign" \notin DOMAIN item
  THEN [s EXCEPT !.tree = Insert(@, s.at, item)]
  ELSE IF item.sign = "+" THEN [s EXCEPT !.at = Append(@, item.name)]
  ELSE [s EXCEPT !.at = Above(@)]

\* tree_build
Built(items) ==
  LET read[k \in 0 .. Len(items)] ==
        IF k = 0 THEN [at |-> <<>>, tree |-> NoTree]
        ELSE ReadItem(read[k - 1], items[k])
  IN read[Len(items)].tree
=============================================================================

---------------------------- MODULE ProgressTree ----------------------------
(***************************************************************************)
(* The tree that a process keeps of the directories it has met: a function *)
(* from the paths of its nodes to their states.  A path is the sequence of *)
(* the names from the root of the tree.                                    *)
(***************************************************************************)
EXTENDS Integers, Sequences

\* Of a path below the root of the tree.
Above(p)  == SubSeq(p, 1, Len(p) - 1)
NameOf(p) == p[Len(p)]

State == [null : BOOLEAN, size : Nat, done : BOOLEAN]
Null  == [null |-> TRUE,  size |-> 0, done |-> FALSE]
Fresh == [null |-> FALSE, size |-> 0, done |-> FALSE]

\* tree_init
NoTree == [p \in {<<>>} |-> Null]

\* tree_insert, where the nodes above p are there: the state is replaced.
Insert(tree, p, state) ==
  [q \in DOMAIN tree \cup {p} |-> IF q = p THEN state ELSE tree[q]]

\* The same for a node that may be there already, and is then kept.
Made(tree, p) == IF p \in DOMAIN tree THEN tree ELSE Insert(tree, p, Null)
=============================================================================

------------------------------ MODULE PathTree ------------------------------
(***************************************************************************)
(* The path tree of the threads manager: a node for each directory that is *)
(* or was analysed and for those above it, with a hash table of chains     *)
(* from names to the nodes below.  info is the id stored for the directory *)
(* or NoInfo.                                                              *)
(*                                                                         *)
(* A path is the sequence of the names between its slashes.  A name is a   *)
(* number; its key is taken modulo HashMod, so that names collide.  The    *)
(* empty string, and one that starts with a slash, has the name NoName,    *)
(* which no node has.                                                      *)
(***************************************************************************)
EXTENDS Integers, Sequences, FiniteSets

CONSTANT HashMod       \* HASH_MOD

ASSUME HashAssumption == HashMod \in Nat \ {0}

NoInfo  == 0
NoName  == 0
Buckets == 0 .. HashMod - 1

get_key(name) == name % HashMod

\* tree_init
EmptyTree == [info |-> NoInfo, size |-> 0,
              children |-> [b \in Buckets |-> <<>>]]

list_new_node(name)    == [name |-> name, node |-> EmptyTree]
list_push(chain, name) == Append(chain, list_new_node(name))

\* A mutant: the names in a chain are not compared.
AllPlaces(chain, name) == DOMAIN chain

\* The places in a chain that have the whole name.
Places(chain, name) == {i \in DOMAIN chain : chain[i].name = name}

\* list_find: the search stops at the first of them.
Place(chain, name) == CHOOSE i \in Places(chain, name) :
                        \A j \in Places(chain, name) : i <= j

list_remove(chain, name) == SubSeq(chain, 1, Place(chain, name) - 1) \o
                            SubSeq(chain, Place(chain, name) + 1, Len(chain))

Chain(t, name) == t.children[get_key(name)]

\* hash_find: whether there is a node for the name, and the node.
Has(t, name)   == Places(Chain(t, name), name) # {}
Below(t, name) == Chain(t, name)[Place(Chain(t, name), name)].node

WithBelow(t, name, node) ==
  [t EXCEPT !.children[get_key(name)][Place(Chain(t, name), name)].node = node]

\* hash_insert of a name that is not there.
hash_insert(t, name) ==
  [t EXCEPT !.size = @ + 1, !.children[get_key(name)] = list_push(@, name)]

hash_remove(t, name) ==
  IF ~Has(t, name) THEN t
  ELSE [t EXCEPT !.size = @ - 1, !.children[get_key(name)] = list_remove(@, name)]

\* The node for the name, made if need be.
Opened(t, name) == IF Has(t, name) THEN t ELSE hash_insert(t, name)

\* The nodes along the path: at[k] is the one that the first k names lead
\* to, each made if need be.
Along(t, path) ==
  LET at[k \in 0 .. Len(path)] ==
        IF k = 0 THEN t ELSE Below(Opened(at[k - 1], path[k]), path[k])
  IN at

\* The tree in which the node that the first n names lead to became node.
Replaced(t, path, n, node) ==
  LET at == Along(t, path)
      up[k \in 0 .. n] ==
        IF k = n THEN node
        ELSE WithBelow(Opened(at[k], path[k + 1]), path[k + 1], up[k + 1])
  IN up[0]

tree_insert(t, path, info) ==
  LET n == Len(path)
  IN Replaced(t, path, n, [Along(t, path)[n] EXCEPT !.info = info])

\* tree_insert runs out of memory when it has opened the first n names.
InsertCutOff(t, path, n) == Replaced(t, path, n, Along(t, path)[n])

\* What is stored for the path or for the first directory above it that has
\* something stored.
tree_find_prefix(t, path) ==
  LET at == Along(t, path)
      found[k \in 0 .. Len(path)] ==
        IF at[k].info # NoInfo THEN at[k].info
        ELSE IF k = Len(path) \/ ~Has(at[k], path[k + 1]) THEN NoInfo
        ELSE found[k + 1]
  IN found[0]

\* The node of a name whose subtree was changed.  It is to be removed when it
\* is empty, but path has been advanced past its name: hash_remove is called
\* with what follows, whose first name is empty, and finds nothing.
Pruned(t, name) ==
  LET below == Below(t, name)
  IN IF below.info = NoInfo /\ below.size = 0 THEN hash_remove(t, NoName)
     ELSE t

tree_remove(t, path) ==
  LET at == Along(t, path)
      removed[k \in 0 .. Len(path)] ==
        IF k = Len(path) THEN [at[k] EXCEPT !.info = NoInfo]
        ELSE IF ~Has(at[k], path[k + 1]) THEN at[k]
        ELSE LET u == removed[k + 1]
             IN IF u = at[k + 1] THEN at[k]            \* nothing was stored
                ELSE Pruned(WithBelow(at[k], path[k + 1], u), path[k + 1])
  IN removed[0]

\* The names below a node with their nodes.
Named(t) == UNION {{t.children[b][i] : i \in DOMAIN t.children[b]} : b \in Buckets}

\* The paths with something stored, each with what is stored: the nodes on
\* every level, until a level is empty.
Stored(t) ==
  LET level[k \in Nat] ==
        IF k = 0 THEN {[path |-> <<>>, node |-> t]}
        ELSE UNION {{[path |-> Append(u.path, e.name), node |-> e.node]
                       : e \in Named(u.node)} : u \in level[k - 1]}
      from[k \in Nat] ==
        IF level[k] = {} THEN {} ELSE level[k] \cup from[k + 1]
  IN {[path |-> u.path, id |-> u.node.info]
        : u \in {u \in from[0] : u.node.info # NoInfo}}
=============================================================================

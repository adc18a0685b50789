---------------------------- MODULE AvailableIds ----------------------------
(***************************************************************************)
(* The treap available_ids of the threads manager, as the set of the ids   *)
(* it holds.  The shape of the treap decides only which id get_free_id     *)
(* extracts: the root when it has a right child, otherwise its left child, *)
(* otherwise the single node.  Neither of the first two is ever the        *)
(* greatest id, and as priorities come from rand(), any other id can be.   *)
(*                                                                         *)
(* The greatest available id is the frontier: it stands for itself and for *)
(* every greater id, none of which has a node yet.                         *)
(***************************************************************************)
EXTENDS Integers, FiniteSets

CONSTANT IdMax      \* ID_MAX

ASSUME IdMaxAssumption == IdMax \in Nat \ {0}

Ids  == 1 .. IdMax
NoId == 0

\* The ids below the frontier: all but the greatest one.
Inner(S) == {i \in S : \E j \in S : i < j}

\* The ids get_free_id may extract from the pool S.
GetChoices(S) == IF Inner(S) = {} THEN S ELSE Inner(S)

\* A mutant: get_free_id extracts the lone id without inserting its successor.
FrontierNeverMoves(S, i) == S \ {i}

\* A mutant: the id is found in the treap, not extracted from it.
FoundNotExtracted(S, i) ==
  S \cup (IF Inner(S) = {} /\ i < IdMax THEN {i + 1} ELSE {})

\* The pool after get_free_id extracted i.  When i was alone its successor
\* is inserted first, up to ID_MAX.
AfterGet(S, i) ==
  (S \ {i}) \cup (IF Inner(S) = {} /\ i < IdMax THEN {i + 1} ELSE {})

\* The pool after return_id gave i back: a lone node is dropped first, on
\* the assumption that it is the successor get_free_id inserted for i.
AfterReturn(S, i) == (IF Inner(S) = {} THEN {} ELSE S) \cup {i}

\* The pool after threads_remove put the node of i back: plain insertion.
AfterRemove(S, i) == S \cup {i}

\* A mutant: the loop over the ids starts at 0.
RebuildFromZero(U) == {i \in (Ids \cup {NoId}) \ U :
                         i <= 1 \/ \E u \in U : i <= u + 1}

\* A mutant: the ids in use are not skipped.
RebuildAll(U) == {i \in Ids : i = 1 \/ \E u \in U : i <= u + 1}

\* The pool threads_startup builds from the saved ids U: those not in U
\* among 1 .. (greatest saved id) + 1, up to ID_MAX.
Rebuild(U) == {i \in Ids \ U : i = 1 \/ \E u \in U : i <= u + 1}
=============================================================================

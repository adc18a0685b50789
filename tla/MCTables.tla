------------------------------ MODULE MCTables ------------------------------
(***************************************************************************)
(* A directory, one below it, and one whose name has the same key.         *)
(***************************************************************************)
EXTENDS Tables

SmallPaths == {<<>>, <<1>>, <<1, 2>>, <<3>>}

\* No file yet; one with three analyses, in the order treap_save had them.
SmallFiles == {<<>>, <<3,  2, 2, 1, 2, InProgress, Suspended,
                           1, 1, 1, Complete, Resumed,
                           4, 1, 3, InProgress, Resumed>>}
=============================================================================

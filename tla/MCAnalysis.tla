----------------------------- MODULE MCAnalysis -----------------------------
(***************************************************************************)
(* A directory r with the subdirectories a, which holds x, and b.          *)
(***************************************************************************)
EXTENDS Analysis

Enter(d) == [kind |-> "D", dir |-> d]
File(d)  == [kind |-> "F", dir |-> d]
Leave(d) == [kind |-> "DP", dir |-> d]

SmallTree == <<Enter("r"), Enter("a"), Enter("x"), File("x"), Leave("x"),
               Leave("a"), File("r"), Enter("b"), File("b"),
               Leave("b"), Leave("r")>>
=============================================================================

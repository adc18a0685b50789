------------------------------ MODULE MCClient ------------------------------
(***************************************************************************)
(* Every option once, ids that are known, unknown and too long, and lines  *)
(* that are refused.                                                       *)
(***************************************************************************)
EXTENDS Client

Opt(o, a) == [opt |-> o, arg |-> a]

SmallLines ==
  {<<Opt("a", "p")>>, <<Opt("a", "q"), Opt("p", 3)>>,
   <<Opt("S", 3)>>, <<Opt("r", 3)>>, <<Opt("i", 3)>>, <<Opt("l", 0)>>,
   <<Opt("p", 12345)>>, <<Opt("p", 3)>>, <<Opt("h", 0)>>,
   <<Opt("R", 3), Opt("l", 0)>>}

\* Nothing yet; an analysis that is complete.
SmallTables ==
  {[i \in Ids |-> None],
   [i \in Ids |-> IF i # 3 THEN None
                  ELSE [path |-> "p", complete |-> TRUE, by |-> Nobody]]}
=============================================================================

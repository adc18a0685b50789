---------------------------- MODULE IdAllocator -----------------------------
(***************************************************************************)
(* What the pool of ids promises to threads_add, with no pool in it: an id *)
(* that an add claims belongs to no analysis and to no other add, and it   *)
(* becomes free again only by that add failing or by that analysis being   *)
(* removed.                                                                *)
(***************************************************************************)
CONSTANT Id
VARIABLES claimed,   \* ids of adds under way
          owned      \* ids of analyses

Init == claimed = {} /\ owned = {}

Claim(i)   == /\ i \notin claimed \cup owned
              /\ claimed' = claimed \cup {i}
              /\ UNCHANGED owned
Own(i)     == /\ i \in claimed \ owned
              /\ claimed' = claimed \ {i}
              /\ owned' = owned \cup {i}
Abandon(i) == /\ i \in claimed
              /\ claimed' = claimed \ {i}
              /\ UNCHANGED owned
Release(i) == /\ i \in owned
              /\ owned' = owned \ {i}
              /\ UNCHANGED claimed

Next == \E i \in Id : Claim(i) \/ Own(i) \/ Abandon(i) \/ Release(i)

Spec == Init /\ [][Next]_<<claimed, owned>>
=============================================================================

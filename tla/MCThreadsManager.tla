-------------------------- MODULE MCThreadsManager --------------------------
(* Directories p, q below p, and s beside them. *)
EXTENDS ThreadsManager, TLC

CONSTANTS p, q, s

TwoPaths   == {p, q}
ThreePaths == {p, q, s}
AboveOne   == p :> {p}
Above      == (p :> {p}) @@ (q :> {p, q})
AboveThree == Above @@ (s :> {s})

NoProcess == {Nil}
AnyFresh  == {Nil, OwnGroup}

Symmetric == Permutations(Req)
=============================================================================

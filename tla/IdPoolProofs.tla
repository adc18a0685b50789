---------------------------- MODULE IdPoolProofs ----------------------------
(***************************************************************************)
(* Under any number of adds and removals that do not fail, and under adds  *)
(* one at a time that may fail, the pool of ids never runs dry below       *)
(* ID_MAX and hands out unused ids only, whatever ID_MAX is.               *)
(***************************************************************************)
EXTENDS IdPool, TLAPS, FiniteSetTheorems, WellFoundedInduction

\* The workloads that the pool withstands, and more ids than are used.
Regime == Workloads \subseteq {"removes", "fails"} /\ MaxHeld < IdMax
-----------------------------------------------------------------------------
(* The operations on the pool: f is the frontier. *)

Frontier(S, f) == f \in S /\ \A i \in S : i <= f

\* A set of ids that is not empty has a greatest one.
LEMMA GreatestId ==
  ASSUME NEW S \in SUBSET Ids, S # {}
  PROVE  \E m \in S : \A i \in S : i <= m
<1> DEFINE T == {IdMax - i : i \in S}
<1>1. T \subseteq Nat /\ T # {}
  <2>1. \A i \in S : IdMax - i \in Nat
    BY IdMaxAssumption DEF Ids
  <2>2. PICK i \in S : TRUE
    OBVIOUS
  <2>3. IdMax - i \in T
    BY <2>2
  <2> QED BY <2>1, <2>3
<1>2. PICK x \in T : \A y \in T : ~ (<<y, x>> \in OpToRel(<, Nat))
  <2> HIDE DEF T
  <2> QED BY <1>1, NatLessThanWellFounded, WFMin
<1>3. \A y \in T : ~ (y < x)
  BY <1>1, <1>2 DEF OpToRel
<1>4. PICK m \in S : x = IdMax - m
  OBVIOUS
<1>5. \A i \in S : ~ (IdMax - i < IdMax - m)
  BY <1>3, <1>4
<1> QED BY <1>4, <1>5, IdMaxAssumption DEF Ids

\* All but the frontier are inner ids.
LEMMA InnerIds ==
  ASSUME NEW S \in SUBSET Ids, NEW f, Frontier(S, f)
  PROVE  Inner(S) = S \ {f}
<1>1. f \in Int /\ \A i \in S : i \in Int
  BY IdMaxAssumption DEF Frontier, Ids
<1>2. \A i \in S : (\E j \in S : i < j) <=> i # f
  BY <1>1 DEF Frontier
<1> QED BY <1>2 DEF Inner

\* An id below the frontier is extracted and the frontier stays; the
\* frontier itself is extracted only alone, and moves up by one.
LEMMA GetMovesFrontier ==
  ASSUME NEW S \in SUBSET Ids, NEW f, Frontier(S, f), f < IdMax,
         NEW i \in GetChoices(S)
  PROVE  \/ i < f /\ f \in S /\ AfterGet(S, i) = S \ {i}
         \/ i = f /\ S = {f} /\ AfterGet(S, i) = {f + 1}
<1>1. Inner(S) = S \ {f}
  BY InnerIds
<1>2. CASE S = {f}
  BY <1>1, <1>2, IdMaxAssumption DEF GetChoices, AfterGet, Frontier, Ids
<1>3. CASE S # {f}
  <2>1. Inner(S) # {}
    BY <1>1, <1>3 DEF Frontier
  <2>2. i \in S /\ i # f
    BY <1>1, <2>1 DEF GetChoices
  <2>3. i < f
    BY <2>2, IdMaxAssumption DEF Frontier, Ids
  <2> QED BY <2>1, <2>3 DEF AfterGet, Frontier
<1> QED BY <1>2, <1>3

\* The rebuilt pool has the ids below its frontier that are not in use.
LEMMA RebuildPartition ==
  ASSUME NEW U \in SUBSET Ids, NEW n \in Ids, U \subseteq 1 .. n, n \notin U
  PROVE  \E f \in Rebuild(U) : Rebuild(U) \cup U = 1 .. f
<1> USE IdMaxAssumption DEF Ids, Rebuild
<1>1. CASE U = {}
  <2>1. Rebuild(U) = {1}
    BY <1>1
  <2>2. 1 .. 1 = {1}
    OBVIOUS
  <2> QED BY <1>1, <2>1, <2>2
<1>2. CASE U # {}
  <2>1. PICK m \in U : \A i \in U : i <= m
    BY <1>2, GreatestId
  <2>2. m + 1 \in Rebuild(U)
    BY <2>1
  <2>3. \A i \in Rebuild(U) : i \in 1 .. m + 1
    BY <2>1
  <2>4. \A i \in 1 .. m + 1 : i \in Rebuild(U) \cup U
    BY <2>1
  <2>5. U \subseteq 1 .. m + 1
    BY <2>1
  <2>6. Rebuild(U) \cup U = 1 .. m + 1
    BY <2>3, <2>4, <2>5
  <2> QED BY <2>2, <2>6
<1> QED BY <1>1, <1>2
-----------------------------------------------------------------------------
(* Partition is not inductive by itself: when adds may fail, what an add   *)
(* gives back must be the last id taken, and the pool just its successor.  *)

FailsAlone == workload = "fails" =>
                \E f \in Ids : available = {f} /\ adding \subseteq {f - 1}

IInv == TypeOK /\ Partition /\ FailsAlone

LEMMA InitIInv ==
  ASSUME Init
  PROVE  IInv
<1>1. Rebuild({}) = {1}
  BY IdMaxAssumption DEF Rebuild, Ids
<1>2. 1 \in Ids /\ {1} = 1 .. 1
  BY IdMaxAssumption DEF Ids
<1> QED BY <1>1, <1>2 DEF Init, IInv, TypeOK, Partition, FailsAlone, held

\* Up to a frontier f that is alone in the pool, all ids below f are in use.
LEMMA BelowFrontier ==
  ASSUME NEW f \in Nat, NEW S, {f} \cup S = 1 .. f, f \notin S
  PROVE  S = 1 .. (f - 1)
<1>1. \A i \in S : i \in 1 .. f /\ i # f
  OBVIOUS
<1>2. \A i \in 1 .. (f - 1) : i \in 1 .. f /\ i # f
  OBVIOUS
<1>3. \A i \in 1 .. f : i # f => i \in S
  OBVIOUS
<1>4. \A i \in 1 .. f : i # f => i \in 1 .. (f - 1)
  OBVIOUS
<1> QED BY <1>1, <1>2, <1>3, <1>4

\* The frontier f leaves room: f - 1 ids are in the pool or in use.
LEMMA RoomAbove ==
  ASSUME Regime, TypeOK, NEW f \in available,
         available \cup held = 1 .. f, available = {f}, available \cap held = {},
         Cardinality(held) < MaxHeld
  PROVE  f < IdMax
<1>1. f \in Nat /\ f <= IdMax
  BY IdMaxAssumption DEF TypeOK, Ids
<1>2. held = 1 .. (f - 1)
  BY <1>1, BelowFrontier
<1>3. Cardinality(held) = f - 1
  <2>1. 1 \in Int /\ f - 1 \in Int
    BY <1>1
  <2>2. Cardinality(1 .. (f - 1)) = IF 1 > f - 1 THEN 0 ELSE (f - 1) - 1 + 1
    BY <2>1, FS_Interval
  <2>3. f # 0
    BY IdMaxAssumption DEF TypeOK, Ids
  <2> QED BY <1>1, <1>2, <2>2, <2>3
<1> QED BY <1>1, <1>3, IdMaxAssumption, PoolAssumption DEF Regime

\* The greatest id of the partition is the frontier.
LEMMA PartitionFrontier ==
  ASSUME TypeOK, NEW f \in available, available \cup held = 1 .. f
  PROVE  Frontier(available, f) /\ f \in 1 .. IdMax
BY IdMaxAssumption DEF TypeOK, Ids, Frontier

LEMMA TakeIInv ==
  ASSUME Regime, IInv, NEW i \in Ids, Take(i)
  PROVE  IInv' /\ i \notin held
<1> USE DEF Take, IInv
<1>1. PICK f \in available : available \cup held = 1 .. f
  BY DEF Partition
<1>2. Frontier(available, f) /\ f \in 1 .. IdMax
  BY <1>1, PartitionFrontier
<1>3. available \cap held = {} /\ adding \cap used = {}
  BY DEF Partition
<1>4. i \in available
  BY DEF GetChoices, Inner
<1>5. i \notin held
  BY <1>3, <1>4
<1>6. CASE available = {f}
  <2>1. f < IdMax
    BY <1>1, <1>3, <1>6, RoomAbove
  <2>2. i = f /\ available' = {f + 1}
    <3>1. available \in SUBSET Ids /\ i \in GetChoices(available)
      BY DEF TypeOK
    <3>2. available' = AfterGet(available, i)
      OBVIOUS
    <3>3. i = f
      BY <1>4, <1>6
    <3>4. AfterGet(available, i) = {f + 1}
      BY <1>2, <2>1, <3>1, <3>3, GetMovesFrontier
    <3> QED BY <3>2, <3>3, <3>4
  <2>3. f + 1 \in Ids
    BY <1>2, <2>1, IdMaxAssumption DEF Ids
  <2>4. held' = 1 .. f
    BY <1>1, <1>6, <2>2 DEF held
  <2>5. available' \cup held' = 1 .. f + 1 /\ available' \cap held' = {}
    BY <1>2, <2>2, <2>4
  <2>6. Partition'
    BY <1>3, <1>5, <2>2, <2>5 DEF Partition, held
  <2>7. FailsAlone'
    BY <1>2, <2>2, <2>3 DEF FailsAlone
  <2>8. TypeOK'
    BY <2>2, <2>3 DEF TypeOK
  <2> QED BY <1>5, <2>6, <2>7, <2>8
<1>7. CASE available # {f}
  <2>1. workload # "fails"
    BY <1>7 DEF FailsAlone
  <2>2. Inner(available) # {}
    BY <1>2, <1>7, InnerIds DEF TypeOK
  <2>3. i # f /\ available' = available \ {i}
    BY <1>2, <2>2, InnerIds DEF TypeOK, GetChoices, AfterGet
  <2>4. f \in available' /\ available' \cup held' = 1 .. f
    BY <1>1, <1>4, <2>3 DEF held
  <2>5. Partition'
    BY <1>3, <1>4, <2>3, <2>4 DEF Partition, held
  <2>6. TypeOK' /\ FailsAlone'
    BY <2>1, <2>3 DEF TypeOK, FailsAlone
  <2> QED BY <1>5, <2>5, <2>6
<1> QED BY <1>6, <1>7

LEMMA SettleIInv ==
  ASSUME IInv, NEW i \in Ids, Settle(i)
  PROVE  IInv'
<1> USE DEF Settle, IInv
<1>1. held' = held
  BY DEF held
<1>2. Partition'
  BY <1>1 DEF Partition
<1> QED BY <1>2 DEF TypeOK, FailsAlone

LEMMA GiveBackIInv ==
  ASSUME Regime, IInv, NEW i \in Ids, GiveBack(i)
  PROVE  IInv'
<1> USE DEF GiveBack, IInv
<1>1. workload = "fails"
  BY DEF TypeOK, Regime
<1>2. PICK f \in Ids : available = {f} /\ adding \subseteq {f - 1}
  BY <1>1 DEF FailsAlone
<1>3. i = f - 1 /\ adding = {i} /\ adding' = {}
  BY <1>2
<1>4. available \cup held = 1 .. f /\ available \cap held = {}
  BY <1>2 DEF Partition
<1>5. available' = {i}
  BY <1>2, IdMaxAssumption DEF AfterReturn, Inner, Ids
<1>6. used = 1 .. (i - 1)
  <2>1. used = (1 .. f) \ {f, i}
    BY <1>2, <1>3, <1>4 DEF held, Partition
  <2> QED BY <1>2, <1>3, <2>1, IdMaxAssumption DEF Ids
<1>7. held' = 1 .. (i - 1)
  BY <1>3, <1>6 DEF held
<1>8. available' \cup held' = 1 .. i /\ available' \cap held' = {}
  BY <1>5, <1>7, IdMaxAssumption DEF Ids
<1>9. Partition'
  BY <1>3, <1>5, <1>8 DEF Partition
<1> QED BY <1>3, <1>5, <1>9 DEF TypeOK, FailsAlone

LEMMA RemoveIInv ==
  ASSUME IInv, NEW i \in Ids, Remove(i)
  PROVE  IInv'
<1> USE DEF Remove, IInv
<1>1. PICK f \in available : available \cup held = 1 .. f
  BY DEF Partition
<1>2. i \notin adding /\ i \in held
  BY DEF Partition, held
<1>3. available' = available \cup {i} /\ held' = held \ {i}
  BY <1>2 DEF AfterRemove, held
<1>4. f \in available' /\ available' \cup held' = 1 .. f
  BY <1>1, <1>2, <1>3
<1>5. Partition'
  BY <1>3, <1>4 DEF Partition
<1> QED BY <1>3, <1>5 DEF TypeOK, FailsAlone

LEMMA RestartIInv ==
  ASSUME IInv, Restart
  PROVE  IInv'
<1> USE DEF Restart, IInv
<1>1. PICK f \in available : available \cup held = 1 .. f
  BY DEF Partition
<1>2. used = held /\ held' = used
  BY DEF held
<1>3. f \in Ids /\ f \notin used /\ used \subseteq 1 .. f
  BY <1>1, <1>2 DEF Partition, TypeOK
<1>4. PICK g \in Rebuild(used) : Rebuild(used) \cup used = 1 .. g
  BY <1>3, RebuildPartition DEF TypeOK
<1>5. Partition'
  BY <1>2, <1>4 DEF Partition, Rebuild
<1>6. FailsAlone'
  <2> SUFFICES ASSUME workload = "fails"
               PROVE  \E h \in Ids : available' = {h}
    BY DEF FailsAlone
  <2>1. available = {f}
    BY <1>1 DEF FailsAlone
  <2>2. used = 1 .. (f - 1)
    <3>1. {f} \cup used = 1 .. f /\ f \in Nat
      BY <1>1, <1>2, <1>3, <2>1, IdMaxAssumption DEF Ids
    <3> QED BY <1>3, <3>1, BelowFrontier
  <2>3. Rebuild(used) = {f}
    <3>1. f \in Rebuild(used)
      BY <1>3, <2>2, IdMaxAssumption DEF Rebuild, Ids
    <3>2. \A i \in Rebuild(used) : i = f
      BY <1>3, <2>2, IdMaxAssumption DEF Rebuild, Ids
    <3> QED BY <3>1, <3>2
  <2> QED BY <1>3, <2>3
<1> QED BY <1>5, <1>6 DEF TypeOK, Rebuild

LEMMA NextIInv ==
  ASSUME Regime, IInv, [Next]_vars
  PROVE  IInv'
<1>1. CASE UNCHANGED vars
  BY <1>1 DEF vars, IInv, TypeOK, Partition, FailsAlone, held
<1>2. CASE Next
  BY <1>2, TakeIInv, SettleIInv, GiveBackIInv, RemoveIInv, RestartIInv DEF Next
<1> QED BY <1>1, <1>2

LEMMA SpecIInv ==
  ASSUME Regime
  PROVE  Spec => []IInv
<1>1. Init => IInv
  BY InitIInv
<1>2. IInv /\ [Next]_vars => IInv'
  BY NextIInv
<1> QED BY <1>1, <1>2, PTL DEF Spec
-----------------------------------------------------------------------------
\* Every id that the pool, an add or an analysis has is one of 1 .. ID_MAX.
THEOREM TypeCorrect ==
  ASSUME Regime
  PROVE  Spec => []TypeOK
<1>1. IInv => TypeOK
  BY DEF IInv
<1> QED BY <1>1, SpecIInv, PTL

\* The pool never hands out an id twice and never loses one.
THEOREM PartitionHolds ==
  ASSUME Regime
  PROVE  Spec => []Partition
<1>1. IInv => Partition
  BY DEF IInv
<1> QED BY <1>1, SpecIInv, PTL

\* The id that the next add gets is unused.
THEOREM NextIdIsUnused ==
  ASSUME Regime
  PROVE  Spec => []NextIdUnused
<1>1. IInv => NextIdUnused
  BY DEF IInv, Partition, NextIdUnused, GetChoices, Inner
<1> QED BY <1>1, SpecIInv, PTL

\* The pool implements the allocator: what get_free_id extracts is an id
\* that nobody has, and ids come back only from those who have them.
THEOREM ImplementsAllocator ==
  ASSUME Regime
  PROVE  Spec => AllocatorSpec
<1>1. Init => Allocator!Init
  BY DEF Init, Allocator!Init
<1>2. IInv /\ [Next]_vars => [Allocator!Next]_<<adding, used>>
  <2> SUFFICES ASSUME IInv, [Next]_vars
               PROVE  [Allocator!Next]_<<adding, used>>
    OBVIOUS
  <2> USE DEF Allocator!Next
  <2>1. ASSUME NEW i \in Ids, Take(i)
        PROVE  Allocator!Claim(i)
    BY <2>1, TakeIInv DEF Take, Allocator!Claim, held
  <2>2. ASSUME NEW i \in Ids, Settle(i)
        PROVE  Allocator!Own(i)
    BY <2>2 DEF Settle, Allocator!Own, IInv, Partition
  <2>3. ASSUME NEW i \in Ids, GiveBack(i)
        PROVE  Allocator!Abandon(i)
    BY <2>3 DEF GiveBack, Allocator!Abandon
  <2>4. ASSUME NEW i \in Ids, Remove(i)
        PROVE  Allocator!Release(i)
    BY <2>4 DEF Remove, Allocator!Release
  <2>5. CASE Restart
    BY <2>5 DEF Restart
  <2>6. CASE UNCHANGED vars
    BY <2>6 DEF vars
  <2> QED BY <2>1, <2>2, <2>3, <2>4, <2>5, <2>6 DEF Next
<1> QED BY <1>1, <1>2, SpecIInv, PTL DEF Spec, AllocatorSpec, Allocator!Spec
=============================================================================

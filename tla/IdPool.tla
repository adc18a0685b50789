------------------------------- MODULE IdPool -------------------------------
(***************************************************************************)
(* The life of the ids in the threads manager: taken by threads_add,       *)
(* given back when the add fails, released by threads_remove, rebuilt by   *)
(* threads_startup.  available_mutex makes each operation on the treap     *)
(* atomic; adds and removals by several request threads interleave.        *)
(*                                                                         *)
(* The workload says what the environment does, for the pool withstands    *)
(* only some of it: "removes" is any number of concurrent adds that all    *)
(* succeed, with removals; "fails" is one add at a time, which may fail,   *)
(* and no removal; "any" is both, without restriction.                     *)
(***************************************************************************)
EXTENDS AvailableIds

CONSTANTS Workloads,  \* the workloads considered
          MaxHeld     \* bound: ids in use at the same time

ASSUME PoolAssumption == /\ Workloads \subseteq {"removes", "fails", "any"}
                         /\ MaxHeld \in Nat

VARIABLES workload,
          available,  \* man->available_ids
          adding,     \* ids of adds under way
          used        \* ids of analyses, until their node is back in the pool

vars == <<workload, available, adding, used>>
held == adding \cup used

Init == /\ workload \in Workloads
        /\ available = Rebuild({})
        /\ adding = {}
        /\ used = {}

\* threads_add: get_free_id under available_mutex.
Take(i) == /\ Cardinality(held) < MaxHeld
           /\ workload = "fails" => adding = {}
           /\ i \in GetChoices(available)
           /\ available' = AfterGet(available, i)
           /\ adding' = adding \cup {i}
           /\ UNCHANGED <<workload, used>>

\* threads_add succeeds.
Settle(i) == /\ i \in adding
             /\ adding' = adding \ {i}
             /\ used' = used \cup {i}
             /\ UNCHANGED <<workload, available>>

\* threads_add fails (malloc, tree_insert or fork_request) and calls return_id.
GiveBack(i) == /\ workload # "removes"
               /\ i \in adding
               /\ available' = AfterReturn(available, i)
               /\ adding' = adding \ {i}
               /\ UNCHANGED <<workload, used>>

\* threads_remove inserts the extracted node into available_ids.
Remove(i) == /\ workload # "fails"
             /\ i \in used
             /\ available' = AfterRemove(available, i)
             /\ used' = used \ {i}
             /\ UNCHANGED <<workload, adding>>

\* The manager is stopped, once its request threads are done, and started.
Restart == /\ adding = {}
           /\ available' = Rebuild(used)
           /\ UNCHANGED <<workload, adding, used>>

Next == \/ \E i \in Ids : Take(i) \/ Settle(i) \/ GiveBack(i) \/ Remove(i)
        \/ Restart

Spec == Init /\ [][Next]_vars
-----------------------------------------------------------------------------
TypeOK == /\ workload \in Workloads
          /\ available \subseteq Ids
          /\ adding \subseteq Ids
          /\ used \subseteq Ids

\* The ids up to the frontier are divided between the pool, the adds under
\* way and the analyses, and no id beyond the frontier is in use: the pool
\* can neither hand out an id twice nor lose one (get_free_id, return_id,
\* threads_remove and threads_startup between them).
Partition == /\ adding \cap used = {}
             /\ available \cap held = {}
             /\ \E f \in available : available \cup held = 1 .. f

\* The id get_free_id extracts next is not in use: a requests thread that
\* asks for a new analysis gets an unused id.
NextIdUnused == GetChoices(available) \cap held = {}

\* The pool implements the allocator: threads_add may take whatever
\* get_free_id extracts for an id that no analysis and no other add has.
Allocator == INSTANCE IdAllocator
               WITH Id <- Ids, claimed <- adding, owned <- used
AllocatorSpec == Allocator!Spec
=============================================================================

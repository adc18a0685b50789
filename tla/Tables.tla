------------------------------- MODULE Tables -------------------------------
(***************************************************************************)
(* The tables of the threads manager as the data structures they are: the  *)
(* treaps analyses and available_ids, the path tree, the data file.        *)
(* Requests are served one after the other (ThreadsManager has them        *)
(* overlap, on sets and functions); the manager is stopped, is killed, and *)
(* starts from the data file.                                              *)
(*                                                                         *)
(* The data file is a sequence of cells, a number or a name each.  Times,  *)
(* counts and priority, which no operation here looks at, are left out.    *)
(* A process is known by what an analysis can see of it: none, one that    *)
(* runs, one that SIGTSTP has stopped.                                     *)
(*                                                                         *)
(* Two analyses with one id, which module IdPool shows to be possible, are *)
(* followed up to that point only (Distinct).                              *)
(***************************************************************************)
EXTENDS AvailableIds, Treap, PathTree

CONSTANTS Paths,        \* directories that clients ask for
          HeapVals,     \* what rand() returns
          OldFiles,     \* data files that an earlier manager left
          MaxAnalyses,  \* bound: analyses at the same time
          MaxStarts     \* bound: the last start is not followed further

ASSUME TablesAssumption ==
  /\ Paths \subseteq Seq(Nat \ {NoName})
  /\ HeapVals \subseteq Nat /\ HeapVals # {}
  /\ OldFiles \subseteq Seq(Nat)
  /\ MaxAnalyses \in Nat /\ MaxStarts \in Nat

VARIABLES
  up,            \* the manager serves requests
  analyses,      \* man->analyses
  available,     \* man->available_ids
  analysis_cnt,  \* man->analysis_cnt
  paths,         \* man->paths
  file,          \* the data file
  starts,        \* how often the manager was started
  saved          \* what was in analyses when the file was written last

mem  == <<analyses, available, analysis_cnt, paths>>
vars == <<up, mem, file, starts, saved>>

\* The values of status and of suspended.
Pending    == 0
InProgress == 1
Complete   == 2
Resumed    == 0
Suspended  == 1

-----------------------------------------------------------------------------
(* The pool of ids *)

\* get_free_id; heap is the priority of a node that it inserts.
get_free_id(t, heap) ==
  IF t = Null THEN [tree |-> Null, node |-> Null]
  ELSE IF t.right # Null THEN treap_extract(t, t.id)
  ELSE IF t.left # Null THEN treap_extract(t, t.left.id)
  ELSE treap_extract(IF t.id < IdMax
                     THEN treap_insert_new(t, t.id + 1, heap, Null)
                     ELSE t, t.id)

\* A mutant: the node that stands for all greater ids stays.
ReturnKeepsLone(t, node) == treap_insert_node(t, [node EXCEPT !.anal = Null])

\* return_id
return_id(t, node) ==
  treap_insert_node(IF t # Null /\ t = Alone(t) THEN Null ELSE t,
                    [node EXCEPT !.anal = Null])
-----------------------------------------------------------------------------
(* threads_add.  got is what get_free_id returns: there is an id left. *)

NewAnal(p) == [path |-> p, status |-> InProgress, suspended |-> Resumed,
               proc |-> "runs"]

Serving == up /\ starts < MaxStarts

\* The directories that no analysis includes.
Addable == {p \in Paths : tree_find_prefix(paths, p) = NoInfo}

Inserted(p, got) ==
  treap_insert_node(analyses, [got.node EXCEPT !.anal = NewAnal(p)])

Add(p, got) ==
  /\ available' = got.tree
  /\ paths' = tree_insert(paths, p, got.node.id)
  /\ analyses' = Inserted(p, got)
  /\ analysis_cnt' = analysis_cnt + 1
  /\ UNCHANGED <<up, file, starts, saved>>

\* malloc fails, or tree_insert when it has opened n names.
AddNoMemory(p, got, n) ==
  /\ paths' = InsertCutOff(paths, p, n)
  /\ available' = return_id(got.tree, got.node)
  /\ UNCHANGED <<up, analyses, analysis_cnt, file, starts, saved>>

\* A mutant: the count goes down although it did not go up.
ForkFailsUncounts(p, got) ==
  LET x == treap_extract(Inserted(p, got), got.node.id) IN
  /\ analyses' = x.tree
  /\ paths' = tree_remove(tree_insert(paths, p, got.node.id), p)
  /\ available' = return_id(got.tree, x.node)
  /\ analysis_cnt' = analysis_cnt - 1
  /\ UNCHANGED <<up, file, starts, saved>>

\* fork_request fails: node, path and id are taken back.
AddForkFails(p, got) ==
  LET x == treap_extract(Inserted(p, got), got.node.id) IN
  /\ analyses' = x.tree
  /\ paths' = tree_remove(tree_insert(paths, p, got.node.id), p)
  /\ available' = return_id(got.tree, x.node)
  /\ UNCHANGED <<up, analysis_cnt, file, starts, saved>>

threads_add ==
  /\ Serving /\ analysis_cnt < MaxAnalyses
  /\ \E got \in {get_free_id(available, h) : h \in HeapVals} :
       /\ got.node # Null
       /\ \E p \in Addable :
            \/ Add(p, got) \/ AddForkFails(p, got)
            \/ \E n \in 0 .. Len(p) - 1 : AddNoMemory(p, got, n)
-----------------------------------------------------------------------------
(* The requests about an analysis, and its result.  n is the node that     *)
(* treap_find finds.                                                       *)

AnalOf(i) == treap_find(analyses, i).anal
Found     == {treap_find(analyses, i) : i \in Ids} \ {Null}

SetAnal(n, a) == /\ analyses' = WithAnal(analyses, n.id, a)
                 /\ UNCHANGED <<up, available, analysis_cnt, paths, file,
                                starts, saved>>

Suspend(n) ==
  /\ n.anal.suspended # Suspended /\ n.anal.status # Complete
  /\ SetAnal(n, [n.anal EXCEPT !.suspended = Suspended, !.proc = "stopped"])

Resume(n) ==
  /\ n.anal.suspended # Resumed
  /\ SetAnal(n, [n.anal EXCEPT
                   !.suspended = Resumed,
                   !.proc = IF @ = "stopped" THEN "runs" ELSE @])

\* threads_read_results: the process has reached the end of its walk.
Result(n) ==
  /\ n.anal.proc = "runs"
  /\ SetAnal(n, [n.anal EXCEPT !.status = Complete, !.proc = "none"])

\* threads_remove
Remove(n) ==
  LET x == treap_extract(analyses, n.id) IN
  /\ analyses' = x.tree
  /\ analysis_cnt' = analysis_cnt - 1
  /\ paths' = tree_remove(paths, x.node.anal.path)
  /\ available' = treap_insert_node(available, [x.node EXCEPT !.anal = Null])
  /\ UNCHANGED <<up, file, starts, saved>>
-----------------------------------------------------------------------------
(* The data file *)

\* A cell at the end of the file and beyond reads as 0.
Cell(f, i) == IF i <= Len(f) THEN f[i] ELSE 0

\* analysis_write
Record(n) == <<n.id, Len(n.anal.path)>> \o n.anal.path \o
             <<n.anal.status, n.anal.suspended>>

\* The cells of the file after data was written to its beginning: open does
\* not truncate.
Overwritten(data) == data \o SubSeq(file, Len(data) + 1, Len(file))

\* The cells of the records, one after the other.
Flat(s) ==
  LET upTo[k \in 0 .. Len(s)] == IF k = 0 THEN <<>> ELSE upTo[k - 1] \o s[k]
  IN upTo[Len(s)]

\* A mutant: the records go where they belong, the count is left as it was.
DataOldCount == LET s == SaveOrder(analyses)
                IN <<Cell(file, 1)>> \o Flat([i \in DOMAIN s |-> Record(s[i])])

\* threads_shutdown: the count, then treap_save.
Data == LET s == SaveOrder(analyses)
        IN <<analysis_cnt>> \o Flat([i \in DOMAIN s |-> Record(s[i])])

\* analysis_read of n records of the file f from cell i on.
Records(f, i, n) ==
  LET read[k \in 0 .. n] ==
        IF k = 0 THEN [cell |-> i, records |-> <<>>]
        ELSE LET r   == read[k - 1]
                 len == Cell(f, r.cell + 1)
             IN [cell    |-> r.cell + 4 + len,
                 records |-> Append(r.records,
                   [id        |-> Cell(f, r.cell),
                    path      |-> [j \in 1 .. len |-> Cell(f, r.cell + 1 + j)],
                    status    |-> Cell(f, r.cell + 2 + len),
                    suspended |-> Cell(f, r.cell + 3 + len)])]
  IN read[n].records

Read(f) == Records(f, 2, Cell(f, 1))

\* The files are such as a manager leaves: directories without empty names,
\* each with one id.
ASSUME FilesAssumption ==
  \A f \in OldFiles : \A i, j \in DOMAIN Read(f) :
    LET r == Read(f)[i]
        q == Read(f)[j]
    IN /\ r.id # NoInfo /\ r.path \in Seq(Nat \ {NoName})
       /\ r.path = q.path => r.id = q.id

\* A mutant: only what was not suspended gets a process.
ForkedIfResumed(r) ==
  [path |-> r.path, status |-> r.status, suspended |-> r.suspended,
   proc |-> IF r.status # Complete /\ r.suspended # Suspended
            THEN "runs" ELSE "none"]

\* initial_forks: what is not complete gets a process.
Forked(r) == [path |-> r.path, status |-> r.status, suspended |-> r.suspended,
              proc |-> IF r.status # Complete THEN "runs" ELSE "none"]

\* The tables after the records were inserted one by one.
TreapOf(s, heap) ==
  LET upTo[k \in 0 .. Len(s)] ==
        IF k = 0 THEN Null
        ELSE treap_insert_new(upTo[k - 1], s[k].id, heap[s[k].id], Forked(s[k]))
  IN upTo[Len(s)]

PathsOf(s) ==
  LET upTo[k \in 0 .. Len(s)] ==
        IF k = 0 THEN EmptyTree
        ELSE tree_insert(upTo[k - 1], s[k].path, s[k].id)
  IN upTo[Len(s)]

\* The loop over 1 .. mx_id + 1 up to n.
PoolUpTo(n, t, heap) ==
  LET upTo[i \in 0 .. n] ==
        IF i = 0 THEN Null
        ELSE IF treap_find(t, i) # Null THEN upTo[i - 1]
        ELSE treap_insert_new(upTo[i - 1], i, heap[i], Null)
  IN upTo[n]

GreatestId(s) == CHOOSE m \in {s[i].id : i \in DOMAIN s} \cup {0} :
                   \A i \in DOMAIN s : s[i].id <= m

\* What threads_shutdown has to save of the analyses, in any order.
Entries(t) == {[id |-> n.id, path |-> n.anal.path, status |-> n.anal.status,
                suspended |-> n.anal.suspended] : n \in Nodes(t)}

\* The manager is not up: there are no tables.
Init == /\ up = FALSE
        /\ analyses = Null /\ available = Null
        /\ analysis_cnt = 0 /\ paths = EmptyTree
        /\ file \in OldFiles
        /\ saved = {Read(file)[i] : i \in DOMAIN Read(file)}
        /\ starts = 0

\* threads_startup
Start(heap) ==
  LET s  == Read(file)
      mx == GreatestId(s)
  IN /\ up' = TRUE
     /\ analysis_cnt' = Cell(file, 1)
     /\ analyses' = TreapOf(s, heap)
     /\ paths' = PathsOf(s)
     /\ available' = PoolUpTo(IF mx < IdMax THEN mx + 1 ELSE IdMax,
                              analyses', heap)
     /\ starts' = starts + 1
     /\ UNCHANGED <<file, saved>>

Gone == /\ up' = FALSE
        /\ analyses' = Null /\ available' = Null
        /\ analysis_cnt' = 0 /\ paths' = EmptyTree

\* threads_shutdown; the processes have been stopped before.
Shutdown == /\ Serving
            /\ Gone
            /\ file' = Overwritten(Data)
            /\ saved' = Entries(analyses)
            /\ UNCHANGED starts

\* The manager dies, as by the SIGPIPE for a client that left.
Die == /\ Serving
       /\ Gone
       /\ UNCHANGED <<file, starts, saved>>
-----------------------------------------------------------------------------
\* No two analyses with the same id, and none with an id that is available.
Distinct == /\ UniqueKeys(analyses) /\ UniqueKeys(available)
            /\ TreapIds(analyses) \cap TreapIds(available) = {}

Next ==
  /\ Distinct
  /\ \/ threads_add
     \/ Serving /\ \E n \in Found : Suspend(n) \/ Resume(n) \/ Result(n)
                                       \/ Remove(n)
     \/ ~up /\ starts < MaxStarts /\ \E heap \in [Ids -> HeapVals] : Start(heap)
     \/ Shutdown \/ Die

Spec == Init /\ [][Next]_vars
-----------------------------------------------------------------------------
\* The rotations of insertions and extractions keep the search order, also
\* where treap_extract has let a greater priority up: every analysis is found
\* by its id, and lists come in the order of the ids.
SearchOrder == Ordered(analyses) /\ Ordered(available)

\* What get_free_id, return_id, threads_remove and threads_startup do to the
\* treap is what AvailableIds says they do to the set of its ids, whatever
\* its shape.
PoolIsSet ==
  LET S == TreapIds(available) IN
  UniqueKeys(available) =>
    /\ \A h \in HeapVals :
         LET got == get_free_id(available, h) IN
         IF S = {} THEN got.node = Null
         ELSE /\ got.node.id \in GetChoices(S)
              /\ TreapIds(got.tree) = AfterGet(S, got.node.id)
    /\ \A h \in HeapVals, i \in Ids \ S :
         LET n == NewNode(i, h, Null) IN
         /\ TreapIds(return_id(available, n)) = AfterReturn(S, i)
         /\ TreapIds(treap_insert_node(available, n)) = AfterRemove(S, i)

\* The path tree has the directories of the analyses, each with its id, what
\* failed adds and removals leave behind notwithstanding; and it answers for
\* a directory exactly when an analysis includes it.
PathsExact ==
  Distinct =>
    /\ Stored(paths) = {[path |-> n.anal.path, id |-> n.id] : n \in Nodes(analyses)}
    /\ \A p \in Paths :
         LET i == tree_find_prefix(paths, p)
             Above(q) == Len(q) <= Len(p) /\ SubSeq(p, 1, Len(q)) = q
         IN IF i = NoInfo THEN \A n \in Nodes(analyses) : ~Above(n.anal.path)
            ELSE Above(AnalOf(i).path)

\* The number that lists announce, and the data file begins with, is that
\* of the analyses.
CountExact == Distinct => analysis_cnt = Len(InOrder(analyses))

\* Nothing that is not complete is without a process, nothing complete has
\* one, over restarts.
UnfinishedRun ==
  \A n \in Nodes(analyses) : (n.anal.status # Complete) <=> (n.anal.proc # "none")

\* The manager starts with the analyses it had when it was stopped last,
\* whatever a longer file left behind the records, and with the pool of the
\* ids that they leave.
StartsAsSaved ==
  [][up' /\ ~up => /\ Entries(analyses') = saved
                   /\ TreapIds(available') = Rebuild({e.id : e \in saved})]_vars
=============================================================================

--------------------------- MODULE ThreadsManager ---------------------------
(***************************************************************************)
(* The threads manager at work: request threads serving clients, the       *)
(* responses thread applying the results the analysis processes send, and  *)
(* those processes as far as the two sides see each other.                 *)
(*                                                                         *)
(* A request r is the thread that serves it.  When it adds an analysis, r  *)
(* also names that analysis (its struct), the int it stores in the path    *)
(* tree, and the process forked for it.  A treap node is named by its id;  *)
(* it is in available_ids, in analyses, or held by one thread.             *)
(*                                                                         *)
(* analyses_mutex is explicit, for some readers take a copy of it;         *)
(* a critical section of the two other mutexes is one step.  Between       *)
(* sections every use of the node, the struct or the int is a step too.    *)
(* A freed object keeps its content, one of the outcomes of using it; the  *)
(* steps that cannot go on (a null pointer, a second free, a signal to the *)
(* manager's own group) end in crashed.                                    *)
(***************************************************************************)
EXTENDS AvailableIds, Sequences

CONSTANTS Req,           \* request threads
          Resp,          \* the responses thread
          Nil,           \* no thread, no analysis; as a pid, no process
          Paths,         \* directories
          Ancestors,     \* [Paths -> SUBSET Paths], each with itself
          Tasks,         \* the tasks clients ask for
          FreshPids,     \* what a pid nobody has set yet may be
          MaxServing,    \* requests served at the same time
          AddMayFail,    \* TRUE: malloc, tree_insert or fork_request may fail
          WalkMayFail    \* TRUE: an analysis process may fail

Threads == Req \cup {Resp}
OwnGroup == "own group"   \* the pid 0 of kill

ASSUME ThreadsAssumption ==
  /\ IsFiniteSet(Req)
  /\ Resp \notin Req /\ Nil \notin Threads /\ OwnGroup \notin Req
  /\ Ancestors \in [Paths -> SUBSET Paths]
  /\ \A p \in Paths : p \in Ancestors[p]
  /\ Tasks \subseteq {"add", "suspend", "resume", "remove", "status", "list"}
  /\ FreshPids \subseteq {Nil, OwnGroup} /\ MaxServing \in Nat
  /\ AddMayFail \in BOOLEAN /\ WalkMayFail \in BOOLEAN

VARIABLES
  pc,         \* what each thread does next
  id,         \* the id each thread works with, once it has one
  available,  \* man->available_ids
  analyses,   \* man->analyses: the ids of its nodes
  nodeAnal,   \* the anal field of each node
  anal,       \* the struct analysis of each add
  paths,      \* man->paths: the add whose int each directory holds
  cnt,        \* man->analysis_cnt
  mutex,      \* the holder of man->analyses_mutex
  copy,       \* the copies of man that threads_status and the like get
  child,      \* the analysis processes
  inbox,      \* results on their way to the responses thread
  crashed     \* the threads manager process is dead

vars == <<pc, id, available, analyses, nodeAnal, anal, paths, cnt, mutex,
          copy, child, inbox, crashed>>

Status  == {"pending", "in progress", "complete"}
Signals == {"TSTP", "CONT", "INT"}
Idle    == {"idle", "done"}
\* Steps taken with analyses_mutex held.
Locking == {"insert", "rollback", "finish", "suspend", "resume", "remove",
            "apply"}
Steps   == Idle \cup Locking \cup
           {"add", "get id", "insert path", "fork", "read pid", "unpath",
            "return id", "kill", "remove path", "release", "free", "null",
            "status", "list", "read"}

NoAnal  == [path |-> Nil, status |-> "pending", suspended |-> FALSE,
            pid |-> Nil, live |-> FALSE]
NoChild == [state |-> "none", id |-> NoId, suspended |-> FALSE, pend |-> {}]

Init == /\ pc = [t \in Threads |-> "idle"]
        /\ id = [t \in Threads |-> NoId]
        /\ available = Rebuild({})
        /\ analyses = {}
        /\ nodeAnal = [i \in Ids |-> Nil]
        /\ anal = [r \in Req |-> NoAnal]
        /\ paths = [p \in Paths |-> Nil]
        /\ cnt = 0
        /\ mutex = Nil
        /\ copy = [r \in Req |-> [locked |-> FALSE, cnt |-> 0]]
        /\ child = [r \in Req |-> NoChild]
        /\ inbox = <<>>
        /\ crashed = FALSE

Goto(t, step)  == pc' = [pc EXCEPT ![t] = step]
Ended(t)       == Goto(t, IF t = Resp THEN "idle" ELSE "done")
AnalOf(t)      == nodeAnal[id[t]]
Serving        == {r \in Req : pc[r] \notin Idle}
treap == <<analyses, nodeAnal, cnt>>
procs == <<child, inbox>>
-----------------------------------------------------------------------------
\* pthread_mutex_lock(&(man->analyses_mutex)).
Lock(t) == /\ pc[t] \in Locking
           /\ mutex = Nil
           /\ mutex' = t
           /\ UNCHANGED <<pc, id, available, treap, anal, paths, copy, procs,
                          crashed>>

\* The struct of a new analysis comes from malloc: its pid is what fresh
\* memory holds or a freed struct left there.
StalePids == FreshPids \cup {anal[q].pid : q \in {q \in Req : ~anal[q].live}}

NewAnal(p, g) == [path |-> p, status |-> "pending", suspended |-> FALSE,
                  pid |-> g, live |-> TRUE]

\* do_requests_manager accepts a client; request_thread reads the task.
Accept(r) ==
  /\ pc[r] = "idle" /\ Cardinality(Serving) < MaxServing
  /\ \E task \in Tasks :
       /\ Goto(r, task)
       /\ IF task = "add"
          THEN /\ \E p \in Paths, g \in StalePids :
                    anal' = [anal EXCEPT ![r] = NewAnal(p, g)]
               /\ UNCHANGED id
          ELSE /\ \E i \in IF task = "list" THEN {NoId} ELSE Ids :
                    id' = [id EXCEPT ![r] = i]
               /\ UNCHANGED anal
  /\ UNCHANGED <<available, treap, paths, mutex, copy, procs, crashed>>
-----------------------------------------------------------------------------
(* threads_add *)

Path(r)    == anal[r].path
Freed(r)   == [anal EXCEPT ![r].live = FALSE]

\* A mutant: only the path itself is looked up.
CoveredExactly(p) == paths[p] # Nil

\* tree_find_prefix: an analysis of p or of a directory above p is there.
Covered(p) == \E q \in Ancestors[p] : paths[q] # Nil

\* The path is no directory, or it is covered: threads_add returns 1 and
\* request_thread frees the struct.
AddRefused(r) ==
  /\ pc[r] = "add"
  /\ \/ AddMayFail           \* stat fails or S_ISDIR is 0
     \/ Covered(Path(r))
  /\ Ended(r)
  /\ anal' = Freed(r)
  /\ UNCHANGED <<id, available, treap, paths, mutex, copy, procs, crashed>>

AddFindPrefix(r) ==
  /\ pc[r] = "add"
  /\ ~Covered(Path(r))
  /\ Goto(r, "get id")
  /\ UNCHANGED <<id, available, treap, anal, paths, mutex, copy, procs,
                 crashed>>

\* get_free_id; the thread that holds the node then sets its anal.
AddGetId(r) ==
  /\ pc[r] = "get id"
  /\ \E i \in GetChoices(available) :
       /\ available' = AfterGet(available, i)
       /\ id' = [id EXCEPT ![r] = i]
       /\ nodeAnal' = [nodeAnal EXCEPT ![i] = r]
  /\ Goto(r, "insert path")
  /\ UNCHANGED <<analyses, cnt, anal, paths, mutex, copy, procs, crashed>>

\* The ids ran out, or there is no memory for the successor of the last one.
AddNoId(r) ==
  /\ pc[r] = "get id"
  /\ \/ available = {}
     \/ AddMayFail /\ Inner(available) = {} /\ IdMax \notin available
  /\ Ended(r)
  /\ anal' = Freed(r)
  /\ UNCHANGED <<id, available, treap, paths, mutex, copy, procs, crashed>>

\* tree_insert: the int stored before, if any, is freed.
AddInsertPath(r) ==
  /\ pc[r] = "insert path"
  /\ paths' = [paths EXCEPT ![Path(r)] = r]
  /\ Goto(r, "insert")
  /\ UNCHANGED <<id, available, treap, anal, mutex, copy, procs, crashed>>

\* malloc or tree_insert fails.
AddNoMemory(r) ==
  /\ pc[r] = "insert path"
  /\ AddMayFail
  /\ Goto(r, "return id")
  /\ UNCHANGED <<id, available, treap, anal, paths, mutex, copy, procs,
                 crashed>>

AddInsertNode(r) ==
  /\ pc[r] = "insert" /\ mutex = r
  /\ analyses' = analyses \cup {id[r]}
  /\ mutex' = Nil
  /\ Goto(r, "fork")
  /\ UNCHANGED <<id, available, nodeAnal, cnt, anal, paths, copy, procs,
                 crashed>>

\* What *id may be: the int is r's until it is replaced or removed in the
\* path tree, then it is freed memory.
IntOf(r) == IF paths[Path(r)] = r THEN {id[r]}
            ELSE {NoId} \cup {id[q] : q \in Req}

\* fork_request sends id and path; the forks manager forks.
ForkRequest(r) ==
  /\ pc[r] = "fork"
  /\ \E i \in IntOf(r) :
       child' = [child EXCEPT ![r] = [NoChild EXCEPT !.state = "forked",
                                                     !.id = i]]
  /\ Goto(r, "read pid")
  /\ UNCHANGED <<id, available, treap, anal, paths, mutex, copy, inbox,
                 crashed>>

ForkRequestFails(r) ==
  /\ pc[r] = "fork"
  /\ AddMayFail
  /\ Goto(r, "rollback")
  /\ UNCHANGED <<id, available, treap, anal, paths, mutex, copy, procs,
                 crashed>>

\* A mutant: the pid is read and not kept.
PidNotKept(r) ==
  /\ pc[r] = "read pid"
  /\ child[r].state # "forked"
  /\ Goto(r, "finish")
  /\ UNCHANGED <<id, available, treap, anal, paths, mutex, copy, procs,
                 crashed>>

\* fork_request reads the pid the process sends.
AddReadPid(r) ==
  /\ pc[r] = "read pid"
  /\ child[r].state # "forked"
  /\ anal' = [anal EXCEPT ![r].pid = r]
  /\ Goto(r, "finish")
  /\ UNCHANGED <<id, available, treap, paths, mutex, copy, procs, crashed>>

AddFinish(r) ==
  /\ pc[r] = "finish" /\ mutex = r
  /\ cnt' = cnt + 1
  /\ anal' = [anal EXCEPT ![r].status = "in progress"]
  /\ mutex' = Nil
  /\ Ended(r)
  /\ UNCHANGED <<id, available, analyses, nodeAnal, paths, copy, procs,
                 crashed>>

\* A mutant: the rollback also decrements analysis_cnt, as a removal does.
RollbackNodeCounts(r) ==
  /\ pc[r] = "rollback" /\ mutex = r
  /\ id[r] \in analyses
  /\ analyses' = analyses \ {id[r]}
  /\ cnt' = cnt - 1
  /\ mutex' = Nil
  /\ Goto(r, "unpath")
  /\ UNCHANGED <<id, available, nodeAnal, anal, paths, copy, procs, crashed>>

RollbackNode(r) ==
  /\ pc[r] = "rollback" /\ mutex = r
  /\ id[r] \in analyses
  /\ analyses' = analyses \ {id[r]}
  /\ mutex' = Nil
  /\ Goto(r, "unpath")
  /\ UNCHANGED <<id, available, nodeAnal, cnt, anal, paths, copy, procs,
                 crashed>>

\* A mutant: tree_remove is forgotten.
RollbackPathKept(r) ==
  /\ pc[r] = "unpath"
  /\ Goto(r, "return id")
  /\ UNCHANGED <<id, available, treap, anal, paths, mutex, copy, procs,
                 crashed>>

RollbackPath(r) ==
  /\ pc[r] = "unpath"
  /\ paths' = [paths EXCEPT ![Path(r)] = Nil]
  /\ Goto(r, "return id")
  /\ UNCHANGED <<id, available, treap, anal, mutex, copy, procs, crashed>>

\* return_id, then request_thread frees the struct.
AddReturnId(r) ==
  /\ pc[r] = "return id"
  /\ available' = AfterReturn(available, id[r])
  /\ nodeAnal' = [nodeAnal EXCEPT ![id[r]] = Nil]
  /\ anal' = Freed(r)
  /\ Ended(r)
  /\ UNCHANGED <<id, analyses, cnt, paths, mutex, copy, procs, crashed>>

Add(r) == \/ AddRefused(r) \/ AddFindPrefix(r) \/ AddGetId(r) \/ AddNoId(r)
          \/ AddInsertPath(r) \/ AddNoMemory(r) \/ AddInsertNode(r)
          \/ ForkRequest(r) \/ ForkRequestFails(r) \/ AddReadPid(r)
          \/ AddFinish(r) \/ RollbackNode(r) \/ RollbackPath(r)
          \/ AddReturnId(r)
-----------------------------------------------------------------------------
(* threads_suspend, threads_resume *)

Alive(q) == child[q].state \in {"walking", "walked"}

\* A pending SIGTSTP and a pending SIGCONT cancel each other.
Pending(S, sig) == {sig} \cup (S \ (CASE sig = "TSTP" -> {"CONT"}
                                      [] sig = "CONT" -> {"TSTP"}
                                      [] OTHER        -> {}))

\* The processes after kill(anal->pid, sig), sent only to a process of the
\* manager's own group; the pid 0 stands for all of them.
Signalled(a, sig) ==
  [q \in Req |-> IF anal[a].pid \in {q, OwnGroup} /\ Alive(q)
                 THEN [child[q] EXCEPT !.pend = Pending(@, sig)]
                 ELSE child[q]]

Suspendable(a) == ~anal[a].suspended /\ anal[a].status # "complete"
Resumable(a)   == anal[a].suspended

\* The body of threads_suspend (to = TRUE) and threads_resume (to = FALSE).
SetSuspended(r, step, to, sig, Allowed(_)) ==
  /\ pc[r] = step /\ mutex = r
  /\ IF id[r] \in analyses /\ Allowed(AnalOf(r))
     THEN /\ child' = Signalled(AnalOf(r), sig)
          /\ anal' = [anal EXCEPT ![AnalOf(r)].suspended = to]
     ELSE UNCHANGED <<child, anal>>
  /\ mutex' = Nil
  /\ Ended(r)
  /\ UNCHANGED <<id, available, treap, paths, copy, inbox, crashed>>

Suspend(r) == SetSuspended(r, "suspend", TRUE, "TSTP", Suspendable)
Resume(r)  == SetSuspended(r, "resume", FALSE, "CONT", Resumable)
-----------------------------------------------------------------------------
(* threads_remove: by a request thread, or by the responses thread when an *)
(* analysis process reports a failure.                                     *)

\* A mutant: analysis_cnt is decremented even if no node was extracted.
RemoveUnknownCounts(t) ==
  /\ pc[t] = "remove" /\ mutex = t
  /\ id[t] \notin analyses
  /\ cnt' = cnt - 1
  /\ mutex' = Nil
  /\ Ended(t)
  /\ UNCHANGED <<id, available, analyses, nodeAnal, anal, paths, copy, procs,
                 crashed>>

RemoveUnknown(t) ==
  /\ pc[t] = "remove" /\ mutex = t
  /\ id[t] \notin analyses
  /\ mutex' = Nil
  /\ Ended(t)
  /\ UNCHANGED <<id, available, treap, anal, paths, copy, procs, crashed>>

RemoveExtract(t) ==
  /\ pc[t] = "remove" /\ mutex = t
  /\ id[t] \in analyses
  /\ analyses' = analyses \ {id[t]}
  /\ cnt' = cnt - 1
  /\ mutex' = Nil
  /\ Goto(t, "kill")
  /\ UNCHANGED <<id, available, nodeAnal, anal, paths, copy, procs, crashed>>

RemoveKill(t) ==
  /\ pc[t] = "kill"
  /\ child' = Signalled(AnalOf(t), "INT")
  /\ Goto(t, "remove path")
  /\ UNCHANGED <<id, available, treap, anal, paths, mutex, copy, inbox,
                 crashed>>

RemovePath(t) ==
  /\ pc[t] = "remove path"
  /\ paths' = [paths EXCEPT ![Path(AnalOf(t))] = Nil]
  /\ Goto(t, "release")
  /\ UNCHANGED <<id, available, treap, anal, mutex, copy, procs, crashed>>

RemoveRelease(t) ==
  /\ pc[t] = "release"
  /\ available' = AfterRemove(available, id[t])
  /\ Goto(t, "free")
  /\ UNCHANGED <<id, treap, anal, paths, mutex, copy, procs, crashed>>

\* The node may be another add's by now: its anal is read again, ...
RemoveFree(t) ==
  /\ pc[t] = "free"
  /\ anal' = [anal EXCEPT ![AnalOf(t)].live = FALSE]
  /\ Goto(t, "null")
  /\ UNCHANGED <<id, available, treap, paths, mutex, copy, procs, crashed>>

\* ... and cleared.
RemoveNull(t) ==
  /\ pc[t] = "null"
  /\ nodeAnal' = [nodeAnal EXCEPT ![id[t]] = Nil]
  /\ Ended(t)
  /\ UNCHANGED <<id, available, analyses, cnt, anal, paths, mutex, copy,
                 procs, crashed>>

Remove(t) == \/ RemoveUnknown(t) \/ RemoveExtract(t) \/ RemoveKill(t)
             \/ RemovePath(t) \/ RemoveRelease(t) \/ RemoveFree(t)
             \/ RemoveNull(t)
-----------------------------------------------------------------------------
(* threads_read_results.  Results with the type 2 only add to the counts.  *)

RespReceive ==
  /\ pc[Resp] = "idle" /\ inbox # <<>>
  /\ id' = [id EXCEPT ![Resp] = Head(inbox).id]
  /\ Goto(Resp, IF Head(inbox).ok THEN "apply" ELSE "remove")
  /\ inbox' = Tail(inbox)
  /\ UNCHANGED <<available, treap, anal, paths, mutex, copy, child, crashed>>

\* A mutant: the early return for an unknown id leaves the mutex locked.
RespApplyKeepsLock ==
  /\ pc[Resp] = "apply" /\ mutex = Resp
  /\ anal' = IF id[Resp] \in analyses
             THEN [anal EXCEPT ![AnalOf(Resp)].status = "complete"]
             ELSE anal
  /\ mutex' = IF id[Resp] \in analyses THEN Nil ELSE mutex
  /\ Ended(Resp)
  /\ UNCHANGED <<id, available, treap, paths, copy, procs, crashed>>

RespApply ==
  /\ pc[Resp] = "apply" /\ mutex = Resp
  /\ anal' = IF id[Resp] \in analyses
             THEN [anal EXCEPT ![AnalOf(Resp)].status = "complete"]
             ELSE anal
  /\ mutex' = Nil
  /\ Ended(Resp)
  /\ UNCHANGED <<id, available, treap, paths, copy, procs, crashed>>
-----------------------------------------------------------------------------
(* threads_status, threads_get_all, threads_result: man is passed by value. *)

ReadCopy(r) ==
  /\ pc[r] \in {"status", "list"}
  /\ copy' = [copy EXCEPT ![r] = [locked |-> mutex # Nil, cnt |-> cnt]]
  /\ Goto(r, "read")
  /\ UNCHANGED <<id, available, treap, anal, paths, mutex, procs, crashed>>

\* The lock of the copy is taken: nobody unlocks a copy made while locked.
Read(r) ==
  /\ pc[r] = "read"
  /\ ~copy[r].locked
  /\ Ended(r)
  /\ UNCHANGED <<id, available, treap, anal, paths, mutex, copy, procs,
                 crashed>>
-----------------------------------------------------------------------------
(* The analysis process (forks_add in the child). *)

\* Handlers are installed, the path is read, then the pid is sent.
ChildStart(r) ==
  /\ child[r].state = "forked"
  /\ child' = [child EXCEPT ![r].state = "walking"]
  /\ UNCHANGED <<pc, id, available, treap, anal, paths, mutex, copy, inbox,
                 crashed>>

\* A mutant: the case of SIGTSTP falls through to that of SIGCONT.
HandledFallingThrough(c, sig) ==
  CASE sig \in {"TSTP", "CONT"} -> [c EXCEPT !.pend = @ \ {sig},
                                             !.suspended = FALSE]
    [] OTHER -> IF c.state = "walking" THEN [NoChild EXCEPT !.state = "gone"]
                ELSE [c EXCEPT !.pend = @ \ {sig}]

\* forkchild_handler.  An interrupted walk ends without a result.
Handled(c, sig) ==
  CASE sig = "TSTP" -> [c EXCEPT !.pend = @ \ {sig}, !.suspended = TRUE]
    [] sig = "CONT" -> [c EXCEPT !.pend = @ \ {sig}, !.suspended = FALSE]
    [] OTHER -> IF c.state = "walking" THEN [NoChild EXCEPT !.state = "gone"]
                ELSE [c EXCEPT !.pend = @ \ {sig}]

ChildSignal(r) ==
  /\ Alive(r)
  /\ \E sig \in child[r].pend : child' = [child EXCEPT ![r] = Handled(@, sig)]
  /\ UNCHANGED <<pc, id, available, treap, anal, paths, mutex, copy, inbox,
                 crashed>>

\* The walk is over and not interrupted: a result will be sent.
ChildWalked(r) ==
  /\ child[r].state = "walking" /\ ~child[r].suspended
  /\ child' = [child EXCEPT ![r].state = "walked"]
  /\ UNCHANGED <<pc, id, available, treap, anal, paths, mutex, copy, inbox,
                 crashed>>

Send(r, ok) ==
  /\ inbox' = Append(inbox, [id |-> child[r].id, ok |-> ok])
  /\ child' = [child EXCEPT ![r] = [NoChild EXCEPT !.state = "gone"]]
  /\ UNCHANGED <<pc, id, available, treap, anal, paths, mutex, copy, crashed>>

ChildReports(r) == child[r].state = "walked" /\ Send(r, TRUE)

ChildFails(r) == /\ WalkMayFail
                 /\ child[r].state = "walking" /\ ~child[r].suspended
                 /\ Send(r, FALSE)
-----------------------------------------------------------------------------
\* The next step of t follows a null anal, frees a struct again, returns a
\* node that another thread removed, or kills the manager's own group.
Doomed(t) ==
  \/ pc[t] \in {"suspend", "resume", "apply"} /\ mutex = t
     /\ id[t] \in analyses /\ AnalOf(t) = Nil
  \/ pc[t] \in {"kill", "remove path", "free"}
     /\ AnalOf(t) \notin {a \in Req :
                           /\ pc[t] = "kill" => anal[a].pid # OwnGroup
                           /\ pc[t] = "free" => anal[a].live}
  \/ pc[t] = "return id" /\ ~anal[t].live
  \/ pc[t] = "rollback" /\ mutex = t /\ id[t] \notin analyses
  \/ pc[t] = "read" /\ ~copy[t].locked
     /\ \E i \in analyses : id[t] \in {NoId, i} /\ nodeAnal[i] = Nil

Crash(t) == /\ Doomed(t)
            /\ crashed' = TRUE
            /\ UNCHANGED <<pc, id, available, treap, anal, paths, mutex, copy,
                           procs>>

Request(r) == Add(r) \/ Suspend(r) \/ Resume(r) \/ ReadCopy(r) \/ Read(r)
Serve(t)   == ~Doomed(t) /\ (Lock(t) \/ Remove(t)
                             \/ (t \in Req /\ Request(t))
                             \/ (t = Resp /\ RespApply))
Child(r)   == \/ ChildStart(r) \/ ChildSignal(r) \/ ChildWalked(r)
              \/ ChildReports(r) \/ ChildFails(r)

Next == /\ ~crashed
        /\ \/ \E r \in Req : Accept(r) \/ Child(r)
           \/ \E t \in Threads : Serve(t) \/ Crash(t)
           \/ RespReceive

Spec == Init /\ [][Next]_vars
-----------------------------------------------------------------------------
Anal == [path : Paths \cup {Nil}, status : Status, suspended : BOOLEAN,
         pid : Req \cup {Nil, OwnGroup}, live : BOOLEAN]
Proc == [state : {"none", "forked", "walking", "walked", "gone"},
         id : Ids \cup {NoId}, suspended : BOOLEAN, pend : SUBSET Signals]

TypeOK ==
  /\ pc \in [Threads -> Steps]
  /\ id \in [Threads -> Ids \cup {NoId}]
  /\ available \subseteq Ids
  /\ analyses \subseteq Ids
  /\ nodeAnal \in [Ids -> Req \cup {Nil}]
  /\ anal \in [Req -> Anal]
  /\ paths \in [Paths -> Req \cup {Nil}]
  /\ cnt \in Int
  /\ mutex \in Threads \cup {Nil}
  /\ copy \in [Req -> [locked : BOOLEAN, cnt : Int]]
  /\ child \in [Req -> Proc]
  /\ inbox \in Seq([id : Ids \cup {NoId}, ok : BOOLEAN])
  /\ crashed \in BOOLEAN

\* Threads between taking a node and putting it into a treap.
Holding == {"insert path", "insert", "unpath", "return id", "kill",
            "remove path", "release"}
Holders == {t \in Threads : pc[t] \in Holding}
HeldIds == {id[t] : t \in Holders}

\* A node is in one place: available_ids, analyses or the hands of one
\* thread.  So no two analyses have one id, whatever threads_add and
\* threads_remove interleave.
UniqueIds == /\ available \cap analyses = {}
             /\ HeldIds \cap (available \cup analyses) = {}
             /\ \A t, u \in Holders : id[t] = id[u] => t = u

\* Adds that are in the treap and not yet in analysis_cnt.
Uncounted == {r \in Req : pc[r] \in {"fork", "read pid", "finish",
                                     "rollback"}}

\* analysis_cnt lags behind the treap by the adds that are about to count
\* themselves or to roll back, even when another thread removed their node.
CountCoherent == ~crashed =>
                   Cardinality(analyses) = cnt + Cardinality(Uncounted)
-----------------------------------------------------------------------------
(* Properties of requests served one at a time, next to the responses      *)
(* thread and the analysis processes.                                      *)

\* The path tree and the treap tell the same analyses: an analysis is found
\* under its path, so nothing is accepted under it, and a path is taken
\* only by an analysis or by an add or removal at work.
PathsAgree == ~crashed =>
  /\ \A i \in analyses : /\ nodeAnal[i] # Nil
                         /\ anal[nodeAnal[i]].live
                         /\ paths[Path(nodeAnal[i])] = nodeAnal[i]
  /\ \A p \in Paths : paths[p] # Nil => id[paths[p]] \in analyses \cup HeldIds

\* An analysis is never added for a directory that another one includes.
NoOverlap == [][\A i \in analyses' \ analyses, j \in analyses :
                  Path(nodeAnal[j]) \notin Ancestors[Path(nodeAnal[i])]]_vars

\* The flag that status requests report and the process agree, up to the
\* signals still pending: a suspended analysis does not walk, a resumed one
\* does.
WillBeSuspended(c) == "TSTP" \in c.pend \/ (c.suspended /\ "CONT" \notin c.pend)
SuspendAgreement ==
  \A i \in analyses : LET a == nodeAnal[i] IN
    Alive(a) => /\ anal[a].suspended = WillBeSuspended(child[a])
                /\ ~({"TSTP", "CONT"} \subseteq child[a].pend)

\* The number that a list announces is the number of entries it sends: the
\* client reads exactly that many.
ListExact == \A r \in Req : (pc[r] = "read" /\ id[r] = NoId /\ ~copy[r].locked)
                              => copy[r].cnt = Cardinality(analyses)

\* No request makes the manager follow a null pointer, free a struct twice
\* or signal its own process group.
NeverCrashes == ~crashed
-----------------------------------------------------------------------------
(* An analysis that is complete stays so: its process has told its result  *)
(* and will not tell it again.                                             *)
CompletionIsFinal ==
  [][\A r \in Req : (anal[r].status = "complete" /\ pc'[r] # "add")
                      => anal'[r].status = "complete"]_vars

(* The kernel runs every thread that can run and every analysis process    *)
(* until it has sent its pid; fork_request waits for that one only.        *)
Fairness == /\ \A t \in Threads : WF_vars(~crashed /\ (Serve(t) \/ Crash(t)))
            /\ WF_vars(~crashed /\ RespReceive)
            /\ \A r \in Req : WF_vars(~crashed /\ ChildStart(r))

FairSpec == Spec /\ Fairness

\* A request that changes something is answered in the end, for the treap
\* lock it needs is given back by everyone who took it.
ChangesAnswered == \A r \in Req :
  pc[r] \in {"add", "suspend", "resume", "remove"}
    ~> (pc[r] = "done" \/ crashed)
=============================================================================

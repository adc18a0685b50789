------------------------ MODULE ThreadsManagerProofs ------------------------
(***************************************************************************)
(* Proofs about the threads manager, for any number of request threads     *)
(* that add and remove analyses: type correctness, that a node is in one   *)
(* place, and that it implements the abstract allocator of ids; then, for  *)
(* requests served one at a time, that its tables agree.                   *)
(***************************************************************************)
EXTENDS ThreadsManager, TLAPS, FiniteSetTheorems, SequenceTheorems

USE IdMaxAssumption, ThreadsAssumption

\* Steps at which a thread has an id of 1 .. ID_MAX to work with.
Knowing == Holding \cup {"fork", "read pid", "finish", "rollback", "free",
                         "null"}

\* TypeOK is not inductive by itself: the id a thread puts into a treap
\* must be known to be one.
IdKnown == \A t \in Threads : pc[t] \in Knowing => id[t] \in Ids

TInv == TypeOK /\ IdKnown

\* A thread that goes on with its id, or that is done with it.
LEMMA GoOn ==
  ASSUME TInv, NEW t \in Threads, NEW step \in Steps, Goto(t, step),
         id' = id, step \in Knowing => id[t] \in Ids
  PROVE  pc' \in [Threads -> Steps] /\ IdKnown'
BY DEF TInv, TypeOK, IdKnown, Goto

LEMMA End ==
  ASSUME TInv, NEW t \in Threads, Ended(t), id' = id
  PROVE  pc' \in [Threads -> Steps] /\ IdKnown'
<1>1. \A step \in Idle : step \in Steps /\ step \notin Knowing
  BY DEF Idle, Steps, Knowing, Holding
<1>2. (IF t = Resp THEN "idle" ELSE "done") \in Idle
  BY DEF Idle
<1> QED BY <1>1, <1>2, GoOn DEF Ended

\* Updates of one field of a struct analysis.
LEMMA AnalFields ==
  ASSUME NEW f \in [Req -> Anal], NEW a
  PROVE  /\ [f EXCEPT ![a].live = FALSE] \in [Req -> Anal]
         /\ \A s \in Status : [f EXCEPT ![a].status = s] \in [Req -> Anal]
         /\ [f EXCEPT ![a].suspended = TRUE] \in [Req -> Anal]
         /\ [f EXCEPT ![a].suspended = FALSE] \in [Req -> Anal]
         /\ \A q \in Req : [f EXCEPT ![a].pid = q] \in [Req -> Anal]
<1>1. \A c \in Anal :
        /\ [c EXCEPT !.live = FALSE] \in Anal
        /\ \A s \in Status : [c EXCEPT !.status = s] \in Anal
        /\ [c EXCEPT !.suspended = TRUE] \in Anal
        /\ [c EXCEPT !.suspended = FALSE] \in Anal
        /\ \A q \in Req : [c EXCEPT !.pid = q] \in Anal
  BY DEF Anal
<1> QED BY <1>1

LEMMA InitTInv ==
  ASSUME Init
  PROVE  TInv
<1>1. Rebuild({}) \subseteq Ids
  BY DEF Rebuild
<1>2. <<>> \in Seq([id : Ids \cup {NoId}, ok : BOOLEAN])
  OBVIOUS
<1>3. IdKnown
  BY DEF Init, IdKnown, Knowing, Holding
<1>4. NoChild \in Proc
  BY DEF NoChild, Proc
<1>5. NoAnal \in Anal
  BY DEF NoAnal, Anal, Status
<1>6. pc \in [Threads -> Steps] /\ id \in [Threads -> Ids \cup {NoId}]
  BY DEF Init, Steps, Idle
<1>7. inbox \in Seq([id : Ids \cup {NoId}, ok : BOOLEAN])
  BY <1>2 DEF Init
<1>8. child \in [Req -> Proc] /\ anal \in [Req -> Anal]
  BY <1>4, <1>5 DEF Init
<1>9. copy \in [Req -> [locked : BOOLEAN, cnt : Int]]
  BY DEF Init
<1>10. /\ available \subseteq Ids /\ analyses \subseteq Ids
       /\ nodeAnal \in [Ids -> Req \cup {Nil}]
       /\ paths \in [Paths -> Req \cup {Nil}]
       /\ cnt \in Int
  BY <1>1 DEF Init
<1>11. mutex \in Threads \cup {Nil} /\ crashed \in BOOLEAN
  BY DEF Init
<1>12. TypeOK
  BY <1>6, <1>7, <1>8, <1>9, <1>10, <1>11 DEF TypeOK
<1> QED BY <1>3, <1>12 DEF TInv

LEMMA StepNames ==
  /\ Holding \subseteq Knowing /\ Knowing \subseteq Steps
  /\ Locking \subseteq Steps /\ Tasks \subseteq Steps /\ Idle \subseteq Steps
  /\ {"get id", "read"} \subseteq Steps \ Knowing
  /\ Tasks \cap Knowing = {} /\ Idle \cap Knowing = {}
BY DEF Holding, Knowing, Steps, Locking, Idle

\* The steps of an add keep TInv.
LEMMA AddTInv ==
  ASSUME TInv, NEW r \in Req, Add(r)
  PROVE  TInv'
<1> USE DEF TInv, TypeOK, treap, procs
<1>0. r \in Threads /\ r \in Req
  BY DEF Threads
<1>1. CASE AddRefused(r)
  <2>1. anal' \in [Req -> Anal]
    BY <1>1, AnalFields DEF AddRefused, Freed
  <2>2. pc' \in [Threads -> Steps] /\ IdKnown'
    BY <1>0, <1>1, End DEF AddRefused
  <2> QED BY <1>0, <1>1, <2>1, <2>2 DEF AddRefused
<1>2. CASE AddFindPrefix(r)
  <2>1. pc' \in [Threads -> Steps] /\ IdKnown'
    BY <1>0, <1>2, StepNames, GoOn DEF AddFindPrefix
  <2> QED BY <1>0, <1>2, <2>1 DEF AddFindPrefix
<1>3. CASE AddGetId(r)
  <2>1. PICK i \in GetChoices(available) :
          /\ available' = AfterGet(available, i)
          /\ id' = [id EXCEPT ![r] = i]
          /\ nodeAnal' = [nodeAnal EXCEPT ![i] = r]
    BY <1>3 DEF AddGetId
  <2>2. i \in available
    BY DEF GetChoices, Inner
  <2>3. available' \subseteq Ids
    BY <2>1, <2>2 DEF AfterGet, Ids
  <2>4. nodeAnal' \in [Ids -> Req \cup {Nil}]
    BY <1>0, <2>1
  <2>5. id' \in [Threads -> Ids \cup {NoId}] /\ id'[r] \in Ids
    BY <1>0, <2>1, <2>2
  <2>6. pc' \in [Threads -> Steps]
    BY <1>0, <1>3, StepNames DEF AddGetId, Goto, Steps
  <2>7. IdKnown'
    BY <1>0, <1>3, <2>1, <2>5 DEF AddGetId, Goto, IdKnown
  <2> QED BY <1>3, <2>3, <2>4, <2>5, <2>6, <2>7 DEF AddGetId
<1>4. CASE AddNoId(r)
  <2>1. anal' \in [Req -> Anal]
    BY <1>4, AnalFields DEF AddNoId, Freed
  <2>2. pc' \in [Threads -> Steps] /\ IdKnown'
    BY <1>0, <1>4, End DEF AddNoId
  <2> QED BY <1>0, <1>4, <2>1, <2>2 DEF AddNoId
<1>5. CASE AddInsertPath(r)
  <2>1. pc' \in [Threads -> Steps] /\ IdKnown'
    <3>1. id[r] \in Ids /\ "insert" \in Steps
      BY <1>0, <1>5 DEF AddInsertPath, IdKnown, Knowing, Holding, Steps, Locking
    <3> QED BY <1>0, <1>5, <3>1, GoOn DEF AddInsertPath
  <2> QED BY <1>0, <1>5, <2>1 DEF AddInsertPath
<1>6. CASE AddNoMemory(r)
  <2>1. pc' \in [Threads -> Steps] /\ IdKnown'
    <3>1. id[r] \in Ids /\ "return id" \in Steps
      BY <1>0, <1>6 DEF AddNoMemory, IdKnown, Knowing, Holding, Steps, Locking
    <3> QED BY <1>0, <1>6, <3>1, GoOn DEF AddNoMemory
  <2> QED BY <1>0, <1>6, <2>1 DEF AddNoMemory
<1>7. CASE AddInsertNode(r)
  <2>1. id[r] \in Ids
    BY <1>0, <1>7 DEF AddInsertNode, IdKnown, Knowing, Holding
  <2>2. pc' \in [Threads -> Steps] /\ IdKnown'
    <3>1. id[r] \in Ids /\ "fork" \in Steps
      BY <1>0, <1>7 DEF AddInsertNode, IdKnown, Knowing, Holding, Steps, Locking
    <3> QED BY <1>0, <1>7, <3>1, GoOn DEF AddInsertNode
  <2> QED BY <1>0, <1>7, <2>1, <2>2 DEF AddInsertNode
<1>8. CASE ForkRequest(r)
  <2>1. PICK i \in IntOf(r) :
          child' = [child EXCEPT ![r] = [NoChild EXCEPT !.state = "forked",
                                                        !.id = i]]
    BY <1>8 DEF ForkRequest
  <2>2. i \in Ids \cup {NoId}
    BY <1>0 DEF IntOf, Threads
  <2>3. [NoChild EXCEPT !.state = "forked", !.id = i] \in Proc
    BY <2>2 DEF NoChild, Proc
  <2>4. child' \in [Req -> Proc]
    BY <2>1, <2>3
  <2>5. pc' \in [Threads -> Steps] /\ IdKnown'
    <3>1. id[r] \in Ids /\ "read pid" \in Steps
      BY <1>0, <1>8 DEF ForkRequest, IdKnown, Knowing, Steps
    <3> QED BY <1>0, <1>8, <3>1, GoOn DEF ForkRequest
  <2> QED BY <1>8, <2>4, <2>5 DEF ForkRequest
<1>9. CASE ForkRequestFails(r)
  <2>1. pc' \in [Threads -> Steps] /\ IdKnown'
    <3>1. id[r] \in Ids /\ "rollback" \in Steps
      BY <1>0, <1>9 DEF ForkRequestFails, IdKnown, Knowing, Holding, Steps, Locking
    <3> QED BY <1>0, <1>9, <3>1, GoOn DEF ForkRequestFails
  <2> QED BY <1>0, <1>9, <2>1 DEF ForkRequestFails
<1>10. CASE AddReadPid(r)
  <2>1. anal' \in [Req -> Anal]
    BY <1>10, AnalFields DEF AddReadPid
  <2>2. pc' \in [Threads -> Steps] /\ IdKnown'
    <3>1. id[r] \in Ids /\ "finish" \in Steps
      BY <1>0, <1>10 DEF AddReadPid, IdKnown, Knowing, Holding, Steps, Locking
    <3> QED BY <1>0, <1>10, <3>1, GoOn DEF AddReadPid
  <2> QED BY <1>0, <1>10, <2>1, <2>2 DEF AddReadPid
<1>11. CASE AddFinish(r)
  <2>1. anal' \in [Req -> Anal]
    BY <1>11, AnalFields DEF AddFinish, Status
  <2>2. pc' \in [Threads -> Steps] /\ IdKnown'
    BY <1>0, <1>11, End DEF AddFinish
  <2>3. cnt' \in Int
    <3>1. cnt' = cnt + 1
      BY <1>11 DEF AddFinish
    <3>2. cnt \in Int
      OBVIOUS
    <3> QED BY ONLY <3>1, <3>2
  <2>4. mutex' \in Threads \cup {Nil}
    BY <1>11 DEF AddFinish
  <2> QED BY <1>11, <2>1, <2>2, <2>3, <2>4 DEF AddFinish
<1>12. CASE RollbackNode(r)
  <2>1. pc' \in [Threads -> Steps] /\ IdKnown'
    <3>1. id[r] \in Ids /\ "unpath" \in Steps
      BY <1>0, <1>12 DEF RollbackNode, IdKnown, Knowing, Holding, Steps, Locking
    <3> QED BY <1>0, <1>12, <3>1, GoOn DEF RollbackNode
  <2> QED BY <1>0, <1>12, <2>1 DEF RollbackNode
<1>13. CASE RollbackPath(r)
  <2>1. pc' \in [Threads -> Steps] /\ IdKnown'
    <3>1. id[r] \in Ids /\ "return id" \in Steps
      BY <1>0, <1>13 DEF RollbackPath, IdKnown, Knowing, Holding, Steps, Locking
    <3> QED BY <1>0, <1>13, <3>1, GoOn DEF RollbackPath
  <2> QED BY <1>0, <1>13, <2>1 DEF RollbackPath
<1>14. CASE AddReturnId(r)
  <2>1. id[r] \in Ids
    BY <1>0, <1>14 DEF AddReturnId, IdKnown, Knowing, Holding
  <2>2. anal' \in [Req -> Anal]
    BY <1>14, AnalFields DEF AddReturnId, Freed
  <2>3. available' \subseteq Ids
    BY <1>14, <2>1 DEF AddReturnId, AfterReturn
  <2>4. nodeAnal' \in [Ids -> Req \cup {Nil}]
    BY <1>14 DEF AddReturnId
  <2>5. pc' \in [Threads -> Steps] /\ IdKnown'
    BY <1>0, <1>14, End DEF AddReturnId
  <2> QED BY <1>0, <1>14, <2>1, <2>2, <2>3, <2>4, <2>5 DEF AddReturnId
<1> QED BY <1>1, <1>2, <1>3, <1>4, <1>5, <1>6, <1>7, <1>8, <1>9, <1>10,
           <1>11, <1>12, <1>13, <1>14 DEF Add

\* Accepting a client and locking analyses_mutex keep TInv.
LEMMA AcceptTInv ==
  ASSUME TInv, NEW r \in Req, Accept(r)
  PROVE  TInv'
<1> USE DEF TInv, TypeOK, treap, procs
<1>1. r \in Threads
  BY DEF Threads
<1>2. PICK task \in Tasks :
        /\ Goto(r, task)
        /\ \/ /\ \E p \in Paths, g \in StalePids :
                    anal' = [anal EXCEPT ![r] = NewAnal(p, g)]
              /\ UNCHANGED id
           \/ /\ \E i \in Ids \cup {NoId} : id' = [id EXCEPT ![r] = i]
              /\ UNCHANGED anal
  BY Zenon DEF Accept
<1>3. \A g \in StalePids : g \in Req \cup {Nil, OwnGroup}
  BY DEF StalePids, Anal
<1>4. \A p \in Paths, g \in StalePids : NewAnal(p, g) \in Anal
  BY <1>3 DEF NewAnal, Anal, Status
<1>5. anal' \in [Req -> Anal]
  <2>1. CASE \E p \in Paths, g \in StalePids :
               anal' = [anal EXCEPT ![r] = NewAnal(p, g)]
    <3>1. PICK p \in Paths, g \in StalePids :
                 anal' = [anal EXCEPT ![r] = NewAnal(p, g)]
      BY <2>1
    <3>2. NewAnal(p, g) \in Anal
      BY <1>4
    <3> QED BY <3>1, <3>2
  <2>2. CASE anal' = anal
    BY <2>2
  <2> QED BY <1>2, <2>1, <2>2
<1>6. id' \in [Threads -> Ids \cup {NoId}]
  BY <1>1, <1>2
<1>7. pc' \in [Threads -> Steps] /\ task \notin Knowing
  BY <1>1, <1>2, StepNames DEF Goto
<1>8. \A t \in Threads : t # r => id'[t] = id[t] /\ pc'[t] = pc[t]
  BY <1>1, <1>2 DEF Goto
<1>9. pc'[r] = task
  BY <1>1, <1>2 DEF Goto
<1>10. IdKnown'
  BY <1>7, <1>8, <1>9 DEF IdKnown
<1> QED BY <1>5, <1>6, <1>7, <1>10 DEF Accept

LEMMA LockTInv ==
  ASSUME TInv, NEW t \in Threads, Lock(t)
  PROVE  TInv'
<1>1. mutex' \in Threads \cup {Nil}
  BY DEF Lock
<1> QED BY <1>1 DEF Lock, TInv, TypeOK, IdKnown, treap, procs

\* Signals keep the types of the processes.
LEMMA SignalledType ==
  ASSUME child \in [Req -> Proc], NEW a, NEW sig \in Signals
  PROVE  Signalled(a, sig) \in [Req -> Proc]
<1>1. \A S \in SUBSET Signals : Pending(S, sig) \in SUBSET Signals
  BY DEF Pending
<1>2. \A q \in Req : [child[q] EXCEPT !.pend = Pending(@, sig)] \in Proc
  BY <1>1 DEF Proc
<1> QED BY <1>2 DEF Signalled

\* The body of threads_suspend and of threads_resume.
LEMMA SuspendTInv ==
  ASSUME TInv, NEW r \in Req, Suspend(r) \/ Resume(r)
  PROVE  TInv'
<1> USE DEF TInv, TypeOK, treap, procs
<1>1. r \in Threads /\ "TSTP" \in Signals /\ "CONT" \in Signals
  BY DEF Threads, Signals
<1>2. /\ \/ anal' = [anal EXCEPT ![AnalOf(r)].suspended = TRUE]
         \/ anal' = [anal EXCEPT ![AnalOf(r)].suspended = FALSE]
         \/ anal' = anal
      /\ \/ \E sig \in Signals : child' = Signalled(AnalOf(r), sig)
         \/ child' = child
      /\ Ended(r) /\ id' = id /\ mutex' = Nil
      /\ UNCHANGED <<available, treap, paths, copy, inbox, crashed>>
  <2>1. CASE Suspend(r)
    BY <1>1, <2>1 DEF Suspend, SetSuspended
  <2>2. CASE Resume(r)
    BY <1>1, <2>2 DEF Resume, SetSuspended
  <2> QED BY <2>1, <2>2
<1>3. anal' \in [Req -> Anal]
  <2>1. anal \in [Req -> Anal]
    OBVIOUS
  <2>2. /\ [anal EXCEPT ![AnalOf(r)].suspended = TRUE] \in [Req -> Anal]
        /\ [anal EXCEPT ![AnalOf(r)].suspended = FALSE] \in [Req -> Anal]
    BY <2>1, AnalFields
  <2> QED BY ONLY <1>2, <2>1, <2>2
<1>4. child' \in [Req -> Proc]
  BY <1>2, SignalledType
<1>5. pc' \in [Threads -> Steps] /\ IdKnown'
  BY <1>1, <1>2, End
<1> QED BY <1>2, <1>3, <1>4, <1>5

\* The steps of threads_remove keep TInv.
LEMMA RemoveTInv ==
  ASSUME TInv, NEW t \in Threads, Remove(t)
  PROVE  TInv'
<1> USE DEF TInv, TypeOK, treap, procs
<1>0. pc[t] \in Knowing => id[t] \in Ids
  BY DEF IdKnown
<1>1. CASE RemoveUnknown(t)
  BY <1>1, End DEF RemoveUnknown
<1>2. CASE RemoveExtract(t)
  <2>1. cnt' \in Int
    <3>1. cnt' = cnt - 1
      BY <1>2 DEF RemoveExtract
    <3>2. cnt \in Int
      OBVIOUS
    <3> QED BY ONLY <3>1, <3>2
  <2>2. id[t] \in Ids /\ "kill" \in Steps
    BY <1>2 DEF RemoveExtract, Steps
  <2>3. pc' \in [Threads -> Steps] /\ IdKnown'
    BY <1>2, <2>2, GoOn DEF RemoveExtract
  <2> QED BY <1>2, <2>1, <2>3 DEF RemoveExtract
<1>3. CASE RemoveKill(t)
  <2>1. child' \in [Req -> Proc]
    BY <1>3, SignalledType DEF RemoveKill, Signals
  <2>2. id[t] \in Ids /\ "remove path" \in Steps
    BY <1>0, <1>3 DEF RemoveKill, Knowing, Holding, Steps
  <2>3. pc' \in [Threads -> Steps] /\ IdKnown'
    BY <1>3, <2>2, GoOn DEF RemoveKill
  <2> QED BY <1>3, <2>1, <2>3 DEF RemoveKill
<1>4. CASE RemovePath(t)
  <2>1. id[t] \in Ids /\ "release" \in Steps
    BY <1>0, <1>4 DEF RemovePath, Knowing, Holding, Steps
  <2>2. pc' \in [Threads -> Steps] /\ IdKnown'
    BY <1>4, <2>1, GoOn DEF RemovePath
  <2> QED BY <1>4, <2>2 DEF RemovePath
<1>5. CASE RemoveRelease(t)
  <2>1. id[t] \in Ids /\ "free" \in Steps
    BY <1>0, <1>5 DEF RemoveRelease, Knowing, Holding, Steps
  <2>2. pc' \in [Threads -> Steps] /\ IdKnown'
    BY <1>5, <2>1, GoOn DEF RemoveRelease
  <2> QED BY <1>5, <2>1, <2>2 DEF RemoveRelease, AfterRemove
<1>6. CASE RemoveFree(t)
  <2>1. id[t] \in Ids /\ "null" \in Steps
    BY <1>0, <1>6 DEF RemoveFree, Knowing, Steps
  <2>2. pc' \in [Threads -> Steps] /\ IdKnown'
    BY <1>6, <2>1, GoOn DEF RemoveFree
  <2>3. anal' \in [Req -> Anal]
    BY <1>6, AnalFields DEF RemoveFree
  <2> QED BY <1>6, <2>2, <2>3 DEF RemoveFree
<1>7. CASE RemoveNull(t)
  <2>1. pc' \in [Threads -> Steps] /\ IdKnown'
    BY <1>7, End DEF RemoveNull
  <2>2. nodeAnal' \in [Ids -> Req \cup {Nil}]
    BY <1>7 DEF RemoveNull
  <2> QED BY <1>7, <2>1, <2>2 DEF RemoveNull
<1> QED BY <1>1, <1>2, <1>3, <1>4, <1>5, <1>6, <1>7 DEF Remove

\* The responses thread takes a result and applies it.
LEMMA ResponsesTInv ==
  ASSUME TInv, RespReceive \/ RespApply
  PROVE  TInv'
<1> USE DEF TInv, TypeOK, treap, procs
<1>0. Resp \in Threads
  BY DEF Threads
<1>1. CASE RespReceive
  <2>1. Head(inbox).id \in Ids \cup {NoId}
    <3>1. inbox # <<>>
      BY <1>1 DEF RespReceive
    <3>2. Head(inbox) \in [id : Ids \cup {NoId}, ok : BOOLEAN]
      BY <3>1, HeadTailProperties
    <3> QED BY <3>2
  <2>2. Tail(inbox) \in Seq([id : Ids \cup {NoId}, ok : BOOLEAN])
    BY <1>1, HeadTailProperties DEF RespReceive
  <2>3. id' \in [Threads -> Ids \cup {NoId}]
    BY <1>0, <1>1, <2>1 DEF RespReceive
  <2>4. PICK step \in {"apply", "remove"} : Goto(Resp, step)
    BY <1>1 DEF RespReceive
  <2>5. step \in Steps /\ step \notin Knowing
    BY DEF Steps, Locking, Knowing, Holding
  <2>6. pc' \in [Threads -> Steps]
    BY <1>0, <2>4, <2>5 DEF Goto
  <2>7. IdKnown'
    BY <1>0, <1>1, <2>4, <2>5 DEF RespReceive, Goto, IdKnown
  <2> QED BY <1>1, <2>2, <2>3, <2>6, <2>7 DEF RespReceive
<1>2. CASE RespApply
  <2>1. anal' \in [Req -> Anal]
    BY <1>2, AnalFields DEF RespApply, Status
  <2>2. pc' \in [Threads -> Steps] /\ IdKnown'
    BY <1>0, <1>2, End DEF RespApply
  <2> QED BY <1>2, <2>1, <2>2 DEF RespApply
<1> QED BY <1>1, <1>2

\* The readers of a copy of man.
LEMMA ReadTInv ==
  ASSUME TInv, NEW r \in Req, ReadCopy(r) \/ Read(r)
  PROVE  TInv'
<1> USE DEF TInv, TypeOK, treap, procs
<1>0. r \in Threads
  BY DEF Threads
<1>1. CASE ReadCopy(r)
  <2>1. [locked |-> mutex # Nil, cnt |-> cnt] \in [locked : BOOLEAN, cnt : Int]
    OBVIOUS
  <2>2. copy' \in [Req -> [locked : BOOLEAN, cnt : Int]]
    BY <1>1, <2>1 DEF ReadCopy
  <2>3. pc' \in [Threads -> Steps] /\ IdKnown'
    BY <1>0, <1>1, StepNames, GoOn DEF ReadCopy
  <2> QED BY <1>1, <2>2, <2>3 DEF ReadCopy
<1>2. CASE Read(r)
  BY <1>0, <1>2, End DEF Read
<1> QED BY <1>1, <1>2

\* The steps of an analysis process keep TInv.
LEMMA ChildTInv ==
  ASSUME TInv, NEW r \in Req, Child(r)
  PROVE  TInv'
<1> USE DEF TInv, TypeOK, treap, procs
<1>1. NoChild \in Proc /\ [NoChild EXCEPT !.state = "gone"] \in Proc
  BY DEF NoChild, Proc
<1>2. \A c \in Proc : /\ [c EXCEPT !.state = "walking"] \in Proc
                      /\ [c EXCEPT !.state = "walked"] \in Proc
  BY DEF Proc
<1>3. \A c \in Proc, sig \in Signals : Handled(c, sig) \in Proc
  BY <1>1 DEF Handled, Proc
<1>4. child[r] \in Proc /\ child[r].pend \subseteq Signals
      /\ child[r].id \in Ids \cup {NoId}
  BY DEF Proc
<1>5. \A c \in Proc : [child EXCEPT ![r] = c] \in [Req -> Proc]
  OBVIOUS
<1>6. child' \in [Req -> Proc]
  <2>1. CASE ChildStart(r)
    BY <1>2, <1>4, <1>5, <2>1 DEF ChildStart
  <2>2. CASE ChildSignal(r)
    BY <1>3, <1>4, <1>5, <2>2 DEF ChildSignal
  <2>3. CASE ChildWalked(r)
    BY <1>2, <1>4, <1>5, <2>3 DEF ChildWalked
  <2>4. CASE ChildReports(r) \/ ChildFails(r)
    BY <1>1, <1>5, <2>4 DEF ChildReports, ChildFails, Send
  <2> QED BY <2>1, <2>2, <2>3, <2>4 DEF Child
<1>7. inbox' \in Seq([id : Ids \cup {NoId}, ok : BOOLEAN])
  <2>1. \A ok \in BOOLEAN : Append(inbox, [id |-> child[r].id, ok |-> ok])
                              \in Seq([id : Ids \cup {NoId}, ok : BOOLEAN])
    BY <1>4
  <2> QED BY <2>1 DEF Child, ChildStart, ChildSignal, ChildWalked,
                      ChildReports, ChildFails, Send
<1>8. UNCHANGED <<pc, id, available, treap, anal, paths, mutex, copy, crashed>>
  BY DEF Child, ChildStart, ChildSignal, ChildWalked, ChildReports,
         ChildFails, Send
<1>9. IdKnown'
  BY <1>8 DEF IdKnown
<1> QED BY <1>6, <1>7, <1>8, <1>9

LEMMA CrashTInv ==
  ASSUME TInv, NEW t \in Threads, Crash(t)
  PROVE  TInv'
<1>1. crashed' \in BOOLEAN
  BY DEF Crash
<1> QED BY <1>1 DEF Crash, TInv, TypeOK, IdKnown, treap, procs

LEMMA NextTInv ==
  ASSUME TInv, [Next]_vars
  PROVE  TInv'
<1>1. CASE UNCHANGED vars
  BY <1>1 DEF vars, TInv, TypeOK, IdKnown
<1>2. CASE Next
  BY <1>2, AcceptTInv, ChildTInv, LockTInv, RemoveTInv, AddTInv, SuspendTInv,
     ReadTInv, ResponsesTInv, CrashTInv DEF Next, Serve, Request
<1> QED BY <1>1, <1>2

\* Every variable of the threads manager keeps its type, whatever requests
\* and results interleave: so each node that threads_add or threads_remove
\* puts into a treap has an id of 1 .. ID_MAX.
THEOREM TypeCorrect == Spec => []TypeOK
<1>1. Init => TInv
  BY InitTInv
<1>2. TInv /\ [Next]_vars => TInv'
  BY NextTInv
<1>3. TInv => TypeOK
  BY DEF TInv
<1> QED BY <1>1, <1>2, <1>3, PTL DEF Spec
-----------------------------------------------------------------------------
(* Nodes are in one place, as long as adds do not fail and there are more  *)
(* ids than requests.  UniqueIds is not inductive by itself: get_free_id   *)
(* inserts the successor of the last id without looking, so the greatest   *)
(* available id must be above every id in use, and not be the last one.    *)

NoFailure == ~AddMayFail /\ Cardinality(Req) < IdMax

Before     == {"idle", "add", "get id"}
Started    == {r \in Req : pc[r] \notin Before}
Undoing    == {"rollback", "unpath", "return id"}
NoRollback == \A t \in Threads : pc[t] \notin Undoing

FrontierAbove ==
  \E f \in available : /\ f <= Cardinality(Started) + 1
                       /\ \A i \in available \cup analyses \cup HeldIds : i <= f

UInv == TInv /\ UniqueIds /\ NoRollback /\ FrontierAbove

LEMMA StartedCard ==
  ASSUME Started \subseteq Started'
  PROVE  /\ Cardinality(Started) \in Nat /\ Cardinality(Started') \in Nat
         /\ Cardinality(Started) <= Cardinality(Started')
<1>1. Started' \subseteq Req
  BY DEF Started
<1>2. IsFiniteSet(Started')
  BY <1>1, FS_Subset
<1>3. /\ IsFiniteSet(Started)
      /\ Cardinality(Started) <= Cardinality(Started')
  BY <1>2, FS_Subset
<1> QED BY <1>2, <1>3, FS_CardinalityType

\* A step that moves no node keeps the invariant.
LEMMA NothingMoves ==
  ASSUME UInv, TInv', analyses' = analyses, available' = available,
         Holders' = Holders, \A t \in Holders : id'[t] = id[t],
         Started \subseteq Started', NoRollback'
  PROVE  UInv'
<1>1. HeldIds' = HeldIds
  BY DEF HeldIds
<1>2. UniqueIds'
  BY <1>1 DEF UInv, UniqueIds
<1>3. FrontierAbove'
  <2>1. PICK f \in available :
          /\ f <= Cardinality(Started) + 1
          /\ \A i \in available \cup analyses \cup HeldIds : i <= f
    BY DEF UInv, FrontierAbove
  <2>2. f \in Int
    BY DEF UInv, TInv, TypeOK, Ids
  <2>3. f <= Cardinality(Started') + 1
    BY <2>1, <2>2, StartedCard
  <2> QED BY <1>1, <2>1, <2>3 DEF FrontierAbove
<1> QED BY <1>2, <1>3 DEF UInv

\* Nor does a thread that goes on, holding its node or holding none.
LEMMA ThreadGoesOn ==
  ASSUME UInv, TInv', NEW t \in Threads, NEW step \in Steps, Goto(t, step),
         analyses' = analyses, available' = available, id' = id,
         pc[t] \in Holding <=> step \in Holding,
         step \notin Undoing, step \in Before => t = Resp \/ pc[t] \in Before
  PROVE  UInv'
<1>1. pc'[t] = step /\ \A u \in Threads : u # t => pc'[u] = pc[u]
  BY DEF UInv, TInv, TypeOK, Goto
<1>2. Holders' = Holders
  BY <1>1 DEF Holders
<1>3. Started \subseteq Started'
  BY <1>1 DEF Started, Threads
<1>4. NoRollback'
  BY <1>1 DEF UInv, NoRollback
<1> QED BY <1>2, <1>3, <1>4, NothingMoves

LEMMA ThreadEnds ==
  ASSUME UInv, TInv', NEW t \in Threads, Ended(t), pc[t] \notin Holding,
         analyses' = analyses, available' = available, id' = id
  PROVE  UInv'
<1>1. PICK step \in Idle : Goto(t, step) /\ (step = "idle" => t = Resp)
  BY DEF Ended, Idle
<1>2. step \in Steps /\ step \notin Holding /\ step \notin Undoing
  BY DEF Idle, Steps, Holding, Undoing
<1>3. step \in Before => t = Resp
  BY <1>1 DEF Idle, Before
<1> QED BY <1>1, <1>2, <1>3, ThreadGoesOn

\* The whole step of get_free_id, and of the two insertions.
LEMMA GetIdUInv ==
  ASSUME NoFailure, UInv, TInv', NEW r \in Req, AddGetId(r)
  PROVE  UInv'
<1>1. PICK i \in GetChoices(available) :
        /\ available' = AfterGet(available, i)
        /\ id' = [id EXCEPT ![r] = i]
  BY DEF AddGetId
<1>2. PICK f \in available :
        /\ f <= Cardinality(Started) + 1
        /\ \A j \in available \cup analyses \cup HeldIds : j <= f
  BY DEF UInv, FrontierAbove
<1>3. r \in Threads /\ pc[r] = "get id" /\ pc' = [pc EXCEPT ![r] = "insert path"]
  BY DEF AddGetId, Goto, Threads
<1>4. /\ pc'[r] = "insert path" /\ id'[r] = i
      /\ \A u \in Threads : u # r => pc'[u] = pc[u] /\ id'[u] = id[u]
  BY <1>1, <1>3 DEF UInv, TInv, TypeOK
<1>5. Holders' = Holders \cup {r} /\ r \notin Holders
  BY <1>3, <1>4 DEF Holders, Holding
<1>6. HeldIds' = HeldIds \cup {i}
  <2>1. \A u \in Holders : id'[u] = id[u]
    BY <1>4, <1>5 DEF Holders
  <2>2. HeldIds' = {id'[u] : u \in Holders \cup {r}}
    BY <1>5 DEF HeldIds
  <2> QED BY <1>4, <2>1, <2>2 DEF HeldIds
<1>7. i \in available /\ i \in Ids /\ f \in Ids /\ available \subseteq Ids
  BY DEF UInv, TInv, TypeOK, GetChoices, Inner
<1>8. i \notin analyses /\ i \notin HeldIds
  BY <1>7 DEF UInv, UniqueIds
<1>9. Started' = Started \cup {r} /\ r \notin Started
  BY <1>3, <1>4 DEF Started, Before, Threads
<1>10. /\ Cardinality(Started) \in Nat
       /\ Cardinality(Started') = Cardinality(Started) + 1
       /\ Cardinality(Started') <= Cardinality(Req)
  <2>1. Started \in SUBSET Req /\ Started' \in SUBSET Req
    BY <1>9 DEF Started
  <2>2. IsFiniteSet(Started)
    BY <2>1, FS_Subset
  <2> QED BY <1>9, <2>1, <2>2, FS_Subset, FS_AddElement, FS_CardinalityType
<1>11. analyses' = analyses
  BY DEF AddGetId
<1>12. NoRollback'
  BY <1>3, <1>4 DEF UInv, NoRollback, Undoing
<1>13. \A t, u \in Holders' : id'[t] = id'[u] => t = u
  <2>1. \A u \in Holders : id'[u] = id[u] /\ id[u] # i
    BY <1>4, <1>5, <1>8 DEF Holders, HeldIds
  <2>2. \A t, u \in Holders : id[t] = id[u] => t = u
    BY DEF UInv, UniqueIds
  <2>3. /\ \A u \in Holders' : u \in Holders \/ u = r
        /\ \A u \in Holders : u # r
        /\ id'[r] = i
    BY <1>4, <1>5 DEF Holders
  <2> QED BY <2>1, <2>2, <2>3
<1>14. Cardinality(Req) \in Nat
  BY FS_CardinalityType
<1>15. f < IdMax
  BY <1>2, <1>7, <1>10, <1>14 DEF NoFailure, Ids
<1>16. CASE Inner(available) = {}
  <2>1. available = {f} /\ i = f
    <3>1. \A j \in available : j = f
      BY <1>2, <1>7, <1>16 DEF Inner, Ids
    <3> QED BY <1>7, <3>1
  <2>2. available' = {f + 1}
    BY <1>1, <1>7, <1>15, <1>16, <2>1 DEF AfterGet, Ids
  <2>3. \A j \in analyses \cup HeldIds' : j \in Ids /\ j <= f
    <3>1. HeldIds \subseteq Ids
      BY DEF UInv, TInv, IdKnown, Knowing, HeldIds, Holders
    <3> QED BY <1>2, <1>6, <1>7, <2>1, <3>1 DEF UInv, TInv, TypeOK
  <2>4. f + 1 \notin analyses \cup HeldIds'
    BY <1>7, <2>3 DEF Ids
  <2>5. UniqueIds'
    BY <1>6, <1>8, <1>11, <1>13, <2>2, <2>4 DEF UInv, UniqueIds
  <2>6. f + 1 <= Cardinality(Started') + 1
    BY <1>2, <1>7, <1>10 DEF Ids
  <2>7. \A j \in available' \cup analyses' \cup HeldIds' : j <= f + 1
    BY <1>7, <1>11, <2>2, <2>3 DEF Ids
  <2> QED BY <1>12, <2>2, <2>5, <2>6, <2>7 DEF UInv, FrontierAbove
<1>17. CASE Inner(available) # {}
  <2>1. available' = available \ {i} /\ i # f
    BY <1>1, <1>2, <1>7, <1>17 DEF AfterGet, GetChoices, Inner, Ids
  <2>2. UniqueIds'
    BY <1>6, <1>8, <1>11, <1>13, <2>1 DEF UInv, UniqueIds
  <2>3. f <= Cardinality(Started') + 1
    BY <1>2, <1>7, <1>10 DEF Ids
  <2>4. \A j \in available' \cup analyses' \cup HeldIds' : j <= f
    BY <1>2, <1>6, <1>7, <1>11, <2>1
  <2> QED BY <1>12, <2>1, <2>2, <2>3, <2>4 DEF UInv, FrontierAbove
<1> QED BY <1>16, <1>17

\* A thread puts its node into one of the two treaps.
LEMMA PutUInv ==
  ASSUME UInv, TInv', NEW t \in Holders, NEW step \in Steps, Goto(t, step),
         id' = id, step \notin Holding \cup Undoing \cup Before,
         \/ analyses' = analyses \cup {id[t]} /\ available' = available
         \/ analyses' = analyses /\ available' = available \cup {id[t]}
  PROVE  UInv'
<1>1. t \in Threads
  BY DEF Holders
<1>2. pc'[t] = step /\ \A u \in Threads : u # t => pc'[u] = pc[u]
  BY <1>1 DEF UInv, TInv, TypeOK, Goto
<1>3. Holders' = Holders \ {t}
  BY <1>2 DEF Holders
<1>4. HeldIds' = HeldIds \ {id[t]} /\ id[t] \in HeldIds
  BY <1>3 DEF HeldIds, UInv, UniqueIds
<1>5. UniqueIds'
  BY <1>3, <1>4 DEF UInv, UniqueIds
<1>6. Started \subseteq Started'
  BY <1>2 DEF Started, Threads
<1>7. NoRollback'
  BY <1>2 DEF UInv, NoRollback
<1>8. FrontierAbove'
  <2>1. PICK f \in available :
          /\ f <= Cardinality(Started) + 1
          /\ \A i \in available \cup analyses \cup HeldIds : i <= f
    BY DEF UInv, FrontierAbove
  <2>2. f \in Int
    BY DEF UInv, TInv, TypeOK, Ids
  <2>3. f <= Cardinality(Started') + 1
    BY <1>6, <2>1, <2>2, StartedCard
  <2>4. \A i \in available' \cup analyses' \cup HeldIds' : i <= f
    BY <1>4, <2>1
  <2> QED BY <2>1, <2>3, <2>4 DEF FrontierAbove
<1> QED BY <1>5, <1>7, <1>8 DEF UInv

\* threads_remove takes a node out of analyses.
LEMMA ExtractUInv ==
  ASSUME UInv, TInv', NEW t \in Threads, RemoveExtract(t)
  PROVE  UInv'
<1>1. /\ pc[t] = "remove" /\ id[t] \in analyses /\ id' = id
      /\ analyses' = analyses \ {id[t]} /\ available' = available
      /\ Goto(t, "kill")
  BY DEF RemoveExtract
<1>2. pc'[t] = "kill" /\ \A u \in Threads : u # t => pc'[u] = pc[u]
  BY <1>1 DEF UInv, TInv, TypeOK, Goto
<1>3. Holders' = Holders \cup {t}
  BY <1>2 DEF Holders, Holding
<1>4. HeldIds' = HeldIds \cup {id[t]}
  BY <1>1, <1>3 DEF HeldIds
<1>5. \A u \in Holders : id[u] # id[t]
  BY <1>1 DEF UInv, UniqueIds, HeldIds
<1>6. UniqueIds'
  BY <1>1, <1>3, <1>4, <1>5 DEF UInv, UniqueIds
<1>7. Started \subseteq Started'
  BY <1>2 DEF Started, Threads, Before
<1>8. NoRollback'
  BY <1>2 DEF UInv, NoRollback, Undoing
<1>9. FrontierAbove'
  <2>1. PICK f \in available :
          /\ f <= Cardinality(Started) + 1
          /\ \A i \in available \cup analyses \cup HeldIds : i <= f
    BY DEF UInv, FrontierAbove
  <2>2. f \in Int
    BY DEF UInv, TInv, TypeOK, Ids
  <2>3. f <= Cardinality(Started') + 1
    BY <1>7, <2>1, <2>2, StartedCard
  <2>4. \A i \in available' \cup analyses' \cup HeldIds' : i <= f
    BY <1>1, <1>4, <2>1
  <2> QED BY <1>1, <2>1, <2>3, <2>4 DEF FrontierAbove
<1> QED BY <1>6, <1>8, <1>9 DEF UInv

LEMMA InitUInv ==
  ASSUME Init
  PROVE  UInv
<1>1. TInv
  BY InitTInv
<1>2. \A t \in Threads : pc[t] = "idle"
  BY DEF Init
<1>3. Holders = {} /\ HeldIds = {} /\ NoRollback
  BY <1>2 DEF Holders, HeldIds, Holding, NoRollback, Undoing
<1>4. Started = {}
  BY <1>2 DEF Started, Before, Threads
<1>5. Cardinality(Started) = 0
  BY <1>4, FS_EmptySet
<1>6. available = {1} /\ analyses = {}
  BY IdMaxAssumption DEF Init, Rebuild, Ids
<1>7. UniqueIds
  BY <1>3, <1>6 DEF UniqueIds
<1>8. FrontierAbove
  BY <1>3, <1>5, <1>6 DEF FrontierAbove
<1> QED BY <1>1, <1>3, <1>7, <1>8 DEF UInv

LEMMA AcceptUInv ==
  ASSUME UInv, TInv', NEW r \in Req, Accept(r)
  PROVE  UInv'
<1>1. PICK task \in Tasks : Goto(r, task)
  BY DEF Accept
<1>2. /\ r \in Threads /\ pc[r] = "idle"
      /\ analyses' = analyses /\ available' = available
      /\ \A u \in Threads : u # r => id'[u] = id[u]
  BY DEF Accept, treap, Threads, UInv, TInv, TypeOK
<1>3. /\ pc'[r] = task
      /\ \A u \in Threads : u # r => pc'[u] = pc[u]
  BY <1>1, <1>2 DEF UInv, TInv, TypeOK, Goto
<1>4. task \in {"add", "suspend", "resume", "remove", "status", "list"}
  BY ThreadsAssumption
<1>5. Holders' = Holders /\ \A t \in Holders : id'[t] = id[t]
  BY <1>2, <1>3, <1>4 DEF Holders, Holding
<1>6. Started \subseteq Started'
  BY <1>2, <1>3 DEF Started, Before, Threads
<1>7. NoRollback'
  BY <1>3, <1>4 DEF UInv, NoRollback, Undoing
<1> QED BY <1>2, <1>5, <1>6, <1>7, NothingMoves

LEMMA AddUInv ==
  ASSUME NoFailure, UInv, TInv', NEW r \in Req, Add(r)
  PROVE  UInv'
<1>1. r \in Threads /\ pc[r] \notin Undoing
  BY DEF Threads, UInv, NoRollback
<1>2. CASE AddRefused(r) \/ AddNoId(r)
  BY <1>1, <1>2, ThreadEnds DEF AddRefused, AddNoId, treap, Holding
<1>3. CASE AddFindPrefix(r)
  <2>1. "get id" \in Steps /\ "get id" \notin Holding \cup Undoing
    BY DEF Steps, Holding, Undoing
  <2> QED BY <1>1, <1>3, <2>1, ThreadGoesOn
          DEF AddFindPrefix, treap, Holding, Before
<1>4. CASE AddGetId(r)
  BY <1>4, GetIdUInv
<1>5. CASE AddInsertPath(r)
  <2>1. "insert" \in Steps \cap Holding /\ "insert" \notin Undoing \cup Before
    BY DEF Steps, Locking, Holding, Undoing, Before
  <2> QED BY <1>1, <1>5, <2>1, ThreadGoesOn DEF AddInsertPath, treap, Holding
<1>6. CASE AddInsertNode(r)
  <2>1. "fork" \in Steps /\ "fork" \notin Holding \cup Undoing \cup Before
    BY DEF Steps, Holding, Undoing, Before
  <2>2. r \in Holders
    BY <1>1, <1>6 DEF AddInsertNode, Holders, Holding
  <2> QED BY <1>6, <2>1, <2>2, PutUInv DEF AddInsertNode
<1>7. CASE ForkRequest(r)
  <2>1. "read pid" \in Steps
        /\ "read pid" \notin Holding \cup Undoing \cup Before
    BY DEF Steps, Holding, Undoing, Before
  <2> QED BY <1>1, <1>7, <2>1, ThreadGoesOn DEF ForkRequest, treap, Holding
<1>8. CASE AddReadPid(r)
  <2>1. "finish" \in Steps /\ "finish" \notin Holding \cup Undoing \cup Before
    BY DEF Steps, Locking, Holding, Undoing, Before
  <2> QED BY <1>1, <1>8, <2>1, ThreadGoesOn DEF AddReadPid, treap, Holding
<1>9. CASE AddFinish(r)
  BY <1>1, <1>9, ThreadEnds DEF AddFinish, Holding
<1>10. CASE \/ AddNoMemory(r) \/ ForkRequestFails(r) \/ RollbackNode(r)
            \/ RollbackPath(r) \/ AddReturnId(r)
  BY <1>1, <1>10 DEF NoFailure, AddNoMemory, ForkRequestFails, RollbackNode,
                     RollbackPath, AddReturnId, Undoing
<1> QED BY <1>2, <1>3, <1>4, <1>5, <1>6, <1>7, <1>8, <1>9, <1>10 DEF Add

LEMMA RemoveUInv ==
  ASSUME UInv, TInv', NEW t \in Threads, Remove(t)
  PROVE  UInv'
<1>1. CASE RemoveUnknown(t) \/ RemoveNull(t)
  BY <1>1, ThreadEnds DEF RemoveUnknown, RemoveNull, treap, Holding
<1>2. CASE RemoveExtract(t)
  BY <1>2, ExtractUInv
<1>3. CASE RemoveKill(t)
  <2>1. "remove path" \in Steps \cap Holding
        /\ "remove path" \notin Undoing \cup Before
    BY DEF Steps, Holding, Undoing, Before
  <2> QED BY <1>3, <2>1, ThreadGoesOn DEF RemoveKill, treap, Holding
<1>4. CASE RemovePath(t)
  <2>1. "release" \in Steps \cap Holding /\ "release" \notin Undoing \cup Before
    BY DEF Steps, Holding, Undoing, Before
  <2> QED BY <1>4, <2>1, ThreadGoesOn DEF RemovePath, treap, Holding
<1>5. CASE RemoveRelease(t)
  <2>1. "free" \in Steps /\ "free" \notin Holding \cup Undoing \cup Before
    BY DEF Steps, Holding, Undoing, Before
  <2>2. t \in Holders
    BY <1>5 DEF RemoveRelease, Holders, Holding
  <2> QED BY <1>5, <2>1, <2>2, PutUInv DEF RemoveRelease, AfterRemove, treap
<1>6. CASE RemoveFree(t)
  <2>1. "null" \in Steps /\ "null" \notin Holding \cup Undoing \cup Before
    BY DEF Steps, Holding, Undoing, Before
  <2> QED BY <1>6, <2>1, ThreadGoesOn DEF RemoveFree, treap, Holding
<1> QED BY <1>1, <1>2, <1>3, <1>4, <1>5, <1>6 DEF Remove

\* Suspensions, resumptions, reads and the results of analyses.
LEMMA OtherRequestsUInv ==
  ASSUME UInv, TInv', NEW t \in Threads,
         \/ Suspend(t) \/ Resume(t) \/ ReadCopy(t) \/ Read(t)
         \/ t = Resp /\ RespApply
  PROVE  UInv'
<1>1. CASE Suspend(t) \/ Resume(t) \/ Read(t)
  BY <1>1, ThreadEnds DEF Suspend, Resume, SetSuspended, Read, treap, Holding
<1>2. CASE t = Resp /\ RespApply
  BY <1>2, ThreadEnds DEF RespApply, treap, Holding
<1>3. CASE ReadCopy(t)
  <2>1. "read" \in Steps /\ "read" \notin Holding \cup Undoing \cup Before
    BY DEF Steps, Holding, Undoing, Before
  <2> QED BY <1>3, <2>1, ThreadGoesOn DEF ReadCopy, treap, Holding
<1> QED BY <1>1, <1>2, <1>3

LEMMA RespReceiveUInv ==
  ASSUME UInv, TInv', RespReceive
  PROVE  UInv'
<1>1. /\ Resp \in Threads /\ pc[Resp] = "idle"
      /\ analyses' = analyses /\ available' = available
      /\ \A u \in Threads : u # Resp => id'[u] = id[u]
  BY DEF RespReceive, treap, Threads, UInv, TInv, TypeOK
<1>2. /\ pc'[Resp] \in {"apply", "remove"}
      /\ \A u \in Threads : u # Resp => pc'[u] = pc[u]
  BY <1>1 DEF RespReceive, UInv, TInv, TypeOK, Goto
<1>3. Holders' = Holders /\ \A t \in Holders : id'[t] = id[t]
  BY <1>1, <1>2 DEF Holders, Holding
<1>4. Started \subseteq Started'
  BY <1>1, <1>2, ThreadsAssumption DEF Started, Threads
<1>5. NoRollback'
  BY <1>2 DEF UInv, NoRollback, Undoing
<1> QED BY <1>1, <1>3, <1>4, <1>5, NothingMoves

\* Locks, signals, the steps of a process and a crash leave pc and id alone.
LEMMA NodesUntouched ==
  ASSUME UInv, TInv', UNCHANGED <<pc, id, available, analyses>>
  PROVE  UInv'
<1>1. Holders' = Holders
  BY DEF Holders
<1>2. Started \subseteq Started'
  BY DEF Started
<1>3. NoRollback'
  BY DEF UInv, NoRollback
<1> QED BY <1>1, <1>2, <1>3, NothingMoves

LEMMA NextUInv ==
  ASSUME NoFailure, UInv, [Next]_vars
  PROVE  UInv'
<1>1. TInv'
  BY NextTInv DEF UInv
<1>2. CASE UNCHANGED vars
  BY <1>1, <1>2, NodesUntouched DEF vars
<1>3. ASSUME NEW r \in Req, Accept(r) PROVE UInv'
  BY <1>1, <1>3, AcceptUInv
<1>4. ASSUME NEW r \in Req, Child(r) PROVE UInv'
  BY <1>1, <1>4, NodesUntouched
     DEF Child, ChildStart, ChildSignal, ChildWalked, ChildReports,
         ChildFails, Send, treap
<1>5. ASSUME NEW t \in Threads, Serve(t) PROVE UInv'
  <2>1. CASE Lock(t)
    BY <1>1, <2>1, NodesUntouched DEF Lock, treap
  <2>2. CASE Remove(t)
    BY <1>1, <2>2, RemoveUInv
  <2>3. CASE t \in Req /\ Add(t)
    BY <1>1, <2>3, AddUInv
  <2>4. CASE \/ Suspend(t) \/ Resume(t) \/ ReadCopy(t) \/ Read(t)
             \/ t = Resp /\ RespApply
    BY <1>1, <2>4, OtherRequestsUInv
  <2> QED BY <1>5, <2>1, <2>2, <2>3, <2>4 DEF Serve, Request
<1>6. ASSUME NEW t \in Threads, Crash(t) PROVE UInv'
  BY <1>1, <1>6, NodesUntouched DEF Crash, treap
<1>7. CASE RespReceive
  BY <1>1, <1>7, RespReceiveUInv
<1> QED BY <1>2, <1>3, <1>4, <1>5, <1>6, <1>7 DEF Next

\* No id is in two places, so no two analyses share one, however many
\* threads_add and threads_remove interleave: as long as no add has to be
\* undone, and the ids do not run out.
THEOREM UniqueIdsHold ==
  ASSUME NoFailure
  PROVE  Spec => []UniqueIds
<1>1. Init => UInv
  BY InitUInv
<1>2. UInv /\ [Next]_vars => UInv'
  BY NextUInv
<1>3. UInv => UniqueIds
  BY DEF UInv
<1> QED BY <1>1, <1>2, <1>3, PTL DEF Spec
-----------------------------------------------------------------------------
(* The same promise as a refinement: seen from the ids alone, request      *)
(* threads and the responses thread do what IdAllocator allows.            *)

Claiming  == {t \in Threads : pc[t] \in {"insert path", "insert"}}
Releasing == {t \in Threads : pc[t] \in {"kill", "remove path", "release"}}

Claimed == {id[t] : t \in Claiming}
Owned   == analyses \cup {id[t] : t \in Releasing}

Allocator == INSTANCE IdAllocator WITH Id <- Ids, claimed <- Claimed,
                                       owned <- Owned
AllocatorSpec == Allocator!Spec

LEMMA HeldSplit ==
  ASSUME UInv
  PROVE  /\ Claiming \cap Releasing = {} /\ Holders = Claiming \cup Releasing
         /\ HeldIds = Claimed \cup {id[t] : t \in Releasing}
         /\ \A t, u \in Holders : id[t] = id[u] => t = u
         /\ Claimed \cap Owned = {}
<1>1. Holders = Claiming \cup Releasing /\ Claiming \cap Releasing = {}
  BY DEF UInv, NoRollback, Holders, Holding, Undoing, Claiming, Releasing
<1>2. HeldIds = Claimed \cup {id[t] : t \in Releasing}
  BY <1>1 DEF HeldIds, Claimed
<1>3. \A t, u \in Holders : id[t] = id[u] => t = u
  BY DEF UInv, UniqueIds
<1>4. Claimed \cap Owned = {}
  BY <1>1, <1>2, <1>3 DEF UInv, UniqueIds, Claimed, Owned
<1> QED BY <1>1, <1>2, <1>3, <1>4

\* A step that moves no node is a stuttering step of the allocator.
LEMMA NothingClaimed ==
  ASSUME analyses' = analyses, Claiming' = Claiming, Releasing' = Releasing,
         \A t \in Claiming \cup Releasing : id'[t] = id[t]
  PROVE  UNCHANGED <<Claimed, Owned>>
BY DEF Claimed, Owned

LEMMA ThreadKeepsNode ==
  ASSUME UInv, NEW t \in Threads, NEW step, Goto(t, step),
         analyses' = analyses,
         \A u \in Threads \ {t} : id'[u] = id[u],
         t \in Claiming \cup Releasing => id'[t] = id[t],
         t \in Claiming <=> step \in {"insert path", "insert"},
         t \in Releasing <=> step \in {"kill", "remove path", "release"}
  PROVE  UNCHANGED <<Claimed, Owned>>
<1>1. pc'[t] = step /\ \A u \in Threads : u # t => pc'[u] = pc[u]
  BY DEF UInv, TInv, TypeOK, Goto
<1>2. Claiming' = Claiming /\ Releasing' = Releasing
  BY <1>1 DEF Claiming, Releasing
<1>3. \A u \in Claiming \cup Releasing : id'[u] = id[u]
  BY DEF Claiming, Releasing
<1> QED BY <1>2, <1>3, NothingClaimed

LEMMA ThreadEndsWithout ==
  ASSUME UInv, NEW t \in Threads, Ended(t), analyses' = analyses, id' = id,
         pc[t] \notin Holding
  PROVE  UNCHANGED <<Claimed, Owned>>
<1>1. PICK step \in Idle : Goto(t, step)
  BY DEF Ended, Idle
<1>2. step \notin Holding
  BY DEF Idle, Holding
<1> QED BY <1>1, <1>2, ThreadKeepsNode DEF Claiming, Releasing, Holding

\* threads_add: get_free_id claims an id, inserting the node makes it one of
\* an analysis.
LEMMA AddAllocates ==
  ASSUME NoFailure, UInv, NEW r \in Req, Add(r)
  PROVE  \/ \E i \in Ids : Allocator!Claim(i) \/ Allocator!Own(i)
         \/ UNCHANGED <<Claimed, Owned>>
<1>1. r \in Threads /\ pc[r] \notin Undoing
  BY DEF Threads, UInv, NoRollback
<1>2. CASE AddRefused(r) \/ AddNoId(r) \/ AddFinish(r)
  BY <1>1, <1>2, ThreadEndsWithout
     DEF AddRefused, AddNoId, AddFinish, treap, Holding
<1>3. CASE AddFindPrefix(r)
  BY <1>1, <1>3, ThreadKeepsNode DEF AddFindPrefix, treap, Claiming, Releasing
<1>4. CASE AddGetId(r)
  <2>1. PICK i \in GetChoices(available) : id' = [id EXCEPT ![r] = i]
    BY <1>4 DEF AddGetId
  <2>2. i \in available /\ i \in Ids
    BY DEF GetChoices, Inner, UInv, TInv, TypeOK
  <2>3. /\ pc[r] = "get id" /\ pc'[r] = "insert path" /\ id'[r] = i
        /\ \A u \in Threads : u # r => pc'[u] = pc[u] /\ id'[u] = id[u]
        /\ analyses' = analyses
    BY <1>1, <1>4, <2>1 DEF AddGetId, Goto, UInv, TInv, TypeOK
  <2>4. Claiming' = Claiming \cup {r} /\ Releasing' = Releasing
        /\ r \notin Claiming \cup Releasing
    BY <1>1, <2>3 DEF Claiming, Releasing
  <2>5. \A u \in Claiming \cup Releasing : u # r /\ id'[u] = id[u]
    BY <2>3, <2>4 DEF Claiming, Releasing
  <2>6. Claimed' = Claimed \cup {i} /\ Owned' = Owned
    <3>1. Owned' = Owned
      BY <2>3, <2>4, <2>5 DEF Owned
    <3>2. \A u \in Claiming : id'[u] = id[u]
      BY <2>5
    <3>3. Claimed' = {id'[u] : u \in Claiming \cup {r}}
      BY <2>4 DEF Claimed
    <3>4. Claimed' = {id[u] : u \in Claiming} \cup {i}
      BY <2>3, <3>2, <3>3
    <3> QED BY <3>1, <3>4 DEF Claimed
  <2>7. i \notin Claimed \cup Owned
    BY <2>2, HeldSplit DEF UInv, UniqueIds, Owned
  <2> QED BY <2>2, <2>6, <2>7 DEF Allocator!Claim
<1>5. CASE AddInsertPath(r)
  BY <1>1, <1>5, ThreadKeepsNode DEF AddInsertPath, treap, Claiming, Releasing
<1>6. CASE AddInsertNode(r)
  <2>1. /\ pc[r] = "insert" /\ pc'[r] = "fork" /\ id' = id
        /\ \A u \in Threads : u # r => pc'[u] = pc[u]
        /\ analyses' = analyses \cup {id[r]}
    BY <1>1, <1>6 DEF AddInsertNode, Goto, UInv, TInv, TypeOK
  <2>2. r \in Claiming /\ Claiming' = Claiming \ {r} /\ Releasing' = Releasing
    BY <1>1, <2>1 DEF Claiming, Releasing
  <2>3. id[r] \in Claimed /\ id[r] \in Ids
    BY <1>1, <2>1, <2>2 DEF Claimed, UInv, TInv, IdKnown, Knowing, Holding
  <2>4. Claimed' = Claimed \ {id[r]}
    BY <2>1, <2>2, HeldSplit DEF Claimed
  <2>5. Owned' = Owned \cup {id[r]}
    BY <2>1, <2>2 DEF Owned
  <2>6. id[r] \notin Owned
    BY <2>3, HeldSplit
  <2> QED BY <2>3, <2>4, <2>5, <2>6 DEF Allocator!Own
<1>7. CASE ForkRequest(r)
  BY <1>1, <1>7, ThreadKeepsNode DEF ForkRequest, treap, Claiming, Releasing
<1>8. CASE AddReadPid(r)
  BY <1>1, <1>8, ThreadKeepsNode DEF AddReadPid, treap, Claiming, Releasing
<1>9. CASE \/ AddNoMemory(r) \/ ForkRequestFails(r) \/ RollbackNode(r)
           \/ RollbackPath(r) \/ AddReturnId(r)
  BY <1>1, <1>9 DEF NoFailure, AddNoMemory, ForkRequestFails, RollbackNode,
                    RollbackPath, AddReturnId, Undoing
<1> QED BY <1>2, <1>3, <1>4, <1>5, <1>6, <1>7, <1>8, <1>9 DEF Add

\* threads_remove: the id is the analysis's until the node is back in the
\* pool.
LEMMA RemoveReleases ==
  ASSUME UInv, NEW t \in Threads, Remove(t)
  PROVE  \/ \E i \in Ids : Allocator!Release(i)
         \/ UNCHANGED <<Claimed, Owned>>
<1>1. CASE RemoveUnknown(t) \/ RemoveNull(t)
  BY <1>1, ThreadEndsWithout DEF RemoveUnknown, RemoveNull, treap, Holding
<1>2. CASE RemoveExtract(t)
  <2>1. /\ pc[t] = "remove" /\ pc'[t] = "kill" /\ id' = id
        /\ \A u \in Threads : u # t => pc'[u] = pc[u]
        /\ id[t] \in analyses /\ analyses' = analyses \ {id[t]}
    BY <1>2 DEF RemoveExtract, Goto, UInv, TInv, TypeOK
  <2>2. Claiming' = Claiming /\ Releasing' = Releasing \cup {t}
    BY <2>1 DEF Claiming, Releasing
  <2>3. Claimed' = Claimed /\ Owned' = Owned
    BY <2>1, <2>2 DEF Claimed, Owned
  <2> QED BY <2>3
<1>3. CASE RemoveKill(t) \/ RemovePath(t)
  BY <1>3, ThreadKeepsNode DEF RemoveKill, RemovePath, treap, Claiming, Releasing
<1>4. CASE RemoveRelease(t)
  <2>1. /\ pc[t] = "release" /\ pc'[t] = "free" /\ id' = id
        /\ \A u \in Threads : u # t => pc'[u] = pc[u]
        /\ analyses' = analyses
    BY <1>4 DEF RemoveRelease, Goto, UInv, TInv, TypeOK, treap
  <2>2. t \in Releasing /\ Releasing' = Releasing \ {t} /\ Claiming' = Claiming
    BY <2>1 DEF Claiming, Releasing
  <2>3. id[t] \in Owned /\ id[t] \in Ids
    BY <2>1, <2>2 DEF Owned, UInv, TInv, IdKnown, Knowing, Holding
  <2>4. id[t] \notin analyses
    BY <2>2, HeldSplit DEF UInv, UniqueIds
  <2>5. Owned' = Owned \ {id[t]} /\ Claimed' = Claimed
    BY <2>1, <2>2, <2>4, HeldSplit DEF Owned, Claimed
  <2> QED BY <2>3, <2>5 DEF Allocator!Release
<1>5. CASE RemoveFree(t)
  BY <1>5, ThreadKeepsNode DEF RemoveFree, treap, Claiming, Releasing
<1> QED BY <1>1, <1>2, <1>3, <1>4, <1>5 DEF Remove

\* Everything else leaves the ids alone.
LEMMA OtherStepsAllocateNothing ==
  ASSUME UInv, NEW t \in Threads,
         \/ Suspend(t) \/ Resume(t) \/ ReadCopy(t) \/ Read(t)
         \/ t = Resp /\ RespApply
         \/ t \in Req /\ Accept(t)
         \/ t = Resp /\ RespReceive
  PROVE  UNCHANGED <<Claimed, Owned>>
<1>0. CASE t = Resp /\ RespApply
  BY <1>0, ThreadEndsWithout DEF RespApply, treap, Holding
<1>1. CASE Suspend(t) \/ Resume(t) \/ Read(t)
  BY <1>1, ThreadEndsWithout
     DEF Suspend, Resume, SetSuspended, Read, treap, Holding
<1>2. CASE ReadCopy(t)
  BY <1>2, ThreadKeepsNode DEF ReadCopy, treap, Claiming, Releasing
<1>3. CASE t \in Req /\ Accept(t)
  <2>1. PICK task \in Tasks : Goto(t, task)
    BY <1>3 DEF Accept
  <2>2. /\ pc[t] = "idle" /\ analyses' = analyses
        /\ \A u \in Threads : u # t => id'[u] = id[u]
    BY <1>3 DEF Accept, treap, UInv, TInv, TypeOK
  <2>3. task \in {"add", "suspend", "resume", "remove", "status", "list"}
    BY ThreadsAssumption
  <2> QED BY <2>1, <2>2, <2>3, ThreadKeepsNode DEF Claiming, Releasing
<1>4. CASE t = Resp /\ RespReceive
  <2>1. PICK step \in {"apply", "remove"} : Goto(t, step)
    BY <1>4 DEF RespReceive
  <2>2. /\ pc[t] = "idle" /\ analyses' = analyses
        /\ \A u \in Threads : u # t => id'[u] = id[u]
    BY <1>4 DEF RespReceive, treap, UInv, TInv, TypeOK
  <2> QED BY <2>1, <2>2, ThreadKeepsNode DEF Claiming, Releasing
<1> QED BY <1>0, <1>1, <1>2, <1>3, <1>4

LEMMA NodesStay ==
  ASSUME UNCHANGED <<pc, id, analyses>>
  PROVE  UNCHANGED <<Claimed, Owned>>
BY DEF Claimed, Owned, Claiming, Releasing

LEMMA NextAllocates ==
  ASSUME NoFailure, UInv, [Next]_vars
  PROVE  [Allocator!Next]_<<Claimed, Owned>>
<1> USE DEF Allocator!Next
<1>1. CASE UNCHANGED vars
  BY <1>1, NodesStay DEF vars, treap
<1>2. ASSUME NEW r \in Req, Accept(r)
      PROVE  UNCHANGED <<Claimed, Owned>>
  BY <1>2, OtherStepsAllocateNothing DEF Threads
<1>3. ASSUME NEW r \in Req, Child(r)
      PROVE  UNCHANGED <<Claimed, Owned>>
  BY <1>3, NodesStay DEF Child, ChildStart, ChildSignal, ChildWalked,
                         ChildReports, ChildFails, Send, treap
<1>4. ASSUME NEW t \in Threads, Serve(t)
      PROVE  [Allocator!Next]_<<Claimed, Owned>>
  <2>1. CASE Lock(t)
    BY <2>1, NodesStay DEF Lock, treap
  <2>2. CASE Remove(t)
    BY <2>2, RemoveReleases
  <2>3. CASE t \in Req /\ Add(t)
    BY <2>3, AddAllocates
  <2>4. CASE \/ Suspend(t) \/ Resume(t) \/ ReadCopy(t) \/ Read(t)
             \/ t = Resp /\ RespApply
    BY <2>4, OtherStepsAllocateNothing
  <2> QED BY <1>4, <2>1, <2>2, <2>3, <2>4 DEF Serve, Request
<1>5. ASSUME NEW t \in Threads, Crash(t)
      PROVE  UNCHANGED <<Claimed, Owned>>
  BY <1>5, NodesStay DEF Crash, treap
<1>6. CASE RespReceive
  BY <1>6, OtherStepsAllocateNothing DEF Threads
<1> QED BY <1>1, <1>2, <1>3, <1>4, <1>5, <1>6 DEF Next

\* The threads of the manager implement the allocator that the pool of ids
\* implements by itself: with critical sections of other threads between
\* every two of an add and of a removal, an add claims an id that nobody
\* has, and only the removal of an analysis frees its id.
THEOREM ThreadsImplementAllocator ==
  ASSUME NoFailure
  PROVE  Spec => AllocatorSpec
<1>1. Init => UInv
  BY InitUInv
<1>2. UInv /\ [Next]_vars => UInv'
  BY NextUInv
<1>3. Init => Allocator!Init
  BY DEF Init, Allocator!Init, Claimed, Owned, Claiming, Releasing
<1>4. UInv /\ [Next]_vars => [Allocator!Next]_<<Claimed, Owned>>
  BY NextAllocates
<1> QED BY <1>1, <1>2, <1>3, <1>4, PTL DEF Spec, AllocatorSpec, Allocator!Spec
-----------------------------------------------------------------------------
(* analysis_cnt.  It changes with the treap in threads_remove, and after   *)
(* the treap in threads_add; that an insertion does grow the treap rests   *)
(* on UniqueIds.                                                           *)

Uncounting == {"fork", "read pid", "finish", "rollback"}
Counted    == Cardinality(analyses) = cnt + Cardinality(Uncounted)

LEMMA FiniteParts ==
  ASSUME TInv
  PROVE  /\ IsFiniteSet(analyses) /\ Cardinality(analyses) \in Nat
         /\ IsFiniteSet(Uncounted) /\ Cardinality(Uncounted) \in Nat
         /\ cnt \in Int
<1>1. analyses \subseteq 1 .. IdMax /\ cnt \in Int
  BY DEF TInv, TypeOK, Ids
<1>2. IsFiniteSet(1 .. IdMax)
  BY FS_Interval, IdMaxAssumption
<1>3. IsFiniteSet(analyses)
  BY <1>1, <1>2, FS_Subset
<1>4. IsFiniteSet(Uncounted)
  <2>1. Uncounted \subseteq Req
    BY DEF Uncounted
  <2> QED BY <2>1, FS_Subset, ThreadsAssumption
<1> QED BY <1>1, <1>3, <1>4, FS_CardinalityType

\* A thread moves on, on the same side of ++analysis_cnt.
LEMMA CountKept ==
  ASSUME TInv, Counted, NEW t \in Threads, NEW step \in Steps, Goto(t, step),
         pc[t] \in Uncounting <=> step \in Uncounting,
         analyses' = analyses, cnt' = cnt
  PROVE  Counted'
<1>1. pc'[t] = step /\ \A u \in Threads : u # t => pc'[u] = pc[u]
  BY DEF TInv, TypeOK, Goto
<1>2. Uncounted' = Uncounted
  BY <1>1 DEF Uncounted, Uncounting, Threads
<1> QED BY <1>2 DEF Counted

LEMMA CountKeptAtEnd ==
  ASSUME TInv, Counted, NEW t \in Threads, Ended(t), pc[t] \notin Uncounting,
         analyses' = analyses, cnt' = cnt
  PROVE  Counted'
<1>1. PICK step \in Idle : Goto(t, step)
  BY DEF Ended, Idle
<1>2. step \in Steps /\ step \notin Uncounting
  BY DEF Idle, Steps, Uncounting
<1> QED BY <1>1, <1>2, CountKept

LEMMA CountInserted ==
  ASSUME TInv, UniqueIds, Counted, TInv', NEW r \in Req, AddInsertNode(r)
  PROVE  Counted'
<1>1. /\ pc[r] = "insert" /\ r \in Threads /\ Goto(r, "fork")
      /\ analyses' = analyses \cup {id[r]} /\ cnt' = cnt
  BY DEF AddInsertNode, Threads
<1>2. pc'[r] = "fork" /\ \A u \in Threads : u # r => pc'[u] = pc[u]
  BY <1>1 DEF TInv, TypeOK, Goto
<1>3. Uncounted' = Uncounted \cup {r} /\ r \notin Uncounted
  BY <1>1, <1>2 DEF Uncounted, Threads
<1>4. id[r] \notin analyses
  <2>1. r \in Holders
    BY <1>1 DEF Holders, Holding
  <2> QED BY <2>1 DEF UniqueIds, HeldIds
<1>5. Cardinality(Uncounted') = Cardinality(Uncounted) + 1
  BY <1>3, FiniteParts, FS_AddElement
<1>6. Cardinality(analyses') = Cardinality(analyses) + 1
  BY <1>1, <1>4, FiniteParts, FS_AddElement
<1> QED BY <1>1, <1>5, <1>6, FiniteParts DEF Counted

LEMMA CountFinished ==
  ASSUME TInv, Counted, TInv', NEW r \in Req, AddFinish(r)
  PROVE  Counted'
<1>1. /\ pc[r] = "finish" /\ r \in Threads /\ Ended(r)
      /\ analyses' = analyses /\ cnt' = cnt + 1
  BY DEF AddFinish, Threads
<1>2. pc'[r] \in Idle /\ \A u \in Threads : u # r => pc'[u] = pc[u]
  BY <1>1 DEF TInv, TypeOK, Ended, Goto, Idle
<1>3. Uncounted' = Uncounted \ {r} /\ r \in Uncounted
  BY <1>1, <1>2 DEF Uncounted, Threads, Idle
<1>4. Cardinality(Uncounted') = Cardinality(Uncounted) - 1
  BY <1>3, FiniteParts, FS_RemoveElement
<1> QED BY <1>1, <1>4, FiniteParts DEF Counted

LEMMA CountExtracted ==
  ASSUME TInv, Counted, TInv', NEW t \in Threads, RemoveExtract(t)
  PROVE  Counted'
<1>1. /\ pc[t] = "remove" /\ Goto(t, "kill") /\ id[t] \in analyses
      /\ analyses' = analyses \ {id[t]} /\ cnt' = cnt - 1
  BY DEF RemoveExtract
<1>2. pc'[t] = "kill" /\ \A u \in Threads : u # t => pc'[u] = pc[u]
  BY <1>1 DEF TInv, TypeOK, Goto
<1>3. Uncounted' = Uncounted
  BY <1>1, <1>2 DEF Uncounted, Threads
<1>4. Cardinality(analyses') = Cardinality(analyses) - 1
  <2>1. IsFiniteSet(analyses)
    BY FiniteParts
  <2>2. Cardinality(analyses \ {id[t]}) = Cardinality(analyses) - 1
    BY <1>1, <2>1, FS_RemoveElement
  <2> QED BY <1>1, <2>2
<1> QED BY <1>1, <1>3, <1>4, FiniteParts DEF Counted

LEMMA CountUndone ==
  ASSUME TInv, Counted, TInv', NEW r \in Req, RollbackNode(r)
  PROVE  Counted'
<1>1. /\ pc[r] = "rollback" /\ r \in Threads /\ Goto(r, "unpath")
      /\ id[r] \in analyses
      /\ analyses' = analyses \ {id[r]} /\ cnt' = cnt
  BY DEF RollbackNode, Threads
<1>2. pc'[r] = "unpath" /\ \A u \in Threads : u # r => pc'[u] = pc[u]
  BY <1>1 DEF TInv, TypeOK, Goto
<1>3. Uncounted' = Uncounted \ {r} /\ r \in Uncounted
  BY <1>1, <1>2 DEF Uncounted, Threads
<1>4. Cardinality(Uncounted') = Cardinality(Uncounted) - 1
  BY <1>3, FiniteParts, FS_RemoveElement
<1>5. Cardinality(analyses') = Cardinality(analyses) - 1
  <2>1. IsFiniteSet(analyses)
    BY FiniteParts
  <2>2. Cardinality(analyses \ {id[r]}) = Cardinality(analyses) - 1
    BY <1>1, <2>1, FS_RemoveElement
  <2> QED BY <1>1, <2>2
<1> QED BY <1>1, <1>4, <1>5, FiniteParts DEF Counted

LEMMA AddCounted ==
  ASSUME TInv, UniqueIds, Counted, TInv', NEW r \in Req, Add(r)
  PROVE  Counted'
<1>1. r \in Threads
  BY DEF Threads
<1>2. CASE AddRefused(r) \/ AddNoId(r)
  BY <1>1, <1>2, CountKeptAtEnd DEF AddRefused, AddNoId, treap, Uncounting
<1>3. CASE AddFindPrefix(r)
  <2>1. "get id" \in Steps /\ "get id" \notin Uncounting
    BY DEF Steps, Uncounting
  <2> QED BY <1>1, <1>3, <2>1, CountKept DEF AddFindPrefix, treap, Uncounting
<1>4. CASE AddGetId(r)
  <2>1. "insert path" \in Steps /\ "insert path" \notin Uncounting
    BY DEF Steps, Uncounting
  <2> QED BY <1>1, <1>4, <2>1, CountKept DEF AddGetId, Uncounting
<1>5. CASE AddInsertPath(r)
  <2>1. "insert" \in Steps /\ "insert" \notin Uncounting
    BY DEF Steps, Locking, Uncounting
  <2> QED BY <1>1, <1>5, <2>1, CountKept DEF AddInsertPath, treap, Uncounting
<1>6. CASE AddInsertNode(r)
  BY <1>6, CountInserted
<1>7. CASE ForkRequest(r)
  <2>1. "read pid" \in Steps /\ "read pid" \in Uncounting
    BY DEF Steps, Uncounting
  <2> QED BY <1>1, <1>7, <2>1, CountKept DEF ForkRequest, treap, Uncounting
<1>8. CASE AddReadPid(r)
  <2>1. "finish" \in Steps /\ "finish" \in Uncounting
    BY DEF Steps, Locking, Uncounting
  <2> QED BY <1>1, <1>8, <2>1, CountKept DEF AddReadPid, treap, Uncounting
<1>9. CASE AddFinish(r)
  BY <1>9, CountFinished
<1>10. CASE AddNoMemory(r) \/ RollbackPath(r)
  <2>1. "return id" \in Steps /\ "return id" \notin Uncounting
    BY DEF Steps, Uncounting
  <2> QED BY <1>1, <1>10, <2>1, CountKept
          DEF AddNoMemory, RollbackPath, treap, Uncounting
<1>11. CASE ForkRequestFails(r)
  <2>1. "rollback" \in Steps /\ "rollback" \in Uncounting
    BY DEF Steps, Locking, Uncounting
  <2> QED BY <1>1, <1>11, <2>1, CountKept DEF ForkRequestFails, treap, Uncounting
<1>12. CASE RollbackNode(r)
  BY <1>12, CountUndone
<1>13. CASE AddReturnId(r)
  BY <1>1, <1>13, CountKeptAtEnd DEF AddReturnId, Uncounting
<1> QED BY <1>2, <1>3, <1>4, <1>5, <1>6, <1>7, <1>8, <1>9, <1>10, <1>11, <1>12,
           <1>13 DEF Add

LEMMA RemoveCounted ==
  ASSUME TInv, Counted, TInv', NEW t \in Threads, Remove(t)
  PROVE  Counted'
<1>1. CASE RemoveUnknown(t) \/ RemoveNull(t)
  BY <1>1, CountKeptAtEnd DEF RemoveUnknown, RemoveNull, treap, Uncounting
<1>2. CASE RemoveExtract(t)
  BY <1>2, CountExtracted
<1>3. CASE RemoveKill(t)
  <2>1. "remove path" \in Steps /\ "remove path" \notin Uncounting
    BY DEF Steps, Uncounting
  <2> QED BY <1>3, <2>1, CountKept DEF RemoveKill, treap, Uncounting
<1>4. CASE RemovePath(t)
  <2>1. "release" \in Steps /\ "release" \notin Uncounting
    BY DEF Steps, Uncounting
  <2> QED BY <1>4, <2>1, CountKept DEF RemovePath, treap, Uncounting
<1>5. CASE RemoveRelease(t)
  <2>1. "free" \in Steps /\ "free" \notin Uncounting
    BY DEF Steps, Uncounting
  <2> QED BY <1>5, <2>1, CountKept DEF RemoveRelease, treap, Uncounting
<1>6. CASE RemoveFree(t)
  <2>1. "null" \in Steps /\ "null" \notin Uncounting
    BY DEF Steps, Uncounting
  <2> QED BY <1>6, <2>1, CountKept DEF RemoveFree, treap, Uncounting
<1> QED BY <1>1, <1>2, <1>3, <1>4, <1>5, <1>6 DEF Remove

LEMMA OtherRequestsCounted ==
  ASSUME TInv, Counted, NEW t \in Threads,
         \/ Suspend(t) \/ Resume(t) \/ ReadCopy(t) \/ Read(t)
         \/ t = Resp /\ RespApply
  PROVE  Counted'
<1>1. CASE Suspend(t) \/ Resume(t) \/ Read(t)
  BY <1>1, CountKeptAtEnd
     DEF Suspend, Resume, SetSuspended, Read, treap, Uncounting
<1>2. CASE t = Resp /\ RespApply
  BY <1>2, CountKeptAtEnd DEF RespApply, treap, Uncounting
<1>3. CASE ReadCopy(t)
  <2>1. "read" \in Steps /\ "read" \notin Uncounting
    BY DEF Steps, Uncounting
  <2> QED BY <1>3, <2>1, CountKept DEF ReadCopy, treap, Uncounting
<1> QED BY <1>1, <1>2, <1>3

LEMMA ArrivalsCounted ==
  ASSUME TInv, Counted, RespReceive \/ \E r \in Req : Accept(r)
  PROVE  Counted'
<1>1. CASE RespReceive
  <2>1. {"apply", "remove"} \subseteq Steps \ Uncounting
    BY DEF Steps, Locking, Uncounting
  <2>2. PICK step \in {"apply", "remove"} : Goto(Resp, step)
    BY <1>1 DEF RespReceive
  <2> QED BY <1>1, <2>1, <2>2, CountKept
          DEF RespReceive, treap, Uncounting, Threads
<1>2. ASSUME NEW r \in Req, Accept(r) PROVE Counted'
  <2>1. Tasks \subseteq Steps \ Uncounting
    BY ThreadsAssumption DEF Steps, Locking, Uncounting
  <2>2. PICK task \in Tasks : Goto(r, task)
    BY <1>2 DEF Accept
  <2> QED BY <1>2, <2>1, <2>2, CountKept
          DEF Accept, treap, Uncounting, Threads
<1> QED BY <1>1, <1>2

LEMMA CountUntouched ==
  ASSUME Counted, UNCHANGED <<pc, analyses, cnt>>
  PROVE  Counted'
<1>1. Uncounted' = Uncounted
  BY DEF Uncounted
<1> QED BY <1>1 DEF Counted

LEMMA NextCounted ==
  ASSUME TInv, UniqueIds, Counted, TInv', [Next]_vars
  PROVE  Counted'
<1>1. CASE UNCHANGED vars
  BY <1>1, CountUntouched DEF vars
<1>2. CASE RespReceive \/ \E r \in Req : Accept(r)
  BY <1>2, ArrivalsCounted
<1>3. ASSUME NEW r \in Req, Child(r) PROVE Counted'
  BY <1>3, CountUntouched
     DEF Child, ChildStart, ChildSignal, ChildWalked, ChildReports,
         ChildFails, Send, treap
<1>4. ASSUME NEW t \in Threads, Serve(t) PROVE Counted'
  <2>1. CASE Lock(t)
    BY <2>1, CountUntouched DEF Lock, treap
  <2>2. CASE Remove(t)
    BY <2>2, RemoveCounted
  <2>3. CASE t \in Req /\ Add(t)
    BY <2>3, AddCounted
  <2>4. CASE \/ Suspend(t) \/ Resume(t) \/ ReadCopy(t) \/ Read(t)
             \/ t = Resp /\ RespApply
    BY <2>4, OtherRequestsCounted
  <2> QED BY <1>4, <2>1, <2>2, <2>3, <2>4 DEF Serve, Request
<1>5. ASSUME NEW t \in Threads, Crash(t) PROVE Counted'
  BY <1>5, CountUntouched DEF Crash, treap
<1> QED BY <1>1, <1>2, <1>3, <1>4, <1>5 DEF Next

LEMMA InitCounted ==
  ASSUME Init
  PROVE  Counted
<1>1. analyses = {} /\ cnt = 0
  BY DEF Init
<1>2. Uncounted = {}
  BY DEF Init, Uncounted, Threads
<1>3. Cardinality(analyses) = 0 /\ Cardinality(Uncounted) = 0
  BY <1>1, <1>2, FS_EmptySet
<1> QED BY <1>1, <1>3 DEF Counted

\* analysis_cnt is the number of analyses less the adds that have inserted
\* their node and neither counted it nor taken it out again, however requests
\* interleave and fail: as long as threads_add inserts ids that are not there.
THEOREM CountFollowsNodes == Spec /\ []UniqueIds => []CountCoherent
<1>1. Init => TInv /\ Counted
  BY InitTInv, InitCounted
<1>2. TInv /\ Counted /\ UniqueIds /\ [Next]_vars => (TInv /\ Counted)'
  BY NextTInv, NextCounted
<1>3. Counted => CountCoherent
  BY DEF Counted, CountCoherent
<1> QED BY <1>1, <1>2, <1>3, PTL DEF Spec

\* So it is as long as no add has to be undone, and the ids do not run out.
THEOREM CountIsCoherent ==
  ASSUME NoFailure
  PROVE  Spec => []CountCoherent
BY UniqueIdsHold, CountFollowsNodes, PTL

-----------------------------------------------------------------------------
(***************************************************************************)
(* Requests served one at a time: what the path tree, the treap, the       *)
(* structs and the processes say of the analyses agrees, for any number of *)
(* requests, ids and directories, with every failure of an add and with    *)
(* processes that run and report at any time.                              *)
(***************************************************************************)
\* Requests are served one at a time, and no analysis reports a failure: the
\* removal that follows would be a second request.
InTurn == MaxServing = 1 /\ ~WalkMayFail

Alone == \A r, t \in Serving : r = t

\* The responses thread only applies completions.
RespApplies == /\ pc[Resp] \in {"idle", "apply"}
               /\ \A n \in DOMAIN inbox : inbox[n].ok

\* The flag of a struct and its process.
Agrees(a) == child[a].state # "gone" =>
               /\ anal[a].suspended <=> WillBeSuspended(child[a])
               /\ ~({"TSTP", "CONT"} \subseteq child[a].pend)

\* The analysis of a node that is in the treap, or was until now.
Entry(a) == /\ a \in Req /\ anal[a].live
            /\ Path(a) \in Paths /\ paths[Path(a)] = a
            /\ pc[a] \in Uncounting \cup {"done"}
            /\ pc[a] = "done" => /\ anal[a].pid = a
                                 /\ child[a].state \notin {"none", "forked"}

Entries == \A i \in analyses : /\ Entry(nodeAnal[i])
                               /\ id[nodeAnal[i]] = i
                               /\ Agrees(nodeAnal[i])

\* An int of the path tree is that of an analysis in the treap, of an add
\* that has yet to insert its node or has taken it out again, or of one that
\* is being removed.
InTreap(a) == id[a] \in analyses /\ nodeAnal[id[a]] = a
InHand(a)  == \/ a \in Req /\ pc[a] \in {"insert", "unpath"}
              \/ \E t \in Req : /\ pc[t] \in {"kill", "remove path"}
                                /\ id[t] = id[a] /\ nodeAnal[id[t]] = a
Ints == \A p \in Paths : paths[p] # Nil =>
          Path(paths[p]) = p /\ (InTreap(paths[p]) \/ InHand(paths[p]))

\* A process that has not started is as forked.
Quiet(a) == child[a].state \in {"none", "forked"} =>
              ~child[a].suspended /\ child[a].pend = {}
Children == \A r \in Req : Quiet(r) /\ (pc[r] = "idle" => child[r] = NoChild)

Early  == {"add", "get id", "insert path", "insert"}
Undone == {"unpath", "return id"}

\* What the thread that serves a request knows.
AddAt(r) ==
  /\ pc[r] \in Early \cup Uncounting \cup Undone =>
       anal[r].live /\ Path(r) \in Paths
  /\ pc[r] \in Early \cup {"fork"} => child[r] = NoChild /\ ~anal[r].suspended
  /\ pc[r] \in {"get id", "insert path", "insert"} =>
       \A p \in Ancestors[Path(r)] : paths[p] \in {Nil, r}
  /\ pc[r] = "insert path" => paths[Path(r)] = Nil
  /\ pc[r] \in {"insert path", "insert"} => nodeAnal[id[r]] = r
  /\ pc[r] \in {"insert", "unpath"} => paths[Path(r)] = r
  /\ pc[r] \in Uncounting => InTreap(r)
  /\ pc[r] = "read pid" => child[r].state # "none"
  /\ pc[r] = "finish" => /\ anal[r].pid = r
                         /\ child[r].state \notin {"none", "forked"}
RemoveAt(t) ==
  /\ pc[t] \in {"kill", "remove path"} => /\ Entry(nodeAnal[id[t]])
                                         /\ id[nodeAnal[id[t]]] = id[t]
  /\ pc[t] \in {"release", "free"} => /\ nodeAnal[id[t]] \in Req
                                      /\ anal[nodeAnal[id[t]]].live
                                      /\ id[nodeAnal[id[t]]] = id[t]
  /\ pc[t] \in {"release", "free", "null"} => id[t] \notin analyses
At(r) == /\ AddAt(r) /\ RemoveAt(r)
         /\ pc[r] = "read" => copy[r].cnt = cnt

SInv == /\ Alone /\ RespApplies /\ Entries /\ Ints /\ Children
        /\ \A r \in Req : At(r)
        /\ ~crashed

\* What every step may use.
Now == TInv /\ UniqueIds /\ SInv /\ TInv'
-----------------------------------------------------------------------------
(* What a step leaves alone.                                               *)

LEMMA InReq == \A r \in Req : r \in Threads /\ r # Resp /\ r # Nil
BY DEF Threads

LEMMA OthersIdle ==
  ASSUME SInv, NEW r \in Req, pc[r] \notin Idle
  PROVE  \A t \in Req : t # r => pc[t] \in Idle
BY DEF SInv, Alone, Serving

LEMMA AtIdle ==
  ASSUME NEW r \in Req, pc'[r] \in Idle
  PROVE  At(r)'
BY DEF At, AddAt, RemoveAt, Idle, Early, Undone, Uncounting

\* Thread t goes on to a step.
Moves(t, step) == /\ pc'[t] = step
                  /\ \A u \in Threads : u # t => pc'[u] = pc[u]

LEMMA GotoMoves ==
  ASSUME TInv, NEW t \in Threads
  PROVE  /\ \A step : Goto(t, step) => Moves(t, step)
         /\ t \in Req /\ Ended(t) => Moves(t, "done")
BY InReq DEF TInv, TypeOK, Goto, Ended, Moves

LEMMA AloneKept ==
  ASSUME SInv, NEW r \in Req, pc[r] \notin Idle, NEW step, Moves(r, step)
  PROVE  Alone' /\ \A t \in Req : t # r => pc'[t] \in Idle /\ pc'[t] = pc[t]
<1>1. \A t \in Req : t # r => pc'[t] \in Idle /\ pc'[t] = pc[t]
  BY OthersIdle, InReq DEF Moves
<1> QED BY <1>1 DEF Alone, Serving

\* The analysis a is as before.
Same(a) == /\ pc'[a] = pc[a] /\ id'[a] = id[a] /\ anal'[a] = anal[a]
           /\ child'[a] = child[a] /\ paths'[Path(a)] = paths[Path(a)]

LEMMA SameEntry ==
  ASSUME NEW a, Same(a)
  PROVE  /\ Entry(a) => Entry(a)'
         /\ Agrees(a) => Agrees(a)'
BY DEF Same, Entry, Agrees, Path

LEMMA EntriesKept ==
  ASSUME Entries, analyses' \subseteq analyses,
         \A i \in analyses' : nodeAnal'[i] = nodeAnal[i] /\ Same(nodeAnal[i])
  PROVE  Entries'
<1> SUFFICES ASSUME NEW i \in analyses'
             PROVE  /\ Entry(nodeAnal[i])' /\ Agrees(nodeAnal[i])'
                    /\ id'[nodeAnal'[i]] = i
  BY DEF Entries
<1> DEFINE a == nodeAnal[i]
<1>1. Entry(a) /\ Agrees(a) /\ Same(a) /\ id[a] = i /\ nodeAnal'[i] = a
  BY DEF Entries
<1>2. Entry(a)' /\ Agrees(a)' /\ id'[a] = i
  BY <1>1, SameEntry DEF Same
<1> QED BY <1>1, <1>2

LEMMA NotEntry ==
  ASSUME Entries, NEW r, pc[r] \notin Uncounting \cup {"done"}
  PROVE  /\ \A i \in analyses : nodeAnal[i] # r
         /\ ~InTreap(r)
BY DEF Entries, Entry, InTreap

\* An entry is not the one that a serving thread adds, unless it is in the
\* treap.
LEMMA EntryDone ==
  ASSUME SInv, NEW r \in Req, pc[r] \notin Idle, NEW a, Entry(a), a # r
  PROVE  pc[a] = "done"
BY OthersIdle DEF Entry, Idle, Uncounting

\* While no thread has one in hand, all ints belong to the treap.
Settled == \A p \in Paths : paths[p] # Nil =>
             Path(paths[p]) = p /\ InTreap(paths[p])

Hand == {"insert", "unpath", "kill", "remove path"}

LEMMA NoHand ==
  ASSUME SInv, \A t \in Req : pc[t] \notin Hand
  PROVE  Settled
BY DEF SInv, Ints, InHand, Hand, Settled

LEMMA AllSettled ==
  ASSUME SInv, NEW r \in Req, pc[r] \notin Idle, pc[r] \notin Hand
  PROVE  Settled
<1>1. \A t \in Req : pc[t] \notin Hand
  BY OthersIdle DEF Idle, Hand
<1> QED BY <1>1, NoHand

LEMMA SettledKept ==
  ASSUME Settled, paths' = paths, analyses \subseteq analyses',
         \A i \in analyses : /\ nodeAnal'[i] = nodeAnal[i]
                             /\ id'[nodeAnal[i]] = id[nodeAnal[i]]
                             /\ Path(nodeAnal[i])' = Path(nodeAnal[i])
  PROVE  Ints'
BY DEF Settled, Ints, InTreap
-----------------------------------------------------------------------------
(* threads_add before its node is in the treap, and after.                 *)

\* A step of an add that has no node in the treap.
Outside(r, step) ==
  /\ pc[r] \in Early \cup Undone
  /\ Moves(r, step)
  /\ \A a \in Req : a # r => id'[a] = id[a] /\ anal'[a] = anal[a]
  /\ child' = child /\ analyses' = analyses /\ inbox' = inbox
  /\ \A i \in analyses : nodeAnal'[i] = nodeAnal[i]
  /\ \A a \in Req : a # r /\ Path(a) \in Paths /\ paths[Path(a)] = a
                      => paths'[Path(a)] = a
  /\ step # "idle" /\ crashed' = crashed

LEMMA OutsideKept ==
  ASSUME SInv, NEW r \in Req, NEW step, Outside(r, step), At(r)', Ints'
  PROVE  SInv'
<1>1. pc[r] \notin Idle /\ pc[r] \notin Uncounting \cup {"done"}
  BY DEF Outside, Early, Undone, Idle, Uncounting
<1>2. Alone' /\ \A t \in Req : t # r => pc'[t] \in Idle /\ pc'[t] = pc[t]
  BY <1>1, AloneKept DEF Outside
<1>3. RespApplies'
  BY InReq DEF SInv, RespApplies, Outside, Moves, Threads
<1>4. Entries'
  <2>1. \A i \in analyses : /\ nodeAnal[i] # r /\ nodeAnal[i] \in Req
                            /\ Path(nodeAnal[i]) \in Paths
                            /\ paths[Path(nodeAnal[i])] = nodeAnal[i]
    BY <1>1, NotEntry DEF SInv, Entries, Entry
  <2>2. \A i \in analyses : nodeAnal'[i] = nodeAnal[i] /\ Same(nodeAnal[i])
    BY <1>2, <2>1 DEF Outside, Same
  <2> QED BY <2>2, EntriesKept DEF SInv, Outside
<1>5. Children'
  BY <1>2 DEF SInv, Children, Quiet, Outside, Moves, Threads
<1>6. \A t \in Req : At(t)'
  BY <1>2, AtIdle
<1> QED BY <1>2, <1>3, <1>4, <1>5, <1>6 DEF SInv, Outside

LEMMA OutsideSettled ==
  ASSUME SInv, NEW r \in Req, NEW step, Outside(r, step), paths' = paths,
         pc[r] \notin {"insert", "unpath"}
  PROVE  Ints'
<1>1. Settled
  BY AllSettled DEF Outside, Early, Undone, Idle, Hand
<1>2. \A i \in analyses : nodeAnal[i] # r /\ nodeAnal[i] \in Req
  BY NotEntry DEF SInv, Entries, Entry, Outside, Early, Undone, Uncounting
<1> QED BY <1>1, <1>2, SettledKept DEF Outside, Path

LEMMA FreedFacts ==
  ASSUME TInv, NEW r \in Req, anal' = Freed(r)
  PROVE  \A a \in Req : a # r => anal'[a] = anal[a]
BY DEF TInv, TypeOK, Freed

LEMMA AddRefusedSerial ==
  ASSUME Now, NEW r \in Req, AddRefused(r) \/ AddNoId(r)
  PROVE  SInv'
<1>1. pc[r] \in {"add", "get id"} /\ Ended(r) /\ anal' = Freed(r) /\ SInv /\ TInv
  BY DEF AddRefused, AddNoId, Now
<1>2. Moves(r, "done")
  BY <1>1, GotoMoves, InReq
<1>3. Outside(r, "done") /\ paths' = paths
  BY <1>1, <1>2, FreedFacts
     DEF Outside, AddRefused, AddNoId, treap, procs, Early
<1>4. At(r)'
  BY <1>2, AtIdle, InReq DEF Moves, Idle
<1>5. Ints'
  BY <1>1, <1>3, OutsideSettled
<1> QED BY <1>1, <1>3, <1>4, <1>5, OutsideKept

LEMMA AddFindPrefixSerial ==
  ASSUME Now, NEW r \in Req, AddFindPrefix(r)
  PROVE  SInv'
<1>1. pc[r] = "add" /\ SInv /\ TInv
  BY DEF AddFindPrefix, Now
<1>2. Moves(r, "get id")
  BY GotoMoves, InReq DEF AddFindPrefix, Now
<1>3. Outside(r, "get id") /\ paths' = paths /\ anal' = anal
  BY <1>1, <1>2 DEF Outside, AddFindPrefix, treap, procs, Early
<1>4. /\ pc'[r] = "get id" /\ child' = child
      /\ \A p \in Ancestors[Path(r)] : paths[p] = Nil
  BY <1>2, <1>3 DEF Moves, Outside, AddFindPrefix, Covered
<1>5. At(r)
  BY <1>1 DEF SInv
<1>6. At(r)'
  BY <1>1, <1>3, <1>4, <1>5
     DEF At, AddAt, RemoveAt, Path, Early, Undone, Uncounting
<1>7. Ints'
  BY <1>1, <1>3, OutsideSettled
<1> QED BY <1>1, <1>3, <1>6, <1>7, OutsideKept

LEMMA AddGetIdSerial ==
  ASSUME Now, NEW r \in Req, AddGetId(r)
  PROVE  SInv'
<1>1. pc[r] = "get id" /\ SInv /\ TInv
  BY DEF AddGetId, Now
<1>2. PICK i \in GetChoices(available) : /\ id' = [id EXCEPT ![r] = i]
                                         /\ nodeAnal' = [nodeAnal EXCEPT ![i] = r]
  BY DEF AddGetId
<1>3. i \in Ids /\ i \notin analyses
  <2>1. i \in available
    BY DEF GetChoices, Inner
  <2> QED BY <2>1 DEF Now, UniqueIds, TInv, TypeOK
<1>4. /\ \A j \in analyses : nodeAnal'[j] = nodeAnal[j]
      /\ id'[r] = i /\ nodeAnal'[id'[r]] = r
      /\ \A a \in Req : a # r => id'[a] = id[a]
  BY <1>1, <1>2, <1>3, InReq DEF TInv, TypeOK
<1>5. Moves(r, "insert path")
  BY GotoMoves, InReq DEF AddGetId, Now
<1>6. Outside(r, "insert path") /\ paths' = paths /\ anal' = anal
  BY <1>1, <1>4, <1>5 DEF Outside, AddGetId, procs, Early
<1>7. Ints'
  BY <1>1, <1>6, OutsideSettled
<1>8. At(r)'
  <2>1. pc'[r] = "insert path" /\ child' = child
    BY <1>5, <1>6 DEF Moves, Outside
  <2>2. /\ AddAt(r) /\ Settled
    BY <1>1, AllSettled DEF SInv, At, Idle, Hand
  <2>3. \A p \in Paths : paths[p] # r
    BY <1>1, <2>2, NotEntry, InReq DEF Settled, SInv, Uncounting
  <2>4. /\ anal[r].live /\ Path(r) \in Paths /\ child[r] = NoChild
        /\ ~anal[r].suspended
        /\ \A p \in Ancestors[Path(r)] : paths[p] \in {Nil, r}
    BY <1>1, <2>2 DEF AddAt, Early
  <2>5. paths[Path(r)] = Nil
    BY <2>3, <2>4
  <2> QED BY <1>4, <1>6, <2>1, <2>4, <2>5
          DEF At, AddAt, RemoveAt, Path, Early, Undone, Uncounting
<1> QED BY <1>1, <1>6, <1>7, <1>8, OutsideKept

LEMMA AddInsertPathSerial ==
  ASSUME Now, NEW r \in Req, AddInsertPath(r)
  PROVE  SInv'
<1>1. pc[r] = "insert path" /\ SInv /\ TInv
  BY DEF AddInsertPath, Now
<1>2. AddAt(r) /\ anal' = anal /\ id' = id /\ nodeAnal' = nodeAnal
  BY <1>1 DEF SInv, At, AddInsertPath, treap
<1>3. /\ Path(r) \in Paths /\ paths[Path(r)] = Nil
      /\ nodeAnal[id[r]] = r /\ anal[r].live
      /\ child[r] = NoChild /\ ~anal[r].suspended
      /\ \A p \in Ancestors[Path(r)] : paths[p] \in {Nil, r}
  BY <1>1, <1>2 DEF AddAt, Early
<1>4. /\ paths'[Path(r)] = r
      /\ \A p \in Paths : p # Path(r) => paths'[p] = paths[p]
  BY <1>1, <1>3 DEF AddInsertPath, TInv, TypeOK
<1>5. Moves(r, "insert")
  BY GotoMoves, InReq DEF AddInsertPath, Now
<1>6. Outside(r, "insert")
  BY <1>1, <1>3, <1>4, <1>5, InReq
     DEF Outside, AddInsertPath, treap, procs, Early
<1>7. pc'[r] = "insert" /\ child' = child
  BY <1>5, <1>6 DEF Moves, Outside
<1>8. Ints'
  <2>1. Settled
    BY <1>1, AllSettled DEF Idle, Hand
  <2>2. Path(r)' = Path(r) /\ InHand(r)'
    BY <1>2, <1>7 DEF Path, InHand
  <2>3. analyses' = analyses
    BY <1>6 DEF Outside
  <2> QED BY <1>2, <1>4, <2>1, <2>2, <2>3 DEF Settled, Ints, InTreap, Path
<1>9. At(r)'
  <2>1. \A p \in Ancestors[Path(r)] : paths'[p] \in {Nil, r}
    BY <1>3, <1>4
  <2> QED BY <1>2, <1>3, <1>4, <1>7, <2>1
          DEF At, AddAt, RemoveAt, Path, Early, Undone, Uncounting
<1> QED BY <1>1, <1>6, <1>8, <1>9, OutsideKept

LEMMA AddNoMemorySerial ==
  ASSUME Now, NEW r \in Req, AddNoMemory(r)
  PROVE  SInv'
<1>1. pc[r] = "insert path" /\ SInv /\ TInv
  BY DEF AddNoMemory, Now
<1>2. Moves(r, "return id")
  BY GotoMoves, InReq DEF AddNoMemory, Now
<1>3. Outside(r, "return id") /\ paths' = paths /\ anal' = anal
  BY <1>1, <1>2 DEF Outside, AddNoMemory, treap, procs, Early
<1>4. AddAt(r) /\ pc'[r] = "return id"
  BY <1>1, <1>2 DEF SInv, At, Moves
<1>5. At(r)'
  BY <1>1, <1>3, <1>4
     DEF At, AddAt, RemoveAt, Path, Early, Undone, Uncounting
<1>6. Ints'
  BY <1>1, <1>3, OutsideSettled
<1> QED BY <1>1, <1>3, <1>5, <1>6, OutsideKept

LEMMA RollbackPathSerial ==
  ASSUME Now, NEW r \in Req, RollbackPath(r)
  PROVE  SInv'
<1>1. pc[r] = "unpath" /\ SInv /\ TInv
  BY DEF RollbackPath, Now
<1>2. AddAt(r) /\ anal' = anal /\ id' = id /\ nodeAnal' = nodeAnal
  BY <1>1 DEF SInv, At, RollbackPath, treap
<1>3. Path(r) \in Paths /\ paths[Path(r)] = r /\ anal[r].live
  BY <1>1, <1>2 DEF AddAt, Undone
<1>4. /\ paths'[Path(r)] = Nil
      /\ \A p \in Paths : p # Path(r) => paths'[p] = paths[p]
  BY <1>1, <1>3 DEF RollbackPath, TInv, TypeOK
<1>5. Moves(r, "return id")
  BY GotoMoves, InReq DEF RollbackPath, Now
<1>6. Outside(r, "return id")
  BY <1>1, <1>3, <1>4, <1>5, InReq
     DEF Outside, RollbackPath, treap, procs, Undone
<1>7. Ints'
  <2>1. \A t \in Req : t # r => pc[t] \in Idle
    BY <1>1, OthersIdle DEF Idle
  <2>2. \A p \in Paths : paths'[p] # Nil =>
          Path(paths[p]) = p /\ InTreap(paths[p]) /\ paths'[p] = paths[p]
    BY <1>1, <1>3, <1>4, <2>1 DEF SInv, Ints, InHand, Idle
  <2>3. analyses' = analyses
    BY <1>6 DEF Outside
  <2> QED BY <1>2, <2>2, <2>3 DEF Ints, InTreap, Path
<1>8. At(r)'
  <2>1. pc'[r] = "return id"
    BY <1>5 DEF Moves
  <2> QED BY <1>2, <1>3, <2>1
          DEF At, AddAt, RemoveAt, Path, Early, Undone, Uncounting
<1> QED BY <1>1, <1>6, <1>7, <1>8, OutsideKept

LEMMA AddReturnIdSerial ==
  ASSUME Now, NEW r \in Req, AddReturnId(r)
  PROVE  SInv'
<1>1. pc[r] = "return id" /\ Ended(r) /\ anal' = Freed(r) /\ SInv /\ TInv
  BY DEF AddReturnId, Now
<1>2. Moves(r, "done")
  BY <1>1, GotoMoves, InReq
<1>3. id[r] \notin analyses
  BY <1>1, InReq DEF Now, UniqueIds, HeldIds, Holders, Holding
<1>4. \A i \in analyses : nodeAnal'[i] = nodeAnal[i]
  BY <1>1, <1>3 DEF AddReturnId, TInv, TypeOK
<1>5. Outside(r, "done") /\ paths' = paths
  BY <1>1, <1>2, <1>4, FreedFacts DEF Outside, AddReturnId, procs, Undone
<1>6. At(r)'
  BY <1>2, AtIdle, InReq DEF Moves, Idle
<1>7. Ints'
  BY <1>1, <1>5, OutsideSettled
<1> QED BY <1>1, <1>5, <1>6, <1>7, OutsideKept
-----------------------------------------------------------------------------
(* threads_add while its node is in the treap.                             *)

LEMMA AddInsertNodeSerial ==
  ASSUME Now, NEW r \in Req, AddInsertNode(r)
  PROVE  SInv'
<1>1. pc[r] = "insert" /\ SInv /\ TInv /\ r \in Threads
  BY InReq DEF AddInsertNode, Now
<1>2. /\ analyses' = analyses \cup {id[r]}
      /\ UNCHANGED <<id, nodeAnal, anal, paths, child, inbox, crashed, cnt, copy>>
  BY DEF AddInsertNode, procs
<1>3. Moves(r, "fork") /\ pc'[r] = "fork"
  BY GotoMoves, InReq DEF AddInsertNode, Now, Moves
<1>4. /\ anal[r].live /\ Path(r) \in Paths /\ child[r] = NoChild
      /\ ~anal[r].suspended /\ nodeAnal[id[r]] = r /\ paths[Path(r)] = r
  BY <1>1 DEF SInv, At, AddAt, Early
<1>5. Alone' /\ \A t \in Req : t # r => pc'[t] \in Idle /\ pc'[t] = pc[t]
  BY <1>1, <1>3, AloneKept DEF Idle
<1>6. RespApplies'
  BY <1>1, <1>2, <1>3, InReq DEF SInv, RespApplies, Moves, Threads
<1>7. Entry(r)' /\ Agrees(r)'
  BY <1>2, <1>3, <1>4
     DEF Entry, Agrees, Path, Uncounting, NoChild, WillBeSuspended
<1>8. Entries'
  <2>1. \A i \in analyses : nodeAnal[i] \in Req /\ nodeAnal[i] # r
    BY <1>1, NotEntry DEF SInv, Entries, Entry, Uncounting
  <2>2. \A i \in analyses : Same(nodeAnal[i])
    BY <1>2, <1>5, <2>1 DEF Same
  <2>3. \A i \in analyses : /\ Entry(nodeAnal[i])' /\ Agrees(nodeAnal[i])'
                            /\ id[nodeAnal[i]] = i
    BY <1>1, <1>2, <2>2, SameEntry DEF SInv, Entries
  <2> QED BY <1>2, <1>4, <1>7, <2>3 DEF Entries
<1>9. Ints'
  <2>1. \A t \in Req : t # r => pc[t] \in Idle
    BY <1>1, OthersIdle DEF Idle
  <2>2. \A p \in Paths : paths[p] # Nil =>
          Path(paths[p]) = p /\ (InTreap(paths[p]) \/ paths[p] = r)
    BY <1>1, <2>1 DEF SInv, Ints, InHand, Idle
  <2> QED BY <1>2, <1>4, <2>2 DEF Ints, InTreap, Path
<1>10. Children'
  BY <1>1, <1>2, <1>3, <1>5 DEF SInv, Children, Quiet
<1>11. At(r)'
  BY <1>2, <1>3, <1>4
     DEF At, AddAt, RemoveAt, Path, Early, Undone, Uncounting, InTreap
<1>12. \A t \in Req : At(t)'
  BY <1>5, <1>11, AtIdle
<1> QED BY <1>1, <1>2, <1>5, <1>6, <1>8, <1>9, <1>10, <1>12 DEF SInv

\* A step of an add whose node stays in the treap.
Inside(r, step) ==
  /\ pc[r] \in Uncounting /\ step \in Uncounting \cup {"done"}
  /\ Moves(r, step)
  /\ UNCHANGED <<id, analyses, nodeAnal, paths, inbox, crashed>>
  /\ \A a \in Req : a # r => anal'[a] = anal[a] /\ child'[a] = child[a]
  /\ Path(r)' = Path(r) /\ anal'[r].live

LEMMA InsideKept ==
  ASSUME SInv, NEW r \in Req, NEW step, Inside(r, step), Quiet(r)', Agrees(r)',
         At(r)',
         step = "done" => /\ anal'[r].pid = r
                          /\ child'[r].state \notin {"none", "forked"}
  PROVE  SInv'
<1>1. pc[r] \notin Idle /\ pc'[r] = step /\ At(r)
  BY DEF Inside, Uncounting, Idle, SInv, Moves, Threads
<1>2. InTreap(r) /\ Path(r) \in Paths
  BY <1>1 DEF At, AddAt, Inside
<1>3. Alone' /\ \A t \in Req : t # r => pc'[t] \in Idle /\ pc'[t] = pc[t]
  BY <1>1, AloneKept DEF Inside
<1>4. RespApplies'
  BY InReq DEF SInv, RespApplies, Inside, Moves, Threads
<1>5. Entry(r)'
  <2>1. Entry(r)
    BY <1>2 DEF SInv, Entries, InTreap
  <2> QED BY <1>1, <2>1 DEF Entry, Inside, Path
<1>6. Entries'
  <2>1. \A i \in analyses : /\ Entry(nodeAnal[i]) /\ Agrees(nodeAnal[i])
                            /\ id[nodeAnal[i]] = i
    BY DEF SInv, Entries
  <2>2. ASSUME NEW i \in analyses
        PROVE  Entry(nodeAnal[i])' /\ Agrees(nodeAnal[i])'
    <3> DEFINE a == nodeAnal[i]
    <3>1. CASE a = r
      BY <1>5, <3>1 DEF Inside, Entry, Agrees, Path
    <3>2. CASE a # r
      <4>1. Entry(a) /\ Agrees(a) /\ nodeAnal'[i] = a
        BY <2>1 DEF Inside
      <4>2. Same(a)
        BY <1>3, <3>2, <4>1 DEF Same, Inside, Entry
      <4> QED BY <4>1, <4>2, SameEntry
    <3> QED BY <3>1, <3>2
  <2> QED BY <2>1, <2>2 DEF Entries, Inside
<1>7. Ints'
  <2>1. Settled
    BY <1>1, AllSettled DEF Inside, Uncounting, Hand
  <2>2. \A i \in analyses : nodeAnal[i] \in Req
    BY DEF SInv, Entries, Entry
  <2>3. \A a \in Req : Path(a)' = Path(a)
    BY DEF Inside, Path
  <2> QED BY <2>1, <2>2, <2>3, SettledKept DEF Inside
<1>8. Children'
  <2>1. \A a \in Req : a # r => Quiet(a)' /\ (pc'[a] = "idle" => child'[a] = NoChild)
    BY <1>3 DEF SInv, Children, Quiet, Inside
  <2> QED BY <1>1, <2>1 DEF Children, Inside, Uncounting
<1>9. \A t \in Req : At(t)'
  BY <1>3, AtIdle
<1> QED BY <1>3, <1>4, <1>6, <1>7, <1>8, <1>9 DEF SInv, Inside

\* What is known of an add inside.
LEMMA InsideKnows ==
  ASSUME SInv, NEW r \in Req, pc[r] \in Uncounting
  PROVE  /\ anal[r].live /\ InTreap(r) /\ Entry(r) /\ Agrees(r) /\ Quiet(r)
         /\ AddAt(r)
<1>1. AddAt(r) /\ Quiet(r)
  BY DEF SInv, Children, At
<1>2. anal[r].live /\ InTreap(r)
  BY <1>1 DEF AddAt
<1>3. Entry(r) /\ Agrees(r)
  BY <1>2 DEF SInv, Entries, InTreap
<1> QED BY <1>1, <1>2, <1>3

LEMMA ForkRequestSerial ==
  ASSUME Now, NEW r \in Req, ForkRequest(r)
  PROVE  SInv'
<1>1. pc[r] = "fork" /\ SInv /\ TInv
  BY DEF ForkRequest, Now
<1>2. PICK i \in IntOf(r) :
        child' = [child EXCEPT ![r] = [NoChild EXCEPT !.state = "forked",
                                                      !.id = i]]
  BY DEF ForkRequest
<1>3. /\ child'[r] = [NoChild EXCEPT !.state = "forked", !.id = i]
      /\ \A a \in Req : a # r => child'[a] = child[a]
  BY <1>1, <1>2 DEF TInv, TypeOK
<1>4. /\ anal' = anal
      /\ UNCHANGED <<id, analyses, nodeAnal, paths, inbox, crashed>>
  BY DEF ForkRequest, treap
<1>5. Moves(r, "read pid") /\ pc'[r] = "read pid"
  BY GotoMoves, InReq DEF ForkRequest, Now, Moves
<1>6. pc[r] \in Uncounting
  BY <1>1 DEF Uncounting
<1>7. anal[r].live /\ InTreap(r) /\ Entry(r) /\ AddAt(r)
  BY <1>1, <1>6, InsideKnows
<1>8. Inside(r, "read pid")
  BY <1>3, <1>4, <1>5, <1>6, <1>7 DEF Inside, Path, Uncounting
<1>9. /\ child'[r].state = "forked" /\ ~child'[r].suspended
      /\ child'[r].pend = {}
  BY <1>3 DEF NoChild
<1>10. Quiet(r)' /\ Agrees(r)'
  BY <1>1, <1>4, <1>7, <1>9 DEF Quiet, Agrees, WillBeSuspended, AddAt, Early
<1>11. At(r)'
  BY <1>4, <1>5, <1>7, <1>9
     DEF At, AddAt, RemoveAt, Entry, Path, Early, Undone, Uncounting, InTreap
<1> QED BY <1>1, <1>8, <1>10, <1>11, InsideKept

LEMMA ForkRequestFailsSerial ==
  ASSUME Now, NEW r \in Req, ForkRequestFails(r)
  PROVE  SInv'
<1>1. pc[r] = "fork" /\ pc[r] \in Uncounting /\ SInv /\ TInv
  BY DEF ForkRequestFails, Now, Uncounting
<1>2. UNCHANGED <<id, analyses, nodeAnal, paths, inbox, crashed, anal, child>>
  BY DEF ForkRequestFails, treap, procs
<1>3. Moves(r, "rollback") /\ pc'[r] = "rollback"
  BY GotoMoves, InReq DEF ForkRequestFails, Now, Moves
<1>4. anal[r].live /\ InTreap(r) /\ Entry(r) /\ AddAt(r) /\ Quiet(r) /\ Agrees(r)
  BY <1>1, InsideKnows
<1>5. Inside(r, "rollback")
  BY <1>1, <1>2, <1>3, <1>4 DEF Inside, Path, Uncounting
<1>6. Quiet(r)' /\ Agrees(r)'
  BY <1>2, <1>4 DEF Quiet, Agrees
<1>7. At(r)'
  BY <1>2, <1>3, <1>4
     DEF At, AddAt, RemoveAt, Entry, Path, Early, Undone, Uncounting, InTreap
<1> QED BY <1>1, <1>5, <1>6, <1>7, InsideKept

LEMMA AddReadPidSerial ==
  ASSUME Now, NEW r \in Req, AddReadPid(r)
  PROVE  SInv'
<1>1. /\ pc[r] = "read pid" /\ pc[r] \in Uncounting /\ child[r].state # "forked"
      /\ SInv /\ TInv
  BY DEF AddReadPid, Now, Uncounting
<1>2. /\ anal'[r] = [anal[r] EXCEPT !.pid = r]
      /\ \A a \in Req : a # r => anal'[a] = anal[a]
  BY <1>1 DEF AddReadPid, TInv, TypeOK
<1>3. UNCHANGED <<id, analyses, nodeAnal, paths, inbox, crashed, child>>
  BY DEF AddReadPid, treap, procs
<1>4. Moves(r, "finish") /\ pc'[r] = "finish"
  BY GotoMoves, InReq DEF AddReadPid, Now, Moves
<1>5. anal[r].live /\ InTreap(r) /\ Entry(r) /\ AddAt(r) /\ Quiet(r) /\ Agrees(r)
  BY <1>1, InsideKnows
<1>6. anal[r] \in Anal
  BY <1>1 DEF TInv, TypeOK
<1>7. /\ anal'[r].pid = r /\ anal'[r].live /\ anal'[r].path = anal[r].path
      /\ anal'[r].suspended = anal[r].suspended
  BY <1>2, <1>5, <1>6 DEF Anal
<1>8. Inside(r, "finish")
  BY <1>1, <1>2, <1>3, <1>4, <1>7 DEF Inside, Path, Uncounting
<1>9. Quiet(r)' /\ Agrees(r)'
  BY <1>3, <1>5, <1>7 DEF Quiet, Agrees
<1>10. At(r)'
  BY <1>1, <1>3, <1>4, <1>5, <1>7
     DEF At, AddAt, RemoveAt, Entry, Path, Early, Undone, Uncounting, InTreap
<1> QED BY <1>1, <1>8, <1>9, <1>10, InsideKept

LEMMA AddFinishSerial ==
  ASSUME Now, NEW r \in Req, AddFinish(r)
  PROVE  SInv'
<1>1. pc[r] = "finish" /\ pc[r] \in Uncounting /\ SInv /\ TInv
  BY DEF AddFinish, Now, Uncounting
<1>2. /\ anal'[r] = [anal[r] EXCEPT !.status = "in progress"]
      /\ \A a \in Req : a # r => anal'[a] = anal[a]
  BY <1>1 DEF AddFinish, TInv, TypeOK
<1>3. UNCHANGED <<id, analyses, nodeAnal, paths, inbox, crashed, child>>
  BY DEF AddFinish, procs
<1>4. Moves(r, "done") /\ pc'[r] = "done"
  BY GotoMoves, InReq DEF AddFinish, Now, Moves
<1>5. anal[r].live /\ InTreap(r) /\ Entry(r) /\ AddAt(r) /\ Quiet(r) /\ Agrees(r)
  BY <1>1, InsideKnows
<1>6. anal[r] \in Anal
  BY <1>1 DEF TInv, TypeOK
<1>7. /\ anal'[r].pid = anal[r].pid /\ anal'[r].live
      /\ anal'[r].path = anal[r].path
      /\ anal'[r].suspended = anal[r].suspended
  BY <1>2, <1>5, <1>6 DEF Anal
<1>8. Inside(r, "done")
  BY <1>1, <1>2, <1>3, <1>4, <1>7 DEF Inside, Path
<1>9. Quiet(r)' /\ Agrees(r)'
  BY <1>3, <1>5, <1>7 DEF Quiet, Agrees
<1>10. At(r)'
  BY <1>4, AtIdle DEF Idle
<1>11. anal'[r].pid = r /\ child'[r].state \notin {"none", "forked"}
  BY <1>1, <1>3, <1>5, <1>7 DEF AddAt
<1> QED BY <1>1, <1>8, <1>9, <1>10, <1>11, InsideKept

LEMMA RollbackNodeSerial ==
  ASSUME Now, NEW r \in Req, RollbackNode(r)
  PROVE  SInv'
<1>1. pc[r] = "rollback" /\ pc[r] \in Uncounting /\ SInv /\ TInv
  BY DEF RollbackNode, Now, Uncounting
<1>2. /\ analyses' = analyses \ {id[r]}
      /\ UNCHANGED <<id, nodeAnal, anal, paths, child, inbox, crashed>>
  BY DEF RollbackNode, procs
<1>3. Moves(r, "unpath") /\ pc'[r] = "unpath"
  BY GotoMoves, InReq DEF RollbackNode, Now, Moves
<1>4. anal[r].live /\ InTreap(r) /\ Entry(r)
  BY <1>1, InsideKnows
<1>5. Alone' /\ \A t \in Req : t # r => pc'[t] \in Idle /\ pc'[t] = pc[t]
  BY <1>1, <1>3, AloneKept DEF Idle
<1>6. RespApplies'
  BY <1>1, <1>2, <1>3, InReq DEF SInv, RespApplies, Moves, Threads
<1>7. Entries'
  <2>1. \A i \in analyses' : nodeAnal[i] \in Req /\ nodeAnal[i] # r
    BY <1>1, <1>2, <1>4 DEF SInv, Entries, Entry, InTreap
  <2>2. \A i \in analyses' : nodeAnal'[i] = nodeAnal[i] /\ Same(nodeAnal[i])
    BY <1>2, <1>5, <2>1 DEF Same
  <2> QED BY <1>1, <1>2, <2>2, EntriesKept DEF SInv
<1>8. Ints'
  <2>1. Settled
    BY <1>1, AllSettled DEF Idle, Hand
  <2>2. InHand(r)'
    BY <1>3 DEF InHand
  <2>3. \A a : InTreap(a) /\ a # r => InTreap(a)'
    BY <1>2, <1>4 DEF InTreap
  <2> QED BY <1>2, <2>1, <2>2, <2>3 DEF Settled, Ints, Path
<1>9. Children'
  BY <1>1, <1>2, <1>3, <1>5 DEF SInv, Children, Quiet
<1>10. At(r)'
  BY <1>2, <1>3, <1>4
     DEF At, AddAt, RemoveAt, Entry, Path, Early, Undone, Uncounting
<1>11. \A t \in Req : At(t)'
  BY <1>5, <1>10, AtIdle
<1> QED BY <1>1, <1>2, <1>5, <1>6, <1>7, <1>8, <1>9, <1>11 DEF SInv

\* The steps of an add keep what requests served in turn rely on.
LEMMA AddSerial ==
  ASSUME Now, NEW r \in Req, Add(r)
  PROVE  SInv'
BY AddRefusedSerial, AddFindPrefixSerial, AddGetIdSerial, AddInsertPathSerial,
   AddNoMemorySerial, AddInsertNodeSerial, ForkRequestSerial,
   ForkRequestFailsSerial, AddReadPidSerial, AddFinishSerial,
   RollbackNodeSerial, RollbackPathSerial, AddReturnIdSerial DEF Add
-----------------------------------------------------------------------------
(* Requests about an analysis that is there.                               *)

Adding == Early \cup Uncounting \cup Undone

\* A step of a request that is no add, and that inserts nothing.
Beside(r, step) ==
  /\ pc[r] \notin Idle \cup Adding /\ step # "idle"
  /\ Moves(r, step)
  /\ UNCHANGED <<id, inbox, crashed>>
  /\ analyses' \subseteq analyses
  /\ \A i \in analyses' : nodeAnal'[i] = nodeAnal[i]

LEMMA BesideKept ==
  ASSUME SInv, NEW r \in Req, NEW step, Beside(r, step),
         Entries', Ints', At(r)', \A a \in Req : Quiet(a)' ,
         \A a \in Req : pc[a] = "idle" => child'[a] = child[a]
  PROVE  SInv'
<1>1. Alone' /\ \A t \in Req : t # r => pc'[t] \in Idle /\ pc'[t] = pc[t]
  BY AloneKept DEF Beside
<1>2. RespApplies'
  BY InReq DEF SInv, RespApplies, Beside, Moves, Threads
<1>3. Children'
  BY <1>1, InReq DEF SInv, Children, Beside, Moves
<1>4. \A t \in Req : At(t)'
  BY <1>1, AtIdle
<1> QED BY <1>1, <1>2, <1>3, <1>4 DEF SInv, Beside

LEMMA BesideOthers ==
  ASSUME SInv, NEW r \in Req, NEW step, Beside(r, step)
  PROVE  /\ \A i \in analyses : nodeAnal[i] # r
         /\ \A a : Entry(a) => a \in Req /\ a # r /\ pc[a] = "done" /\ pc'[a] = pc[a]
         /\ \A a \in Req : Quiet(a)
<1>1. pc[r] \notin Idle /\ pc[r] \notin Uncounting \cup {"done"}
  BY DEF Beside, Idle, Adding
<1>2. \A i \in analyses : nodeAnal[i] # r
  BY <1>1, NotEntry DEF SInv
<1>3. \A a : Entry(a) => a \in Req /\ a # r
  BY <1>1 DEF Entry
<1>4. \A a : Entry(a) => pc[a] = "done" /\ pc'[a] = pc[a]
  BY <1>1, <1>3, EntryDone, InReq DEF Beside, Moves
<1> QED BY <1>2, <1>3, <1>4 DEF SInv, Children

\* The step touches no analysis at all.
LEMMA BesideStill ==
  ASSUME SInv, NEW r \in Req, NEW step, Beside(r, step), pc[r] \notin Hand,
         UNCHANGED <<anal, child, paths>>, analyses' = analyses, At(r)'
  PROVE  SInv'
<1>1. Entries'
  <2>1. \A i \in analyses : pc'[nodeAnal[i]] = pc[nodeAnal[i]]
    BY BesideOthers DEF SInv, Entries
  <2>2. \A i \in analyses' : nodeAnal'[i] = nodeAnal[i] /\ Same(nodeAnal[i])
    BY <2>1 DEF Beside, Same
  <2> QED BY <2>2, EntriesKept DEF SInv
<1>2. Ints'
  <2>1. Settled
    BY AllSettled DEF Beside
  <2> QED BY <2>1, SettledKept DEF Beside, Path
<1>3. \A a \in Req : Quiet(a)'
  BY BesideOthers DEF Quiet
<1> QED BY <1>1, <1>2, <1>3, BesideKept

LEMMA ReadSerial ==
  ASSUME Now, NEW r \in Req, ReadCopy(r) \/ Read(r)
  PROVE  SInv'
<1>1. SInv /\ TInv /\ r \in Threads
  BY InReq DEF Now
<1>2. CASE ReadCopy(r)
  <2>1. pc[r] \in {"status", "list"} /\ Moves(r, "read") /\ pc'[r] = "read"
    BY <1>1, <1>2, GotoMoves DEF ReadCopy, Moves
  <2>2. copy'[r].cnt = cnt /\ cnt' = cnt
    BY <1>1, <1>2 DEF ReadCopy, treap, TInv, TypeOK
  <2>3. At(r)'
    BY <2>1, <2>2 DEF At, AddAt, RemoveAt, Early, Undone, Uncounting
  <2>4. Beside(r, "read") /\ pc[r] \notin Hand
    BY <1>2, <2>1
       DEF Beside, ReadCopy, treap, procs, Idle, Adding, Early, Undone,
           Uncounting, Hand
  <2> QED BY <1>1, <1>2, <2>3, <2>4, BesideStill DEF ReadCopy, treap, procs
<1>3. CASE Read(r)
  <2>1. pc[r] = "read" /\ Moves(r, "done") /\ pc'[r] = "done"
    BY <1>1, <1>3, GotoMoves DEF Read, Moves
  <2>2. At(r)'
    BY <2>1, AtIdle DEF Idle
  <2>3. Beside(r, "done") /\ pc[r] \notin Hand
    BY <1>3, <2>1
       DEF Beside, Read, treap, procs, Idle, Adding, Early, Undone,
           Uncounting, Hand
  <2> QED BY <1>1, <1>3, <2>2, <2>3, BesideStill DEF Read, treap, procs
<1> QED BY <1>2, <1>3

\* A signal for an analysis reaches its process alone.
LEMMA SignalledFacts ==
  ASSUME TInv, NEW a \in Req, anal[a].pid = a, NEW sig \in Signals,
         child' = Signalled(a, sig)
  PROVE  /\ \A b \in Req : b # a => child'[b] = child[b]
         /\ child'[a].state = child[a].state
         /\ child'[a].suspended = child[a].suspended
         /\ Alive(a) => child'[a].pend = Pending(child[a].pend, sig)
<1>1. a # OwnGroup
  BY ThreadsAssumption
<1>2. \A b \in Req : b # a => child'[b] = child[b]
  BY <1>1 DEF Signalled
<1>3. child'[a] = IF Alive(a)
                  THEN [child[a] EXCEPT !.pend = Pending(child[a].pend, sig)]
                  ELSE child[a]
  BY DEF Signalled
<1>4. child[a] \in Proc
  BY DEF TInv, TypeOK
<1>5. [child[a] EXCEPT !.pend = Pending(child[a].pend, sig)].state = child[a].state
  BY <1>4 DEF Proc
<1>6. [child[a] EXCEPT !.pend = Pending(child[a].pend, sig)].suspended
        = child[a].suspended
  BY <1>4 DEF Proc
<1>7. [child[a] EXCEPT !.pend = Pending(child[a].pend, sig)].pend
        = Pending(child[a].pend, sig)
  BY <1>4 DEF Proc
<1> QED BY <1>2, <1>3, <1>5, <1>6, <1>7

\* threads_suspend and threads_resume, when they find the analysis.
LEMMA FlagSerial ==
  ASSUME SInv, TInv, NEW r \in Req, Beside(r, "done"), pc[r] \notin Hand,
         id[r] \in analyses, NEW to \in BOOLEAN, NEW sig \in Signals,
         sig = IF to THEN "TSTP" ELSE "CONT",
         child' = Signalled(AnalOf(r), sig),
         anal' = [anal EXCEPT ![AnalOf(r)].suspended = to],
         UNCHANGED <<analyses, nodeAnal, paths>>
  PROVE  SInv'
<1>0. PICK a \in Req : a = AnalOf(r)
  BY DEF SInv, Entries, Entry, AnalOf
<1>1. Entry(a) /\ Agrees(a) /\ id[a] = id[r] /\ a = nodeAnal[id[r]]
  BY <1>0 DEF SInv, Entries, AnalOf
<1>2. /\ a \in Req /\ a # r /\ pc[a] = "done" /\ pc'[a] = "done"
      /\ anal[a].pid = a /\ child[a].state \notin {"none", "forked"}
  BY <1>1, BesideOthers DEF Entry
<1>3. /\ \A b \in Req : b # a => child'[b] = child[b]
      /\ child'[a].state = child[a].state
      /\ child'[a].suspended = child[a].suspended
      /\ Alive(a) => child'[a].pend = Pending(child[a].pend, sig)
  BY <1>0, <1>2, SignalledFacts
<1>4. /\ anal[a] \in Anal /\ child[a] \in Proc
      /\ anal'[a] = [anal[a] EXCEPT !.suspended = to]
      /\ \A b \in Req : b # a => anal'[b] = anal[b]
  BY <1>0, <1>2 DEF TInv, TypeOK
<1>5. /\ anal'[a].suspended = to /\ anal'[a].live = anal[a].live
      /\ anal'[a].path = anal[a].path /\ anal'[a].pid = anal[a].pid
  BY <1>4 DEF Anal
<1>6. Entry(a)'
  BY <1>1, <1>2, <1>3, <1>5 DEF Entry, Path
<1>7. Agrees(a)'
  <2>1. CASE child[a].state = "gone"
    BY <1>3, <2>1 DEF Agrees
  <2>2. CASE child[a].state # "gone"
    <3>1. Alive(a)
      BY <1>2, <1>4, <2>2 DEF Alive, Proc
    <3>2. child'[a].pend = Pending(child[a].pend, sig)
      BY <1>3, <3>1
    <3>3. CASE to
      BY <1>5, <3>2, <3>3 DEF Pending, Agrees, WillBeSuspended
    <3>4. CASE ~to
      BY <1>5, <3>2, <3>4 DEF Pending, Agrees, WillBeSuspended
    <3> QED BY <3>3, <3>4
  <2> QED BY <2>1, <2>2
<1>8. Entries'
  <2> SUFFICES ASSUME NEW i \in analyses
               PROVE  /\ Entry(nodeAnal[i])' /\ Agrees(nodeAnal[i])'
                      /\ id'[nodeAnal'[i]] = i
    BY DEF Entries
  <2> DEFINE b == nodeAnal[i]
  <2>1. Entry(b) /\ Agrees(b) /\ id[b] = i /\ nodeAnal'[i] = b /\ id'[b] = i
    BY DEF SInv, Entries, Beside
  <2>2. CASE b = a
    BY <1>6, <1>7, <2>1, <2>2 DEF Entry, Agrees, Path
  <2>3. CASE b # a
    <3>1. Same(b)
      BY <1>3, <1>4, <2>1, <2>3, BesideOthers DEF Same, Beside
    <3> QED BY <2>1, <3>1, SameEntry
  <2> QED BY <2>1, <2>2, <2>3
<1>9. Ints'
  <2>1. Settled
    BY AllSettled DEF Beside
  <2>2. \A b \in Req : Path(b)' = Path(b)
    BY <1>4, <1>5 DEF Path
  <2>3. \A i \in analyses : nodeAnal[i] \in Req
    BY DEF SInv, Entries, Entry
  <2> QED BY <2>1, <2>2, <2>3, SettledKept DEF Beside
<1>10. \A b \in Req : Quiet(b)'
  BY <1>2, <1>3, BesideOthers DEF Quiet
<1>11. \A b \in Req : pc[b] = "idle" => child'[b] = child[b]
  BY <1>2, <1>3
<1>12. At(r)'
  BY AtIdle, InReq DEF Beside, Moves, Idle
<1> QED BY <1>8, <1>9, <1>10, <1>11, <1>12, BesideKept

LEMMA SuspendSerial ==
  ASSUME Now, NEW r \in Req, Suspend(r) \/ Resume(r)
  PROVE  SInv'
<1>1. SInv /\ TInv /\ r \in Threads
  BY InReq DEF Now
<1>2. /\ pc[r] \in {"suspend", "resume"} /\ Ended(r)
      /\ UNCHANGED <<id, treap, paths, inbox, crashed>>
  BY DEF Suspend, Resume, SetSuspended
<1>3. Beside(r, "done") /\ pc[r] \notin Hand
  BY <1>1, <1>2, GotoMoves
     DEF Beside, treap, Idle, Adding, Early, Undone, Uncounting, Hand
<1>4. At(r)'
  BY <1>1, <1>3, AtIdle DEF Beside, Moves, Idle
<1>5. CASE UNCHANGED <<child, anal>>
  BY <1>1, <1>2, <1>3, <1>4, <1>5, BesideStill DEF treap
<1>6. CASE ~UNCHANGED <<child, anal>>
  <2>1. CASE Suspend(r)
    BY <1>1, <1>2, <1>3, <1>6, <2>1, FlagSerial
       DEF Suspend, SetSuspended, treap, Signals
  <2>2. CASE Resume(r)
    BY <1>1, <1>2, <1>3, <1>6, <2>2, FlagSerial
       DEF Resume, SetSuspended, treap, Signals
  <2> QED BY <2>1, <2>2
<1> QED BY <1>5, <1>6
-----------------------------------------------------------------------------
(* threads_remove by a request thread.                                     *)

LEMMA RemoveUnknownSerial ==
  ASSUME Now, NEW r \in Req, RemoveUnknown(r)
  PROVE  SInv'
<1>1. SInv /\ TInv /\ r \in Threads /\ pc[r] = "remove"
  BY InReq DEF Now, RemoveUnknown
<1>2. Ended(r) /\ UNCHANGED <<id, treap, anal, child, paths, inbox, crashed>>
  BY DEF RemoveUnknown, procs
<1>3. Beside(r, "done") /\ pc[r] \notin Hand
  BY <1>1, <1>2, GotoMoves
     DEF Beside, treap, Idle, Adding, Early, Undone, Uncounting, Hand
<1>4. At(r)'
  BY <1>1, <1>3, AtIdle DEF Beside, Moves, Idle
<1> QED BY <1>1, <1>2, <1>3, <1>4, BesideStill DEF treap

LEMMA RemoveExtractSerial ==
  ASSUME Now, NEW r \in Req, RemoveExtract(r)
  PROVE  SInv'
<1>1. SInv /\ TInv /\ r \in Threads /\ pc[r] = "remove" /\ id[r] \in analyses
  BY InReq DEF Now, RemoveExtract
<1>2. /\ analyses' = analyses \ {id[r]}
      /\ UNCHANGED <<id, nodeAnal, anal, child, paths, inbox, crashed>>
  BY DEF RemoveExtract, procs
<1>3. Moves(r, "kill") /\ pc'[r] = "kill"
  BY <1>1, GotoMoves DEF RemoveExtract, Moves
<1>4. Beside(r, "kill")
  BY <1>1, <1>2, <1>3
     DEF Beside, Idle, Adding, Early, Undone, Uncounting
<1>5. \A i \in analyses : Same(nodeAnal[i]) /\ Entry(nodeAnal[i])
  BY <1>1, <1>2, <1>4, BesideOthers DEF SInv, Entries, Same
<1>6. Entries'
  BY <1>1, <1>2, <1>5, EntriesKept DEF SInv
<1>7. PICK a \in Req : a = nodeAnal[id[r]] /\ Entry(a) /\ id[a] = id[r]
  BY <1>1 DEF SInv, Entries, Entry
<1>8. Entry(a)' /\ nodeAnal'[id'[r]] = a /\ id'[a] = id'[r]
  BY <1>1, <1>2, <1>5, <1>7, SameEntry
<1>9. Ints'
  <2>1. Settled
    BY <1>1, <1>4, AllSettled DEF Hand, Idle
  <2>2. \A b \in Req : InTreap(b) => InTreap(b)' \/ InHand(b)'
    <3> SUFFICES ASSUME NEW b \in Req, InTreap(b) PROVE InTreap(b)' \/ InHand(b)'
      OBVIOUS
    <3>1. CASE id[b] = id[r]
      <4>1. b = a
        BY <1>7, <3>1 DEF InTreap
      <4> QED BY <1>3, <1>8, <4>1 DEF InHand
    <3>2. CASE id[b] # id[r]
      BY <1>2, <3>2 DEF InTreap
    <3> QED BY <3>1, <3>2
  <2>3. \A p \in Paths : paths[p] # Nil => paths[p] \in Req
    BY <1>1 DEF TInv, TypeOK
  <2> QED BY <1>2, <2>1, <2>2, <2>3 DEF Settled, Ints, Path
<1>10. At(r)'
  BY <1>3, <1>7, <1>8, <1>2
     DEF At, AddAt, RemoveAt, Early, Undone, Uncounting, Entry, Path
<1>11. \A b \in Req : Quiet(b)'
  BY <1>1, <1>2, <1>4, BesideOthers DEF Quiet
<1> QED BY <1>1, <1>2, <1>4, <1>6, <1>9, <1>10, <1>11, BesideKept

\* A removal that has taken the node out: the analysis is not in the treap.
LEMMA NodeOut ==
  ASSUME Now, NEW r \in Req, pc[r] \in {"kill", "remove path", "release"}
  PROVE  id[r] \notin analyses
<1>1. r \in Holders
  BY InReq DEF Holders, Holding
<1> QED BY <1>1 DEF Now, UniqueIds, HeldIds

LEMMA RemoveKillSerial ==
  ASSUME Now, NEW r \in Req, RemoveKill(r)
  PROVE  SInv'
<1>1. SInv /\ TInv /\ r \in Threads /\ pc[r] = "kill" /\ id[r] \notin analyses
  BY InReq, NodeOut DEF Now, RemoveKill
<1>2. PICK a \in Req : a = nodeAnal[id[r]] /\ Entry(a) /\ id[a] = id[r]
  BY <1>1 DEF SInv, At, RemoveAt, Entry
<1>3. UNCHANGED <<id, analyses, nodeAnal, anal, paths, inbox, crashed>>
  BY DEF RemoveKill, treap
<1>4. Moves(r, "remove path") /\ pc'[r] = "remove path"
  BY <1>1, GotoMoves DEF RemoveKill, Moves
<1>5. Beside(r, "remove path")
  BY <1>1, <1>3, <1>4
     DEF Beside, Idle, Adding, Early, Undone, Uncounting
<1>6. /\ a # r /\ pc[a] = "done" /\ pc'[a] = "done" /\ anal[a].pid = a
      /\ child[a].state \notin {"none", "forked"}
  <2>1. a \in Req /\ pc[a] \in Uncounting \cup {"done"}
    BY <1>2 DEF Entry
  <2>2. a # r /\ pc[a] = "done" /\ pc'[a] = "done"
    BY <1>1, <1>2, <1>5, <2>1, BesideOthers
  <2> QED BY <1>2, <2>2 DEF Entry
<1>7. /\ \A b \in Req : b # a => child'[b] = child[b]
      /\ child'[a].state = child[a].state
  <2>1. child' = Signalled(a, "INT")
    BY <1>2 DEF RemoveKill, AnalOf
  <2> QED BY <1>1, <1>6, <2>1, SignalledFacts DEF Signals
<1>8. Entries'
  <2>1. \A i \in analyses : nodeAnal[i] # a /\ Entry(nodeAnal[i])
    BY <1>1, <1>2 DEF SInv, Entries
  <2>2. \A i \in analyses : Same(nodeAnal[i])
    BY <1>1, <1>3, <1>5, <1>7, <2>1, BesideOthers DEF Same
  <2> QED BY <1>1, <1>3, <2>2, EntriesKept DEF SInv
<1>9. Ints'
  <2>1. \A t \in Req : t # r => pc[t] \in Idle
    BY <1>1, OthersIdle DEF Idle
  <2>2. \A p \in Paths : paths[p] # Nil =>
          /\ Path(paths[p]) = p
          /\ InTreap(paths[p]) \/ paths[p] = a
    BY <1>1, <1>2, <2>1 DEF SInv, Ints, InHand, Idle
  <2>3. InHand(a)'
    BY <1>2, <1>3, <1>4 DEF InHand
  <2> QED BY <1>3, <2>2, <2>3 DEF Ints, InTreap, Path
<1>10. At(r)'
  <2>1. Entry(a)'
    BY <1>2, <1>3, <1>6, <1>7 DEF Entry, Path
  <2> QED BY <1>2, <1>3, <1>4, <2>1
          DEF At, AddAt, RemoveAt, Early, Undone, Uncounting, Entry, Path
<1>11. \A b \in Req : Quiet(b)'
  BY <1>1, <1>5, <1>6, <1>7, BesideOthers DEF Quiet
<1>12. \A b \in Req : pc[b] = "idle" => child'[b] = child[b]
  BY <1>6, <1>7
<1> QED BY <1>1, <1>5, <1>8, <1>9, <1>10, <1>11, <1>12, BesideKept

LEMMA RemovePathSerial ==
  ASSUME Now, NEW r \in Req, RemovePath(r)
  PROVE  SInv'
<1>1. SInv /\ TInv /\ r \in Threads /\ pc[r] = "remove path" /\ id[r] \notin analyses
  BY InReq, NodeOut DEF Now, RemovePath
<1>2. PICK a \in Req : a = nodeAnal[id[r]] /\ Entry(a) /\ id[a] = id[r]
  BY <1>1 DEF SInv, At, RemoveAt, Entry
<1>3. UNCHANGED <<id, analyses, nodeAnal, anal, child, inbox, crashed>>
  BY DEF RemovePath, treap, procs
<1>4. Moves(r, "release") /\ pc'[r] = "release"
  BY <1>1, GotoMoves DEF RemovePath, Moves
<1>5. Beside(r, "release")
  BY <1>1, <1>3, <1>4
     DEF Beside, Idle, Adding, Early, Undone, Uncounting
<1>6. /\ Path(a) \in Paths /\ paths[Path(a)] = a /\ paths'[Path(a)] = Nil
      /\ \A p \in Paths : p # Path(a) => paths'[p] = paths[p]
  BY <1>1, <1>2 DEF Entry, RemovePath, AnalOf, TInv, TypeOK
<1>7. Entries'
  <2>0. \A i \in analyses : Entry(nodeAnal[i]) /\ id[nodeAnal[i]] = i
    BY <1>1, Zenon DEF SInv, Entries
  <2>1. \A i \in analyses : nodeAnal[i] # a /\ Entry(nodeAnal[i])
    <3>1. id[a] \notin analyses
      BY <1>1, <1>2, Zenon
    <3> QED BY ONLY <2>0, <3>1, Zenon
  <2>2. \A i \in analyses : paths'[Path(nodeAnal[i])] = paths[Path(nodeAnal[i])]
    BY <1>6, <2>1 DEF Entry
  <2>3. \A i \in analyses : Same(nodeAnal[i])
    BY <1>1, <1>3, <1>5, <2>1, <2>2, BesideOthers DEF Same
  <2> QED BY <1>1, <1>3, <2>3, EntriesKept DEF SInv
<1>8. Ints'
  <2>1. \A t \in Req : t # r => pc[t] \in Idle
    BY <1>1, OthersIdle DEF Idle
  <2>2. \A p \in Paths : paths[p] # Nil =>
          /\ Path(paths[p]) = p
          /\ InTreap(paths[p]) \/ paths[p] = a
    BY <1>1, <1>2, <2>1 DEF SInv, Ints, InHand, Idle
  <2>3. \A p \in Paths : paths'[p] # Nil =>
          /\ paths'[p] = paths[p] /\ Path(paths[p]) = p /\ InTreap(paths[p])
    BY <1>6, <2>2
  <2> QED BY <1>3, <2>3 DEF Ints, InTreap, Path
<1>9. At(r)'
  BY <1>1, <1>2, <1>3, <1>4
     DEF At, AddAt, RemoveAt, Early, Undone, Uncounting, Entry
<1>10. \A b \in Req : Quiet(b)'
  BY <1>1, <1>3, <1>5, BesideOthers DEF Quiet
<1> QED BY <1>1, <1>3, <1>5, <1>7, <1>8, <1>9, <1>10, BesideKept

LEMMA RemoveReleaseSerial ==
  ASSUME Now, NEW r \in Req, RemoveRelease(r)
  PROVE  SInv'
<1>1. SInv /\ TInv /\ r \in Threads /\ pc[r] = "release"
  BY InReq DEF Now, RemoveRelease
<1>2. UNCHANGED <<id, treap, anal, child, paths, inbox, crashed>>
  BY DEF RemoveRelease, procs
<1>3. Moves(r, "free") /\ pc'[r] = "free"
  BY <1>1, GotoMoves DEF RemoveRelease, Moves
<1>4. Beside(r, "free") /\ pc[r] \notin Hand
  BY <1>1, <1>2, <1>3
     DEF Beside, treap, Idle, Adding, Early, Undone, Uncounting, Hand
<1>5. RemoveAt(r)
  BY <1>1 DEF SInv, At
<1>6. At(r)'
  BY <1>1, <1>2, <1>3, <1>5
     DEF At, AddAt, RemoveAt, Early, Undone, Uncounting, treap
<1> QED BY <1>1, <1>2, <1>4, <1>6, BesideStill DEF treap

LEMMA RemoveFreeSerial ==
  ASSUME Now, NEW r \in Req, RemoveFree(r)
  PROVE  SInv'
<1>1. SInv /\ TInv /\ r \in Threads /\ pc[r] = "free" /\ id[r] \notin analyses
  BY InReq DEF Now, RemoveFree, SInv, At, RemoveAt
<1>2. PICK a \in Req : a = nodeAnal[id[r]] /\ id[a] = id[r]
  BY <1>1 DEF SInv, At, RemoveAt
<1>3. UNCHANGED <<id, treap, child, paths, inbox, crashed>>
  BY DEF RemoveFree, procs
<1>4. Moves(r, "null") /\ pc'[r] = "null"
  BY <1>1, GotoMoves DEF RemoveFree, Moves
<1>5. Beside(r, "null") /\ pc[r] \notin Hand
  BY <1>1, <1>3, <1>4
     DEF Beside, treap, Idle, Adding, Early, Undone, Uncounting, Hand
<1>6. /\ \A b \in Req : b # a => anal'[b] = anal[b]
      /\ anal'[a].path = anal[a].path
  <2>1. anal[a] \in Anal
    BY <1>1 DEF TInv, TypeOK
  <2>2. /\ \A b \in Req : b # a => anal'[b] = anal[b]
        /\ anal'[a] = [anal[a] EXCEPT !.live = FALSE]
    BY <1>1, <1>2 DEF RemoveFree, AnalOf, TInv, TypeOK
  <2> QED BY <2>1, <2>2 DEF Anal
<1>7. \A i \in analyses : nodeAnal[i] # a /\ Entry(nodeAnal[i])
  BY <1>1, <1>2 DEF SInv, Entries
<1>8. Entries'
  <2>1. \A i \in analyses : Same(nodeAnal[i])
    BY <1>1, <1>3, <1>5, <1>6, <1>7, BesideOthers DEF Same
  <2> QED BY <1>1, <1>3, <2>1, EntriesKept DEF SInv, treap
<1>9. Ints'
  <2>1. Settled
    BY <1>1, AllSettled DEF Hand, Idle
  <2>2. \A i \in analyses : nodeAnal[i] \in Req
    BY <1>7 DEF Entry
  <2>3. \A b \in Req : Path(b)' = Path(b)
    BY <1>6 DEF Path
  <2> QED BY <1>3, <2>1, <2>2, <2>3, SettledKept DEF treap
<1>10. At(r)'
  BY <1>1, <1>3, <1>4
     DEF At, AddAt, RemoveAt, Early, Undone, Uncounting, treap
<1>11. \A b \in Req : Quiet(b)'
  BY <1>1, <1>3, <1>5, BesideOthers DEF Quiet
<1> QED BY <1>1, <1>3, <1>5, <1>8, <1>9, <1>10, <1>11, BesideKept

LEMMA RemoveNullSerial ==
  ASSUME Now, NEW r \in Req, RemoveNull(r)
  PROVE  SInv'
<1>1. SInv /\ TInv /\ r \in Threads /\ pc[r] = "null" /\ id[r] \notin analyses
  BY InReq DEF Now, RemoveNull, SInv, At, RemoveAt
<1>2. Ended(r) /\ UNCHANGED <<id, analyses, anal, child, paths, inbox, crashed>>
  BY DEF RemoveNull, procs
<1>3. \A i \in analyses : nodeAnal'[i] = nodeAnal[i]
  BY <1>1 DEF RemoveNull, TInv, TypeOK
<1>4. Beside(r, "done") /\ pc[r] \notin Hand
  BY <1>1, <1>2, <1>3, GotoMoves
     DEF Beside, Idle, Adding, Early, Undone, Uncounting, Hand
<1>5. At(r)'
  BY <1>1, <1>4, AtIdle DEF Beside, Moves, Idle
<1> QED BY <1>1, <1>2, <1>4, <1>5, BesideStill

\* The responses thread removes nothing, as no analysis fails.
LEMMA RemoveSerial ==
  ASSUME Now, NEW t \in Threads, Remove(t)
  PROVE  SInv'
<1>1. t \in Req
  <2>1. pc[t] \notin {"idle", "apply"}
    BY DEF Remove, RemoveUnknown, RemoveExtract, RemoveKill, RemovePath,
           RemoveRelease, RemoveFree, RemoveNull
  <2> QED BY <2>1 DEF Now, SInv, RespApplies, Threads
<1> QED BY <1>1, RemoveUnknownSerial, RemoveExtractSerial, RemoveKillSerial,
           RemovePathSerial, RemoveReleaseSerial, RemoveFreeSerial,
           RemoveNullSerial DEF Remove
-----------------------------------------------------------------------------
(* Clients, results and processes.                                         *)

LEMMA NobodyServes ==
  ASSUME Cardinality(Serving) < 1
  PROVE  \A r \in Req : pc[r] \in Idle
<1>1. IsFiniteSet(Serving)
  <2>1. Serving \subseteq Req
    BY DEF Serving
  <2> QED BY <2>1, FS_Subset
<1>2. Cardinality(Serving) \in Nat
  BY <1>1, FS_CardinalityType
<1>3. Cardinality(Serving) = 0
  BY <1>2
<1>4. Serving = {}
  BY <1>1, <1>3, FS_EmptySet
<1> QED BY <1>4 DEF Serving

\* A client is accepted when nobody is served.
LEMMA AcceptSerial ==
  ASSUME InTurn, Now, NEW r \in Req, Accept(r)
  PROVE  SInv'
<1>1. /\ SInv /\ TInv /\ r \in Threads /\ pc[r] = "idle"
      /\ \A t \in Req : pc[t] \in Idle
  BY NobodyServes, InReq DEF Now, InTurn, Accept
<1>2. UNCHANGED <<analyses, nodeAnal, cnt, paths, copy, child, inbox, crashed>>
  BY DEF Accept, treap, procs
<1>3. PICK task \in Tasks :
        /\ Goto(r, task)
        /\ IF task = "add"
           THEN /\ \E p \in Paths, g \in StalePids :
                     anal' = [anal EXCEPT ![r] = NewAnal(p, g)]
                /\ UNCHANGED id
           ELSE /\ \E i \in IF task = "list" THEN {NoId} ELSE Ids :
                     id' = [id EXCEPT ![r] = i]
                /\ UNCHANGED anal
  BY DEF Accept
<1>4. /\ Moves(r, task) /\ pc'[r] = task
      /\ \A t \in Req : t # r => pc'[t] = pc[t]
  BY <1>1, <1>3, GotoMoves, InReq DEF Moves
<1>5. \A a \in Req : a # r => anal'[a] = anal[a] /\ id'[a] = id[a]
  BY <1>1, <1>3, InReq DEF TInv, TypeOK
<1>6. \A i \in analyses : nodeAnal[i] # r /\ nodeAnal[i] \in Req
  BY <1>1, NotEntry DEF SInv, Entries, Entry, Uncounting
<1>7. Alone'
  <2>1. Serving' \subseteq {r}
    BY <1>1, <1>4 DEF Serving
  <2> QED BY <2>1 DEF Alone
<1>8. RespApplies'
  BY <1>1, <1>2, <1>4, InReq DEF SInv, RespApplies, Moves, Threads
<1>9. Entries'
  <2>1. \A i \in analyses : Same(nodeAnal[i])
    BY <1>2, <1>4, <1>5, <1>6 DEF Same
  <2> QED BY <1>1, <1>2, <2>1, EntriesKept DEF SInv
<1>10. Ints'
  <2>1. Settled
    BY <1>1, NoHand DEF Idle, Hand
  <2> QED BY <1>2, <1>5, <1>6, <2>1, SettledKept DEF Path
<1>11. Children'
  <2>1. \A a \in Req : Quiet(a)'
    BY <1>1, <1>2 DEF SInv, Children, Quiet
  <2>2. \A a \in Req : pc'[a] = "idle" => child'[a] = NoChild
    BY <1>1, <1>2, <1>4 DEF SInv, Children
  <2> QED BY <2>1, <2>2 DEF Children
<1>12. At(r)'
  <2>1. CASE task = "add"
    <3>1. PICK p \in Paths, g \in StalePids :
            anal' = [anal EXCEPT ![r] = NewAnal(p, g)]
      BY <1>3, <2>1
    <3>2. anal'[r] = NewAnal(p, g)
      BY <1>1, <3>1 DEF TInv, TypeOK
    <3>3. anal'[r].live /\ Path(r)' \in Paths /\ ~anal'[r].suspended
      BY <3>2 DEF NewAnal, Path
    <3>4. child'[r] = NoChild
      BY <1>1, <1>2 DEF SInv, Children
    <3> QED BY <1>4, <2>1, <3>3, <3>4
            DEF At, AddAt, RemoveAt, Early, Undone, Uncounting
  <2>2. CASE task # "add"
    <3>1. pc'[r] \in {"suspend", "resume", "remove", "status", "list"}
      BY <1>4, <2>2
    <3> QED BY <3>1 DEF At, AddAt, RemoveAt, Early, Undone, Uncounting
  <2> QED BY <2>1, <2>2
<1>13. \A t \in Req : At(t)'
  BY <1>1, <1>4, <1>12, AtIdle
<1> QED BY <1>1, <1>2, <1>7, <1>8, <1>9, <1>10, <1>11, <1>13 DEF SInv

\* A step of the responses thread.
LEMMA ResponsesKept ==
  ASSUME SInv, \A r \in Req : /\ pc'[r] = pc[r] /\ id'[r] = id[r]
                              /\ anal'[r].live = anal[r].live
                              /\ anal'[r].path = anal[r].path
                              /\ anal'[r].suspended = anal[r].suspended
                              /\ anal'[r].pid = anal[r].pid,
         UNCHANGED <<analyses, nodeAnal, paths, cnt, copy, child, crashed>>,
         TInv, RespApplies'
  PROVE  SInv'
<1>1. Alone'
  BY DEF SInv, Alone, Serving
<1>2. \A a \in Req : /\ Path(a)' = Path(a)
                     /\ Entry(a)' <=> Entry(a)
                     /\ Agrees(a)' <=> Agrees(a)
                     /\ InTreap(a)' <=> InTreap(a)
  BY DEF Entry, Agrees, Path, InTreap
<1>3. Entries'
  <2>1. \A i \in analyses : /\ nodeAnal[i] \in Req /\ Entry(nodeAnal[i])
                            /\ Agrees(nodeAnal[i]) /\ id[nodeAnal[i]] = i
    BY DEF SInv, Entries, Entry
  <2> QED BY <2>1 DEF Entries, Entry, Agrees, Path
<1>4. Ints'
  <2>1. \A p \in Paths : paths[p] # Nil => paths[p] \in Req
    BY DEF TInv, TypeOK
  <2>2. \A a \in Req : InHand(a) => InHand(a)'
    BY DEF InHand
  <2> QED BY <1>2, <2>1, <2>2 DEF SInv, Ints
<1>5. Children'
  BY DEF SInv, Children, Quiet
<1>6. ASSUME NEW r \in Req PROVE At(r)'
  <2>1. AddAt(r) /\ RemoveAt(r) /\ (pc[r] = "read" => copy[r].cnt = cnt)
    BY DEF SInv, At
  <2>2. AddAt(r)'
    BY <1>2, <2>1 DEF AddAt
  <2>3. RemoveAt(r)'
    <3>1. CASE pc[r] \in {"kill", "remove path"}
      <4>1. PICK a \in Req : a = nodeAnal[id[r]] /\ Entry(a) /\ id[a] = id[r]
        BY <2>1, <3>1 DEF RemoveAt, Entry
      <4>2. Entry(a)' /\ id'[a] = id'[r] /\ nodeAnal'[id'[r]] = a
        BY <1>2, <4>1
      <4> QED BY <3>1, <4>2 DEF RemoveAt, Entry, Path
    <3>2. CASE pc[r] \in {"release", "free"}
      <4>1. PICK a \in Req : a = nodeAnal[id[r]] /\ anal[a].live /\ id[a] = id[r]
        BY <2>1, <3>2 DEF RemoveAt
      <4>2. anal'[a].live /\ id'[a] = id'[r] /\ nodeAnal'[id'[r]] = a
        BY <4>1
      <4> QED BY <2>1, <3>2, <4>2 DEF RemoveAt
    <3>3. CASE pc[r] \notin {"kill", "remove path", "release", "free"}
      BY <2>1, <3>3 DEF RemoveAt
    <3> QED BY <3>1, <3>2, <3>3
  <2> QED BY <2>1, <2>2, <2>3 DEF At
<1> QED BY <1>1, <1>3, <1>4, <1>5, <1>6 DEF SInv

LEMMA NothingTouched ==
  ASSUME SInv, TInv,
         UNCHANGED <<pc, id, analyses, nodeAnal, anal, paths, cnt, copy,
                     child, inbox, crashed>>
  PROVE  SInv'
BY ResponsesKept DEF SInv, RespApplies

LEMMA ResponsesSerial ==
  ASSUME Now, RespReceive \/ RespApply
  PROVE  SInv'
<1>1. SInv /\ TInv /\ Resp \in Threads
  BY DEF Now, Threads
<1>2. CASE RespReceive
  <2>1. /\ inbox # <<>> /\ inbox' = Tail(inbox)
        /\ inbox \in Seq([id : Ids \cup {NoId}, ok : BOOLEAN])
    BY <1>1, <1>2 DEF RespReceive, TInv, TypeOK
  <2>2. Head(inbox).ok /\ \A n \in DOMAIN inbox' : inbox'[n].ok
    BY <1>1, <2>1 DEF SInv, RespApplies
  <2>3. Goto(Resp, "apply") /\ Moves(Resp, "apply")
    BY <1>1, <1>2, <2>2, GotoMoves DEF RespReceive
  <2>4. \A r \in Req : pc'[r] = pc[r] /\ id'[r] = id[r]
    BY <1>1, <1>2, <2>3, InReq DEF RespReceive, Moves, TInv, TypeOK
  <2>5. RespApplies'
    BY <2>2, <2>3 DEF RespApplies, Moves
  <2> QED BY <1>1, <1>2, <2>4, <2>5, ResponsesKept DEF RespReceive, treap
<1>3. CASE RespApply
  <2>1. Goto(Resp, "idle") /\ Moves(Resp, "idle")
    BY <1>1, <1>3, GotoMoves DEF RespApply, Ended
  <2>2. RespApplies'
    BY <1>1, <1>3, <2>1 DEF SInv, RespApplies, Moves, RespApply, procs
  <2>3. \A r \in Req : pc'[r] = pc[r]
    BY <2>1, InReq DEF Moves
  <2>4. \A r \in Req : /\ anal'[r].live = anal[r].live
                       /\ anal'[r].path = anal[r].path
                       /\ anal'[r].suspended = anal[r].suspended
                       /\ anal'[r].pid = anal[r].pid
    <3>1. anal \in [Req -> Anal]
      BY <1>1 DEF TInv, TypeOK
    <3>2. \A r \in Req : \/ anal'[r] = anal[r]
                         \/ anal'[r] = [anal[r] EXCEPT !.status = "complete"]
      BY <1>3, <3>1 DEF RespApply
    <3> QED BY <3>1, <3>2 DEF Anal
  <2> QED BY <1>1, <1>3, <2>2, <2>3, <2>4, ResponsesKept
          DEF RespApply, treap, procs
<1> QED BY <1>2, <1>3

\* A step of a process, forked for a request that knows of it.
LEMMA ChildKept ==
  ASSUME SInv, TInv, NEW r \in Req, child[r].state # "none",
         child'[r].state \in {"walking", "walked", "gone"},
         Agrees(r) => Agrees(r)',
         \A a \in Req : a # r => child'[a] = child[a],
         UNCHANGED <<pc, id, analyses, nodeAnal, anal, paths, cnt, copy,
                     crashed>>,
         RespApplies'
  PROVE  SInv'
<1>1. Alone'
  BY DEF SInv, Alone, Serving
<1>2. \A a \in Req : Entry(a) => Entry(a)'
  BY DEF Entry, Path
<1>3. \A a \in Req : Agrees(a) => Agrees(a)'
  BY DEF Agrees
<1>4. Entries'
  <2> SUFFICES ASSUME NEW i \in analyses
               PROVE  /\ Entry(nodeAnal[i])' /\ Agrees(nodeAnal[i])'
                      /\ id'[nodeAnal'[i]] = i
    BY DEF Entries
  <2>1. PICK a \in Req : a = nodeAnal[i] /\ Entry(a) /\ Agrees(a) /\ id[a] = i
    BY DEF SInv, Entries, Entry
  <2>2. Entry(a)' /\ Agrees(a)'
    BY <1>2, <1>3, <2>1
  <2> QED BY <2>1, <2>2 DEF Entry, Agrees, Path
<1>5. Ints'
  <2>1. \A p \in Paths : paths[p] # Nil => paths[p] \in Req
    BY DEF TInv, TypeOK
  <2>2. \A a \in Req : /\ InTreap(a) => InTreap(a)'
                       /\ InHand(a) => InHand(a)'
                       /\ Path(a)' = Path(a)
    BY DEF InTreap, InHand, Path
  <2> QED BY <2>1, <2>2 DEF SInv, Ints
<1>6. Children'
  <2>1. \A a \in Req : a # r => Quiet(a)' /\ (pc'[a] = "idle" => child'[a] = NoChild)
    BY DEF SInv, Children, Quiet
  <2>2. pc[r] # "idle"
    BY DEF SInv, Children, NoChild
  <2> QED BY <2>1, <2>2 DEF Children, Quiet
<1>7. ASSUME NEW t \in Req PROVE At(t)'
  <2>1. AddAt(t) /\ RemoveAt(t) /\ (pc[t] = "read" => copy[t].cnt = cnt)
    BY DEF SInv, At
  <2>2. AddAt(t)'
    <3>1. CASE t = r
      <4>0. child[r] # NoChild
        BY DEF NoChild
      <4>1. pc[r] \notin Early \cup {"fork"}
        BY <2>1, <3>1, <4>0 DEF AddAt
      <4> QED BY <2>1, <3>1, <4>1 DEF AddAt, Path, InTreap
    <3>2. CASE t # r
      <4>1. Path(t)' = Path(t) /\ (InTreap(t) => InTreap(t)')
        BY DEF Path, InTreap
      <4>2. child'[t] = child[t]
        BY <3>2
      <4> QED BY <2>1, <4>1, <4>2 DEF AddAt
    <3> QED BY <3>1, <3>2
  <2>3. RemoveAt(t)'
    <3>1. CASE pc[t] \in {"kill", "remove path"}
      <4>1. PICK a \in Req : a = nodeAnal[id[t]] /\ Entry(a) /\ id[a] = id[t]
        BY <2>1, <3>1 DEF RemoveAt, Entry
      <4>2. Entry(a)'
        BY <1>2, <4>1
      <4> QED BY <3>1, <4>1, <4>2 DEF RemoveAt, Entry, Path
    <3>2. CASE pc[t] \notin {"kill", "remove path"}
      BY <2>1, <3>2 DEF RemoveAt
    <3> QED BY <3>1, <3>2
  <2> QED BY <2>1, <2>2, <2>3 DEF At
<1> QED BY <1>1, <1>4, <1>5, <1>6, <1>7 DEF SInv

LEMMA ChildSerial ==
  ASSUME InTurn, Now, NEW r \in Req, Child(r)
  PROVE  SInv'
<1>1. /\ SInv /\ TInv /\ child[r] \in Proc /\ Quiet(r)
      /\ child \in [Req -> Proc]
  BY DEF Now, SInv, TInv, TypeOK, Children
<1>2. \A c \in Proc : /\ [c EXCEPT !.state = "walking"].suspended = c.suspended
                      /\ [c EXCEPT !.state = "walking"].pend = c.pend
                      /\ [c EXCEPT !.state = "walking"].state = "walking"
                      /\ [c EXCEPT !.state = "walked"].suspended = c.suspended
                      /\ [c EXCEPT !.state = "walked"].pend = c.pend
                      /\ [c EXCEPT !.state = "walked"].state = "walked"
  BY DEF Proc
<1>3. CASE ChildStart(r) \/ ChildWalked(r)
  <2>1. /\ \A a \in Req : a # r => child'[a] = child[a]
        /\ \/ child'[r] = [child[r] EXCEPT !.state = "walking"]
           \/ child'[r] = [child[r] EXCEPT !.state = "walked"]
        /\ child[r].state \in {"forked", "walking"}
    BY <1>1, <1>3 DEF ChildStart, ChildWalked
  <2>2. /\ child'[r].state \in {"walking", "walked"}
        /\ child'[r].suspended = child[r].suspended
        /\ child'[r].pend = child[r].pend
    <3>1. CASE child'[r] = [child[r] EXCEPT !.state = "walking"]
      BY <1>1, <1>2, <3>1
    <3>2. CASE child'[r] = [child[r] EXCEPT !.state = "walked"]
      BY <1>1, <1>2, <3>2
    <3> QED BY <2>1, <3>1, <3>2
  <2>3. UNCHANGED <<pc, id, analyses, nodeAnal, anal, paths, cnt, copy, inbox,
                    crashed>>
    BY <1>3 DEF ChildStart, ChildWalked, treap
  <2>4. Agrees(r) => Agrees(r)'
    BY <2>1, <2>2, <2>3 DEF Agrees, WillBeSuspended
  <2>5. RespApplies'
    BY <1>1, <2>3 DEF SInv, RespApplies
  <2> QED BY <1>1, <2>1, <2>2, <2>3, <2>4, <2>5, ChildKept
<1>4. CASE ChildSignal(r)
  <2>1. PICK sig \in child[r].pend : child' = [child EXCEPT ![r] = Handled(@, sig)]
    BY <1>4 DEF ChildSignal
  <2>2. /\ child'[r] = Handled(child[r], sig)
        /\ \A a \in Req : a # r => child'[a] = child[a]
        /\ child[r].state \in {"walking", "walked"}
    BY <1>1, <1>4, <2>1 DEF ChildSignal, Alive
  <2>3. UNCHANGED <<pc, id, analyses, nodeAnal, anal, paths, cnt, copy, inbox,
                    crashed>>
    BY <1>4 DEF ChildSignal, treap
  <2>4. /\ child'[r].state \in {"walking", "walked", "gone"}
        /\ Agrees(r) => Agrees(r)'
    <3>1. CASE sig = "TSTP"
      <4>1. /\ child'[r].state = child[r].state /\ child'[r].suspended
            /\ child'[r].pend = child[r].pend \ {"TSTP"}
        BY <1>1, <2>2, <3>1 DEF Handled, Proc
      <4> QED BY <2>1, <2>2, <2>3, <3>1, <4>1 DEF Agrees, WillBeSuspended
    <3>2. CASE sig = "CONT"
      <4>1. /\ child'[r].state = child[r].state /\ ~child'[r].suspended
            /\ child'[r].pend = child[r].pend \ {"CONT"}
        BY <1>1, <2>2, <3>2 DEF Handled, Proc
      <4> QED BY <2>1, <2>2, <2>3, <3>2, <4>1 DEF Agrees, WillBeSuspended
    <3>3. CASE sig \notin {"TSTP", "CONT"} /\ child[r].state = "walking"
      <4>1. child'[r].state = "gone"
        BY <2>2, <3>3 DEF Handled, NoChild
      <4> QED BY <4>1 DEF Agrees
    <3>4. CASE sig \notin {"TSTP", "CONT"} /\ child[r].state # "walking"
      <4>1. child'[r] = [child[r] EXCEPT !.pend = @ \ {sig}]
        BY <2>2, <3>4 DEF Handled
      <4>2. /\ child'[r].state = child[r].state
            /\ child'[r].suspended = child[r].suspended
            /\ child'[r].pend = child[r].pend \ {sig}
        BY <1>1, <4>1 DEF Proc
      <4> QED BY <2>2, <2>3, <3>4, <4>2 DEF Agrees, WillBeSuspended
    <3> QED BY <3>1, <3>2, <3>3, <3>4
  <2>5. RespApplies'
    BY <1>1, <2>3 DEF SInv, RespApplies
  <2> QED BY <1>1, <2>2, <2>3, <2>4, <2>5, ChildKept
<1>5. CASE ChildReports(r)
  <2>1. /\ child'[r] = [NoChild EXCEPT !.state = "gone"]
        /\ \A a \in Req : a # r => child'[a] = child[a]
        /\ child[r].state = "walked"
        /\ inbox' = Append(inbox, [id |-> child[r].id, ok |-> TRUE])
        /\ UNCHANGED <<pc, id, analyses, nodeAnal, anal, paths, cnt, copy, crashed>>
    BY <1>1, <1>5 DEF ChildReports, Send, treap
  <2>2. child'[r].state = "gone"
    BY <2>1 DEF NoChild
  <2>3. Agrees(r)'
    BY <2>2 DEF Agrees
  <2>4. RespApplies'
    <3>1. /\ inbox \in Seq([id : Ids \cup {NoId}, ok : BOOLEAN])
          /\ \A n \in DOMAIN inbox : inbox[n].ok
      BY <1>1 DEF TInv, TypeOK, SInv, RespApplies
    <3> DEFINE e == [id |-> child[r].id, ok |-> TRUE]
    <3>2. e.ok
      OBVIOUS
    <3> HIDE DEF e
    <3>3. \A n \in DOMAIN Append(inbox, e) : Append(inbox, e)[n].ok
      BY <3>1, <3>2
    <3>4. inbox' = Append(inbox, e) /\ pc' = pc
      BY <2>1 DEF e
    <3> QED BY <1>1, <3>3, <3>4 DEF SInv, RespApplies
  <2> QED BY <1>1, <2>1, <2>2, <2>3, <2>4, ChildKept
<1>6. CASE ChildFails(r)
  BY <1>6 DEF ChildFails, InTurn
<1> QED BY <1>3, <1>4, <1>5, <1>6 DEF Child

-----------------------------------------------------------------------------
(* Any step, and that the manager does not crash.                          *)

LEMMA NotDoomed ==
  ASSUME SInv, TInv, NEW t \in Threads
  PROVE  ~Doomed(t)
<1>1. \A i \in analyses : nodeAnal[i] \in Req
  BY DEF SInv, Entries, Entry
<1>2. t = Resp => pc[t] \in {"idle", "apply"}
  BY DEF SInv, RespApplies
<1>3. pc[t] \in {"suspend", "resume", "apply"} /\ id[t] \in analyses => AnalOf(t) # Nil
  BY <1>1, InReq DEF AnalOf
<1>4. ASSUME pc[t] \in {"kill", "remove path", "free"}
      PROVE  /\ AnalOf(t) \in Req
             /\ pc[t] = "kill" => anal[AnalOf(t)].pid # OwnGroup
             /\ pc[t] = "free" => anal[AnalOf(t)].live
  <2>1. t \in Req /\ SInv
    BY <1>2, <1>4 DEF Threads
  <2>2. RemoveAt(t)
    BY <2>1 DEF SInv, At
  <2>3. CASE pc[t] = "free"
    BY <2>2, <2>3 DEF RemoveAt, AnalOf
  <2>4. CASE pc[t] # "free"
    <3>1. PICK a \in Req : a = AnalOf(t) /\ Entry(a)
      BY <1>4, <2>2, <2>4 DEF RemoveAt, AnalOf, Entry
    <3>2. pc[t] = "kill" => a # t /\ pc[a] = "done"
      BY <2>1, <3>1, EntryDone DEF Entry, Uncounting, Idle
    <3>3. pc[t] = "kill" => anal[a].pid = a
      BY <3>1, <3>2 DEF Entry
    <3>4. a # OwnGroup
      BY ThreadsAssumption
    <3> QED BY <2>4, <3>1, <3>3, <3>4
  <2> QED BY <2>3, <2>4
<1>5. pc[t] = "return id" => anal[t].live
  BY <1>2 DEF SInv, At, AddAt, Undone, Threads
<1>6. pc[t] = "rollback" => id[t] \in analyses
  BY <1>2 DEF SInv, At, AddAt, Uncounting, InTreap, Threads
<1>7. \A i \in analyses : nodeAnal[i] # Nil
  BY <1>1, InReq
<1> QED BY <1>3, <1>4, <1>5, <1>6, <1>7 DEF Doomed

LEMMA NextSInv ==
  ASSUME InTurn, TInv, UniqueIds, SInv, [Next]_vars
  PROVE  TInv' /\ SInv'
<1>1. TInv'
  BY NextTInv
<1>2. Now
  BY <1>1 DEF Now
<1>3. CASE UNCHANGED vars
  BY <1>1, <1>3, NothingTouched DEF vars
<1>4. ASSUME NEW r \in Req, Accept(r) \/ Child(r) PROVE SInv'
  BY <1>2, <1>4, AcceptSerial, ChildSerial
<1>5. ASSUME NEW t \in Threads, Serve(t) PROVE SInv'
  <2>1. CASE Lock(t)
    BY <2>1, NothingTouched DEF Lock, treap, procs
  <2>2. CASE Remove(t)
    BY <1>2, <2>2, RemoveSerial
  <2>3. CASE t \in Req /\ Request(t)
    BY <1>2, <2>3, AddSerial, SuspendSerial, ReadSerial DEF Request
  <2>4. CASE RespApply
    BY <1>2, <2>4, ResponsesSerial
  <2> QED BY <1>5, <2>1, <2>2, <2>3, <2>4 DEF Serve
<1>6. ASSUME NEW t \in Threads, Crash(t) PROVE SInv'
  BY <1>6, NotDoomed DEF Crash
<1>7. CASE RespReceive
  BY <1>1, <1>2, <1>7, ResponsesSerial
<1> QED BY <1>1, <1>3, <1>4, <1>5, <1>6, <1>7 DEF Next

LEMMA InitSInv ==
  ASSUME Init
  PROVE  SInv
<1>1. \A t \in Threads : pc[t] = "idle"
  BY DEF Init
<1>2. Alone /\ RespApplies
  BY DEF Init, Alone, Serving, Idle, RespApplies, Threads
<1>3. Entries
  BY DEF Init, Entries
<1>4. Ints
  BY DEF Init, Ints
<1>5. Children
  BY DEF Init, Children, Quiet, NoChild
<1>6. \A r \in Req : At(r)
  BY <1>1, InReq DEF At, AddAt, RemoveAt, Early, Undone, Uncounting
<1>7. ~crashed
  BY DEF Init
<1> QED BY <1>2, <1>3, <1>4, <1>5, <1>6, <1>7 DEF SInv
-----------------------------------------------------------------------------
(* What clients rely on, as long as no two nodes have one id.              *)

LEMMA InvPathsAgree ==
  ASSUME SInv, TInv
  PROVE  PathsAgree
<1>1. \A i \in analyses : /\ nodeAnal[i] # Nil /\ anal[nodeAnal[i]].live
                          /\ paths[Path(nodeAnal[i])] = nodeAnal[i]
  BY InReq DEF SInv, Entries, Entry
<1>2. ASSUME NEW p \in Paths, paths[p] # Nil
      PROVE  id[paths[p]] \in analyses \cup HeldIds
  <2>1. InTreap(paths[p]) \/ InHand(paths[p])
    BY <1>2 DEF SInv, Ints
  <2>2. CASE InTreap(paths[p])
    BY <2>2 DEF InTreap
  <2>3. CASE InHand(paths[p])
    <3>1. PICK t \in Req : /\ pc[t] \in {"insert", "unpath", "kill", "remove path"}
                           /\ id[t] = id[paths[p]]
      BY <2>3 DEF InHand
    <3>2. t \in Holders
      BY <3>1, InReq DEF Holders, Holding
    <3> QED BY <3>1, <3>2 DEF HeldIds
  <2> QED BY <2>1, <2>2, <2>3
<1> QED BY <1>1, <1>2 DEF PathsAgree

LEMMA InvSuspendAgreement ==
  ASSUME SInv, TInv
  PROVE  SuspendAgreement
<1> SUFFICES ASSUME NEW i \in analyses, Alive(nodeAnal[i])
             PROVE  /\ anal[nodeAnal[i]].suspended
                         = WillBeSuspended(child[nodeAnal[i]])
                    /\ ~({"TSTP", "CONT"} \subseteq child[nodeAnal[i]].pend)
  BY DEF SuspendAgreement
<1>1. PICK a \in Req : a = nodeAnal[i] /\ Agrees(a)
  BY DEF SInv, Entries, Entry
<1>2. child[a].state # "gone"
  BY <1>1 DEF Alive
<1>3. /\ anal[a].suspended <=> WillBeSuspended(child[a])
      /\ ~({"TSTP", "CONT"} \subseteq child[a].pend)
  BY <1>1, <1>2 DEF Agrees
<1>4. anal[a].suspended \in BOOLEAN
  <2>1. anal[a] \in Anal
    BY DEF TInv, TypeOK
  <2> QED BY <2>1 DEF Anal
<1>5. WillBeSuspended(child[a]) \in BOOLEAN
  BY DEF WillBeSuspended
<1> QED BY <1>1, <1>3, <1>4, <1>5

LEMMA InvListExact ==
  ASSUME SInv, TInv, Counted
  PROVE  ListExact
<1> SUFFICES ASSUME NEW r \in Req, pc[r] = "read"
             PROVE  copy[r].cnt = Cardinality(analyses)
  BY DEF ListExact
<1>1. copy[r].cnt = cnt
  BY DEF SInv, At
<1>2. Uncounted = {}
  BY OthersIdle DEF Uncounted, Idle
<1>3. Cardinality(Uncounted) = 0 /\ Cardinality(analyses) \in Nat /\ cnt \in Int
  BY <1>2, FS_EmptySet, FiniteParts
<1> QED BY <1>1, <1>3 DEF Counted

LEMMA StepNoOverlap ==
  ASSUME InTurn, TInv, UniqueIds, SInv, [Next]_vars
  PROVE  \A i \in analyses' \ analyses, j \in analyses :
           Path(nodeAnal[j]) \notin Ancestors[Path(nodeAnal[i])]
<1> SUFFICES ASSUME NEW i \in analyses' \ analyses, NEW j \in analyses
             PROVE  Path(nodeAnal[j]) \notin Ancestors[Path(nodeAnal[i])]
  OBVIOUS
<1>1. PICK r \in Req : AddInsertNode(r)
  <2>1. analyses' # analyses /\ ~(analyses' \subseteq analyses)
    OBVIOUS
  <2>2. PICK t \in Threads : Serve(t)
    BY <2>1 DEF Next, vars, Accept, Child, ChildStart, ChildSignal, ChildWalked,
                ChildReports, ChildFails, Send, Crash, RespReceive, treap, procs
  <2>3. ~Lock(t) /\ ~RespApply
    BY <2>1 DEF Lock, RespApply, treap, procs
  <2>4. ~Remove(t)
    BY <2>1 DEF Remove, RemoveUnknown, RemoveExtract, RemoveKill, RemovePath,
                RemoveRelease, RemoveFree, RemoveNull, treap, procs
  <2>5. t \in Req /\ Request(t)
    BY <2>2, <2>3, <2>4 DEF Serve
  <2>6. ~Suspend(t) /\ ~Resume(t) /\ ~ReadCopy(t) /\ ~Read(t)
    BY <2>1 DEF Suspend, Resume, SetSuspended, ReadCopy, Read, treap, procs
  <2>7. Add(t)
    BY <2>5, <2>6 DEF Request
  <2>8. AddInsertNode(t)
    BY <2>1, <2>7
       DEF Add, AddRefused, AddFindPrefix, AddGetId, AddNoId, AddInsertPath,
           AddNoMemory, ForkRequest, ForkRequestFails, AddReadPid, AddFinish,
           RollbackNode, RollbackPath, AddReturnId, treap, procs
  <2> QED BY <2>5, <2>8
<1>2. pc[r] = "insert" /\ i = id[r]
  BY <1>1 DEF AddInsertNode
<1>3. /\ nodeAnal[i] = r
      /\ \A p \in Ancestors[Path(r)] : paths[p] \in {Nil, r}
  BY <1>2 DEF SInv, At, AddAt
<1>4. /\ nodeAnal[j] \in Req /\ nodeAnal[j] # r
      /\ paths[Path(nodeAnal[j])] = nodeAnal[j]
  BY <1>2, NotEntry DEF SInv, Entries, Entry, Uncounting
<1> QED BY <1>3, <1>4, InReq
-----------------------------------------------------------------------------
(* With requests served in turn, ids are unique also without removals,     *)
(* whatever fails: the pool is the lone successor of the last id, and      *)
(* return_id drops it rightly.                                             *)

Sparing == NoFailure \/ "remove" \notin Tasks

HasId    == {"insert path", "insert"} \cup Uncounting \cup Undone
Removing == {"remove", "kill", "remove path", "release", "free", "null"}

LoneAt(f) == /\ available = {f} \cap Ids
             /\ \A i \in analyses : i < f
             /\ \A r \in Req : pc[r] \in HasId => id[r] = f - 1
LoneFrontier == \E f \in 1 .. IdMax + 1 : LoneAt(f)

PoolInv == /\ LoneFrontier
           /\ \A t \in Threads : pc[t] \notin Removing
           /\ \A r \in Req : pc[r] \in HasId \ Uncounting => id[r] \notin analyses

LEMMA PoolUnique ==
  ASSUME TInv, SInv, PoolInv
  PROVE  UniqueIds
<1>1. PICK f \in 1 .. IdMax + 1 : LoneAt(f)
  BY DEF PoolInv, LoneFrontier
<1>2. \A t \in Holders : /\ t \in Req /\ pc[t] \in HasId \ Uncounting
                         /\ pc[t] \notin Idle
  BY DEF Holders, Holding, PoolInv, Removing, HasId, Undone, Uncounting, SInv,
         RespApplies, Threads, Idle
<1>3. \A t \in Holders : id[t] \notin analyses /\ id[t] = f - 1
  BY <1>1, <1>2 DEF PoolInv, LoneAt
<1>4. available \cap analyses = {}
  BY <1>1 DEF LoneAt, TInv, TypeOK, Ids
<1>5. HeldIds \cap (available \cup analyses) = {}
  BY <1>1, <1>3 DEF HeldIds, LoneAt
<1>6. \A t, u \in Holders : t = u
  BY <1>2 DEF SInv, Alone, Serving
<1> QED BY <1>4, <1>5, <1>6 DEF UniqueIds

LEMMA InitPoolInv ==
  ASSUME Init
  PROVE  PoolInv
<1>1. Rebuild({}) = {1}
  BY DEF Rebuild, Ids
<1>2. LoneAt(1)
  BY <1>1 DEF Init, LoneAt, Ids, Threads, HasId, Uncounting, Undone
<1>3. 1 \in 1 .. IdMax + 1
  OBVIOUS
<1> QED BY <1>2, <1>3 DEF PoolInv, LoneFrontier, Init, Removing, Threads

\* A step that leaves the pool and the treap alone, of a thread that has an
\* id before if it has one after.
LEMMA PoolKept ==
  ASSUME PoolInv, UNCHANGED <<available, analyses>>,
         \A t \in Threads : pc'[t] \notin Removing,
         \A r \in Req : pc'[r] \in HasId =>
                          /\ pc[r] \in HasId /\ id'[r] = id[r]
                          /\ pc[r] \in Uncounting => pc'[r] \in Uncounting
  PROVE  PoolInv'
<1>1. PICK f \in 1 .. IdMax + 1 : LoneAt(f)
  BY DEF PoolInv, LoneFrontier
<1>2. LoneAt(f)'
  BY <1>1 DEF LoneAt
<1>3. \A r \in Req : pc'[r] \in HasId \ Uncounting => id'[r] \notin analyses'
  BY DEF PoolInv
<1> QED BY <1>2, <1>3 DEF PoolInv, LoneFrontier

LEMMA PoolMoves ==
  ASSUME PoolInv, NEW t \in Threads, NEW step, Moves(t, step),
         UNCHANGED <<available, analyses>>,
         \A r \in Req : r # t => id'[r] = id[r],
         step \notin Removing,
         step \in HasId => /\ pc[t] \in HasId /\ id'[t] = id[t]
                           /\ pc[t] \in Uncounting => step \in Uncounting
  PROVE  PoolInv'
<1>1. \A u \in Threads : pc'[u] \notin Removing
  BY DEF PoolInv, Moves
<1>2. \A r \in Req : pc'[r] \in HasId =>
                       /\ pc[r] \in HasId /\ id'[r] = id[r]
                       /\ pc[r] \in Uncounting => pc'[r] \in Uncounting
  BY InReq DEF Moves
<1> QED BY <1>1, <1>2, PoolKept

LEMMA IdsAreInts == Ids \subseteq Int /\ \A f \in Int : f - 1 < f
BY DEF Ids

\* A pool of one id, the last one and its successor.
LEMMA PoolOfOne ==
  ASSUME NEW f \in Int
  PROVE  Inner({f} \cap Ids) = {}
<1>1. \A i, j \in {f} : ~(i < j)
  OBVIOUS
<1> QED BY <1>1 DEF Inner

LEMMA GetMovesFrontier ==
  ASSUME NEW f \in Ids, NEW S, S \subseteq Int, \A j \in S : j < f
  PROVE  /\ AfterGet({f}, f) = {f + 1} \cap Ids
         /\ f + 1 \in 1 .. IdMax + 1 /\ f = (f + 1) - 1
         /\ \A j \in S : j < f + 1
         /\ f \notin S
<1>1. IdMax \in Nat /\ f \in Int /\ f >= 1 /\ f <= IdMax
  BY IdMaxAssumption DEF Ids
<1>2. Inner({f}) = {}
  BY <1>1 DEF Inner
<1>3. {f + 1} \cap Ids = IF f < IdMax THEN {f + 1} ELSE {}
  BY <1>1 DEF Ids
<1>4. AfterGet({f}, f) = {f + 1} \cap Ids
  BY <1>2, <1>3 DEF AfterGet
<1>5. /\ f + 1 \in 1 .. IdMax + 1 /\ f = (f + 1) - 1
      /\ \A j \in S : j < f + 1
      /\ f \notin S
  BY <1>1
<1> QED BY <1>4, <1>5

LEMMA ReturnMovesFrontier ==
  ASSUME NEW f \in Int, f - 1 \in Ids, NEW S, S \subseteq Int,
         \A j \in S : j < f, f - 1 \notin S
  PROVE  /\ AfterReturn({f} \cap Ids, f - 1) = {f - 1} \cap Ids
         /\ f - 1 \in 1 .. IdMax + 1
         /\ \A j \in S : j < f - 1
<1>1. AfterReturn({f} \cap Ids, f - 1) = {f - 1} \cap Ids
  <2>1. Inner({f} \cap Ids) = {}
    BY PoolOfOne
  <2> QED BY <2>1 DEF AfterReturn
<1>2. f - 1 \in 1 .. IdMax + 1
  BY IdMaxAssumption DEF Ids
<1>3. \A j \in S : j \in Int /\ j < f /\ j # f - 1
  OBVIOUS
<1>4. \A j \in S : j < f - 1
  BY <1>3
<1> QED BY <1>1, <1>2, <1>4

\* The steps of an add that move a node.
LEMMA AddPool ==
  ASSUME TInv, SInv, PoolInv, NEW r \in Req,
         AddGetId(r) \/ AddInsertNode(r) \/ RollbackNode(r) \/ AddReturnId(r)
  PROVE  PoolInv'
<1>1. PICK f \in 1 .. IdMax + 1 : LoneAt(f)
  BY DEF PoolInv, LoneFrontier
<1>2. r \in Threads /\ f \in Int /\ f >= 1 /\ IdMax \in Nat /\ pc[r] \notin Idle
  <2>1. IdMax \in Nat
    BY IdMaxAssumption
  <2>2. f \in Int /\ f >= 1
    BY <2>1
  <2>3. r \in Threads /\ pc[r] \notin Idle
    BY InReq DEF AddGetId, AddInsertNode, RollbackNode, AddReturnId, Idle
  <2> QED BY <2>1, <2>2, <2>3
<1>3. \A q \in Req : q # r => pc[q] \in Idle
  BY <1>2, OthersIdle
<1>4. PICK step \in {"insert path", "fork", "unpath", "done"} :
        /\ Moves(r, step)
        /\ AddGetId(r) <=> step = "insert path"
        /\ AddInsertNode(r) <=> step = "fork"
        /\ RollbackNode(r) <=> step = "unpath"
        /\ AddReturnId(r) <=> step = "done"
  <2>1. AddGetId(r) => Moves(r, "insert path") /\ pc[r] = "get id"
    BY <1>2, GotoMoves DEF AddGetId
  <2>2. AddInsertNode(r) => Moves(r, "fork") /\ pc[r] = "insert"
    BY <1>2, GotoMoves DEF AddInsertNode
  <2>3. RollbackNode(r) => Moves(r, "unpath") /\ pc[r] = "rollback"
    BY <1>2, GotoMoves DEF RollbackNode
  <2>4. AddReturnId(r) => Moves(r, "done") /\ pc[r] = "return id"
    BY <1>2, GotoMoves DEF AddReturnId
  <2> QED BY <2>1, <2>2, <2>3, <2>4
<1>5. /\ \A t \in Threads : pc'[t] \notin Removing
      /\ \A q \in Req : pc'[q] \in HasId => q = r
      /\ pc'[r] = step
  BY <1>2, <1>3, <1>4, InReq
     DEF PoolInv, Moves, Removing, HasId, Idle, Uncounting, Undone
<1>6. /\ analyses \subseteq Int /\ \A j \in analyses : j < f
      /\ available = {f} \cap Ids
  <2>1. analyses \subseteq Ids
    BY Zenon DEF TInv, TypeOK
  <2>2. Ids \subseteq Int
    BY IdsAreInts
  <2>3. (\A j \in analyses : j < f) /\ available = {f} \cap Ids
    BY <1>1, Zenon DEF LoneAt
  <2> QED BY <2>1, <2>2, <2>3, Zenon
<1>7. CASE AddGetId(r)
  <2>1. PICK i \in GetChoices(available) : /\ available' = AfterGet(available, i)
                                           /\ id' = [id EXCEPT ![r] = i]
    BY <1>7, Zenon DEF AddGetId
  <2>2. GetChoices(available) = {f} \cap Ids
    <3>1. Inner(available) = {}
      BY <1>2, <1>6, PoolOfOne, Zenon
    <3> QED BY <1>6, <3>1, Zenon DEF GetChoices
  <2>3. i = f /\ f \in Ids /\ available = {f}
    BY <1>6, <2>2, Zenon
  <2>4. /\ available' = {f + 1} \cap Ids
        /\ f + 1 \in 1 .. IdMax + 1 /\ f = (f + 1) - 1
        /\ \A j \in analyses : j < f + 1
        /\ f \notin analyses
    <3>1. AfterGet(available, i) = AfterGet({f}, f)
      BY <2>3, Zenon
    <3>2. f \in Ids /\ analyses \subseteq Int /\ \A j \in analyses : j < f
      BY <1>6, <2>3, Zenon
    <3>3. /\ AfterGet({f}, f) = {f + 1} \cap Ids
          /\ f + 1 \in 1 .. IdMax + 1 /\ f = (f + 1) - 1
          /\ \A j \in analyses : j < f + 1
          /\ f \notin analyses
      BY ONLY <3>2, GetMovesFrontier, Zenon
    <3> QED BY <2>1, <3>1, <3>3, Zenon
  <2>5. id'[r] = f
    BY <2>1, <2>3 DEF TInv, TypeOK, Threads
  <2>6. analyses' = analyses
    BY <1>7, Zenon DEF AddGetId
  <2>7. LoneAt(f + 1)'
    BY <1>5, <2>4, <2>5, <2>6, Zenon DEF LoneAt
  <2>8. LoneFrontier'
    BY <2>4, <2>7, Zenon DEF LoneFrontier
  <2>9. id'[r] \notin analyses'
    BY <2>4, <2>5, <2>6, Zenon
  <2> QED BY <1>5, <2>8, <2>9, Zenon DEF PoolInv
<1>8. CASE AddInsertNode(r)
  <2>1. /\ analyses' = analyses \cup {id[r]} /\ available' = available /\ id' = id
        /\ pc[r] = "insert" /\ step = "fork"
    BY <1>4, <1>8 DEF AddInsertNode
  <2>2. id[r] = f - 1
    BY <1>1, <2>1 DEF LoneAt, HasId
  <2>3. f - 1 < f
    BY <1>2, IdsAreInts, Zenon
  <2>4. \A i \in analyses' : i < f
    BY <1>6, <2>1, <2>2, <2>3, Zenon
  <2>5. LoneAt(f)'
    BY <1>5, <1>6, <2>1, <2>2, <2>4, Zenon DEF LoneAt
  <2>6. step \in Uncounting
    BY <2>1 DEF Uncounting
  <2> QED BY <1>5, <2>5, <2>6, Zenon DEF PoolInv, LoneFrontier
<1>9. CASE RollbackNode(r)
  <2>1. /\ analyses' = analyses \ {id[r]} /\ available' = available /\ id' = id
        /\ pc[r] = "rollback"
    BY <1>9 DEF RollbackNode
  <2>2. id[r] = f - 1
    BY <1>1, <2>1 DEF LoneAt, HasId, Uncounting
  <2>3. LoneAt(f)'
    BY <1>1, <1>5, <2>1, <2>2, Zenon DEF LoneAt
  <2>4. id'[r] \notin analyses'
    BY <2>1, Zenon
  <2> QED BY <1>5, <2>3, <2>4, Zenon DEF PoolInv, LoneFrontier
<1>10. CASE AddReturnId(r)
  <2>1. /\ available' = AfterReturn(available, id[r]) /\ id' = id
        /\ analyses' = analyses /\ pc[r] = "return id" /\ step = "done"
    BY <1>4, <1>10 DEF AddReturnId
  <2>2. id[r] = f - 1 /\ id[r] \notin analyses
    BY <1>1, <2>1 DEF LoneAt, PoolInv, HasId, Undone, Uncounting
  <2>3. id[r] \in Ids
    BY <1>2, <2>1 DEF TInv, IdKnown, Knowing, Holding
  <2>4. /\ available' = {f - 1} \cap Ids
        /\ f - 1 \in 1 .. IdMax + 1
        /\ \A j \in analyses' : j < f - 1
    BY <1>2, <1>6, <2>1, <2>2, <2>3, ReturnMovesFrontier, Zenon
  <2>5. step \notin HasId
    BY <2>1 DEF HasId, Uncounting, Undone
  <2>6. \A q \in Req : pc'[q] \notin HasId
    BY <1>5, <2>5, Zenon
  <2>7. LoneAt(f - 1)'
    BY <2>4, <2>6, Zenon DEF LoneAt
  <2>8. LoneFrontier'
    BY <2>4, <2>7, Zenon DEF LoneFrontier
  <2> QED BY <1>5, <2>6, <2>8, Zenon DEF PoolInv
<1> QED BY <1>7, <1>8, <1>9, <1>10

\* The other steps of an add.
LEMMA AddPoolKept ==
  ASSUME TInv, SInv, PoolInv, NEW r \in Req, Add(r),
         ~AddGetId(r), ~AddInsertNode(r), ~RollbackNode(r), ~AddReturnId(r)
  PROVE  PoolInv'
<1> USE DEF HasId, Removing, Uncounting, Undone
<1>1. r \in Threads
  BY InReq
<1>2. CASE AddRefused(r) \/ AddNoId(r)
  BY <1>1, <1>2, GotoMoves, PoolMoves DEF AddRefused, AddNoId, treap
<1>3. CASE AddFindPrefix(r)
  BY <1>1, <1>3, GotoMoves, PoolMoves DEF AddFindPrefix, treap
<1>4. CASE AddInsertPath(r)
  BY <1>1, <1>4, GotoMoves, PoolMoves DEF AddInsertPath, treap
<1>5. CASE AddNoMemory(r)
  BY <1>1, <1>5, GotoMoves, PoolMoves DEF AddNoMemory, treap
<1>6. CASE ForkRequest(r)
  BY <1>1, <1>6, GotoMoves, PoolMoves DEF ForkRequest, treap
<1>7. CASE ForkRequestFails(r)
  BY <1>1, <1>7, GotoMoves, PoolMoves DEF ForkRequestFails, treap
<1>8. CASE AddReadPid(r)
  BY <1>1, <1>8, GotoMoves, PoolMoves DEF AddReadPid, treap
<1>9. CASE AddFinish(r)
  BY <1>1, <1>9, GotoMoves, PoolMoves DEF AddFinish
<1>10. CASE RollbackPath(r)
  BY <1>1, <1>10, GotoMoves, PoolMoves DEF RollbackPath, treap
<1> QED BY <1>2, <1>3, <1>4, <1>5, <1>6, <1>7, <1>8, <1>9, <1>10 DEF Add

LEMMA ArrivalsPool ==
  ASSUME "remove" \notin Tasks, TInv, SInv, PoolInv,
         RespReceive \/ \E r \in Req : Accept(r)
  PROVE  PoolInv'
<1>1. CASE RespReceive
  <2>1. inbox \in Seq([id : Ids \cup {NoId}, ok : BOOLEAN]) /\ inbox # <<>>
    BY <1>1 DEF RespReceive, TInv, TypeOK
  <2>2. Head(inbox).ok
    BY <2>1 DEF SInv, RespApplies
  <2>3. Resp \in Threads /\ Moves(Resp, "apply")
    BY <1>1, <2>2, GotoMoves DEF RespReceive, Threads
  <2>4. /\ UNCHANGED <<available, analyses>>
        /\ \A r \in Req : r # Resp => id'[r] = id[r]
    BY <1>1, InReq DEF RespReceive, treap, TInv, TypeOK
  <2> QED BY <2>3, <2>4, PoolMoves DEF HasId, Removing, Uncounting, Undone
<1>2. ASSUME NEW r \in Req, Accept(r) PROVE PoolInv'
  <2>1. r \in Threads
    BY InReq
  <2>2. PICK task \in Tasks :
          /\ Goto(r, task)
          /\ id' = id \/ \E i \in Ids \cup {NoId} : id' = [id EXCEPT ![r] = i]
    BY <1>2 DEF Accept
  <2>3. task \notin Removing \cup HasId /\ Moves(r, task)
    BY <2>1, <2>2, GotoMoves DEF HasId, Removing, Uncounting, Undone
  <2>4. /\ UNCHANGED <<available, analyses>>
        /\ \A q \in Req : q # r => id'[q] = id[q]
    BY <1>2, <2>1, <2>2, InReq DEF Accept, treap, TInv, TypeOK
  <2> QED BY <2>1, <2>3, <2>4, PoolMoves
<1> QED BY <1>1, <1>2

LEMMA NextPoolInv ==
  ASSUME "remove" \notin Tasks, TInv, SInv, PoolInv, [Next]_vars
  PROVE  PoolInv'
<1>1. CASE UNCHANGED <<pc, id, available, analyses>>
  BY <1>1, PoolKept DEF PoolInv
<1>2. CASE RespReceive \/ \E r \in Req : Accept(r)
  BY <1>2, ArrivalsPool
<1>3. ASSUME NEW t \in Threads, Serve(t) PROVE PoolInv'
  <2> USE DEF HasId, Removing, Uncounting, Undone
  <2>1. CASE Lock(t)
    BY <1>1, <2>1 DEF Lock, treap
  <2>2. ~Remove(t)
    BY DEF PoolInv, Remove, RemoveUnknown, RemoveExtract, RemoveKill,
           RemovePath, RemoveRelease, RemoveFree, RemoveNull
  <2>3. CASE t \in Req /\ Add(t)
    BY <2>3, AddPool, AddPoolKept
  <2>4. CASE t \in Req /\ (Suspend(t) \/ Resume(t))
    BY <2>4, GotoMoves, PoolMoves DEF Suspend, Resume, SetSuspended, treap
  <2>5. CASE t \in Req /\ ReadCopy(t)
    BY <2>5, GotoMoves, PoolMoves DEF ReadCopy, treap
  <2>6. CASE t \in Req /\ Read(t)
    BY <2>6, GotoMoves, PoolMoves DEF Read, treap
  <2>7. CASE t = Resp /\ RespApply
    <3>1. Moves(Resp, "idle")
      BY <2>7, GotoMoves DEF RespApply, Ended
    <3> QED BY <2>7, <3>1, PoolMoves DEF RespApply, treap
  <2> QED BY <1>3, <2>1, <2>2, <2>3, <2>4, <2>5, <2>6, <2>7 DEF Serve, Request
<1>4. ASSUME NEW r \in Req, Child(r) PROVE PoolInv'
  BY <1>1, <1>4 DEF Child, ChildStart, ChildSignal, ChildWalked, ChildReports,
                    ChildFails, Send, treap
<1>5. ASSUME NEW t \in Threads, Crash(t) PROVE PoolInv'
  BY <1>1, <1>5 DEF Crash, treap
<1>6. CASE UNCHANGED vars
  BY <1>1, <1>6 DEF vars
<1> QED BY <1>2, <1>3, <1>4, <1>5, <1>6 DEF Next
-----------------------------------------------------------------------------
(* The theorems.                                                           *)

\* Served in turn, requests keep the ids unique when no analysis is removed,
\* whatever step of an add fails, and when no add fails, as long as there
\* are more ids than requests.
THEOREM UniqueInTurn ==
  ASSUME InTurn, Sparing
  PROVE  Spec => []UniqueIds
<1>1. CASE NoFailure
  BY <1>1, UniqueIdsHold
<1>2. CASE "remove" \notin Tasks
  <2>1. Init => TInv /\ SInv /\ PoolInv
    BY InitTInv, InitSInv, InitPoolInv
  <2>2. TInv /\ SInv /\ PoolInv /\ [Next]_vars => (TInv /\ SInv /\ PoolInv)'
    BY <1>2, PoolUnique, NextSInv, NextPoolInv
  <2>3. TInv /\ SInv /\ PoolInv => UniqueIds
    BY PoolUnique
  <2> QED BY <2>1, <2>2, <2>3, PTL DEF Spec
<1> QED BY <1>1, <1>2 DEF Sparing

\* While ids are unique, requests served in turn keep SInv.
LEMMA SerialInvariant ==
  ASSUME InTurn
  PROVE  Spec /\ []UniqueIds => [](TInv /\ SInv /\ Counted)
<1>1. Init => TInv /\ SInv /\ Counted
  BY InitTInv, InitSInv, InitCounted
<1>2. TInv /\ SInv /\ Counted /\ UniqueIds /\ [Next]_vars
        => (TInv /\ SInv /\ Counted)'
  BY NextSInv, NextCounted
<1> QED BY <1>1, <1>2, PTL DEF Spec

\* The path tree and the treap tell the same analyses, also while an add is
\* undone piece by piece.
THEOREM PathsAgreeInTurn ==
  ASSUME InTurn
  PROVE  Spec /\ []UniqueIds => []PathsAgree
BY SerialInvariant, InvPathsAgree, PTL

\* The flag that status requests report and the process agree, whenever
\* SIGTSTP and SIGCONT reach the process.
THEOREM SuspendAgreementInTurn ==
  ASSUME InTurn
  PROVE  Spec /\ []UniqueIds => []SuspendAgreement
BY SerialInvariant, InvSuspendAgreement, PTL

\* A list announces as many entries as it sends.
THEOREM ListExactInTurn ==
  ASSUME InTurn
  PROVE  Spec /\ []UniqueIds => []ListExact
BY SerialInvariant, InvListExact, PTL

\* No request follows a null pointer, frees a struct twice or signals the
\* manager's own process group.
THEOREM NeverCrashesInTurn ==
  ASSUME InTurn
  PROVE  Spec /\ []UniqueIds => []NeverCrashes
<1>1. SInv => NeverCrashes
  BY DEF SInv, NeverCrashes
<1> QED BY <1>1, SerialInvariant, PTL

\* No directory is analysed under another one that is.
THEOREM NoOverlapInTurn ==
  ASSUME InTurn
  PROVE  Spec /\ []UniqueIds => NoOverlap
<1>1. TInv /\ SInv /\ UniqueIds /\ [Next]_vars =>
        [\A i \in analyses' \ analyses, j \in analyses :
           Path(nodeAnal[j]) \notin Ancestors[Path(nodeAnal[i])]]_vars
  BY StepNoOverlap
<1> QED BY <1>1, SerialInvariant, PTL DEF Spec, NoOverlap

\* So all of it holds when no analysis is removed, whatever fails, and when
\* no add fails, as long as there are more ids than requests.
THEOREM ServedInTurn ==
  ASSUME InTurn, Sparing
  PROVE  Spec => /\ [](PathsAgree /\ SuspendAgreement /\ ListExact /\ NeverCrashes)
                 /\ NoOverlap
BY UniqueInTurn, PathsAgreeInTurn, SuspendAgreementInTurn, ListExactInTurn,
   NeverCrashesInTurn, NoOverlapInTurn, PTL
=============================================================================

------------------------------ MODULE Shutdown ------------------------------
(***************************************************************************)
(* How the manager is stopped.  Three kinds of processes take part: the    *)
(* forks manager (FM), its child the threads manager (TM) with its         *)
(* requests, responses, main and request threads, and the analysis         *)
(* processes.  They tell each other the stages by SIGTERM: FM passes the   *)
(* first one on to TM; the requests thread waits for the request threads   *)
(* and sends the second one back; FM sends SIGTERM to the whole group;     *)
(* when the processes have ended and SIGUSR1 came, FM releases TM.         *)
(*                                                                         *)
(* A client c is also the request thread that serves it and, if it asks    *)
(* for an analysis, the process forked for it.  What the requests do is in *)
(* ThreadsManager.  A signal handler is one step; a pending signal is in a *)
(* set, so that two of one kind are delivered once.  --cnt_threads and     *)
(* ++cnt_forks are a load and a store.                                     *)
(***************************************************************************)
EXTENDS Integers, FiniteSets

CONSTANTS Client,    \* clients that connect
          Nil,       \* no descriptor
          MaxStops,  \* reasons to stop: SIGTERMs from outside and faults
          Faults     \* calls that may fail: "accept", "fork"

ASSUME ShutdownAssumption == /\ IsFiniteSet(Client) /\ Nil \notin Client
                             /\ MaxStops \in Nat
                             /\ Faults \subseteq {"accept", "fork"}

VARIABLES
  requests,    \* what the requests thread does next
  responses,   \* is the responses thread still accepting, waiting, ended
  saved,       \* threads_shutdown has written the tables
  worker,      \* the request thread of each client
  fd,          \* man->requests_connection.client_fd
  socket,      \* is socket_mutex locked
  counter,     \* is counter_mutex locked
  cntThreads,  \* cnt_threads
  reg,         \* the value each request thread loaded to decrement it
  tmDone,      \* TM: done
  tmTerm,      \* TM: what SIGTERM does
  tmPend,      \* TM: is a SIGTERM pending
  fm,          \* what FM does next
  fmDone,      \* FM: done
  resmanDone,  \* FM: resman_done
  fmTerm,      \* FM: what SIGTERM does
  fmPend,      \* FM: pending signals
  cntForks,    \* FM: cnt_forks
  freg,        \* FM: the value loaded to increment it
  child,       \* the analysis process of each client
  stops        \* reasons to stop so far

pool   == <<worker, fd, socket, counter, cntThreads, reg>>
tmSig  == <<tmDone, tmTerm, tmPend>>
fmSig  == <<fmDone, resmanDone, fmTerm, fmPend>>
forks  == <<fm, cntForks, freg, child>>
vars == <<requests, responses, saved, pool, tmSig, fmSig, forks, stops>>

\* Request threads counted in cnt_threads, up to their decrement.
Counted  == {"created", "serving", "asked", "forked", "leaving", "loaded"}
Workers  == Counted \cup {"outside", "queued", "accepted", "stored", "gone"}
Live     == {"forked", "running", "stopping"}
FmLoops  == {"loop", "accept", "load", "store"}

Init == /\ requests = "loop" /\ responses = "loop" /\ saved = FALSE
        /\ worker = [c \in Client |-> "outside"]
        /\ fd = Nil /\ socket = FALSE /\ counter = FALSE
        /\ cntThreads = 0
        /\ reg = [c \in Client |-> 0]
        /\ tmDone = 0 /\ tmTerm = "reqman" /\ tmPend = FALSE
        /\ fm = "loop" /\ fmDone = FALSE /\ resmanDone = FALSE
        /\ fmTerm = "handler1" /\ fmPend = {}
        /\ cntForks = 0 /\ freg = 0
        /\ child = [c \in Client |-> "none"]
        /\ stops = 0

\* An ignored signal is dropped.
TermToFm == fmPend' = IF fmTerm = "ignore" THEN fmPend
                      ELSE fmPend \cup {"TERM"}
TermToTm == tmPend' = (tmPend \/ tmTerm # "ignore")
Fault    == stops < MaxStops /\ stops' = stops + 1

\* systemctl stop: KillMode=process, so FM alone is signalled.
Stop == /\ Fault
        /\ TermToFm
        /\ UNCHANGED <<requests, responses, saved, pool, tmSig, fmDone,
                       resmanDone, fmTerm, forks>>

Connect(c) == /\ worker[c] = "outside"
              /\ worker' = [worker EXCEPT ![c] = "queued"]
              /\ UNCHANGED <<requests, responses, saved, fd, socket, counter,
                             cntThreads, reg, tmSig, fmSig, forks, stops>>
-----------------------------------------------------------------------------
(* do_requests_manager *)

ReqLoop == /\ requests = "loop"
           /\ requests' = IF tmDone # 0 THEN "wait" ELSE "lock"
           /\ UNCHANGED <<responses, saved, pool, tmSig, fmSig, forks, stops>>

ReqLock == /\ requests = "lock" /\ ~socket
           /\ socket' = TRUE
           /\ requests' = "accept"
           /\ UNCHANGED <<responses, saved, worker, fd, counter, cntThreads,
                          reg, tmSig, fmSig, forks, stops>>

Queued == {c \in Client : worker[c] = "queued"}

\* A mutant: the requests thread itself gives socket_mutex back.
ReqAcceptUnlocks ==
  /\ requests = "accept"
  /\ \E c \in Queued : /\ fd' = c
                       /\ worker' = [worker EXCEPT ![c] = "accepted"]
  /\ requests' = "count"
  /\ socket' = FALSE
  /\ UNCHANGED <<responses, saved, counter, cntThreads, reg, tmSig, fmSig,
                 forks, stops>>

\* socket_mutex stays locked until the new thread has read client_fd.
ReqAccept ==
  /\ requests = "accept"
  /\ \E c \in Queued : /\ fd' = c
                       /\ worker' = [worker EXCEPT ![c] = "accepted"]
  /\ requests' = "count"
  /\ UNCHANGED <<responses, saved, socket, counter, cntThreads, reg, tmSig,
                 fmSig, forks, stops>>

\* EAGAIN: nobody is there.
ReqAgain ==
  /\ requests = "accept" /\ Queued = {}
  /\ fd' = Nil
  /\ socket' = FALSE
  /\ requests' = "loop"
  /\ UNCHANGED <<responses, saved, worker, counter, cntThreads, reg, tmSig,
                 fmSig, forks, stops>>

ReqFails ==
  /\ requests = "accept" /\ "accept" \in Faults
  /\ Fault
  /\ fd' = Nil
  /\ socket' = FALSE
  /\ TermToFm
  /\ requests' = "wait"
  /\ UNCHANGED <<responses, saved, worker, counter, cntThreads, reg, tmSig,
                 fmDone, resmanDone, fmTerm, forks>>

\* A mutant: the thread is created without being counted.
ReqCountForgotten ==
  /\ requests = "count" /\ ~counter
  /\ worker' = [worker EXCEPT ![fd] = "created"]
  /\ requests' = "loop"
  /\ UNCHANGED <<responses, saved, fd, socket, counter, cntThreads, reg,
                 tmSig, fmSig, forks, stops>>

\* incr_counter and pthread_create.
ReqCount ==
  /\ requests = "count" /\ ~counter
  /\ cntThreads' = cntThreads + 1
  /\ worker' = [worker EXCEPT ![fd] = "created"]
  /\ requests' = "loop"
  /\ UNCHANGED <<responses, saved, fd, socket, counter, reg, tmSig, fmSig,
                 forks, stops>>

ReqWait == /\ requests = "wait" /\ tmDone # 0
           /\ requests' = "drain"
           /\ UNCHANGED <<responses, saved, pool, tmSig, fmSig, forks, stops>>

ReqDrain == /\ requests = "drain" /\ ~counter
            /\ counter' = TRUE
            /\ requests' = "spin"
            /\ UNCHANGED <<responses, saved, worker, fd, socket, cntThreads,
                           reg, tmSig, fmSig, forks, stops>>

\* The loop unlocks a mutex that from the second time on it does not hold:
\* whoever holds it loses it.
ReqSpin == /\ requests = "spin" /\ cntThreads # 0
           /\ counter' = FALSE
           /\ UNCHANGED <<requests, responses, saved, worker, fd, socket,
                          cntThreads, reg, tmSig, fmSig, forks, stops>>

\* A mutant: nobody waits for the request threads.
ReqEndAtOnce ==
  /\ requests = "spin"
  /\ counter' = FALSE
  /\ TermToFm
  /\ requests' = "ended"
  /\ UNCHANGED <<responses, saved, worker, fd, socket, cntThreads, reg, tmSig,
                 fmDone, resmanDone, fmTerm, forks, stops>>

ReqEnd ==
  /\ requests = "spin" /\ cntThreads = 0
  /\ counter' = FALSE
  /\ TermToFm
  /\ requests' = "ended"
  /\ UNCHANGED <<responses, saved, worker, fd, socket, cntThreads, reg, tmSig,
                 fmDone, resmanDone, fmTerm, forks, stops>>

Requests == \/ ReqLoop \/ ReqLock \/ ReqAccept \/ ReqAgain \/ ReqCount
            \/ ReqWait \/ ReqDrain \/ ReqSpin \/ ReqEnd
-----------------------------------------------------------------------------
(* request_thread and decr_counter *)

Move(c, from, to) == /\ worker[c] = from
                     /\ worker' = [worker EXCEPT ![c] = to]

TakeFd(c) == /\ Move(c, "created", "serving")
             /\ socket' = FALSE
             /\ UNCHANGED <<requests, responses, saved, fd, counter,
                            cntThreads, reg, tmSig, fmSig, forks, stops>>

\* An add connects to FM and waits for the pid; every other task, and an add
\* that fails before, is over without FM.
Serve(c) == /\ Move(c, "serving", "asked") \/ Move(c, "serving", "leaving")
            /\ UNCHANGED <<requests, responses, saved, fd, socket, counter,
                           cntThreads, reg, tmSig, fmSig, forks, stops>>

ReadPid(c) == /\ child[c] # "forked"
              /\ Move(c, "forked", "leaving")
              /\ UNCHANGED <<requests, responses, saved, fd, socket, counter,
                             cntThreads, reg, tmSig, fmSig, forks, stops>>

DecrLoad(c) == /\ ~counter
               /\ Move(c, "leaving", "loaded")
               /\ counter' = TRUE
               /\ reg' = [reg EXCEPT ![c] = cntThreads]
               /\ UNCHANGED <<requests, responses, saved, fd, socket,
                              cntThreads, tmSig, fmSig, forks, stops>>

DecrStore(c) == /\ Move(c, "loaded", "stored")
                /\ cntThreads' = reg[c] - 1
                /\ UNCHANGED <<requests, responses, saved, fd, socket,
                               counter, reg, tmSig, fmSig, forks, stops>>

DecrUnlock(c) == /\ Move(c, "stored", "gone")
                 /\ counter' = FALSE
                 /\ UNCHANGED <<requests, responses, saved, fd, socket,
                                cntThreads, reg, tmSig, fmSig, forks, stops>>

Worker(c) == \/ TakeFd(c) \/ Serve(c) \/ ReadPid(c)
             \/ DecrLoad(c) \/ DecrStore(c) \/ DecrUnlock(c)
-----------------------------------------------------------------------------
(* do_responses_manager, without the results; the main thread of TM. *)

RespFails == /\ responses = "loop" /\ "accept" \in Faults
             /\ Fault
             /\ TermToFm
             /\ responses' = "wait"
             /\ UNCHANGED <<requests, saved, pool, tmSig, fmDone, resmanDone,
                            fmTerm, forks>>

RespEnd == /\ responses # "ended" /\ tmDone = 3
           /\ responses' = "ended"
           /\ UNCHANGED <<requests, saved, pool, tmSig, fmSig, forks, stops>>

MainSaves == /\ requests = "ended" /\ responses = "ended" /\ ~saved
             /\ saved' = TRUE
             /\ UNCHANGED <<requests, responses, pool, tmSig, fmSig, forks,
                            stops>>

\* A mutant: SIGUSR1 is sent one stage late.
TmTermLate ==
  /\ tmPend
  /\ tmPend' = FALSE
  /\ tmDone' = tmDone + 1
  /\ tmTerm' = IF tmDone' >= 3 THEN "ignore" ELSE "resman"
  /\ fmPend' = IF tmTerm = "resman" /\ tmDone' = 3 /\ ~resmanDone
               THEN fmPend \cup {"USR1"} ELSE fmPend
  /\ UNCHANGED <<requests, responses, saved, pool, fmDone, resmanDone, fmTerm,
                 forks, stops>>

\* reqman_handler, later resman_handler.
TmTerm ==
  /\ tmPend
  /\ tmPend' = FALSE
  /\ tmDone' = tmDone + 1
  /\ tmTerm' = IF tmDone' >= 3 THEN "ignore" ELSE "resman"
  /\ fmPend' = IF tmTerm = "resman" /\ tmDone' = 2 /\ ~resmanDone
               THEN fmPend \cup {"USR1"} ELSE fmPend
  /\ UNCHANGED <<requests, responses, saved, pool, fmDone, resmanDone, fmTerm,
                 forks, stops>>
-----------------------------------------------------------------------------
(* do_forks_manager and forks_add in the parent *)

Asked == {c \in Client : worker[c] = "asked"}

FmLoop == /\ fm = "loop"
          /\ fm' = IF fmDone THEN "wait" ELSE "accept"
          /\ UNCHANGED <<requests, responses, saved, pool, tmSig, fmSig,
                         cntForks, freg, child, stops>>

FmAgain == /\ fm = "accept" /\ Asked = {}
           /\ fm' = "loop"
           /\ UNCHANGED <<requests, responses, saved, pool, tmSig, fmSig,
                          cntForks, freg, child, stops>>

FmFork == /\ fm = "accept"
          /\ \E c \in Asked : /\ worker' = [worker EXCEPT ![c] = "forked"]
                              /\ child' = [child EXCEPT ![c] = "forked"]
          /\ fm' = "load"
          /\ UNCHANGED <<requests, responses, saved, fd, socket, counter,
                         cntThreads, reg, tmSig, fmSig, cntForks, freg,
                         stops>>

FmLoad == /\ fm = "load"
          /\ freg' = cntForks
          /\ fm' = "store"
          /\ UNCHANGED <<requests, responses, saved, pool, tmSig, fmSig,
                         cntForks, child, stops>>

FmStore == /\ fm = "store"
           /\ cntForks' = freg + 1
           /\ fm' = "loop"
           /\ UNCHANGED <<requests, responses, saved, pool, tmSig, fmSig,
                          freg, child, stops>>

\* accept fails, or fork: then the descriptor stays open and the add that
\* asked waits for ever.
FmFails == /\ fm = "accept"
           /\ "accept" \in Faults \/ ("fork" \in Faults /\ Asked # {})
           /\ Fault
           /\ TermToFm
           /\ fm' = "wait"
           /\ UNCHANGED <<requests, responses, saved, pool, tmSig, fmDone,
                          resmanDone, fmTerm, cntForks, freg, child>>

FmWait == /\ fm = "wait" /\ fmDone
          /\ fm' = "broadcast"
          /\ UNCHANGED <<requests, responses, saved, pool, tmSig, fmSig,
                         cntForks, freg, child, stops>>

\* kill(0, SIGTERM).  FM ignores it by now; a process that has not yet
\* installed its handlers would not stop (RequestsFirst: there is none).
FmBroadcast ==
  /\ fm = "broadcast"
  /\ TermToTm
  /\ child' = [c \in Client |-> IF child[c] = "running" THEN "stopping"
                                ELSE child[c]]
  /\ fm' = "drain"
  /\ UNCHANGED <<requests, responses, saved, pool, tmDone, tmTerm, fmSig,
                 cntForks, freg, stops>>

\* A mutant: FM does not wait for the analysis processes.
FmEndAtOnce ==
  /\ fm = "drain" /\ resmanDone
  /\ TermToTm
  /\ fm' = "exited"
  /\ UNCHANGED <<requests, responses, saved, pool, tmDone, tmTerm, fmSig,
                 cntForks, freg, child, stops>>

FmEnd ==
  /\ fm = "drain" /\ cntForks = 0 /\ resmanDone
  /\ TermToTm
  /\ fm' = "exited"
  /\ UNCHANGED <<requests, responses, saved, pool, tmDone, tmTerm, fmSig,
                 cntForks, freg, child, stops>>

ForksManager == \/ FmLoop \/ FmAgain \/ FmFork \/ FmLoad \/ FmStore
                \/ FmWait \/ FmBroadcast \/ FmEnd
-----------------------------------------------------------------------------
(* The signal handlers of FM *)

\* forkman_handler1, later forkman_handler2.
FmTerm ==
  /\ fm # "exited" /\ "TERM" \in fmPend
  /\ fmPend' = fmPend \ {"TERM"}
  /\ IF fmTerm = "handler1"
     THEN /\ fmTerm' = "handler2"
          /\ TermToTm
          /\ UNCHANGED fmDone
     ELSE /\ fmTerm' = "ignore"
          /\ fmDone' = TRUE
          /\ UNCHANGED tmPend
  /\ UNCHANGED <<requests, responses, saved, pool, tmDone, tmTerm, resmanDone,
                 forks, stops>>

FmUsr1 ==
  /\ fm # "exited" /\ "USR1" \in fmPend
  /\ fmPend' = fmPend \ {"USR1"}
  /\ resmanDone' = TRUE
  /\ UNCHANGED <<requests, responses, saved, pool, tmSig, fmDone, fmTerm,
                 forks, stops>>

\* child_done_handler: one process is waited for, however many have ended.
FmChld ==
  /\ fm # "exited" /\ "CHLD" \in fmPend
  /\ fmPend' = fmPend \ {"CHLD"}
  /\ \E c \in Client : /\ child[c] = "zombie"
                       /\ child' = [child EXCEPT ![c] = "reaped"]
  /\ cntForks' = cntForks - 1
  /\ UNCHANGED <<requests, responses, saved, pool, tmSig, fmDone, resmanDone,
                 fmTerm, fm, freg, stops>>
-----------------------------------------------------------------------------
(* forks_add in the child *)

\* The handlers are installed, path and pid are exchanged.
ChildReady(c) == /\ child[c] = "forked"
                 /\ child' = [child EXCEPT ![c] = "running"]
                 /\ UNCHANGED <<requests, responses, saved, pool, tmSig,
                                fmSig, fm, cntForks, freg, stops>>

\* The walk is complete, or SIGTERM ends it and its progress is saved.
ChildEnds(c) == /\ child[c] \in {"running", "stopping"}
                /\ child' = [child EXCEPT ![c] = "zombie"]
                /\ fmPend' = fmPend \cup {"CHLD"}
                /\ UNCHANGED <<requests, responses, saved, pool, tmSig,
                               fmDone, resmanDone, fmTerm, fm, cntForks,
                               freg, stops>>
-----------------------------------------------------------------------------
Next == \/ Stop \/ Requests \/ ReqFails
        \/ \E c \in Client : \/ Connect(c) \/ Worker(c)
                             \/ ChildReady(c) \/ ChildEnds(c)
        \/ RespFails \/ RespEnd \/ MainSaves \/ TmTerm
        \/ ForksManager \/ FmFails \/ FmTerm \/ FmUsr1 \/ FmChld

Spec == Init /\ [][Next]_vars

(* The kernel runs every thread that can run and delivers every signal; a   *)
(* process gets as far as its handlers, and once stopped it comes to its    *)
(* end.  Nothing is assumed of clients, of walks, and of when a stop comes. *)
FairSpec ==
  /\ Spec
  /\ WF_vars(Requests) /\ WF_vars(RespEnd) /\ WF_vars(MainSaves)
  /\ WF_vars(ForksManager)
  /\ WF_vars(TmTerm) /\ WF_vars(FmTerm) /\ WF_vars(FmUsr1) /\ WF_vars(FmChld)
  /\ \A c \in Client : /\ WF_vars(Worker(c))
                       /\ WF_vars(ChildReady(c))
                       /\ WF_vars(child[c] = "stopping" /\ ChildEnds(c))
-----------------------------------------------------------------------------
Counts == 0 .. Cardinality(Client)

\* Types; cnt_threads is never below 0 nor above the threads there are.
TypeOK ==
  /\ requests \in {"loop", "lock", "accept", "count", "wait", "drain", "spin",
                   "ended"}
  /\ responses \in {"loop", "wait", "ended"}
  /\ worker \in [Client -> Workers]
  /\ fd \in Client \cup {Nil}
  /\ cntThreads \in Counts /\ reg \in [Client -> Counts]
  /\ tmDone \in 0 .. 3 /\ tmTerm \in {"reqman", "resman", "ignore"}
  /\ fm \in FmLoops \cup {"wait", "broadcast", "drain", "exited"}
  /\ fmTerm \in {"handler1", "handler2", "ignore"}
  /\ fmPend \subseteq {"TERM", "USR1", "CHLD"}
  /\ cntForks \in Int /\ freg \in Int
  /\ child \in [Client -> Live \cup {"none", "zombie", "reaped"}]
  /\ stops \in 0 .. MaxStops
  /\ {saved, socket, counter, tmPend, fmDone, resmanDone} \subseteq BOOLEAN

\* A new thread finds its own client in the descriptor that all threads
\* share: accept does not overwrite it before.
OwnDescriptor == \A c \in Client : worker[c] = "created" => fd = c

\* The group is signalled when no request is under way any more: nobody can
\* ask for a process that the SIGTERM of the shutdown would miss, and every
\* process has its handlers.
RequestsFirst ==
  fm \in {"broadcast", "drain", "exited"} =>
    /\ requests = "ended"
    /\ \A c \in Client : worker[c] \notin Counted /\ child[c] # "forked"

\* The tables are saved when nothing can change them: the request threads
\* are over, and so are the analysis processes, which report results.
SavedLast ==
  saved => /\ fm = "exited"
           /\ \A c \in Client : worker[c] \notin Counted /\ child[c] \notin Live
-----------------------------------------------------------------------------
Size(f, S) == Cardinality({c \in Client : f[c] \in S})

\* cnt_forks once the increment under way is over.
ForksToBe == CASE fm = "load"  -> cntForks + 1
               [] fm = "store" -> freg + 1
               [] OTHER        -> cntForks

\* The ways in which a stop may come to nothing: a decrement of cnt_threads
\* lost in the unlocked loop, a --cnt_forks of the handler lost in the
\* ++cnt_forks it interrupted, a SIGCHLD that stood for two processes, an
\* add that FM, having failed, leaves without an answer.
DecrementLost == cntThreads > Size(worker, Counted)
ForkCountOff  == ForksToBe > Size(child, Live \cup {"zombie"})
SignalLost    == "CHLD" \notin fmPend /\ Size(child, {"zombie"}) > 0
AddUnanswered == fm \notin FmLoops /\ Asked # {}

\* A stop ends everything, with the tables saved, unless one of these four
\* happened: there is no fifth.
StopEnds == stops > 0 ~> \/ saved /\ fm = "exited"
                         \/ DecrementLost \/ ForkCountOff
                         \/ SignalLost \/ AddUnanswered
=============================================================================

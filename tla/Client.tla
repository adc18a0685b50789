------------------------------- MODULE Client -------------------------------
(***************************************************************************)
(* The command da, and the request threads as far as a client sees them:   *)
(* the command line, the request, the reply, and what the client makes of  *)
(* it.  Clients may leave at any time, and memory may run out.             *)
(*                                                                         *)
(* A connection is two streams of cells.  A cell is a number in a field of *)
(* fixed width or a piece of text; a text is a sequence of such pieces, of *)
(* as many as its length says.  What a request does to the tables is as    *)
(* much of it as replies depend on: which analyses there are, which are    *)
(* counted and complete (module ThreadsManager has the rest, module        *)
(* Analysis the reports).                                                  *)
(***************************************************************************)
EXTENDS Integers, Sequences, FiniteSets

CONSTANTS Clients,
          Lines,      \* command lines, sequences of options with an argument
          Paths,      \* directories
          Ids,        \* what the pool of ids may give
          OldTables,  \* analyses that there may be at the start
          Junk,       \* what memory that is not initialised may hold
          Nobody

ASSUME ClientAssumption ==
  /\ Ids \subseteq Nat \ {0} /\ IsFiniteSet(Ids)
  /\ IsFiniteSet(Clients) /\ Nobody \notin Clients
  /\ Junk \subseteq Int
  /\ \A line \in Lines :
       /\ line \in Seq({line[i] : i \in DOMAIN line})
       /\ \A i \in DOMAIN line : line[i].opt = "a" \/ line[i].arg \in Int
  /\ OldTables \subseteq [Ids -> [path : Paths \cup {"none"}, complete : BOOLEAN,
                                by : {Nobody}]]

VARIABLES
  \* of the client
  cpc,       \* what it does next
  meant,     \* the task of the command line, or NoTask
  req,       \* what is left to send of the request
  flag,      \* sol, the first thing read for a report
  todo,      \* messages still to read (cnt)
  size,      \* length of the text that comes next (sz)
  printed,   \* the texts printed
  \* of the connection
  up, down,  \* sent and not yet read: the request, the reply
  \* of the request thread
  tpc,       \* what it does next
  served,    \* the task that it read
  mine,      \* the analysis that it adds
  at,        \* the last id listed
  out,       \* what is still to be sent, as messages
  \* of the threads manager
  alive,
  table,     \* the analyses, by id
  cnt,       \* analysis_cnt
  lock,      \* holder of analyses_mutex
  \* history
  said,      \* the texts of the reply
  quiet,     \* while a list was made, the table was as it had been
  noMemory   \* the thread gave up for lack of memory

client == <<cpc, meant, req, flag, todo, size, printed>>
conn   == <<up, down>>
thread == <<tpc, served, mine, at, out>>
shared == <<alive, table, cnt, lock>>
ghost  == <<said, quiet, noMemory>>
vars   == <<client, conn, thread, shared, ghost>>

-----------------------------------------------------------------------------
(* Tasks and their encoding *)

Task(n, i, prio, p) == [cnt |-> n, id |-> i, priority |-> prio, path |-> p]
NoId   == 0
NoPath == "none"
NoTask == Task(0, NoId, 0, NoPath)

\* The options and their tasks: --print and --priority are the same letter.
TaskOf == [a |-> 1, S |-> 2, R |-> 3, r |-> 4, i |-> 5, l |-> 6, p |-> 7, h |-> 8]

\* get_task.  -a may be followed by -p, every other option is alone; realpath
\* must find the directory.  id is not set for -l and -h.
get_task(line, junk) ==
  LET first == line[1]
      alone == Len(line) = 1
      last  == line[2]
  IN IF line = <<>> \/ first.opt \notin DOMAIN TaskOf THEN NoTask
     ELSE IF first.opt # "a"
          THEN IF alone
               THEN Task(TaskOf[first.opt],
                         IF first.opt \in {"l", "h"} THEN junk ELSE first.arg,
                         0, NoPath)
               ELSE NoTask
     ELSE IF first.arg \notin Paths THEN NoTask
     ELSE IF alone THEN Task(1, NoId, 2, first.arg)
     ELSE IF Len(line) = 2 /\ last.opt = "p" THEN Task(1, NoId, last.arg, first.arg)
     ELSE NoTask

\* appendInt, atoi: of a number that does not fit the four characters, the
\* first four are sent.  A number of 32 bits has ten figures at most.
DropFigure(n) == IF n > 9999 THEN n \div 10 ELSE n
Drop2(n)   == DropFigure(DropFigure(n))
Leading(n) == Drop2(Drop2(Drop2(n)))

FourCharacters == -999 .. 9999

Cut(n) == IF n > 9999 THEN Leading(n)
          ELSE IF n < -999 THEN -(Leading(-n) \div 10) ELSE n

Field(n) == [num |-> n]
Value(cell) == IF "num" \in DOMAIN cell THEN cell.num ELSE 0      \* atoi

\* A mutant: the priority is always the default.
DefaultPriority(t) ==
  IF t.cnt = 6 THEN <<Field(6)>>
  ELSE IF t.cnt = 1 THEN <<Field(1), Field(2), Field(1), [path |-> t.path]>>
  ELSE <<Field(t.cnt), Field(Cut(t.id))>>

\* A path is one piece of text.
taskToString(t) ==
  IF t.cnt = 6 THEN <<Field(6)>>
  ELSE IF t.cnt = 1
       THEN <<Field(1), Field(Cut(t.priority)), Field(1), [path |-> t.path]>>
  ELSE <<Field(t.cnt), Field(Cut(t.id))>>

\* A mutant: an id is read for every task but an add.
ArrivedWithId(s) ==
  /\ s # <<>>
  /\ LET n == Value(s[1])
     IN \/ n = 1 /\ Len(s) >= 3 /\ Len(s) >= 3 + Value(s[3])
        \/ n # 1 /\ Len(s) >= 2

\* The whole of a request has come as far as readTask asks for it.
Arrived(s) ==
  /\ s # <<>>
  /\ LET n == Value(s[1])
     IN \/ n = 6
        \/ n = 1 /\ Len(s) >= 3 /\ Len(s) >= 3 + Value(s[3])
        \/ n \notin {1, 6} /\ Len(s) >= 2

readTask(s) ==
  LET n == Value(s[1])
  IN IF n = 6 THEN Task(6, NoId, 0, NoPath)
     ELSE IF n = 1 THEN Task(1, NoId, Value(s[2]), s[4].path)
     ELSE Task(n, Value(s[2]), 0, NoPath)

-----------------------------------------------------------------------------
(* Replies *)

Text(kind, i, len) == [k \in 1 .. len |-> [says |-> kind, of |-> i, piece |-> k]]

Unknown(i)  == Text("unknown", i, 1)         \* analysis_id_no_exists
Refused     == Text("refused", NoId, 1)      \* a failed add
About(i)    == Text("about", i, 2)           \* what was done to it; its state
Listed(i)   == Text("listed", i, 2)          \* analysis_list
ReportOf(i) == Text("report", i, 2)          \* analysis_report: the file name
NotDone(i)  == Text("not done", i, 2)        \* analysis_not_done

\* analysis_custom_message
Message(text) == <<Field(Len(text))>> \o text

NoFlag   == "none"
Sol(f)   == <<[sol |-> f]>>
None     == [path |-> NoPath, complete |-> FALSE, by |-> Nobody]
Existing == {i \in Ids : table[i] # None}

-----------------------------------------------------------------------------
(* The client *)

Running(c) == cpc[c] \in {"send", "flag", "count", "size", "text"}

\* main up to the request; the connection is made if the manager is there.
Ask(c, line, junk) ==
  LET t == get_task(line, junk) IN
  /\ cpc[c] = "idle"
  /\ meant' = [meant EXCEPT ![c] = t]
  /\ IF t = NoTask \/ ~alive
     THEN cpc' = [cpc EXCEPT ![c] = "ended"] /\ UNCHANGED <<req, tpc>>
     ELSE /\ cpc' = [cpc EXCEPT ![c] = "send"]
          /\ req' = [req EXCEPT ![c] = taskToString(t)]
          /\ tpc' = [tpc EXCEPT ![c] = "read"]
  /\ UNCHANGED <<flag, todo, size, printed, conn, served, mine, at, out,
                 shared, ghost>>

\* A mutant: the flag is not asked for.
ReadsAfterNoFlag(n) == IF n < 6 \/ n = 7 THEN "size"
                       ELSE IF n = 6 THEN "count" ELSE "ended"

\* What a client reads first.
ReadsAfter(n) == IF n < 6 THEN "size" ELSE IF n = 6 THEN "count"
                 ELSE IF n = 7 THEN "flag" ELSE "ended"

SendRequest(c) ==
  /\ cpc[c] = "send" /\ req[c] # <<>>
  /\ up'  = [up EXCEPT ![c] = Append(@, Head(req[c]))]
  /\ req' = [req EXCEPT ![c] = Tail(@)]
  /\ IF req'[c] # <<>> THEN UNCHANGED <<cpc, todo>>
     ELSE /\ cpc'  = [cpc EXCEPT ![c] = ReadsAfter(meant[c].cnt)]
          /\ todo' = [todo EXCEPT ![c] = 1]
  /\ UNCHANGED <<meant, flag, size, printed, down, thread, shared, ghost>>

\* client_read_string: n cells.  A stream that ends before spins for ever.
Take(c, n) == /\ n >= 0 /\ Len(down[c]) >= n
              /\ down' = [down EXCEPT ![c] = SubSeq(@, n + 1, Len(@))]
              /\ UNCHANGED up

ReadFlag(c) ==
  /\ cpc[c] = "flag" /\ Take(c, 1)
  /\ flag' = [flag EXCEPT ![c] = IF "sol" \in DOMAIN down[c][1]
                                 THEN down[c][1].sol ELSE NoFlag]
  /\ cpc' = [cpc EXCEPT ![c] = "size"]
  /\ UNCHANGED <<meant, req, todo, size, printed, thread, shared, ghost>>

\* Messages left: while (cnt--) goes on below 0.
NextRead(n) == IF n = 0 THEN "ended" ELSE "size"

ReadCount(c) ==
  /\ cpc[c] = "count" /\ Take(c, 1)
  /\ todo' = [todo EXCEPT ![c] = Value(down[c][1])]
  /\ cpc' = [cpc EXCEPT ![c] = NextRead(todo'[c])]
  /\ UNCHANGED <<meant, req, flag, size, printed, thread, shared, ghost>>

ReadSize(c) ==
  /\ cpc[c] = "size" /\ Take(c, 1)
  /\ size' = [size EXCEPT ![c] = Value(down[c][1])]
  /\ cpc' = [cpc EXCEPT ![c] = "text"]
  /\ UNCHANGED <<meant, req, flag, todo, printed, thread, shared, ghost>>

\* A text is printed.  That of a report names a file, which is printed if it
\* has a report by now.
ReadText(c) ==
  LET text == SubSeq(down[c], 1, size[c]) IN
  /\ cpc[c] = "text" /\ Take(c, size[c])
  /\ \/ printed' = [printed EXCEPT ![c] = Append(@, text)]
     \/ flag[c] = "1" /\ UNCHANGED printed
  /\ todo' = [todo EXCEPT ![c] = @ - 1]
  /\ cpc' = [cpc EXCEPT ![c] = NextRead(todo'[c])]
  /\ UNCHANGED <<meant, req, flag, size, thread, shared, ghost>>

\* A send or a read fails since the manager has died.
ConnectionReset(c) ==
  /\ Running(c) /\ ~alive
  /\ cpc' = [cpc EXCEPT ![c] = "ended"]
  /\ UNCHANGED <<meant, req, flag, todo, size, printed, conn, thread, shared,
                 ghost>>

\* The user interrupts the client; what it knew is gone.
Leave(c) ==
  /\ Running(c)
  /\ cpc'  = [cpc EXCEPT ![c] = "left"]
  /\ req'  = [req EXCEPT ![c] = <<>>]
  /\ down' = [down EXCEPT ![c] = <<>>]
  /\ flag' = [flag EXCEPT ![c] = NoFlag]
  /\ todo' = [todo EXCEPT ![c] = 0] /\ size' = [size EXCEPT ![c] = 0]
  /\ UNCHANGED <<meant, printed, up, thread, shared, ghost>>
-----------------------------------------------------------------------------
(* The request thread *)

Goto(c, step) == tpc' = [tpc EXCEPT ![c] = step]

\* request_thread, readTask.  Before the whole of it came a read waits, or
\* spins when the client has left.
ReadTask(c) ==
  /\ alive /\ tpc[c] = "read" /\ Arrived(up[c])
  /\ served' = [served EXCEPT ![c] = readTask(up[c])]
  /\ Goto(c, IF served'[c].cnt \in 1 .. 7 THEN "serve" ELSE "send")
  /\ UNCHANGED <<client, conn, mine, at, out, shared, ghost>>

\* malloc or strdup fails: the descriptor is closed, nothing was sent.
ThreadNoMemory(c) ==
  /\ alive /\ tpc[c] = "read" /\ Arrived(up[c])
  /\ Goto(c, "closed")
  /\ noMemory' = [noMemory EXCEPT ![c] = TRUE]
  /\ UNCHANGED <<client, conn, served, mine, at, out, shared, said, quiet>>

Serves(c, tasks) == alive /\ tpc[c] = "serve" /\ served[c].cnt \in tasks

Free == lock = Nobody

\* The reply, after what precedes the message.
Reply(c, first, text) ==
  /\ out'  = [out EXCEPT ![c] = first \o <<Message(text)>>]
  /\ said' = [said EXCEPT ![c] = Append(@, text)]
  /\ Goto(c, "send")

\* No list that is being made is quiet after a change of the table.
Stirred == quiet' = [c \in Clients |-> quiet[c] /\ tpc[c] # "list"]

\* threads_add, when nothing is inserted: no directory, one that is already
\* included, no id, no memory.
AddRefused(c) ==
  /\ Serves(c, {1})
  /\ Reply(c, <<>>, Refused)
  /\ UNCHANGED <<client, conn, served, mine, at, shared, quiet, noMemory>>

AddInserts(c, i) ==
  /\ Serves(c, {1}) /\ Free
  /\ i \notin Existing
  /\ \A j \in Existing : table[j].path # served[c].path
  /\ table' = [table EXCEPT ![i] = [path |-> served[c].path, complete |-> FALSE,
                                    by |-> c]]
  /\ mine' = [mine EXCEPT ![c] = i]
  /\ Goto(c, "fork")
  /\ Stirred
  /\ UNCHANGED <<client, conn, served, at, out, alive, cnt, lock, said, noMemory>>

Mine(c) == table[mine[c]].by = c

\* fork_request fails: the analysis is extracted if no removal was faster.
AddForkFails(c) ==
  /\ alive /\ tpc[c] = "fork" /\ Free /\ Mine(c)
  /\ table' = [table EXCEPT ![mine[c]] = None]
  /\ Reply(c, <<>>, Refused)
  /\ Stirred
  /\ UNCHANGED <<client, conn, served, mine, at, alive, cnt, lock, noMemory>>

\* The end of threads_add: the status is overwritten, also that of an
\* analysis that was removed.  The reply is sent with the mutex held.
AddFinish(c) ==
  /\ alive /\ tpc[c] = "fork" /\ Free
  /\ lock' = c
  /\ cnt' = cnt + 1
  /\ table' = IF Mine(c) THEN [table EXCEPT ![mine[c]].complete = FALSE]
              ELSE table
  /\ Reply(c, <<>>, About(mine[c]))
  /\ Stirred
  /\ UNCHANGED <<client, conn, served, mine, at, alive, noMemory>>

StateOf(i) == IF i \in Existing THEN About(i) ELSE Unknown(i)

\* threads_suspend, threads_resume: the reply is sent with the mutex held.
Change(c) ==
  /\ Serves(c, {2, 3}) /\ Free
  /\ lock' = c
  /\ Reply(c, <<>>, StateOf(served[c].id))
  /\ UNCHANGED <<client, conn, served, mine, at, alive, table, cnt, quiet, noMemory>>

\* threads_remove: the reply is sent after the mutex is released.
Remove(c) ==
  /\ Serves(c, {4}) /\ Free
  /\ Reply(c, <<>>, StateOf(served[c].id))
  /\ IF served[c].id \in Existing
     THEN /\ table' = [table EXCEPT ![served[c].id] = None]
          /\ cnt' = cnt - 1
          /\ Stirred
     ELSE UNCHANGED <<table, cnt, quiet>>
  /\ UNCHANGED <<client, conn, served, mine, at, alive, lock, noMemory>>

\* threads_status, threads_get_all, threads_result: the mutex is locked in a
\* copy, which nobody unlocks if it was made of a locked one.
CopyHangs(c) ==
  /\ Serves(c, {5, 6, 7}) /\ ~Free
  /\ Goto(c, "hung")
  /\ UNCHANGED <<client, conn, served, mine, at, out, shared, ghost>>

Status(c) ==
  /\ Serves(c, {5}) /\ Free
  /\ Reply(c, <<>>, StateOf(served[c].id))
  /\ UNCHANGED <<client, conn, served, mine, at, shared, quiet, noMemory>>

\* A mutant: no flag goes before the message about an unknown id.
ResultUnknownNoFlag(c) ==
  LET i == served[c].id IN
  /\ Serves(c, {7}) /\ Free
  /\ IF i \in Existing
     THEN IF table[i].complete THEN Reply(c, <<Sol("1")>>, ReportOf(i))
          ELSE Reply(c, <<Sol("0")>>, NotDone(i))
     ELSE Reply(c, <<>>, Unknown(i))
  /\ UNCHANGED <<client, conn, served, mine, at, shared, quiet, noMemory>>

\* threads_result
Result(c) ==
  LET i == served[c].id IN
  /\ Serves(c, {7}) /\ Free
  /\ IF i \in Existing /\ table[i].complete
     THEN Reply(c, <<Sol("1")>>, ReportOf(i))
     ELSE Reply(c, <<Sol("0")>>,
                IF i \in Existing THEN NotDone(i) ELSE Unknown(i))
  /\ UNCHANGED <<client, conn, served, mine, at, shared, quiet, noMemory>>

\* threads_get_all: the count, then threads_show_in_order.
List(c) ==
  /\ Serves(c, {6}) /\ Free
  /\ out' = [out EXCEPT ![c] = <<<<Field(cnt)>>>>]
  /\ quiet' = [quiet EXCEPT ![c] = cnt = Cardinality(Existing)]
  /\ Goto(c, "list")
  /\ UNCHANGED <<client, conn, served, mine, at, shared, said, noMemory>>

Later(c) == {i \in Existing : i > at[c]}

\* The walk meets the ids in their order, those there when it comes by.
ListNext(c) ==
  /\ alive /\ tpc[c] = "list" /\ out[c] = <<>>
  /\ IF Later(c) = {} THEN Goto(c, "send") /\ UNCHANGED <<out, at, said>>
     ELSE \E i \in Later(c) :
            /\ \A j \in Later(c) : i <= j
            /\ at'   = [at EXCEPT ![c] = i]
            /\ out'  = [out EXCEPT ![c] = <<Message(Listed(i))>>]
            /\ said' = [said EXCEPT ![c] = Append(@, Listed(i))]
            /\ UNCHANGED tpc
  /\ UNCHANGED <<client, conn, served, mine, shared, quiet, noMemory>>

\* send
Send(c) ==
  /\ alive /\ tpc[c] \in {"send", "list"} /\ out[c] # <<>>
  /\ Running(c)
  /\ down' = [down EXCEPT ![c] = @ \o Head(out[c])]
  /\ out'  = [out EXCEPT ![c] = Tail(@)]
  /\ UNCHANGED <<client, up, tpc, served, mine, at, shared, ghost>>

\* send to a client that has closed its end: what is sent is lost, or send
\* fails and the rest is not sent, or a SIGPIPE, which nobody handles, ends
\* the manager.
SendGone(c) ==
  /\ alive /\ tpc[c] \in {"send", "list"} /\ out[c] # <<>>
  /\ ~Running(c)
  /\ \/ /\ out' = [out EXCEPT ![c] = Tail(@)]
        /\ UNCHANGED <<tpc, alive>>
     \/ out' = [out EXCEPT ![c] = <<>>] /\ Goto(c, "send") /\ UNCHANGED alive
     \/ alive' = FALSE /\ UNCHANGED <<out, tpc>>
  /\ UNCHANGED <<client, conn, served, mine, at, table, cnt, lock, ghost>>

\* A mutant: the mutex is not released.
CloseKeepsLock(c) ==
  /\ alive /\ tpc[c] = "send" /\ out[c] = <<>>
  /\ Goto(c, "closed")
  /\ UNCHANGED <<client, conn, served, mine, at, out, shared, ghost>>

\* The end of the request: what it holds is released, the descriptor closed.
Close(c) ==
  /\ alive /\ tpc[c] = "send" /\ out[c] = <<>>
  /\ lock' = IF lock = c THEN Nobody ELSE lock
  /\ Goto(c, "closed")
  /\ UNCHANGED <<client, conn, served, mine, at, out, alive, table, cnt, ghost>>

\* threads_read_results
Completes(i) ==
  /\ alive /\ Free /\ i \in Existing /\ ~table[i].complete
  /\ table' = [table EXCEPT ![i].complete = TRUE]
  /\ UNCHANGED <<client, conn, thread, alive, cnt, lock, ghost>>
-----------------------------------------------------------------------------
Init ==
  /\ cpc = [c \in Clients |-> "idle"] /\ meant = [c \in Clients |-> NoTask]
  /\ req = [c \in Clients |-> <<>>] /\ flag = [c \in Clients |-> NoFlag]
  /\ todo = [c \in Clients |-> 0] /\ size = [c \in Clients |-> 0]
  /\ printed = [c \in Clients |-> <<>>]
  /\ up = [c \in Clients |-> <<>>] /\ down = [c \in Clients |-> <<>>]
  /\ tpc = [c \in Clients |-> "none"] /\ served = [c \in Clients |-> NoTask]
  /\ mine = [c \in Clients |-> NoId] /\ at = [c \in Clients |-> NoId]
  /\ out = [c \in Clients |-> <<>>]
  /\ alive = TRUE /\ lock = Nobody
  /\ table \in OldTables
  /\ cnt = Cardinality(Existing)
  /\ said = [c \in Clients |-> <<>>] /\ quiet = [c \in Clients |-> FALSE]
  /\ noMemory = [c \in Clients |-> FALSE]

ClientStep(c) == \/ SendRequest(c) \/ ReadFlag(c) \/ ReadCount(c)
                 \/ ReadSize(c) \/ ReadText(c)

ThreadStep(c) == \/ ReadTask(c) \/ AddRefused(c) \/ \E i \in Ids : AddInserts(c, i)
                 \/ AddForkFails(c) \/ AddFinish(c) \/ Change(c) \/ Remove(c)
                 \/ CopyHangs(c) \/ Status(c) \/ Result(c) \/ List(c)
                 \/ ListNext(c) \/ Send(c) \/ SendGone(c) \/ Close(c)

Next == \/ \E c \in Clients :
             \/ \E line \in Lines, junk \in Junk : Ask(c, line, junk)
             \/ ClientStep(c) \/ ThreadStep(c)
             \/ ThreadNoMemory(c) \/ ConnectionReset(c) \/ Leave(c)
        \/ \E i \in Ids : Completes(i)

\* The scheduler runs every thread and every client that can go on.  A user
\* need not ask or leave, and an analysis need not end.
Fairness == \A c \in Clients : WF_vars(ClientStep(c)) /\ WF_vars(ThreadStep(c))

Spec == Init /\ [][Next]_vars /\ Fairness
-----------------------------------------------------------------------------
TaskType == [cnt : 0 .. 8, id : Int, priority : Int, path : Paths \cup {NoPath}]

\* The variables stay in their types; a mutex that is held is held by a
\* thread that is about to send.
TypeOK ==
  /\ cpc \in [Clients -> {"idle", "send", "flag", "count", "size", "text",
                          "ended", "left"}]
  /\ \A c \in Clients : meant[c] \in TaskType /\ served[c] \in TaskType
  /\ tpc \in [Clients -> {"none", "read", "serve", "fork", "list", "send",
                          "hung", "closed"}]
  /\ todo \in [Clients -> Int] /\ size \in [Clients -> Nat]
  /\ cnt \in Int /\ alive \in BOOLEAN
  /\ lock \in Clients \cup {Nobody}
  /\ lock # Nobody => tpc[lock] = "send"

\* A task arrives as the client meant it, but for numbers that do not fit
\* four characters: these arrive cut, and name another analysis.
Fits(t) == t.id \in FourCharacters /\ t.priority \in FourCharacters

TaskArrives ==
  \A c \in Clients :
    served[c] # NoTask =>
      /\ served[c].cnt = meant[c].cnt
      /\ Fits(meant[c]) /\ meant[c].cnt # 6 => served[c] = meant[c]
      /\ served[c].cnt = 1 => served[c].path = meant[c].path

\* The client takes the reply apart as the thread has put it together: what
\* it prints are the texts of the reply, in their order, none cut or joined.
IsPrefixOf(s, t) == Len(s) <= Len(t) /\ SubSeq(t, 1, Len(s)) = s

Framing == \A c \in Clients : IsPrefixOf(printed[c], said[c])

\* A client that is through has printed the whole reply, up to the report
\* that may not be written yet; a list only if it was quiet.
WholeReply ==
  \A c \in Clients :
    cpc[c] = "ended" /\ meant[c].cnt \in 1 .. 7 /\ alive
      => \/ printed[c] = said[c] /\ (said[c] # <<>> \/ meant[c].cnt = 6)
         \/ flag[c] = "1" /\ printed[c] = <<>>
         \/ meant[c].cnt = 6 /\ ~quiet[c]

\* The manager dies for a client that was interrupted, or for a list that
\* was not quiet: then a client stops reading before the list is at its end.
DeathHasCause ==
  ~alive => \E c \in Clients :
              \/ cpc[c] = "left"
              \/ cpc[c] = "ended" /\ meant[c].cnt = 6 /\ ~quiet[c]

\* What keeps a client from its reply: the manager died, the copied mutex,
\* the memory, a list that was not quiet.
Hindered(c) == ~alive \/ tpc[c] = "hung" \/ noMemory[c]
               \/ (meant[c].cnt = 6 /\ ~quiet[c])

\* Every client ends that is not hindered.
ClientEnds == \A c \in Clients : Running(c) ~> (~Running(c) \/ Hindered(c))

\* The thread of a request ends, whatever the client does, unless the client
\* left before it had sent the whole request: then the thread reads for ever,
\* and a stop waits for it.
ThreadEnds ==
  \A c \in Clients :
    (tpc[c] = "read") ~> \/ tpc[c] \in {"closed", "hung"}
                         \/ ~alive
                         \/ (cpc[c] = "left" /\ tpc[c] = "read")
=============================================================================

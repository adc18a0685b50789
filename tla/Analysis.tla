------------------------------ MODULE Analysis ------------------------------
(***************************************************************************)
(* One analysis and the process that walks its directory: the walk over    *)
(* what fts_read returns, the signals that suspend, remove and stop it,    *)
(* the file <id> that holds its progress or its report, and the restarts   *)
(* of the manager, which start the analysis again unless it is complete.   *)
(*                                                                         *)
(* The directory is given as what fts_read returns for it.  Files count as *)
(* one unit of size each, and so do the entries "." and "..", which the    *)
(* code treats alike; cnt_dirs and cnt_files are one count.  The tree in   *)
(* memory is the function info from the directories with a state to it.    *)
(* Results of the type 2 reach the manager at once, if they can be sent.   *)
(*                                                                         *)
(* After a removal another analysis may get the id, and with it the file   *)
(* and the results that are on their way, while the process of the removed *)
(* one still runs.  Its directory is taken to look the same; life tells    *)
(* whose a file or a result is.                                            *)
(***************************************************************************)
EXTENDS ProgressFile

CONSTANTS Dirs,      \* the directory that is analysed and those below it
          Root,      \* the directory that is analysed
          Walk,      \* what fts_read returns, in this order
          MaxStops,  \* bound: times that the manager is stopped
          MaxLives,  \* bound: analyses with this id, one after the other
          MaxFaults  \* bound: connections that fail and errors of the walk

ASSUME AnalysisAssumption ==
  /\ Root \in Dirs /\ {MaxStops, MaxFaults} \subseteq Nat
  /\ MaxLives \in Nat \ {0}
  /\ Walk \in Seq([kind : {"D", "F", "DP"}, dir : Dirs])
  /\ Len(Walk) >= 2
  /\ Walk[1] = [kind |-> "D", dir |-> Root]
  /\ Walk[Len(Walk)] = [kind |-> "DP", dir |-> Root]

StartOf(x) == CHOOSE i \in DOMAIN Walk : Walk[i] = [kind |-> "D", dir |-> x]
EndOf(x)   == CHOOSE i \in DOMAIN Walk : Walk[i] = [kind |-> "DP", dir |-> x]

\* fts_read returns each directory twice, before and after what is in it.
ASSUME FtsAssumption ==
  /\ \A x \in Dirs : \E i, j \in DOMAIN Walk : /\ i < j
                                              /\ Walk[i] = [kind |-> "D", dir |-> x]
                                              /\ Walk[j] = [kind |-> "DP", dir |-> x]
  /\ \A i, j \in DOMAIN Walk : Walk[i] = Walk[j] => i = j \/ Walk[i].kind = "F"
  /\ \A x, y \in Dirs : StartOf(x) < StartOf(y)
                           => EndOf(y) < EndOf(x) \/ EndOf(x) < StartOf(y)

VARIABLES
  status,       \* anal->status, "removed" without an analysis
  results,      \* completions and failures on their way to the manager
  told,         \* anal->cnt_dirs and anal->cnt_files
  file,         \* the file <id>
  proc,         \* what the process does next
  pos,          \* how much of Walk has been read
  stack,        \* the directories of the frames of forks_fts_parc
  info,         \* the states in the tree of the process
  cnt,          \* man->cnt_dirs and man->cnt_files
  suspended, interrupted,
  done,         \* SIGTERM was sent: the manager is being stopped
  stops,        \* how often so far
  life,         \* the number of the analysis
  killing,      \* threads_remove has not got to its kill yet
  old,          \* the process of the analysis before, past its last check
  faults,       \* how often a connection or the walk failed
  unsent,       \* the last result could not be sent
  cut,          \* SIGTERM came between a completion and its report
  tardy         \* SIGINT came too late for a result or a file

flags == <<suspended, interrupted, done>>
mem   == <<pos, stack, info, cnt>>
anal  == <<status, results, told, life, killing>>
ghost == <<faults, unsent, cut, tardy>>
vars  == <<anal, file, proc, mem, flags, stops, old, ghost>>

NewFile == [kind |-> "empty", info |-> NoTree, of |-> 0]
NoProc  == [proc |-> "ended", info |-> NoTree, cnt |-> 0, of |-> 0]

Init == /\ status = "in progress" /\ results = {} /\ told = 0
        /\ file = NewFile
        /\ proc = "forked"
        /\ pos = 0 /\ stack = <<>> /\ info = NoTree /\ cnt = 0
        /\ suspended = FALSE /\ interrupted = FALSE /\ done = FALSE
        /\ stops = 0
        /\ life = 1 /\ killing = FALSE /\ old = NoProc
        /\ faults = 0
        /\ unsent = FALSE /\ cut = FALSE /\ tardy = FALSE
-----------------------------------------------------------------------------
(* The start of forks_add in the process *)

Fault == faults < MaxFaults /\ faults' = faults + 1

\* forks_send_result(man, 1): the manager gets it, or cannot be
\* reached.
Says(s) == [of |-> life, says |-> s]

SendCompletion ==
  \/ results' = results \cup {Says("complete")} /\ UNCHANGED <<unsent, faults>>
  \/ Fault /\ unsent' = TRUE /\ UNCHANGED results

\* A mutant: a report that is already there is not told again.
ReportNotTold ==
  /\ proc = "forked" /\ file.kind = "report"
  /\ proc' = "ended"
  /\ UNCHANGED <<anal, file, mem, flags, stops, old, ghost>>

\* forks_read_progress finds a report.
FindReport ==
  /\ proc = "forked" /\ file.kind = "report"
  /\ SendCompletion
  /\ proc' = "ended"
  /\ UNCHANGED <<status, told, life, killing, file, mem, flags, stops, old,
                 cut, tardy>>

\* A mutant: the type of the file is not looked at.
StartWalkAnyway ==
  /\ proc = "forked"
  /\ info' = Insert(file.info, <<Root>>, Fresh)
  /\ stack' = <<Root>>
  /\ pos' = 1
  /\ proc' = "walking"
  /\ UNCHANGED <<anal, file, cnt, flags, stops, old, ghost>>

\* A mutant: the state of the root is dropped and not made anew.
StartWalkNoState ==
  /\ proc = "forked" /\ file.kind # "report"
  /\ info' = Insert(file.info, <<Root>>, Null)
  /\ stack' = <<Root>>
  /\ pos' = 1
  /\ proc' = "walking"
  /\ UNCHANGED <<anal, file, cnt, flags, stops, old, ghost>>

\* tree_build reads the progress; forks_solve inserts the path once more,
\* which drops the state of the root, and reads the first entry.
StartWalk ==
  /\ proc = "forked" /\ file.kind # "report"
  /\ info' = Insert(file.info, <<Root>>, Fresh)
  /\ stack' = <<Root>>
  /\ pos' = 1
  /\ proc' = "walking"
  /\ UNCHANGED <<anal, file, cnt, flags, stops, old, ghost>>
-----------------------------------------------------------------------------
(* forks_fts_parc *)

Parent == Above(stack)
Entry == Walk[pos + 1]

\* A mutant: the wait for SIGCONT does not look at done.
WaitsStubbornly == suspended /\ ~interrupted

Waits == suspended /\ ~interrupted /\ ~done

Reads(kind) == /\ proc = "walking" /\ ~interrupted /\ ~Waits
               /\ pos < Len(Walk)
               /\ Entry.kind = kind

\* A mutant: the size of a subdirectory is not added.
ReturnWithoutSize(f) ==
  /\ stack' = Parent
  /\ info' = f
  /\ proc' = IF Len(stack) = 1 THEN "walked" ELSE "walking"

\* return 0: the caller, if there is one, adds the size to its own.
Return(f) ==
  /\ stack' = Parent
  /\ IF Len(stack) = 1
     THEN proc' = "walked" /\ info' = f
     ELSE /\ info' = [f EXCEPT ![Parent].size = @ + f[stack].size]
          /\ UNCHANGED proc

ReadFile == /\ Reads("F")
            /\ pos' = pos + 1
            /\ cnt' = cnt + 1
            /\ info' = [info EXCEPT ![stack].size = @ + 1]
            /\ UNCHANGED <<anal, file, proc, stack, flags, stops, old, ghost>>

\* A directory is counted; it gets a node, and is entered unless the process
\* is to stop.  That the frame, not the directory, is done makes fts_read skip
\* to the end of the directory.
ReadDir ==
  /\ Reads("D")
  /\ cnt' = cnt + 1
  /\ LET x     == Entry.dir
         child == Append(stack, x)
         node  == Made(info, child) IN
       \/ /\ done
          /\ Return(info)
          /\ pos' = pos + 1
       \/ /\ ~done /\ info[stack].done
          /\ info' = node
          /\ pos' = EndOf(x) - 1
          /\ UNCHANGED <<proc, stack>>
       \/ /\ ~done /\ ~info[stack].done
          /\ stack' = child
          /\ info' = IF node[child].null THEN Insert(node, child, Fresh) ELSE node
          /\ pos' = pos + 1
          /\ UNCHANGED proc
  /\ UNCHANGED <<anal, file, flags, stops, old, ghost>>

\* A mutant: the end of a directory does not end its frame.
ReadEndGoesOn ==
  /\ Reads("DP")
  /\ pos' = pos + 1
  /\ info' = [info EXCEPT ![stack].done = TRUE]
  /\ UNCHANGED <<anal, file, proc, stack, cnt, flags, stops, old, ghost>>

ReadEnd == /\ Reads("DP")
           /\ pos' = pos + 1
           /\ Return([info EXCEPT ![stack].done = TRUE])
           /\ UNCHANGED <<anal, file, cnt, flags, stops, old, ghost>>

\* threads_read_results adds the counts to the analysis with the id.
Tell(n) == told' = IF status = "removed" THEN told ELSE told + n

\* A mutant: the counters are not cleared.
SendPartialKeeps ==
  /\ proc = "walking" /\ ~interrupted /\ ~Waits /\ cnt > 0
  /\ Tell(cnt) /\ UNCHANGED faults
  /\ UNCHANGED <<status, results, life, killing, file, proc, mem, flags, stops,
                 old, unsent, cut, tardy>>

\* The counts are sent, or lost: they are cleared before the connection is
\* made.
SendCounts == /\ cnt' = 0
              /\ \/ Tell(cnt) /\ UNCHANGED faults
                 \/ Fault /\ UNCHANGED told

\* forks_send_result(man, 2), when a second has passed.
SendPartial ==
  /\ proc = "walking" /\ ~interrupted /\ ~Waits /\ cnt > 0
  /\ SendCounts
  /\ UNCHANGED <<status, results, life, killing, file, proc, pos, stack, info,
                 flags, stops, old, unsent, cut, tardy>>

\* The process ends, and with it its memory.
Freed == stack' = <<>> /\ info' = NoTree /\ cnt' = 0

\* fts_read meets an error, or memory runs out: a failure without counts.
WalkFails ==
  /\ proc = "walking" /\ ~interrupted /\ ~Waits
  /\ Fault
  /\ \/ results' = results \cup {Says("failed")} /\ UNCHANGED unsent
     \/ unsent' = TRUE /\ UNCHANGED results
  /\ proc' = "ended"
  /\ Freed
  /\ UNCHANGED <<status, told, life, killing, file, pos, flags, stops, old, cut,
                 tardy>>
-----------------------------------------------------------------------------
(* The end of forks_add in the process *)

\* SIGINT ends the walk, and nothing is told or written.
EndInterrupted == /\ proc \in {"walking", "walked"} /\ interrupted
                  /\ proc' = "ended"
                  /\ pos' = 0 /\ Freed
                  /\ UNCHANGED <<anal, file, flags, stops, old, ghost>>

\* A mutant: interrupted is not looked at after the walk.
GoesOnAnyway == /\ proc = "walked"
                /\ proc' = "telling"
                /\ UNCHANGED <<anal, file, mem, flags, stops, old, ghost>>

\* The last look at interrupted.
GoesOn == /\ proc = "walked" /\ ~interrupted
          /\ proc' = "telling"
          /\ UNCHANGED <<anal, file, mem, flags, stops, old, ghost>>

\* A mutant: no report is written after a completion.
SendResultAndEnd ==
  /\ proc = "telling"
  /\ IF done THEN SendCounts /\ UNCHANGED <<results, unsent>>
     ELSE /\ cnt' = 0
          /\ SendCompletion
          /\ IF unsent' THEN UNCHANGED told ELSE Tell(cnt)
  /\ proc' = IF done THEN "saving" ELSE "ended"
  /\ UNCHANGED <<status, life, killing, file, pos, stack, info, flags, stops,
                 old, cut, tardy>>

\* The counts are told, and the completion unless SIGTERM came.
SendResult ==
  /\ proc = "telling"
  /\ IF done THEN SendCounts /\ UNCHANGED <<results, unsent>>
     ELSE /\ cnt' = 0
          /\ SendCompletion
          /\ IF unsent' THEN UNCHANGED told ELSE Tell(cnt)
  /\ proc' = IF done THEN "saving" ELSE "writing"
  /\ UNCHANGED <<status, life, killing, file, pos, stack, info, flags, stops,
                 old, cut, tardy>>

\* Of a progress file info is what the next process reads (module ProgressFile).
Written(of, tree) == [kind |-> IF done THEN "progress" ELSE "report",
                      info |-> tree, of |-> of]

\* forks_write, or forks_save if SIGTERM came, also since SendResult.
WriteFile ==
  /\ proc \in {"writing", "saving"}
  /\ file' = Written(life, info)
  /\ proc' = "ended"
  /\ stack' = <<>> /\ info' = NoTree
  /\ cut' = (cut \/ (done /\ proc = "writing"))
  /\ UNCHANGED <<anal, pos, cnt, flags, stops, old, faults, unsent, tardy>>

\* The same of the process of the analysis that had the id before.
OldTells ==
  /\ old.proc = "telling"
  /\ Tell(old.cnt)
  /\ results' = IF done THEN results
                ELSE results \cup {[of |-> old.of, says |-> "complete"]}
  /\ old' = [old EXCEPT !.proc = "writing"]
  /\ UNCHANGED <<status, life, killing, file, proc, mem, flags, stops, ghost>>

OldWrites ==
  /\ old.proc = "writing"
  /\ file' = Written(old.of, old.info)
  /\ old' = NoProc
  /\ UNCHANGED <<anal, proc, mem, flags, stops, ghost>>

Process == \/ FindReport \/ StartWalk
           \/ ReadFile \/ ReadDir \/ ReadEnd
           \/ EndInterrupted \/ GoesOn \/ SendResult \/ WriteFile

OldProcess == OldTells \/ OldWrites
-----------------------------------------------------------------------------
(* The manager.  The pid is known once the handlers are installed. *)

Known == proc \notin {"forked", "ended"}

\* threads_remove up to the removal of the file.
Removed == /\ status' = "removed" /\ told' = 0
           /\ file' = NewFile
           /\ killing' = TRUE

\* threads_read_results: a failure removes the analysis, by its id.
Apply ==
  /\ ~killing
  /\ \E r \in results :
       /\ results' = results \ {r}
       /\ IF r.says = "failed" /\ status # "removed" THEN Removed
          ELSE /\ status' = IF status = "removed" THEN status ELSE "complete"
               /\ UNCHANGED <<told, file, killing>>
  /\ UNCHANGED <<life, proc, mem, flags, stops, old, ghost>>

Suspend == /\ status = "in progress" /\ Known /\ ~suspended
           /\ suspended' = TRUE
           /\ UNCHANGED <<anal, file, proc, mem, interrupted, done, stops, old,
                          ghost>>

Resume == /\ status # "removed" /\ Known /\ suspended
          /\ suspended' = FALSE
          /\ UNCHANGED <<anal, file, proc, mem, interrupted, done, stops, old,
                         ghost>>

\* threads_remove for a client.
Remove == /\ status # "removed" /\ proc # "forked" /\ ~done
          /\ Removed
          /\ UNCHANGED <<results, life, proc, mem, flags, stops, old, ghost>>

\* The rest of threads_remove: SIGINT; the id becomes available.  It is too
\* late when the process has passed its last look at interrupted, or did so
\* since the file was removed.
Kill == /\ killing
        /\ killing' = FALSE
        /\ interrupted' = (interrupted \/ Known)
        /\ tardy' = \/ tardy \/ results # {} \/ file.kind # "empty"
                    \/ proc \in {"forked", "telling", "writing", "saving"}
        /\ UNCHANGED <<status, results, told, life, file, proc, mem, suspended,
                       done, stops, old, faults, unsent, cut>>

\* Another analysis gets the id: threads_add, and a process of its own.
Reuse ==
  /\ status = "removed" /\ ~killing /\ ~done
  /\ life < MaxLives /\ old.proc = "ended" /\ proc # "forked"
  /\ life' = life + 1
  /\ status' = "in progress"
  /\ old' = IF proc \notin {"telling", "writing"} THEN NoProc
            ELSE [proc |-> proc, info |-> info, cnt |-> cnt, of |-> life]
  /\ proc' = "forked"
  /\ pos' = 0 /\ Freed
  /\ suspended' = FALSE /\ interrupted' = FALSE
  /\ told' = 0 /\ unsent' = FALSE /\ cut' = FALSE
  /\ UNCHANGED <<results, killing, file, done, stops, faults, tardy>>

\* SIGTERM for the group: module Shutdown shows that the process has its
\* handlers by then, and that no request is served any more.
Stop == /\ proc # "forked" /\ ~done /\ stops < MaxStops
        /\ done' = TRUE
        /\ stops' = stops + 1
        /\ UNCHANGED <<anal, file, proc, mem, suspended, interrupted, old, ghost>>

\* The processes have ended; results that were not yet accepted are lost with
\* the backlog.  initial_forks starts what is not complete.
Restart ==
  /\ done /\ proc = "ended" /\ old.proc = "ended" /\ ~killing
  /\ results' = {}
  /\ proc' = IF status = "in progress" THEN "forked" ELSE "ended"
  /\ pos' = 0 /\ Freed
  /\ suspended' = FALSE /\ interrupted' = FALSE /\ done' = FALSE
  /\ unsent' = FALSE
  /\ UNCHANGED <<status, told, life, killing, file, stops, old, faults, cut, tardy>>

Next == \/ Process \/ SendPartial \/ WalkFails \/ OldProcess
        \/ Apply \/ Suspend \/ Resume \/ Remove \/ Kill \/ Reuse \/ Stop
        \/ Restart

Spec == Init /\ [][Next]_vars

(* The kernel runs the processes and the threads of the manager.  Nobody has *)
(* to resume an analysis or to start the manager again.                      *)
FairSpec == /\ Spec /\ WF_vars(Process) /\ WF_vars(OldProcess)
            /\ WF_vars(Apply) /\ WF_vars(Kill)
-----------------------------------------------------------------------------
Between(x)  == StartOf(x) .. EndOf(x)
\* The space that the directory occupies.
SizeOf(x)   == Cardinality({i \in Between(x) : Walk[i].kind = "F"})
\* p are the directories that x lies in, and x, from the root on.
IsPath(p, x) ==
  /\ {p[i] : i \in DOMAIN p} = {y \in Dirs : StartOf(y) <= StartOf(x) /\ EndOf(x) <= EndOf(y)}
  /\ \A i, j \in DOMAIN p : i < j => StartOf(p[i]) < StartOf(p[j])
\* Entries below the root among the first n that were read.
Entries(n)  == Cardinality({i \in 2 .. n : Walk[i].kind # "DP"})

Tree(t) == /\ DOMAIN t \subseteq Seq(Dirs) /\ <<>> \in DOMAIN t
           /\ \A p \in DOMAIN t : t[p] \in State
           /\ \A p \in DOMAIN t \ {<<>>} : Above(p) \in DOMAIN t

\* Types; a frame is there exactly while the walk goes on, and its directory
\* has a state.
TypeOK ==
  /\ status \in {"in progress", "complete", "removed"}
  /\ results \subseteq [of : 1 .. life, says : {"complete", "failed"}]
  /\ {told, cnt} \subseteq Nat
  /\ stops \in 0 .. MaxStops /\ faults \in 0 .. MaxFaults
  /\ life \in 1 .. MaxLives
  /\ file.kind \in {"empty", "progress", "report"} /\ Tree(file.info)
  /\ proc \in {"forked", "walking", "walked", "telling", "writing", "saving",
               "ended"}
  /\ old.proc \in {"telling", "writing", "ended"} /\ Tree(old.info)
  /\ pos \in 0 .. Len(Walk)
  /\ Tree(info)
  /\ {suspended, interrupted, done, killing, unsent, cut, tardy} \subseteq BOOLEAN
  /\ proc = "walking" => stack # <<>>
  /\ \A i \in DOMAIN stack : /\ SubSeq(stack, 1, i) \in DOMAIN info
                             /\ ~info[SubSeq(stack, 1, i)].null

\* No null pointer is followed: fts_read is not called after it has returned
\* the end of the root, and a report is of nodes with a state.  Nodes without
\* one are those of the path above the root, which the report leaves out, and
\* would be directories skipped before they were ever entered.
FollowsNoNull ==
  /\ proc = "walking" => pos < Len(Walk)
  /\ file.kind = "report" =>
       \A p \in DOMAIN file.info \ {<<>>} : ~file.info[p].null

\* Without a stop the counts that status requests show, with those that are
\* not yet told, are those of the entries read, whatever was told in between.
\* If a connection failed they can only be less.
CountsExact ==
  stops = 0 /\ ~tardy /\ status # "removed" =>
    /\ told + cnt <= Entries(pos)
    /\ faults = 0 => told + cnt = Entries(pos)

\* Without a stop a report gives each directory the space it occupies,
\* however often the walk was suspended.
ReportExact ==
  (file.kind = "report" /\ stops = 0) =>
    /\ {NameOf(p) : p \in DOMAIN file.info \ {<<>>}} = Dirs
    /\ \A p \in DOMAIN file.info \ {<<>>} :
         IsPath(p, NameOf(p)) /\ file.info[p].size = SizeOf(NameOf(p))

\* A report gives the directory the space that it occupies.
ReportWhole == file.kind = "report" => file.info[<<Root>>].size = SizeOf(Root)

\* What a process saves is what the next one will read: states, names and
\* shape, also of directories that it has not entered again.
ReadBack ==
  done /\ proc \in {"writing", "saving"} => Built(Saved(info, <<>>)) = info

\* What is found under the id is of the analysis that has it: its file, and
\* the results that will be applied to it.  SIGINT ensures that, unless it
\* comes when the process has looked at interrupted for the last time.
OwnFile ==
  status # "removed" /\ ~tardy =>
    /\ file.kind # "empty" => file.of = life
    /\ \A r \in results : r.of = life

\* Once its process has ended an analysis that is complete has a report,
\* unless SIGTERM came after the completion was sent.
CompleteHasReport ==
  status = "complete" /\ proc = "ended" /\ ~tardy /\ ~cut
    => file.kind = "report"

\* A report is not replaced by progress, so that it is still there for an
\* analysis whose completion was lost in a stop.
ReportStays ==
  [][file.kind = "report" /\ ~tardy => file'.kind # "progress"]_vars

\* A stop ends the process, be it suspended.
StopEndsWalk == done ~> proc = "ended"

\* An analysis that is not left suspended is complete in the end, also if
\* stops interrupted it and a completion was lost in one, unless its result
\* cannot be sent.
Completes ==
  <>[](~suspended /\ ~done) => <>[](status # "in progress" \/ unsent)
=============================================================================

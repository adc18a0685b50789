--------------------------- MODULE AnalysisProofs ---------------------------
(***************************************************************************)
(* Proofs about module Analysis, for every directory, any number of stops, *)
(* of failing connections and of analyses with the id: what an analysis    *)
(* finds under its id and what becomes of its report; then the walk of a   *)
(* directory, its null pointers, and for a walk that no stop interrupts    *)
(* the counts and the report; last the progress file, which is read back   *)
(* as it was saved.                                                        *)
(***************************************************************************)
EXTENDS Analysis, TLAPS, SequenceTheorems, FiniteSetTheorems, WellFoundedInduction

Steps == {"forked", "walking", "walked", "telling", "writing", "saving",
          "ended"}

\* Where a removed analysis is harmless for the next one: nothing of it is
\* left, and its process will end at its next look at interrupted.
Harmless == /\ results = {} /\ file.kind = "empty"
            /\ proc = "ended" \/ (proc \in {"walking", "walked"} /\ interrupted)

\* OwnFile is not inductive by itself: that the process of the analysis
\* before is gone when the id is used again must be known.
OInv == /\ killing \in BOOLEAN /\ tardy \in BOOLEAN /\ interrupted \in BOOLEAN
        /\ proc \in Steps
        /\ killing => status = "removed"
        /\ ~tardy => /\ old.proc = "ended"
                     /\ status # "removed" => /\ file.kind # "empty" => file.of = life
                                              /\ \A r \in results : r.of = life
                     /\ status = "removed" /\ ~killing => Harmless

\* Of a step the proofs of OInv look at these only.
Kept == UNCHANGED <<status, killing, tardy, old, life>> /\ proc' \in Steps

LEMMA InitOInv == Init => OInv
<1> SUFFICES ASSUME Init PROVE OInv
  OBVIOUS
<1>1. file.kind = "empty" /\ old.proc = "ended"
  BY DEF Init, NewFile, NoProc
<1> QED BY <1>1 DEF Init, OInv, Steps

LEMMA SameOInv ==
  ASSUME OInv,
         UNCHANGED <<status, results, life, killing, file, proc, interrupted,
                     old, tardy>>
  PROVE  OInv'
BY DEF OInv, Steps, Harmless

\* A step of the process that leaves results and file as they are.
LEMMA QuietStep ==
  ASSUME OInv, Kept, UNCHANGED <<results, file, interrupted>>,
         \/ proc' = proc \/ proc' = "ended"
         \/ proc = "forked" \/ (proc \notin {"ended"} /\ ~interrupted)
         \/ proc \in {"walking", "walked"} /\ proc' \in {"walking", "walked"}
  PROVE  OInv'
BY DEF OInv, Kept, Steps, Harmless

\* A step of the process that sends or writes, in the name of its analysis.
LEMMA LoudStep ==
  ASSUME OInv, Kept, UNCHANGED interrupted,
         proc = "forked" \/ proc \in {"telling", "writing", "saving"}
           \/ (proc = "walking" /\ ~interrupted),
         results' = results \/ \E s : results' = results \cup {Says(s)},
         file' = file \/ file'.of = life
  PROVE  OInv'
BY DEF OInv, Kept, Steps, Harmless, Says

LEMMA ProcessOInv ==
  ASSUME OInv, Process
  PROVE  OInv'
<1>1. CASE FindReport
  BY <1>1, LoudStep DEF FindReport, SendCompletion, Kept, Steps, flags, mem
<1>2. CASE StartWalk
  BY <1>2, QuietStep DEF StartWalk, Kept, Steps, anal, flags, ghost
<1>3. CASE ReadFile
  BY <1>3, QuietStep DEF ReadFile, Reads, Kept, Steps, anal, flags, ghost
<1>4. CASE ReadDir
  <2>1. proc = "walking" /\ proc' \in {"walking", "walked"}
    BY <1>4 DEF ReadDir, Reads, Return
  <2> QED BY <1>4, <2>1, QuietStep DEF ReadDir, Kept, Steps, anal, flags, ghost
<1>5. CASE ReadEnd
  <2>1. proc = "walking" /\ proc' \in {"walking", "walked"}
    BY <1>5 DEF ReadEnd, Reads, Return
  <2> QED BY <1>5, <2>1, QuietStep DEF ReadEnd, Kept, Steps, anal, flags, ghost
<1>6. CASE EndInterrupted
  BY <1>6, QuietStep DEF EndInterrupted, Kept, Steps, anal, flags, ghost
<1>7. CASE GoesOn
  BY <1>7, QuietStep DEF GoesOn, Kept, Steps, anal, flags, ghost
<1>8. CASE SendResult
  <2>1. results' = results \/ results' = results \cup {Says("complete")}
    BY <1>8 DEF SendResult, SendCompletion
  <2> QED BY <1>8, <2>1, LoudStep DEF SendResult, Kept, Steps, flags
<1>9. CASE WriteFile
  BY <1>9, LoudStep DEF WriteFile, Written, Kept, Steps, anal, flags
<1> QED BY <1>1, <1>2, <1>3, <1>4, <1>5, <1>6, <1>7, <1>8, <1>9 DEF Process

LEMMA NextOInv ==
  ASSUME OInv, [Next]_vars
  PROVE  OInv'
<1>1. CASE Process
  BY <1>1, ProcessOInv
<1>2. CASE SendPartial
  BY <1>2, QuietStep DEF SendPartial, Kept, Steps, flags
<1>3. CASE WalkFails
  BY <1>3, LoudStep DEF WalkFails, Kept, Steps, flags
<1>4. CASE OldProcess
  BY <1>4 DEF OldProcess, OldTells, OldWrites, OInv, Steps, Harmless, anal, flags, ghost
<1>5. CASE Apply
  BY <1>5 DEF Apply, Removed, OInv, Steps, Harmless, mem, flags, ghost
<1>6. CASE Suspend \/ Resume \/ Stop
  BY <1>6, SameOInv DEF Suspend, Resume, Stop, anal, ghost
<1>7. CASE Remove
  BY <1>7 DEF Remove, Removed, OInv, Steps, Harmless, flags, ghost, mem
<1>8. CASE Kill
  BY <1>8 DEF Kill, OInv, Steps, Harmless, Known, mem
<1>9. CASE Reuse
  BY <1>9 DEF Reuse, OInv, Steps, Harmless, NoProc
<1>10. CASE Restart
  BY <1>10 DEF Restart, OInv, Steps, Harmless
<1>11. CASE UNCHANGED vars
  BY <1>11, SameOInv DEF vars, anal, flags, ghost
<1> QED BY <1>1, <1>2, <1>3, <1>4, <1>5, <1>6, <1>7, <1>8, <1>9, <1>10, <1>11
        DEF Next

\* An analysis finds under its id no file and no result of the one before,
\* if SIGINT reached its process before the last look at interrupted
\* (threads_manager.c:609-618, forks_manager.c:97).
THEOREM OwnFileHolds == Spec => []OwnFile
<1>1. OInv => OwnFile
  BY DEF OInv, OwnFile
<1> QED BY <1>1, InitOInv, NextOInv, PTL DEF Spec
-----------------------------------------------------------------------------
\* What CompleteHasReport and ReportStays need: a report is there only before
\* and after the process, and a completion, told or applied, comes with its
\* report or is followed by it.
Completion == status = "complete" \/ \E r \in results : r.says = "complete"

CInv == /\ done \in BOOLEAN /\ cut \in BOOLEAN
        /\ \A r \in results : r.says \in {"complete", "failed"}
        /\ ~tardy =>
             /\ file.kind = "report" => proc \in {"forked", "ended"}
             /\ Completion /\ status # "removed" /\ ~cut
                  => file.kind = "report" \/ proc = "writing"

Inv == OInv /\ CInv

LEMMA InitCInv == Init => CInv
<1> SUFFICES ASSUME Init PROVE CInv
  OBVIOUS
<1>1. file.kind = "empty"
  BY DEF Init, NewFile
<1> QED BY <1>1 DEF Init, CInv, Completion

LEMMA SameCInv ==
  ASSUME CInv, done' \in BOOLEAN,
         UNCHANGED <<status, results, file, proc, cut, tardy>>
  PROVE  CInv'
BY DEF CInv, Completion

\* In the walk there is neither a report nor a completion.
LEMMA WalkCInv ==
  ASSUME CInv, UNCHANGED <<status, file, done, cut, tardy>>,
         proc = "forked" => file.kind # "report",
         proc \notin {"ended", "writing"},
         proc' # "forked",
         results' = results \/ results' = results \cup {Says("failed")}
  PROVE  CInv'
BY DEF CInv, Completion, Says

LEMMA ProcessCInv ==
  ASSUME Inv, Process
  PROVE  CInv'
<1> USE DEF Inv
<1>1. CASE FindReport
  BY <1>1 DEF FindReport, SendCompletion, Says, CInv, Completion, flags, mem
<1>2. CASE StartWalk
  BY <1>2, WalkCInv DEF StartWalk, anal, flags, ghost
<1>3. CASE ReadFile
  BY <1>3, SameCInv DEF ReadFile, CInv, anal, flags, ghost
<1>4. CASE ReadDir
  <2>1. proc = "walking" /\ proc' \in {"walking", "walked"}
    BY <1>4 DEF ReadDir, Reads, Return
  <2> QED BY <1>4, <2>1, WalkCInv DEF ReadDir, anal, flags, ghost
<1>5. CASE ReadEnd
  <2>1. proc = "walking" /\ proc' \in {"walking", "walked"}
    BY <1>5 DEF ReadEnd, Reads, Return
  <2> QED BY <1>5, <2>1, WalkCInv DEF ReadEnd, anal, flags, ghost
<1>6. CASE EndInterrupted
  BY <1>6, WalkCInv DEF EndInterrupted, anal, flags, ghost
<1>7. CASE GoesOn
  BY <1>7, WalkCInv DEF GoesOn, anal, flags, ghost
<1>8. CASE SendResult
  <2>1. CASE done
    BY <1>8, <2>1, WalkCInv DEF SendResult, flags
  <2>2. CASE ~done
    <3>1. /\ proc = "telling" /\ proc' = "writing"
          /\ UNCHANGED <<status, file, done, cut, tardy>>
          /\ results' = results \/ results' = results \cup {Says("complete")}
      BY <1>8, <2>2 DEF SendResult, SendCompletion, flags
    <3> QED BY <3>1 DEF CInv, Completion, Says
  <2> QED BY <2>1, <2>2
<1>9. CASE WriteFile
  <2>1. file'.kind = IF done THEN "progress" ELSE "report"
    BY <1>9 DEF WriteFile, Written
  <2>2. /\ proc \in {"writing", "saving"} /\ proc' = "ended"
        /\ cut' = (cut \/ (done /\ proc = "writing"))
        /\ UNCHANGED <<status, results, done, tardy>>
    BY <1>9 DEF WriteFile, anal, flags
  <2> QED BY <2>1, <2>2 DEF CInv, Completion
<1> QED BY <1>1, <1>2, <1>3, <1>4, <1>5, <1>6, <1>7, <1>8, <1>9 DEF Process

LEMMA NextCInv ==
  ASSUME Inv, [Next]_vars
  PROVE  CInv'
<1> USE DEF Inv
<1>1. CASE Process
  BY <1>1, ProcessCInv
<1>2. CASE SendPartial
  BY <1>2, SameCInv DEF SendPartial, CInv, flags
<1>3. CASE WalkFails
  BY <1>3, WalkCInv DEF WalkFails, flags
<1>4. CASE OldProcess
  BY <1>4 DEF OldProcess, OldTells, OldWrites, OInv, CInv, Completion, anal,
              flags, ghost
<1>5. CASE Apply
  <2>1. file' = file \/ file'.kind = "empty"
    BY <1>5 DEF Apply, Removed, NewFile
  <2> QED BY <1>5, <2>1 DEF Apply, Removed, CInv, Completion, mem, flags, ghost
<1>6. CASE Suspend \/ Resume \/ Stop
  BY <1>6, SameCInv DEF Suspend, Resume, Stop, CInv, anal, ghost
<1>7. CASE Remove
  <2>1. file'.kind = "empty"
    BY <1>7 DEF Remove, Removed, NewFile
  <2> QED BY <1>7, <2>1 DEF Remove, Removed, CInv, Completion, mem, flags, ghost
<1>8. CASE Kill
  BY <1>8 DEF Kill, OInv, CInv, Completion, mem
<1>9. CASE Reuse
  BY <1>9 DEF Reuse, OInv, Harmless, CInv, Completion
<1>10. CASE Restart
  BY <1>10 DEF Restart, CInv, Completion
<1>11. CASE UNCHANGED vars
  BY <1>11, SameCInv DEF vars, CInv, anal, flags, ghost, mem
<1> QED BY <1>1, <1>2, <1>3, <1>4, <1>5, <1>6, <1>7, <1>8, <1>9, <1>10, <1>11
        DEF Next

LEMMA InvHolds == Spec => []Inv
<1>1. Init => Inv
  BY InitOInv, InitCInv DEF Inv
<1>2. Inv /\ [Next]_vars => Inv'
  BY NextOInv, NextCInv DEF Inv
<1> QED BY <1>1, <1>2, PTL DEF Spec

\* Once its process has ended a complete analysis has a report, if SIGTERM did
\* not come between completion and report (forks_manager.c:101-112).
THEOREM CompleteHasReportHolds == Spec => []CompleteHasReport
<1>1. Inv => CompleteHasReport
  BY DEF Inv, CInv, Completion, CompleteHasReport
<1> QED BY <1>1, InvHolds, PTL

\* No report is replaced by progress, whatever stops and restarts come
\* (forks_manager.c:78-112).
THEOREM ReportStaysHolds == Spec => ReportStays
<1>1. ASSUME Inv, [Next]_vars
      PROVE  [file.kind = "report" /\ ~tardy => file'.kind # "progress"]_vars
  <2>1. CASE WriteFile
    BY <1>1, <2>1 DEF Inv, CInv, WriteFile
  <2>2. CASE OldProcess
    BY <1>1, <2>2 DEF Inv, OInv, OldProcess, OldTells, OldWrites
  <2>3. CASE Apply \/ Remove
    BY <2>3 DEF Apply, Remove, Removed, NewFile
  <2>4. CASE file' = file
    BY <2>4
  <2>5. CASE UNCHANGED vars
    BY <2>5
  <2> QED BY <1>1, <2>1, <2>2, <2>3, <2>4, <2>5
          DEF Next, Process, FindReport, StartWalk, ReadFile, ReadDir, ReadEnd,
              EndInterrupted, GoesOn, SendResult, SendPartial, WalkFails,
              Suspend, Resume, Kill, Reuse, Stop, Restart
<1> QED BY <1>1, InvHolds, PTL DEF Spec, ReportStays
-----------------------------------------------------------------------------
(* What fts_read returns *)

\* The directories that fts_read is in after n entries.
Open(n) == {x \in Dirs : StartOf(x) <= n /\ n < EndOf(x)}

LEMMA WalkType ==
  /\ Len(Walk) \in Nat /\ Len(Walk) >= 2 /\ DOMAIN Walk = 1 .. Len(Walk)
  /\ Root \in Dirs
  /\ \A j \in 1 .. Len(Walk) :
       /\ Walk[j].kind \in {"D", "F", "DP"} /\ Walk[j].dir \in Dirs
       /\ Walk[j] = [kind |-> Walk[j].kind, dir |-> Walk[j].dir]
<1>1. Walk \in Seq([kind : {"D", "F", "DP"}, dir : Dirs]) /\ Len(Walk) >= 2 /\ Root \in Dirs
  BY AnalysisAssumption
<1>2. Len(Walk) \in Nat /\ DOMAIN Walk = 1 .. Len(Walk)
  BY <1>1
<1>3. \A j \in 1 .. Len(Walk) : Walk[j] \in [kind : {"D", "F", "DP"}, dir : Dirs]
  BY <1>1, ElementOfSeq
<1> QED BY <1>1, <1>2, <1>3

\* Where a directory starts and ends.
LEMMA Ends ==
  ASSUME NEW x \in Dirs
  PROVE  /\ StartOf(x) \in 1 .. Len(Walk) /\ EndOf(x) \in 1 .. Len(Walk)
         /\ Walk[StartOf(x)] = [kind |-> "D", dir |-> x]
         /\ Walk[EndOf(x)] = [kind |-> "DP", dir |-> x]
         /\ StartOf(x) < EndOf(x)
<1>1. PICK i \in DOMAIN Walk, j \in DOMAIN Walk :
        i < j /\ Walk[i] = [kind |-> "D", dir |-> x]
              /\ Walk[j] = [kind |-> "DP", dir |-> x]
  BY FtsAssumption
<1>2. StartOf(x) \in DOMAIN Walk /\ Walk[StartOf(x)] = [kind |-> "D", dir |-> x]
  BY <1>1, Zenon DEF StartOf
<1>3. EndOf(x) \in DOMAIN Walk /\ Walk[EndOf(x)] = [kind |-> "DP", dir |-> x]
  BY <1>1, Zenon DEF EndOf
<1>4. Walk[i].kind # "F" /\ Walk[j].kind # "F"
  BY <1>1
<1>5. \A k, l \in DOMAIN Walk : Walk[k] = Walk[l] => k = l \/ Walk[k].kind = "F"
  BY FtsAssumption
<1>6. i = StartOf(x)
  <2>1. Walk[i] = Walk[StartOf(x)]
    BY <1>1, <1>2
  <2> QED BY <1>2, <1>4, <1>5, <2>1, Zenon
<1>7. j = EndOf(x)
  <2>1. Walk[j] = Walk[EndOf(x)]
    BY <1>1, <1>3
  <2> QED BY <1>3, <1>4, <1>5, <2>1, Zenon
<1> QED BY <1>1, <1>2, <1>3, <1>6, <1>7, WalkType

LEMMA EndsType ==
  ASSUME NEW x \in Dirs
  PROVE  StartOf(x) \in Nat /\ EndOf(x) \in Nat
<1>1. StartOf(x) \in 1 .. Len(Walk) /\ EndOf(x) \in 1 .. Len(Walk)
  BY Ends
<1> QED BY <1>1, WalkType

LEMMA AtStart ==
  ASSUME NEW j \in 1 .. Len(Walk), Walk[j].kind = "D"
  PROVE  Walk[j].dir \in Dirs /\ StartOf(Walk[j].dir) = j
<1>1. Walk[j].dir \in Dirs /\ Walk[j] = [kind |-> "D", dir |-> Walk[j].dir]
  BY WalkType
<1>2. Walk[StartOf(Walk[j].dir)] = Walk[j] /\ StartOf(Walk[j].dir) \in 1 .. Len(Walk)
  BY <1>1, Ends
<1>3. StartOf(Walk[j].dir) = j \/ Walk[StartOf(Walk[j].dir)].kind = "F"
  BY <1>2, WalkType, FtsAssumption, Zenon
<1> QED BY <1>1, <1>2, <1>3

LEMMA AtEnd ==
  ASSUME NEW j \in 1 .. Len(Walk), Walk[j].kind = "DP"
  PROVE  Walk[j].dir \in Dirs /\ EndOf(Walk[j].dir) = j
<1>1. Walk[j].dir \in Dirs /\ Walk[j] = [kind |-> "DP", dir |-> Walk[j].dir]
  BY WalkType
<1>2. Walk[EndOf(Walk[j].dir)] = Walk[j] /\ EndOf(Walk[j].dir) \in 1 .. Len(Walk)
  BY <1>1, Ends
<1>3. EndOf(Walk[j].dir) = j \/ Walk[EndOf(Walk[j].dir)].kind = "F"
  BY <1>2, WalkType, FtsAssumption, Zenon
<1> QED BY <1>1, <1>2, <1>3

\* Two entries of one kind at one place are of one directory.
LEMMA Apart ==
  ASSUME NEW x \in Dirs, NEW y \in Dirs, x # y
  PROVE  /\ StartOf(x) # StartOf(y) /\ EndOf(x) # EndOf(y)
         /\ StartOf(x) # EndOf(y)
<1>1. /\ Walk[StartOf(x)] = [kind |-> "D", dir |-> x]
      /\ Walk[StartOf(y)] = [kind |-> "D", dir |-> y]
      /\ Walk[EndOf(x)] = [kind |-> "DP", dir |-> x]
      /\ Walk[EndOf(y)] = [kind |-> "DP", dir |-> y]
  BY Ends
<1> QED BY <1>1

\* A directory that starts in another one ends in it.
LEMMA Nested ==
  ASSUME NEW x \in Dirs, NEW y \in Dirs,
         StartOf(x) < StartOf(y), StartOf(y) < EndOf(x)
  PROVE  EndOf(y) < EndOf(x)
<1>1. EndOf(y) < EndOf(x) \/ EndOf(x) < StartOf(y)
  BY FtsAssumption
<1>2. EndOf(x) \in 1 .. Len(Walk) /\ StartOf(y) \in 1 .. Len(Walk)
  BY Ends
<1> QED BY <1>1, <1>2

LEMMA RootEnds == StartOf(Root) = 1 /\ EndOf(Root) = Len(Walk)
<1>1. /\ Walk[1] = [kind |-> "D", dir |-> Root]
      /\ Walk[Len(Walk)] = [kind |-> "DP", dir |-> Root]
  BY AnalysisAssumption
<1>2. 1 \in 1 .. Len(Walk) /\ Len(Walk) \in 1 .. Len(Walk)
  BY WalkType
<1>3. Walk[1].kind = "D" /\ Walk[1].dir = Root
  BY <1>1
<1>4. Walk[Len(Walk)].kind = "DP" /\ Walk[Len(Walk)].dir = Root
  BY <1>1
<1> QED BY <1>2, <1>3, <1>4, AtStart, AtEnd

\* The root starts before all others.
LEMMA AllEnds ==
  \A x \in Dirs : /\ StartOf(x) \in 1 .. Len(Walk) /\ EndOf(x) \in 1 .. Len(Walk)
                  /\ StartOf(x) < EndOf(x)
                  /\ StartOf(x) = 1 => x = Root
<1> SUFFICES ASSUME NEW x \in Dirs
             PROVE  /\ StartOf(x) \in 1 .. Len(Walk) /\ EndOf(x) \in 1 .. Len(Walk)
                    /\ StartOf(x) < EndOf(x)
                    /\ StartOf(x) = 1 => x = Root
  OBVIOUS
<1>1. x # Root => StartOf(x) # StartOf(Root)
  BY Apart, WalkType
<1>2. StartOf(Root) = 1
  BY RootEnds
<1> QED BY <1>1, <1>2, Ends

\* The root is open until the last entry.
LEMMA OpenRoot == Open(1) = {Root} /\ Open(0) = {} /\ Open(Len(Walk)) = {}
<1>1. \A x \in Dirs : /\ StartOf(x) \in 1 .. Len(Walk) /\ EndOf(x) \in 1 .. Len(Walk)
                      /\ StartOf(x) < EndOf(x)
                      /\ StartOf(x) = 1 => x = Root
  BY AllEnds
<1> QED BY <1>1, RootEnds, WalkType DEF Open

LEMMA OpenFile ==
  ASSUME NEW n \in Nat, n < Len(Walk), Walk[n + 1].kind = "F"
  PROVE  Open(n + 1) = Open(n)
<1>1. \A x \in Dirs : /\ StartOf(x) \in 1 .. Len(Walk) /\ EndOf(x) \in 1 .. Len(Walk)
                      /\ StartOf(x) # n + 1 /\ EndOf(x) # n + 1
  <2> SUFFICES ASSUME NEW x \in Dirs
               PROVE  /\ StartOf(x) \in 1 .. Len(Walk) /\ EndOf(x) \in 1 .. Len(Walk)
                      /\ StartOf(x) # n + 1 /\ EndOf(x) # n + 1
    OBVIOUS
  <2>1. /\ Walk[StartOf(x)] = [kind |-> "D", dir |-> x]
        /\ Walk[EndOf(x)] = [kind |-> "DP", dir |-> x]
    BY Ends
  <2>2. StartOf(x) # n + 1 /\ EndOf(x) # n + 1
    BY <2>1
  <2> QED BY <2>2, Ends
<1> QED BY <1>1 DEF Open

LEMMA OpenStart ==
  ASSUME NEW n \in Nat, n < Len(Walk), Walk[n + 1].kind = "D"
  PROVE  LET x == Walk[n + 1].dir IN
         /\ x \in Dirs /\ StartOf(x) = n + 1 /\ x \notin Open(n)
         /\ EndOf(x) - 1 \in n + 1 .. Len(Walk) - 1
         /\ Open(n + 1) = Open(n) \cup {x}
         /\ Open(EndOf(x) - 1) = Open(n) \cup {x}
<1> DEFINE x == Walk[n + 1].dir
<1>1. n + 1 \in 1 .. Len(Walk)
  BY WalkType
<1>2. x \in Dirs /\ StartOf(x) = n + 1
  BY <1>1, AtStart
<1> HIDE DEF x
<1>3. EndOf(x) \in 1 .. Len(Walk) /\ EndOf(x) > n + 1
  BY <1>2, Ends
<1>4. \A y \in Dirs : /\ StartOf(y) \in 1 .. Len(Walk) /\ EndOf(y) \in 1 .. Len(Walk)
                      /\ StartOf(y) < EndOf(y)
  BY Ends
<1>5. \A y \in Dirs \ {x} : StartOf(y) # n + 1 /\ EndOf(y) # n + 1 /\ EndOf(y) # EndOf(x)
  BY <1>2, Apart
<1>6. \A y \in Dirs \ {x} : /\ StartOf(y) < StartOf(x) /\ StartOf(x) < EndOf(y)
                                 => EndOf(x) < EndOf(y)
                            /\ StartOf(x) < StartOf(y) /\ StartOf(y) < EndOf(x)
                                 => EndOf(y) < EndOf(x)
  BY <1>2, Nested
<1>7. Open(n + 1) = Open(n) \cup {x}
  BY <1>1, <1>2, <1>3, <1>4, <1>5 DEF Open
<1>8. Open(EndOf(x) - 1) = Open(n) \cup {x}
  <2>1. \A y \in Dirs \ {x} : y \in Open(EndOf(x) - 1) <=> y \in Open(n)
    BY <1>2, <1>3, <1>4, <1>5, <1>6 DEF Open
  <2>2. x \in Open(EndOf(x) - 1)
    BY <1>2, <1>3 DEF Open
  <2> QED BY <2>1, <2>2, <1>2 DEF Open
<1>9. x \notin Open(n)
  BY <1>2 DEF Open
<1> QED BY <1>2, <1>3, <1>7, <1>8, <1>9, WalkType DEF x

\* The directory that ends is the last one that was opened.
LEMMA OpenEnd ==
  ASSUME NEW n \in Nat, n < Len(Walk), Walk[n + 1].kind = "DP"
  PROVE  LET x == Walk[n + 1].dir IN
         /\ x \in Open(n) /\ EndOf(x) = n + 1
         /\ Open(n + 1) = Open(n) \ {x}
         /\ \A y \in Open(n) : StartOf(y) <= StartOf(x)
<1> DEFINE x == Walk[n + 1].dir
<1>1. n + 1 \in 1 .. Len(Walk)
  BY WalkType
<1>2. x \in Dirs /\ EndOf(x) = n + 1
  BY <1>1, AtEnd
<1> HIDE DEF x
<1>3. StartOf(x) \in 1 .. Len(Walk) /\ StartOf(x) < n + 1
  BY <1>2, Ends
<1>4. \A y \in Dirs : /\ StartOf(y) \in 1 .. Len(Walk) /\ EndOf(y) \in 1 .. Len(Walk)
                      /\ StartOf(y) < EndOf(y)
  BY Ends
<1>5. \A y \in Dirs \ {x} : StartOf(y) # n + 1 /\ EndOf(y) # n + 1
  BY <1>2, Apart
<1>6. \A y \in Dirs : StartOf(x) < StartOf(y) /\ StartOf(y) < EndOf(x)
                        => EndOf(y) < EndOf(x)
  BY <1>2, Nested
<1>7. Open(n + 1) = Open(n) \ {x}
  BY <1>2, <1>3, <1>4, <1>5 DEF Open
<1>8. \A y \in Open(n) : StartOf(y) <= StartOf(x)
  BY <1>2, <1>3, <1>4, <1>6 DEF Open
<1> QED BY <1>2, <1>3, <1>7, <1>8 DEF Open, x

-----------------------------------------------------------------------------
(* Frames and trees *)

Frame(s, i) == SubSeq(s, 1, i)

LEMMA FrameFacts ==
  ASSUME NEW s \in Seq(Dirs)
  PROVE  /\ Len(s) \in Nat /\ DOMAIN s = 1 .. Len(s)
         /\ \A i \in 1 .. Len(s) : /\ s[i] \in Dirs
                                   /\ Frame(s, i) \in Seq(Dirs) \ {<<>>}
                                   /\ Len(Frame(s, i)) = i
                                   /\ NameOf(Frame(s, i)) = s[i]
         /\ Frame(s, Len(s)) = s
         /\ s # <<>> => Len(s) \in 1 .. Len(s) /\ NameOf(s) = s[Len(s)]
<1>1. Len(s) \in Nat /\ DOMAIN s = 1 .. Len(s)
  OBVIOUS
<1>2. ASSUME NEW i \in 1 .. Len(s)
      PROVE  /\ s[i] \in Dirs /\ Frame(s, i) \in Seq(Dirs) \ {<<>>}
             /\ Len(Frame(s, i)) = i /\ NameOf(Frame(s, i)) = s[i]
  <2>1. s[i] \in Dirs
    BY <1>1
  <2>2. /\ Frame(s, i) \in Seq(Dirs) /\ Len(Frame(s, i)) = i
        /\ Frame(s, i)[i] = s[i]
    BY SubSeqProperties DEF Frame
  <2> QED BY <2>1, <2>2 DEF NameOf
<1>3. Frame(s, Len(s)) = s
  BY SubSeqFull DEF Frame
<1>4. s # <<>> => Len(s) \in 1 .. Len(s) /\ NameOf(s) = s[Len(s)]
  BY DEF NameOf
<1> QED BY <1>1, <1>2, <1>3, <1>4

\* The frames of a caller.
LEMMA AboveFacts ==
  ASSUME NEW s \in Seq(Dirs), s # <<>>
  PROVE  /\ Above(s) \in Seq(Dirs) /\ Len(Above(s)) = Len(s) - 1
         /\ \A i \in 1 .. Len(s) - 1 :
              Above(s)[i] = s[i] /\ Frame(Above(s), i) = Frame(s, i)
         /\ Above(s) # <<>> => Above(s) = Frame(s, Len(s) - 1)
         /\ Above(s) # s
<1>1. Len(s) \in Nat /\ Len(s) > 0
  OBVIOUS
<1>2. /\ Above(s) \in Seq(Dirs) /\ Len(Above(s)) = Len(s) - 1
      /\ \A i \in 1 .. Len(s) - 1 : Above(s)[i] = s[i]
  <2>0. PICK n \in Nat : n = Len(s) - 1
    BY <1>1
  <2>1. \A i \in 1 .. n : s[i] \in Dirs
    BY <1>1, <2>0
  <2>2. /\ SubSeq(s, 1, n) \in Seq(Dirs) /\ Len(SubSeq(s, 1, n)) = n
        /\ \A i \in 1 .. n : SubSeq(s, 1, n)[i] = s[i]
    BY <2>1, SubSeqProperties
  <2> QED BY <2>0, <2>2 DEF Above
<1>3. ASSUME NEW i \in 1 .. Len(s) - 1
      PROVE  Frame(Above(s), i) = Frame(s, i)
  <2>1. /\ Frame(Above(s), i) \in Seq(Dirs) /\ Len(Frame(Above(s), i)) = i
        /\ \A j \in 1 .. i : Frame(Above(s), i)[j] = Above(s)[j]
    BY <1>2, SubSeqProperties DEF Frame
  <2>2. /\ Frame(s, i) \in Seq(Dirs) /\ Len(Frame(s, i)) = i
        /\ \A j \in 1 .. i : Frame(s, i)[j] = s[j]
    BY <1>1, SubSeqProperties DEF Frame
  <2>3. \A j \in 1 .. i : j \in 1 .. Len(s) - 1
    BY <1>1
  <2>4. \A j \in 1 .. i : Frame(Above(s), i)[j] = Frame(s, i)[j]
    BY <1>2, <2>1, <2>2, <2>3
  <2> QED BY <2>1, <2>2, <2>4, SeqEqual
<1>4. Above(s) = Frame(s, Len(s) - 1)
  BY DEF Above, Frame
<1> QED BY <1>1, <1>2, <1>3, <1>4

\* The frame of the root.
LEMMA RootFrame ==
  /\ <<Root>> \in Seq(Dirs) \ {<<>>} /\ Above(<<Root>>) = <<>> /\ NameOf(<<Root>>) = Root
  /\ Frame(<<Root>>, 1) = <<Root>> /\ Len(<<Root>>) = 1 /\ <<Root>>[1] = Root
<1>1. <<Root>> \in Seq(Dirs) \ {<<>>} /\ Len(<<Root>>) = 1 /\ <<Root>>[1] = Root
  BY WalkType
<1>2. Above(<<Root>>) \in Seq(Dirs) /\ Len(Above(<<Root>>)) = 0
  <2>1. ASSUME NEW s \in Seq(Dirs), s # <<>>, Len(s) = 1
        PROVE  Above(s) \in Seq(Dirs) /\ Len(Above(s)) = 0
    BY <2>1, AboveFacts
  <2> QED BY <1>1, <2>1
<1>3. Above(<<Root>>) = <<>>
  BY <1>2, SeqEqual
<1>4. Frame(<<Root>>, 1) = <<Root>>
  BY <1>1, FrameFacts
<1> QED BY <1>1, <1>3, <1>4 DEF NameOf

\* The frames below a new one.
LEMMA ChildFacts ==
  ASSUME NEW s \in Seq(Dirs), NEW x \in Dirs
  PROVE  /\ Append(s, x) \in Seq(Dirs) \ {<<>>} /\ Len(Append(s, x)) = Len(s) + 1
         /\ NameOf(Append(s, x)) = x /\ Above(Append(s, x)) = s
         /\ \A i \in 1 .. Len(s) :
              Append(s, x)[i] = s[i] /\ Frame(Append(s, x), i) = Frame(s, i)
         /\ Append(s, x)[Len(s) + 1] = x
<1> DEFINE c == Append(s, x)
<1>1. /\ c \in Seq(Dirs) /\ c # <<>> /\ Len(c) = Len(s) + 1 /\ c[Len(s) + 1] = x
      /\ \A i \in 1 .. Len(s) : c[i] = s[i]
  BY AppendProperties
<1>2. Len(s) \in Nat
  OBVIOUS
<1> HIDE DEF c
<1>3. NameOf(c) = x
  BY <1>1 DEF NameOf
<1>4. Above(c) = s
  <2>1. /\ Above(c) \in Seq(Dirs) /\ Len(Above(c)) = Len(s)
        /\ \A i \in 1 .. Len(s) : Above(c)[i] = s[i]
    <3>1. Len(c) - 1 = Len(s)
      BY <1>1, <1>2
    <3> QED BY <1>1, <3>1, AboveFacts
  <2> QED BY <2>1, SeqEqual
<1>5. ASSUME NEW i \in 1 .. Len(s)
      PROVE  Frame(c, i) = Frame(s, i)
  BY <1>1, <1>2, <1>4, AboveFacts
<1> QED BY <1>1, <1>3, <1>4, <1>5 DEF c

LEMMA TreeGrows ==
  ASSUME NEW t, Tree(t), NEW c \in Seq(Dirs) \ {<<>>}, Above(c) \in DOMAIN t,
         NEW u, DOMAIN u = DOMAIN t \cup {c}, \A q \in DOMAIN u : u[q] \in State
  PROVE  Tree(u)
BY DEF Tree

LEMMA TreeStays ==
  ASSUME NEW t, Tree(t), NEW u, DOMAIN u = DOMAIN t, \A q \in DOMAIN u : u[q] \in State
  PROVE  Tree(u)
BY DEF Tree

LEMMA InsertFacts ==
  ASSUME NEW t, NEW p, NEW state
  PROVE  /\ DOMAIN Insert(t, p, state) = DOMAIN t \cup {p}
         /\ Insert(t, p, state)[p] = state
         /\ \A q \in DOMAIN t \ {p} : Insert(t, p, state)[q] = t[q]
BY DEF Insert

LEMMA MadeFacts ==
  ASSUME NEW t, NEW p
  PROVE  /\ DOMAIN Made(t, p) = DOMAIN t \cup {p}
         /\ \A q \in DOMAIN t : Made(t, p)[q] = t[q]
         /\ p \notin DOMAIN t => Made(t, p)[p] = Null
<1>1. CASE p \in DOMAIN t
  BY <1>1 DEF Made
<1>2. CASE p \notin DOMAIN t
  <2>1. Made(t, p) = Insert(t, p, Null)
    BY <1>2 DEF Made
  <2>2. /\ DOMAIN Insert(t, p, Null) = DOMAIN t \cup {p}
        /\ Insert(t, p, Null)[p] = Null
        /\ \A q \in DOMAIN t \ {p} : Insert(t, p, Null)[q] = t[q]
    BY DEF Insert
  <2>3. \A q \in DOMAIN t : q # p
    BY <1>2
  <2>4. \A q \in DOMAIN t : Insert(t, p, Null)[q] = t[q]
    BY <2>2, <2>3
  <2> QED BY <1>2, <2>1, <2>2, <2>4, Zenon
<1> QED BY <1>1, <1>2
-----------------------------------------------------------------------------
(* The state of the walk: frames s, tree t, n entries read *)

\* If the first subdirectory of p, with nothing but files before it, is among
\* the first n entries, then it has a node.
FirstThere(t, p, n) ==
  \A j \in 1 .. Len(Walk) :
    /\ StartOf(NameOf(p)) < j /\ j <= n /\ Walk[j].kind = "D"
    /\ \A m \in StartOf(NameOf(p)) + 1 .. j - 1 : Walk[m].kind = "F"
    => Append(p, Walk[j].dir) \in DOMAIN t

\* Every node has a state, and one that is done was entered with its first
\* subdirectory.
Sound(t) ==
  \A p \in DOMAIN t \ {<<>>} : /\ ~t[p].null
                               /\ t[p].done => FirstThere(t, p, Len(Walk))

\* The directories of the frames are open, the outer ones were opened first;
\* only the innermost may have been finished before.
Frames(s, t, n) ==
  /\ s \in Seq(Dirs)
  /\ \A i \in 1 .. Len(s) : /\ Frame(s, i) \in DOMAIN t /\ s[i] \in Open(n)
                            /\ FirstThere(t, Frame(s, i), n)
                            /\ i < Len(s) => ~t[Frame(s, i)].done
  /\ \A i, j \in 1 .. Len(s) : i < j => StartOf(s[i]) < StartOf(s[j])

\* In a directory that was finished before, the walk is before the first
\* subdirectory or at its end, with which it leaves the directory.
Resumed(s, t, n) ==
  s # <<>> /\ t[s].done => \/ \A m \in StartOf(NameOf(s)) + 1 .. n : Walk[m].kind = "F"
                           \/ Walk[n + 1].kind = "DP"

WalkState(s, t, n) == Tree(t) /\ Sound(t) /\ Frames(s, t, n) /\ Resumed(s, t, n)

LEMMA FirstGrows ==
  ASSUME NEW t, NEW u, DOMAIN t \subseteq DOMAIN u, NEW p, NEW n,
         FirstThere(t, p, n)
  PROVE  FirstThere(u, p, n)
BY DEF FirstThere

LEMMA SoundGrows ==
  ASSUME NEW t, Sound(t), NEW u, DOMAIN t \subseteq DOMAIN u,
         \A q \in DOMAIN u \ {<<>>} :
           /\ ~u[q].null
           /\ u[q].done => \/ q \in DOMAIN t /\ t[q].done
                           \/ FirstThere(u, q, Len(Walk))
  PROVE  Sound(u)
BY FirstGrows DEF Sound

\* The walk goes on to k.
LEMMA FirstNext ==
  ASSUME NEW t, NEW u, DOMAIN t \subseteq DOMAIN u, NEW p, NEW n \in Nat, NEW k \in Nat,
         StartOf(NameOf(p)) \in Nat, StartOf(NameOf(p)) <= n,
         FirstThere(t, p, n),
         k = n + 1 \/ Walk[n + 1].kind # "F",
         \/ Walk[n + 1].kind # "D"
         \/ \E m \in StartOf(NameOf(p)) + 1 .. n : Walk[m].kind # "F"
         \/ Append(p, Walk[n + 1].dir) \in DOMAIN u
  PROVE  FirstThere(u, p, k)
<1> SUFFICES ASSUME NEW j \in 1 .. Len(Walk), StartOf(NameOf(p)) < j, j <= k,
                    Walk[j].kind = "D",
                    \A m \in StartOf(NameOf(p)) + 1 .. j - 1 : Walk[m].kind = "F"
             PROVE  Append(p, Walk[j].dir) \in DOMAIN u
  BY DEF FirstThere
<1>0. Len(Walk) \in Nat
  BY WalkType
<1>1. CASE j <= n
  BY <1>1 DEF FirstThere
<1>2. CASE j = n + 1
  BY <1>2
<1>3. CASE j > n + 1
  BY <1>0, <1>3
<1> QED BY <1>0, <1>1, <1>2, <1>3

\* There are entries left while there is a frame.
LEMMA MoreToRead ==
  ASSUME NEW s, NEW t, NEW n \in Nat, Frames(s, t, n), s # <<>>
  PROVE  /\ n < Len(Walk) /\ s \in Seq(Dirs) /\ s \in DOMAIN t
         /\ NameOf(s) \in Open(n) /\ FirstThere(t, s, n)
         /\ StartOf(NameOf(s)) \in 1 .. n
<1>1. s \in Seq(Dirs) /\ Len(s) \in 1 .. Len(s) /\ Frame(s, Len(s)) = s
      /\ NameOf(s) = s[Len(s)]
  BY FrameFacts DEF Frames
<1>2. s \in DOMAIN t /\ NameOf(s) \in Open(n) /\ FirstThere(t, s, n)
  BY <1>1, Zenon DEF Frames
<1>3. /\ NameOf(s) \in Dirs /\ StartOf(NameOf(s)) <= n /\ n < EndOf(NameOf(s))
  BY <1>2 DEF Open
<1>4. StartOf(NameOf(s)) \in 1 .. Len(Walk) /\ EndOf(NameOf(s)) \in 1 .. Len(Walk)
  BY <1>3, Ends
<1> QED BY <1>1, <1>2, <1>3, <1>4, WalkType

\* A subdirectory was entered in every frame but the innermost.
LEMMA OuterEntered ==
  ASSUME NEW s, NEW t, NEW n \in Nat, Frames(s, t, n),
         NEW i \in 1 .. Len(s), i < Len(s)
  PROVE  /\ StartOf(s[i]) \in 1 .. n /\ NameOf(Frame(s, i)) = s[i]
         /\ \E m \in StartOf(s[i]) + 1 .. n : Walk[m].kind # "F"
<1>1. s \in Seq(Dirs) /\ Len(s) \in 1 .. Len(s)
  BY FrameFacts DEF Frames
<1>2. s[i] \in Open(n) /\ s[Len(s)] \in Open(n) /\ StartOf(s[i]) < StartOf(s[Len(s)])
  BY <1>1, Zenon DEF Frames
<1>3. /\ s[i] \in Dirs /\ s[Len(s)] \in Dirs
      /\ StartOf(s[i]) <= n /\ StartOf(s[Len(s)]) <= n
  BY <1>2 DEF Open
<1>4. /\ StartOf(s[i]) \in 1 .. Len(Walk) /\ StartOf(s[Len(s)]) \in 1 .. Len(Walk)
      /\ Walk[StartOf(s[Len(s)])] = [kind |-> "D", dir |-> s[Len(s)]]
  BY <1>3, Ends
<1>5. Walk[StartOf(s[Len(s)])].kind # "F"
  BY <1>4
<1>6. StartOf(s[Len(s)]) \in StartOf(s[i]) + 1 .. n
  BY <1>2, <1>3, <1>4
<1>7. NameOf(Frame(s, i)) = s[i]
  BY <1>1, FrameFacts
<1> QED BY <1>3, <1>4, <1>5, <1>6, <1>7
-----------------------------------------------------------------------------
(* What an entry does to the state of the walk *)

\* A tree with the nodes of t and, but for sizes, their states.
Resized(u, t) ==
  /\ DOMAIN u = DOMAIN t
  /\ \A q \in DOMAIN u : /\ u[q] \in State /\ u[q].null = t[q].null
                         /\ u[q].done = t[q].done

LEMMA FileKeeps ==
  ASSUME NEW s, NEW t, NEW u, NEW n \in Nat, s # <<>>, WalkState(s, t, n),
         Walk[n + 1].kind = "F", Resized(u, t)
  PROVE  WalkState(s, u, n + 1)
<1>1. Tree(u)
  BY TreeStays DEF WalkState, Resized
<1>2. Sound(u)
  BY SoundGrows DEF WalkState, Resized, Sound
<1>3. Frames(s, t, n) /\ n < Len(Walk) /\ s \in Seq(Dirs) /\ s \in DOMAIN t
      /\ StartOf(NameOf(s)) \in 1 .. n
  BY MoreToRead DEF WalkState
<1>4. Open(n + 1) = Open(n)
  BY <1>3, OpenFile
<1>5. ASSUME NEW i \in 1 .. Len(s)
      PROVE  FirstThere(u, Frame(s, i), n + 1)
  <2>1. s[i] \in Open(n) /\ FirstThere(t, Frame(s, i), n)
    BY <1>3 DEF Frames
  <2>2. NameOf(Frame(s, i)) = s[i]
    BY <1>3, FrameFacts
  <2>3. s[i] \in Dirs /\ StartOf(s[i]) <= n
    BY <2>1 DEF Open
  <2>4. StartOf(s[i]) \in Nat
    BY <2>3, EndsType
  <2>5. Walk[n + 1].kind # "D" /\ DOMAIN t \subseteq DOMAIN u /\ n + 1 \in Nat
    BY DEF Resized
  <2>6. StartOf(NameOf(Frame(s, i))) \in Nat /\ StartOf(NameOf(Frame(s, i))) <= n
    BY <2>2, <2>3, <2>4
  <2> QED BY <2>1, <2>5, <2>6, FirstNext
<1>6. Frames(s, u, n + 1)
  BY <1>3, <1>4, <1>5 DEF Frames, Resized
<1>7. Resumed(s, u, n + 1)
  <2> SUFFICES ASSUME u[s].done
               PROVE  \A m \in StartOf(NameOf(s)) + 1 .. n + 1 : Walk[m].kind = "F"
    BY DEF Resumed
  <2>1. t[s].done
    BY <1>3 DEF Resized
  <2>2. \A m \in StartOf(NameOf(s)) + 1 .. n : Walk[m].kind = "F"
    BY <2>1 DEF WalkState, Resumed
  <2> QED BY <2>2, <1>3
<1> QED BY <1>1, <1>2, <1>6, <1>7 DEF WalkState

\* The subdirectory x gets a node, if it has none; u is the tree then.
WithNode(u, t, c, state) ==
  /\ DOMAIN u = DOMAIN t \cup {c}
  /\ \A q \in DOMAIN t : u[q] = t[q]
  /\ c \notin DOMAIN t => u[c] = state

\* A directory that was finished before: what is below it is skipped.
LEMMA SkipKeeps ==
  ASSUME NEW s, NEW t, NEW u, NEW n \in Nat, s # <<>>, WalkState(s, t, n),
         Walk[n + 1].kind = "D", t[s].done,
         NEW state, WithNode(u, t, Append(s, Walk[n + 1].dir), state)
  PROVE  WalkState(s, u, EndOf(Walk[n + 1].dir) - 1)
<1> DEFINE x == Walk[n + 1].dir
<1>3. Frames(s, t, n) /\ n < Len(Walk) /\ s \in Seq(Dirs) /\ s \in DOMAIN t
      /\ StartOf(NameOf(s)) \in 1 .. n /\ FirstThere(t, s, Len(Walk)) /\ Tree(t) /\ Sound(t)
  BY MoreToRead DEF WalkState, Sound
<1>4. /\ x \in Dirs /\ EndOf(x) - 1 \in n + 1 .. Len(Walk) - 1
      /\ Open(EndOf(x) - 1) = Open(n) \cup {x}
  BY <1>3, OpenStart
<1>5. \A m \in StartOf(NameOf(s)) + 1 .. n : Walk[m].kind = "F"
  BY DEF WalkState, Resumed
<1>6. Append(s, x) \in DOMAIN t
  <2>1. n + 1 \in 1 .. Len(Walk) /\ StartOf(NameOf(s)) < n + 1
    BY <1>3, WalkType
  <2>2. \A m \in StartOf(NameOf(s)) + 1 .. (n + 1) - 1 : Walk[m].kind = "F"
    BY <1>5
  <2> QED BY <1>3, <2>1, <2>2 DEF FirstThere
<1> HIDE DEF x
<1>7. DOMAIN u = DOMAIN t /\ \A q \in DOMAIN u : u[q] = t[q]
  BY <1>6 DEF WithNode, x
<1>8. Tree(u) /\ Sound(u)
  <2>1. \A q \in DOMAIN u : u[q] \in State
    BY <1>3, <1>7 DEF Tree
  <2>2. Tree(u)
    BY <1>3, <1>7, <2>1, TreeStays
  <2>3. Sound(u)
    BY <1>3, <1>7, SoundGrows DEF Sound
  <2> QED BY <2>2, <2>3
<1>9. ASSUME NEW i \in 1 .. Len(s)
      PROVE  FirstThere(u, Frame(s, i), EndOf(x) - 1)
  <2>1. s[i] \in Open(n) /\ FirstThere(t, Frame(s, i), n)
    BY <1>3 DEF Frames
  <2>2. NameOf(Frame(s, i)) = s[i] /\ Len(s) \in Nat /\ Frame(s, Len(s)) = s
    BY <1>3, FrameFacts
  <2>3. s[i] \in Dirs /\ StartOf(s[i]) <= n
    BY <2>1 DEF Open
  <2>4. StartOf(s[i]) \in Nat
    BY <2>3, EndsType
  <2>5. \/ \E m \in StartOf(s[i]) + 1 .. n : Walk[m].kind # "F"
        \/ Append(Frame(s, i), Walk[n + 1].dir) \in DOMAIN u
    <3>1. CASE i < Len(s)
      BY <1>3, <3>1, OuterEntered
    <3>2. CASE i = Len(s)
      BY <1>6, <1>7, <2>2, <3>2 DEF x
    <3> QED BY <2>2, <3>1, <3>2
  <2>6. EndOf(x) - 1 \in Nat
    BY <1>4
  <2>7. DOMAIN t \subseteq DOMAIN u /\ Walk[n + 1].kind # "F"
    BY <1>7
  <2> QED BY <2>1, <2>2, <2>3, <2>4, <2>5, <2>6, <2>7, FirstNext
<1>10. Frames(s, u, EndOf(x) - 1)
  BY <1>3, <1>4, <1>7, <1>9 DEF Frames
<1>11. Resumed(s, u, EndOf(x) - 1)
  <2>1. EndOf(x) - 1 + 1 = EndOf(x)
    BY <1>4, EndsType
  <2>2. Walk[EndOf(x)] = [kind |-> "DP", dir |-> x]
    BY <1>4, Ends
  <2> QED BY <2>1, <2>2 DEF Resumed
<1> QED BY <1>8, <1>10, <1>11 DEF WalkState, x

\* A directory that was not finished: the walk goes on in it.
LEMMA EnterKeeps ==
  ASSUME NEW s, NEW t, NEW u, NEW n \in Nat, s # <<>>, WalkState(s, t, n),
         Walk[n + 1].kind = "D", ~t[s].done,
         WithNode(u, t, Append(s, Walk[n + 1].dir), Fresh)
  PROVE  WalkState(Append(s, Walk[n + 1].dir), u, n + 1)
<1> DEFINE x == Walk[n + 1].dir
           c == Append(s, x)
<1>3. Frames(s, t, n) /\ n < Len(Walk) /\ s \in Seq(Dirs) /\ s \in DOMAIN t
      /\ Tree(t) /\ Sound(t)
  BY MoreToRead DEF WalkState
<1>4. x \in Dirs /\ StartOf(x) = n + 1 /\ Open(n + 1) = Open(n) \cup {x}
  BY <1>3, OpenStart
<1>5. /\ c \in Seq(Dirs) \ {<<>>} /\ Len(c) = Len(s) + 1 /\ NameOf(c) = x
      /\ Above(c) = s /\ c[Len(s) + 1] = x
      /\ \A i \in 1 .. Len(s) : c[i] = s[i] /\ Frame(c, i) = Frame(s, i)
  BY <1>3, <1>4, ChildFacts
<1>6. /\ DOMAIN u = DOMAIN t \cup {c} /\ \A q \in DOMAIN t : u[q] = t[q]
      /\ c \notin DOMAIN t => u[c] = Fresh
  BY DEF WithNode
<1>0. Len(s) \in Nat /\ Frame(c, Len(c)) = c
  BY <1>3, <1>5, FrameFacts
<1> HIDE DEF c, x
<1>7. Tree(u)
  <2>1. \A q \in DOMAIN u : u[q] \in State
    <3>1. Fresh \in State
      BY DEF Fresh, State
    <3>2. \A q \in DOMAIN t : t[q] \in State
      BY <1>3 DEF Tree
    <3> QED BY <1>6, <3>1, <3>2
  <2> QED BY <1>3, <1>5, <1>6, <2>1, TreeGrows
<1>8. Sound(u)
  <2>1. \A q \in DOMAIN u \ {<<>>} : ~u[q].null /\ (u[q].done => q \in DOMAIN t /\ t[q].done)
    <3>1. ~Fresh.null /\ ~Fresh.done
      BY DEF Fresh
    <3> QED BY <1>3, <1>6, <3>1 DEF Sound
  <2> QED BY <1>3, <1>6, <2>1, SoundGrows
<1>9. ASSUME NEW i \in 1 .. Len(s)
      PROVE  FirstThere(u, Frame(s, i), n + 1)
  <2>1. s[i] \in Open(n) /\ FirstThere(t, Frame(s, i), n)
    BY <1>3 DEF Frames
  <2>2. NameOf(Frame(s, i)) = s[i] /\ Frame(s, Len(s)) = s
    BY <1>3, FrameFacts
  <2>3. s[i] \in Dirs /\ StartOf(s[i]) <= n
    BY <2>1 DEF Open
  <2>4. StartOf(s[i]) \in Nat
    BY <2>3, EndsType
  <2>5. \/ \E m \in StartOf(s[i]) + 1 .. n : Walk[m].kind # "F"
        \/ Append(Frame(s, i), Walk[n + 1].dir) \in DOMAIN u
    <3>1. CASE i < Len(s)
      BY <1>3, <3>1, OuterEntered
    <3>2. CASE i = Len(s)
      BY <1>6, <2>2, <3>2 DEF c, x
    <3> QED BY <1>0, <3>1, <3>2
  <2>7. DOMAIN t \subseteq DOMAIN u /\ n + 1 \in Nat
    BY <1>6
  <2> QED BY <2>1, <2>2, <2>3, <2>4, <2>5, <2>7, FirstNext
<1>10. FirstThere(u, c, n + 1)
  BY <1>4, <1>5 DEF FirstThere
<1>11. Frames(c, u, n + 1)
  <2>1. ASSUME NEW i \in 1 .. Len(c)
        PROVE  /\ Frame(c, i) \in DOMAIN u /\ c[i] \in Open(n + 1)
               /\ FirstThere(u, Frame(c, i), n + 1)
               /\ i < Len(c) => ~u[Frame(c, i)].done
    <3>1. CASE i \in 1 .. Len(s)
      <4>1. /\ Frame(s, i) \in DOMAIN t /\ s[i] \in Open(n)
            /\ i < Len(s) => ~t[Frame(s, i)].done
        BY <1>3, <3>1 DEF Frames
      <4>2. i = Len(s) => Frame(s, i) = s
        BY <1>3, FrameFacts
      <4>3. ~t[Frame(s, i)].done
        BY <1>0, <3>1, <4>1, <4>2
      <4> QED BY <1>4, <1>5, <1>6, <1>9, <3>1, <4>1, <4>3
    <3>2. CASE i = Len(c)
      BY <1>0, <1>4, <1>5, <1>6, <1>10, <3>2
    <3> QED BY <1>0, <1>5, <3>1, <3>2
  <2>2. ASSUME NEW i \in 1 .. Len(c), NEW j \in 1 .. Len(c), i < j
        PROVE  StartOf(c[i]) < StartOf(c[j])
    <3>1. i \in 1 .. Len(s) /\ c[i] = s[i]
      BY <1>0, <1>5, <2>2
    <3>2. CASE j \in 1 .. Len(s)
      BY <1>3, <1>5, <2>2, <3>1, <3>2 DEF Frames
    <3>3. CASE j = Len(c)
      <4>1. s[i] \in Open(n)
        BY <1>3, <3>1 DEF Frames
      <4>2. StartOf(s[i]) <= n /\ StartOf(s[i]) \in Nat
        BY <4>1, EndsType DEF Open
      <4>3. StartOf(c[j]) = n + 1
        BY <1>4, <1>5, <3>3
      <4> QED BY <3>1, <4>2, <4>3
    <3> QED BY <1>0, <1>5, <3>2, <3>3
  <2> QED BY <1>5, <2>1, <2>2, Zenon DEF Frames
<1>12. Resumed(c, u, n + 1)
  BY <1>4, <1>5 DEF Resumed
<1> QED BY <1>7, <1>8, <1>11, <1>12 DEF WalkState, c, x

\* A frame ends, for the end of a directory or for a stop.
LEMMA ReturnKeeps ==
  ASSUME NEW s, NEW t, NEW u, NEW n \in Nat, s # <<>>, WalkState(s, t, n),
         Walk[n + 1].kind # "F", DOMAIN u = DOMAIN t,
         \A q \in DOMAIN u : /\ u[q] \in State /\ u[q].null = t[q].null
                             /\ \/ u[q].done = t[q].done
                                \/ q = s /\ Walk[n + 1].kind = "DP"
  PROVE  WalkState(Above(s), u, n + 1)
<1>3. Frames(s, t, n) /\ n < Len(Walk) /\ s \in Seq(Dirs) /\ s \in DOMAIN t
      /\ Tree(t) /\ Sound(t) /\ FirstThere(t, s, n)
      /\ StartOf(NameOf(s)) \in 1 .. n /\ NameOf(s) = s[Len(s)]
  BY MoreToRead, FrameFacts DEF WalkState
<1>4. Len(s) \in Nat /\ Len(s) \in 1 .. Len(s)
  BY <1>3
<1>5. /\ Above(s) \in Seq(Dirs) /\ Len(Above(s)) = Len(s) - 1
      /\ \A i \in 1 .. Len(s) - 1 : Above(s)[i] = s[i] /\ Frame(Above(s), i) = Frame(s, i)
      /\ Above(s) # <<>> => Above(s) = Frame(s, Len(s) - 1)
  BY <1>3, AboveFacts
<1>6. Tree(u)
  BY <1>3, TreeStays
<1>7. Sound(u)
  <2>1. Walk[n + 1].kind = "DP" => FirstThere(u, s, Len(Walk))
    BY <1>3, FirstNext, WalkType
  <2>2. \A q \in DOMAIN u \ {<<>>} :
          ~u[q].null /\ (u[q].done => t[q].done \/ FirstThere(u, q, Len(Walk)))
    BY <1>3, <2>1 DEF Sound
  <2> QED BY <1>3, <2>2, SoundGrows
<1>8. ASSUME NEW i \in 1 .. Len(s), i < Len(s)
      PROVE  /\ FirstThere(u, Frame(s, i), n + 1) /\ s[i] \in Open(n + 1)
             /\ Frame(s, i) \in DOMAIN u /\ ~u[Frame(s, i)].done
  <2>1. /\ s[i] \in Open(n) /\ FirstThere(t, Frame(s, i), n) /\ Frame(s, i) \in DOMAIN t
        /\ ~t[Frame(s, i)].done
        /\ s[Len(s)] \in Open(n) /\ StartOf(s[i]) < StartOf(s[Len(s)])
    BY <1>3, <1>4, <1>8, Zenon DEF Frames
  <2>2. /\ StartOf(s[i]) \in 1 .. n /\ NameOf(Frame(s, i)) = s[i]
        /\ \E m \in StartOf(s[i]) + 1 .. n : Walk[m].kind # "F"
    BY <1>3, <1>8, OuterEntered
  <2>3. FirstThere(u, Frame(s, i), n + 1)
    <3>1. StartOf(s[i]) \in Nat /\ StartOf(s[i]) <= n /\ n + 1 \in Nat
      BY <2>2
    <3> QED BY <2>1, <2>2, <3>1, FirstNext
  <2>4. s[i] \in Open(n + 1)
    <3>1. CASE Walk[n + 1].kind = "D"
      BY <1>3, <2>1, <3>1, OpenStart
    <3>2. CASE Walk[n + 1].kind = "DP"
      <4>1. PICK x \in Open(n) : /\ Open(n + 1) = Open(n) \ {x}
                                 /\ StartOf(s[Len(s)]) <= StartOf(x)
        BY <1>3, <2>1, <3>2, OpenEnd
      <4>2. StartOf(s[i]) \in Nat /\ StartOf(s[Len(s)]) \in Nat /\ StartOf(x) \in Nat
        BY <2>1, <4>1, EndsType DEF Open
      <4>3. s[i] # x
        BY <2>1, <4>1, <4>2
      <4> QED BY <2>1, <4>1, <4>3
    <3>3. n + 1 \in 1 .. Len(Walk)
      BY <1>3, WalkType
    <3> QED BY <3>1, <3>2, <3>3, WalkType
  <2>5. ~u[Frame(s, i)].done
    <3>1. Frame(s, i) # s
      BY <1>3, <1>8, FrameFacts
    <3> QED BY <2>1, <3>1
  <2> QED BY <2>1, <2>3, <2>4, <2>5
<1>9. Frames(Above(s), u, n + 1)
  <2>1. \A i \in 1 .. Len(Above(s)) : i \in 1 .. Len(s) /\ i < Len(s)
    BY <1>4, <1>5
  <2>2. \A i \in 1 .. Len(Above(s)) : /\ Frame(Above(s), i) \in DOMAIN u
                                      /\ Above(s)[i] \in Open(n + 1)
                                      /\ FirstThere(u, Frame(Above(s), i), n + 1)
                                      /\ ~u[Frame(Above(s), i)].done
    BY <1>5, <1>8, <2>1
  <2>3. \A i, j \in 1 .. Len(Above(s)) : i < j => StartOf(Above(s)[i]) < StartOf(Above(s)[j])
    BY <1>3, <1>5, <2>1 DEF Frames
  <2> QED BY <1>5, <2>2, <2>3, Zenon DEF Frames
<1>10. Resumed(Above(s), u, n + 1)
  <2> SUFFICES ASSUME Above(s) # <<>> PROVE ~u[Above(s)].done
    BY DEF Resumed
  <2>1. Len(s) - 1 \in 1 .. Len(s) /\ Len(s) - 1 < Len(s)
    BY <1>4, <1>5
  <2> QED BY <1>5, <1>8, <2>1
<1> QED BY <1>6, <1>7, <1>9, <1>10 DEF WalkState
-----------------------------------------------------------------------------
(* Types and null pointers *)

Scalars ==
  /\ status \in {"in progress", "complete", "removed"}
  /\ results \subseteq [of : 1 .. life, says : {"complete", "failed"}]
  /\ told \in Nat /\ cnt \in Nat
  /\ stops \in 0 .. MaxStops /\ faults \in 0 .. MaxFaults
  /\ life \in 1 .. MaxLives
  /\ proc \in Steps /\ pos \in 0 .. Len(Walk)

OldProc ==
  /\ old = [proc |-> old.proc, info |-> old.info, cnt |-> old.cnt, of |-> old.of]
  /\ old.proc \in {"telling", "writing", "ended"} /\ old.cnt \in Nat
  /\ old.proc # "ended" => old.of \in 1 .. life
  /\ Tree(old.info) /\ Sound(old.info)

FileIs == /\ file.kind \in {"empty", "progress", "report"}
          /\ Tree(file.info) /\ Sound(file.info)

Walks == /\ WalkState(stack, info, pos)
         /\ proc = "walking" <=> stack # <<>>

\* TypeOK and FollowsNoNull need what the walk has seen of directories that
\* were finished before, here and in the files.
TInv == Scalars /\ OldProc /\ FileIs /\ Walks

LEMMA NoTreeState ==
  /\ Tree(NoTree) /\ Sound(NoTree)
  /\ \A n : WalkState(<<>>, NoTree, n)
<1>1. DOMAIN NoTree = {<<>>} /\ NoTree[<<>>] \in State
  BY DEF NoTree, Null, State
<1>2. Tree(NoTree) /\ Sound(NoTree)
  BY <1>1 DEF Tree, Sound
<1>3. \A n : Frames(<<>>, NoTree, n) /\ Resumed(<<>>, NoTree, n)
  BY DEF Frames, Resumed
<1> QED BY <1>2, <1>3 DEF WalkState

LEMMA SizeUp ==
  ASSUME NEW t, Tree(t), NEW p \in DOMAIN t, NEW k \in Nat
  PROVE  LET u == [t EXCEPT ![p].size = @ + k] IN
         /\ Resized(u, t) /\ u[p].size = t[p].size + k
         /\ \A q \in DOMAIN t \ {p} : u[q] = t[q]
BY DEF Tree, Resized, State

LEMMA DoneSet ==
  ASSUME NEW t, Tree(t), NEW p \in DOMAIN t
  PROVE  LET u == [t EXCEPT ![p].done = TRUE] IN
         /\ DOMAIN u = DOMAIN t /\ u[p].done
         /\ u[p].size = t[p].size /\ u[p].null = t[p].null /\ u[p] \in State
         /\ \A q \in DOMAIN t \ {p} : u[q] = t[q]
BY DEF Tree, State

LEMMA WalksOn ==
  ASSUME TInv, proc = "walking"
  PROVE  /\ pos \in Nat /\ pos < Len(Walk) /\ pos + 1 \in 0 .. Len(Walk)
         /\ stack # <<>> /\ stack \in Seq(Dirs) /\ stack \in DOMAIN info
         /\ Tree(info) /\ WalkState(stack, info, pos)
<1>1. WalkState(stack, info, pos) /\ stack # <<>>
  BY Zenon DEF TInv, Walks
<1>2. pos \in Nat
  <2>1. pos \in 0 .. Len(Walk) /\ Len(Walk) \in Nat
    BY WalkType DEF TInv, Scalars
  <2> QED BY <2>1
<1>3. Frames(stack, info, pos) /\ Tree(info)
  BY <1>1 DEF WalkState
<1> QED BY <1>1, <1>2, <1>3, MoreToRead, WalkType

\* A frame returns, in the tree f.
LEMMA ReturnState ==
  ASSUME TInv, proc = "walking", NEW f, Return(f),
         Walk[pos + 1].kind # "F", DOMAIN f = DOMAIN info,
         \A q \in DOMAIN f : /\ f[q] \in State /\ f[q].null = info[q].null
                             /\ \/ f[q].done = info[q].done
                                \/ q = stack /\ Walk[pos + 1].kind = "DP"
  PROVE  /\ WalkState(stack', info', pos + 1)
         /\ proc' \in {"walking", "walked"}
         /\ proc' = "walking" <=> stack' # <<>>
<1>1. /\ pos \in Nat /\ stack # <<>> /\ stack \in Seq(Dirs) /\ stack \in DOMAIN info
      /\ WalkState(stack, info, pos) /\ Tree(info)
  BY WalksOn
<1>2. stack' = Above(stack)
  BY DEF Return, Parent
<1>3. Above(stack) \in DOMAIN f
  BY <1>1 DEF Tree
<1>4. Tree(f)
  BY <1>1, TreeStays
<1>5. f[stack].size \in Nat
  BY <1>1 DEF State
<1>6. \/ Len(stack) = 1 /\ proc' = "walked" /\ info' = f
      \/ Len(stack) # 1 /\ proc' = proc
           /\ info' = [f EXCEPT ![Above(stack)].size = @ + f[stack].size]
  BY DEF Return, Parent
<1>7. info' = f \/ Resized(info', f)
  <2>1. Resized([f EXCEPT ![Above(stack)].size = @ + f[stack].size], f)
    BY <1>3, <1>4, <1>5, SizeUp
  <2> QED BY <1>6, <2>1
<1>8. /\ DOMAIN info' = DOMAIN info
      /\ \A q \in DOMAIN info' : /\ info'[q] \in State /\ info'[q].null = info[q].null
                                 /\ \/ info'[q].done = info[q].done
                                    \/ q = stack /\ Walk[pos + 1].kind = "DP"
  BY <1>7 DEF Resized
<1>9. WalkState(stack', info', pos + 1)
  BY <1>1, <1>2, <1>8, ReturnKeeps
<1>10. stack' = <<>> <=> Len(stack) = 1
  <2>1. Above(stack) \in Seq(Dirs) /\ Len(Above(stack)) = Len(stack) - 1 /\ Len(stack) \in Nat
    BY <1>1, AboveFacts
  <2>2. Above(stack) = <<>> <=> Len(Above(stack)) = 0
    <3>1. \A a \in Seq(Dirs) : a = <<>> <=> Len(a) = 0
      OBVIOUS
    <3> QED BY <2>1, <3>1
  <2> QED BY <1>2, <2>1, <2>2
<1> QED BY <1>6, <1>9, <1>10

\* Most steps change few of the scalars.
LEMMA ScalarsKept ==
  ASSUME TInv, status' = status, results' = results, told' = told, life' = life,
         stops' = stops, faults' = faults,
         cnt' \in Nat, pos' \in 0 .. Len(Walk), proc' \in Steps
  PROVE  Scalars'
BY DEF TInv, Scalars

LEMMA ScalarsIn ==
  ASSUME TInv
  PROVE  /\ cnt \in Nat /\ told \in Nat /\ pos \in 0 .. Len(Walk) /\ proc \in Steps
         /\ 0 \in 0 .. Len(Walk) /\ 1 \in 0 .. Len(Walk) /\ 1 \in 1 .. MaxLives
         /\ 0 \in 0 .. MaxStops /\ 0 \in 0 .. MaxFaults
         /\ life \in 1 .. life
<1>1. MaxStops \in Nat /\ MaxFaults \in Nat /\ MaxLives \in Nat /\ MaxLives > 0
  BY AnalysisAssumption
<1>2. cnt \in Nat /\ told \in Nat /\ pos \in 0 .. Len(Walk) /\ proc \in Steps
      /\ life \in 1 .. MaxLives
  BY Zenon DEF TInv, Scalars
<1>3. /\ 1 \in 1 .. MaxLives /\ 0 \in 0 .. MaxStops /\ 0 \in 0 .. MaxFaults
      /\ life \in 1 .. life
  BY <1>1, <1>2
<1> QED BY <1>2, <1>3, WalkType

\* The tree of the process is as it was, or the process has ended.
LEMMA WalksKept ==
  ASSUME TInv,
         \/ UNCHANGED <<stack, info, pos>>
              /\ (proc' = proc \/ (proc # "walking" /\ proc' # "walking"))
         \/ stack' = <<>> /\ info' = NoTree /\ proc' # "walking"
  PROVE  Walks'
<1>1. CASE UNCHANGED <<stack, info, pos>>
              /\ (proc' = proc \/ (proc # "walking" /\ proc' # "walking"))
  BY <1>1 DEF TInv, Walks
<1>2. CASE stack' = <<>> /\ info' = NoTree /\ proc' # "walking"
  BY <1>2, NoTreeState DEF Walks
<1> QED BY <1>1, <1>2

LEMMA FileKept ==
  ASSUME TInv, file' = file
  PROVE  FileIs'
BY DEF TInv, FileIs

LEMMA NewFileIs ==
  ASSUME file' = NewFile
  PROVE  FileIs'
<1>1. file'.kind = "empty" /\ file'.info = NoTree
  BY DEF NewFile
<1> QED BY <1>1, NoTreeState DEF FileIs

LEMMA WrittenIs ==
  ASSUME NEW of, NEW tree, file' = Written(of, tree), Tree(tree), Sound(tree)
  PROVE  FileIs'
<1>1. file'.kind \in {"progress", "report"} /\ file'.info = tree
  BY DEF Written
<1> QED BY <1>1 DEF FileIs

LEMMA OldKept ==
  ASSUME TInv, old' = old, life' = life
  PROVE  OldProc'
BY DEF TInv, OldProc

LEMMA NoProcIs ==
  ASSUME old' = NoProc
  PROVE  OldProc'
<1>1. /\ old' = [proc |-> "ended", info |-> NoTree, cnt |-> 0, of |-> 0]
      /\ old'.proc = "ended" /\ old'.info = NoTree /\ old'.cnt = 0 /\ old'.of = 0
  BY DEF NoProc
<1> QED BY <1>1, NoTreeState DEF OldProc

LEMMA InitTInv == Init => TInv
<1> SUFFICES ASSUME Init PROVE TInv
  OBVIOUS
<1>1. Scalars
  <2>1. MaxStops \in Nat /\ MaxFaults \in Nat /\ MaxLives \in Nat /\ MaxLives > 0
    BY AnalysisAssumption
  <2>2. /\ 0 \in 0 .. Len(Walk) /\ 0 \in 0 .. MaxStops /\ 0 \in 0 .. MaxFaults
        /\ 1 \in 1 .. MaxLives /\ 0 \in Nat
    BY <2>1, WalkType
  <2>3. results \subseteq [of : 1 .. life, says : {"complete", "failed"}]
    BY DEF Init
  <2>4. proc \in Steps /\ status \in {"in progress", "complete", "removed"}
    BY DEF Init, Steps
  <2> QED BY <2>2, <2>3, <2>4, Zenon DEF Init, Scalars
<1>2. OldProc
  <2>1. old.proc = "ended" /\ old.info = NoTree /\ old.cnt = 0 /\ old.of = 0
    BY DEF Init, NoProc
  <2> QED BY <2>1, NoTreeState DEF Init, OldProc, NoProc
<1>3. FileIs
  <2>1. file.kind = "empty" /\ file.info = NoTree
    BY DEF Init, NewFile
  <2> QED BY <2>1, NoTreeState DEF FileIs
<1>4. Walks
  BY NoTreeState DEF Init, Walks
<1> QED BY <1>1, <1>2, <1>3, <1>4 DEF TInv

LEMMA Sent ==
  ASSUME TInv, NEW what \in {"complete", "failed"}
  PROVE  results \cup {Says(what)} \subseteq [of : 1 .. life, says : {"complete", "failed"}]
<1>1. life \in 1 .. life
  BY ScalarsIn
<1>2. results \subseteq [of : 1 .. life, says : {"complete", "failed"}]
  BY Zenon DEF TInv, Scalars
<1>3. Says(what) \in [of : 1 .. life, says : {"complete", "failed"}]
  BY <1>1 DEF Says
<1> QED BY <1>2, <1>3, Zenon

LEMMA FaultType ==
  ASSUME TInv, faults' = faults \/ Fault
  PROVE  faults' \in 0 .. MaxFaults
<1>1. MaxFaults \in Nat
  BY AnalysisAssumption
<1>2. faults \in 0 .. MaxFaults
  BY Zenon DEF TInv, Scalars
<1> QED BY <1>1, <1>2 DEF Fault

LEMMA CompletionSent ==
  ASSUME TInv, SendCompletion
  PROVE  /\ results' \subseteq [of : 1 .. life, says : {"complete", "failed"}]
         /\ faults' \in 0 .. MaxFaults
<1>1. results' = results \/ results' = results \cup {Says("complete")}
  BY DEF SendCompletion
<1>2. faults' = faults \/ Fault
  BY DEF SendCompletion
<1>3. results \subseteq [of : 1 .. life, says : {"complete", "failed"}]
  BY DEF TInv, Scalars
<1> QED BY <1>1, <1>2, <1>3, Sent, FaultType

LEMMA FindReportTInv ==
  ASSUME TInv, FindReport
  PROVE  TInv'
<1>1. Scalars'
  <2>1. results' \subseteq [of : 1 .. life, says : {"complete", "failed"}]
    BY CompletionSent DEF FindReport
  <2>2. faults' \in 0 .. MaxFaults
    BY CompletionSent DEF FindReport
  <2> QED BY <2>1, <2>2 DEF FindReport, TInv, Scalars, Steps, mem
<1> QED BY <1>1, WalksKept, FileKept, OldKept DEF FindReport, TInv, mem

LEMMA StartWalkTInv ==
  ASSUME TInv, StartWalk
  PROVE  TInv'
<1>1. Scalars'
  BY ScalarsIn, ScalarsKept DEF StartWalk, Steps, anal, ghost
<1>2. Walks'
  <2>1. Tree(file.info) /\ Sound(file.info)
    BY DEF TInv, FileIs
  <2> DEFINE u == Insert(file.info, <<Root>>, Fresh)
  <2>2. /\ DOMAIN u = DOMAIN file.info \cup {<<Root>>} /\ u[<<Root>>] = Fresh
        /\ \A q \in DOMAIN file.info \ {<<Root>>} : u[q] = file.info[q]
    BY DEF Insert
  <2>3. info' = u /\ stack' = <<Root>> /\ pos' = 1 /\ proc' = "walking"
    BY DEF StartWalk
  <2> HIDE DEF u
  <2>4. /\ <<Root>> \in Seq(Dirs) \ {<<>>} /\ Above(<<Root>>) = <<>> /\ NameOf(<<Root>>) = Root
        /\ Frame(<<Root>>, 1) = <<Root>> /\ Len(<<Root>>) = 1 /\ <<Root>>[1] = Root
    BY RootFrame
  <2>5. Fresh \in State /\ ~Fresh.null /\ ~Fresh.done
    BY DEF Fresh, State
  <2>6. Tree(u)
    <3>1. \A q \in DOMAIN u : u[q] \in State
      BY <2>1, <2>2, <2>5 DEF Tree
    <3>2. Above(<<Root>>) \in DOMAIN file.info
      BY <2>1, <2>4 DEF Tree
    <3> QED BY <2>1, <2>2, <2>4, <3>1, <3>2, TreeGrows
  <2>7. Sound(u)
    <3>1. \A q \in DOMAIN u \ {<<>>} :
            ~u[q].null /\ (u[q].done => q \in DOMAIN file.info /\ file.info[q].done)
      BY <2>1, <2>2, <2>5 DEF Sound
    <3> QED BY <2>1, <2>2, <3>1, SoundGrows
  <2>8. FirstThere(u, <<Root>>, 1)
    BY <2>4, RootEnds, WalkType DEF FirstThere
  <2>9. Frames(<<Root>>, u, 1)
    BY <2>2, <2>4, <2>8, OpenRoot DEF Frames
  <2>10. Resumed(<<Root>>, u, 1)
    BY <2>2, <2>5 DEF Resumed
  <2> QED BY <2>3, <2>6, <2>7, <2>9, <2>10 DEF Walks, WalkState
<1> QED BY <1>1, <1>2, FileKept, OldKept DEF StartWalk, TInv, anal

LEMMA ReadFileTInv ==
  ASSUME TInv, ReadFile
  PROVE  TInv'
<1>1. /\ proc = "walking" /\ Walk[pos + 1].kind = "F"
      /\ pos' = pos + 1 /\ cnt' = cnt + 1 /\ stack' = stack /\ proc' = proc
      /\ info' = [info EXCEPT ![stack].size = @ + 1]
      /\ UNCHANGED <<anal, file, flags, stops, old, ghost>>
  BY DEF ReadFile, Reads, Entry
<1>2. /\ pos \in Nat /\ pos + 1 \in 0 .. Len(Walk) /\ stack # <<>> /\ stack \in DOMAIN info
      /\ Tree(info) /\ WalkState(stack, info, pos)
  BY <1>1, WalksOn
<1>3. Scalars'
  <2>1. cnt' \in Nat
    BY <1>1, ScalarsIn
  <2> QED BY <1>1, <1>2, <2>1, ScalarsIn, ScalarsKept DEF anal, ghost
<1>4. Resized(info', info)
  BY <1>1, <1>2, SizeUp
<1>5. Walks'
  BY <1>1, <1>2, <1>4, FileKeeps DEF Walks
<1> QED BY <1>1, <1>3, <1>5, FileKept, OldKept DEF TInv, anal

LEMMA ReadDirTInv ==
  ASSUME TInv, ReadDir
  PROVE  TInv'
<1> DEFINE x == Walk[pos + 1].dir
           c == Append(stack, x)
           node == Made(info, c)
<1>1. /\ proc = "walking" /\ Walk[pos + 1].kind = "D" /\ cnt' = cnt + 1
      /\ UNCHANGED <<anal, file, flags, stops, old, ghost>>
      /\ \/ Return(info) /\ pos' = pos + 1
         \/ /\ info[stack].done /\ info' = node /\ pos' = EndOf(x) - 1
            /\ proc' = proc /\ stack' = stack
         \/ /\ ~info[stack].done /\ stack' = c /\ pos' = pos + 1 /\ proc' = proc
            /\ info' = IF node[c].null THEN Insert(node, c, Fresh) ELSE node
  BY DEF ReadDir, Reads, Entry
<1>2. /\ pos \in Nat /\ pos < Len(Walk) /\ pos + 1 \in 0 .. Len(Walk) /\ stack # <<>>
      /\ stack \in DOMAIN info /\ stack \in Seq(Dirs)
      /\ Tree(info) /\ WalkState(stack, info, pos)
  BY <1>1, WalksOn
<1>3. x \in Dirs /\ EndOf(x) - 1 \in pos + 1 .. Len(Walk) - 1
  BY <1>1, <1>2, OpenStart
<1>4. c # <<>>
  BY <1>2, <1>3, ChildFacts
<1>9. cnt' \in Nat /\ proc \in Steps
  BY <1>1, ScalarsIn
<1>5. /\ DOMAIN node = DOMAIN info \cup {c} /\ \A q \in DOMAIN info : node[q] = info[q]
      /\ c \notin DOMAIN info => node[c] = Null
  <2>1. DOMAIN node = DOMAIN info \cup {c}
    BY MadeFacts
  <2>2. \A q \in DOMAIN info : node[q] = info[q]
    BY MadeFacts, ZenonT(60)
  <2>3. c \notin DOMAIN info => node[c] = Null
    BY MadeFacts
  <2> QED BY <2>1, <2>2, <2>3
<1> HIDE DEF x, c, node
<1>6. CASE Return(info) /\ pos' = pos + 1
  <2>1. \A q \in DOMAIN info : info[q] \in State
    BY <1>2 DEF Tree
  <2>2. /\ WalkState(stack', info', pos + 1) /\ proc' \in {"walking", "walked"}
        /\ proc' = "walking" <=> stack' # <<>>
    BY <1>1, <1>6, <2>1, ReturnState
  <2>3. Walks' /\ proc' \in Steps /\ pos' \in 0 .. Len(Walk)
    BY <1>2, <1>6, <2>2 DEF Walks, Steps
  <2> QED BY <1>1, <1>9, <2>3, ScalarsKept, FileKept, OldKept DEF TInv, anal, ghost
<1>7. CASE /\ info[stack].done /\ info' = node /\ pos' = EndOf(x) - 1
           /\ proc' = proc /\ stack' = stack
  <2>1. WithNode(node, info, c, Null)
    BY <1>5 DEF WithNode
  <2>2. WalkState(stack, node, EndOf(x) - 1)
    BY <1>1, <1>2, <1>7, <2>1, SkipKeeps DEF c, x
  <2>3. Walks' /\ pos' \in 0 .. Len(Walk)
    BY <1>1, <1>2, <1>3, <1>7, <2>2 DEF Walks
  <2> QED BY <1>1, <1>7, <1>9, <2>3, ScalarsKept, FileKept, OldKept DEF TInv, anal, ghost
<1>8. CASE /\ ~info[stack].done /\ stack' = c /\ pos' = pos + 1 /\ proc' = proc
           /\ info' = IF node[c].null THEN Insert(node, c, Fresh) ELSE node
  <2>1. c \in DOMAIN info => ~info[c].null
    BY <1>2, <1>4 DEF WalkState, Sound
  <2>2. c \in DOMAIN info => info' = node
    BY <1>5, <1>8, <2>1
  <2>3. c \notin DOMAIN info => info' = Insert(node, c, Fresh)
    BY <1>5, <1>8 DEF Null
  <2>4. WithNode(info', info, c, Fresh)
    <3>1. CASE c \in DOMAIN info
      BY <1>5, <2>2, <3>1 DEF WithNode
    <3>2. CASE c \notin DOMAIN info
      <4>1. /\ DOMAIN Insert(node, c, Fresh) = DOMAIN node \cup {c}
            /\ Insert(node, c, Fresh)[c] = Fresh
            /\ \A q \in DOMAIN node \ {c} : Insert(node, c, Fresh)[q] = node[q]
        BY DEF Insert
      <4> QED BY <1>5, <2>3, <3>2, <4>1 DEF WithNode
    <3> QED BY <3>1, <3>2
  <2>5. WalkState(c, info', pos + 1)
    BY <1>1, <1>2, <1>8, <2>4, EnterKeeps DEF c, x
  <2>6. Walks' /\ pos' \in 0 .. Len(Walk)
    BY <1>1, <1>2, <1>4, <1>8, <2>5 DEF Walks
  <2> QED BY <1>1, <1>8, <1>9, <2>6, ScalarsKept, FileKept, OldKept DEF TInv, anal, ghost
<1> QED BY <1>1, <1>6, <1>7, <1>8

LEMMA ReadEndTInv ==
  ASSUME TInv, ReadEnd
  PROVE  TInv'
<1> DEFINE f == [info EXCEPT ![stack].done = TRUE]
<1>1. /\ proc = "walking" /\ Walk[pos + 1].kind = "DP" /\ pos' = pos + 1
      /\ Return(f) /\ UNCHANGED <<anal, file, cnt, flags, stops, old, ghost>>
  BY DEF ReadEnd, Reads, Entry
<1>2. /\ pos \in Nat /\ pos + 1 \in 0 .. Len(Walk) /\ stack \in DOMAIN info /\ Tree(info)
  BY <1>1, WalksOn
<1>3. /\ DOMAIN f = DOMAIN info /\ f[stack].null = info[stack].null /\ f[stack] \in State
      /\ \A q \in DOMAIN info \ {stack} : f[q] = info[q]
  BY <1>2, DoneSet
<1> HIDE DEF f
<1>4. \A q \in DOMAIN f : /\ f[q] \in State /\ f[q].null = info[q].null
                          /\ f[q].done = info[q].done \/ q = stack
  BY <1>2, <1>3 DEF Tree
<1>5. /\ WalkState(stack', info', pos + 1) /\ proc' \in {"walking", "walked"}
      /\ proc' = "walking" <=> stack' # <<>>
  BY <1>1, <1>3, <1>4, ReturnState
<1>6. Walks' /\ proc' \in Steps /\ pos' \in 0 .. Len(Walk)
  BY <1>1, <1>2, <1>5 DEF Walks, Steps
<1>7. cnt' \in Nat
  BY <1>1, ScalarsIn
<1> QED BY <1>1, <1>6, <1>7, ScalarsKept, FileKept, OldKept DEF TInv, anal, ghost

\* The process goes on to its end; the tree stays.
LEMMA QuietTInv ==
  ASSUME TInv, EndInterrupted \/ GoesOn \/ Suspend \/ Resume \/ Stop \/ UNCHANGED vars
  PROVE  TInv'
<1>0. TInv /\ cnt \in Nat /\ pos \in 0 .. Len(Walk) /\ proc \in Steps /\ 0 \in 0 .. Len(Walk)
  BY ScalarsIn
<1>1. CASE EndInterrupted
  <2>1. cnt' \in Nat /\ pos' \in 0 .. Len(Walk) /\ proc' \in Steps
    BY <1>0, <1>1 DEF EndInterrupted, Freed, Steps
  <2>2. Scalars'
    BY <1>1, <2>1, ScalarsKept DEF EndInterrupted, anal, ghost
  <2>3. Walks'
    BY <1>1, WalksKept DEF EndInterrupted, Freed
  <2> QED BY <1>1, <2>2, <2>3, FileKept, OldKept DEF EndInterrupted, anal, TInv
<1>2. CASE GoesOn
  <2>1. cnt' \in Nat /\ pos' \in 0 .. Len(Walk) /\ proc' \in Steps
    BY <1>0, <1>2 DEF GoesOn, mem, Steps
  <2>2. Scalars'
    BY <1>2, <2>1, ScalarsKept DEF GoesOn, anal, ghost
  <2>3. Walks'
    BY <1>2, WalksKept DEF GoesOn, mem
  <2> QED BY <1>2, <2>2, <2>3, FileKept, OldKept DEF GoesOn, anal, TInv
<1>3. CASE Suspend \/ Resume \/ UNCHANGED vars
  <2>1. UNCHANGED <<anal, file, proc, mem, stops, old, ghost>>
    BY <1>3 DEF Suspend, Resume, vars
  <2>2. Scalars'
    BY <1>0, <2>1, ScalarsKept DEF anal, mem, ghost
  <2> QED BY <2>1, <2>2, WalksKept, FileKept, OldKept DEF anal, mem, TInv
<1>4. CASE Stop
  <2>1. UNCHANGED <<anal, file, proc, mem, old, ghost>> /\ stops' \in 0 .. MaxStops
    <3>1. MaxStops \in Nat /\ stops \in 0 .. MaxStops
      BY AnalysisAssumption, Zenon DEF TInv, Scalars
    <3> QED BY <1>4, <3>1 DEF Stop
  <2>2. Scalars'
    BY <2>1 DEF anal, mem, ghost, TInv, Scalars
  <2> QED BY <2>1, <2>2, WalksKept, FileKept, OldKept DEF anal, mem, TInv
<1> QED BY <1>1, <1>2, <1>3, <1>4

LEMMA Told ==
  ASSUME TInv, NEW n \in Nat, told' = told \/ Tell(n)
  PROVE  told' \in Nat
BY ScalarsIn DEF Tell

\* What a step leaves of the state that TInv is about.
LEMMA ScalarsIf ==
  ASSUME TInv, life' = life, stops' = stops, pos' = pos,
         status' \in {"in progress", "complete", "removed"},
         results' \subseteq [of : 1 .. life, says : {"complete", "failed"}],
         told' \in Nat, cnt' \in Nat, faults' \in 0 .. MaxFaults, proc' \in Steps
  PROVE  Scalars'
BY DEF TInv, Scalars

LEMMA SendTInv ==
  ASSUME TInv, SendResult \/ SendPartial \/ WalkFails
  PROVE  TInv'
<1>0. /\ cnt \in Nat /\ 0 \in Nat /\ proc \in Steps
      /\ status \in {"in progress", "complete", "removed"}
      /\ results \subseteq [of : 1 .. life, says : {"complete", "failed"}]
  BY ScalarsIn, Zenon DEF TInv, Scalars
<1>1. /\ life' = life /\ stops' = stops /\ pos' = pos /\ status' = status
      /\ file' = file /\ old' = old
  BY DEF SendResult, SendPartial, WalkFails, flags
<1>2. told' = told \/ Tell(cnt)
  BY DEF SendResult, SendPartial, WalkFails, SendCounts
<1>3. cnt' = 0
  BY DEF SendResult, SendPartial, WalkFails, SendCounts, Freed
<1>4. faults' = faults \/ Fault
  BY DEF SendResult, SendPartial, WalkFails, SendCounts, SendCompletion
<1>5. \/ results' = results
      \/ results' = results \cup {Says("complete")}
      \/ results' = results \cup {Says("failed")}
  BY DEF SendResult, SendPartial, WalkFails, SendCompletion
<1>6. proc' \in Steps
  BY <1>0 DEF SendResult, SendPartial, WalkFails, Steps
<1>7. results' \subseteq [of : 1 .. life, says : {"complete", "failed"}]
  BY <1>0, <1>5, Sent
<1>8. told' \in Nat /\ faults' \in 0 .. MaxFaults
  BY <1>0, <1>2, <1>4, Told, FaultType
<1>9. Scalars'
  BY <1>0, <1>1, <1>3, <1>6, <1>7, <1>8, ScalarsIf
<1>10. Walks'
  <2>1. \/ UNCHANGED <<stack, info, pos>>
             /\ (proc' = proc \/ (proc # "walking" /\ proc' # "walking"))
        \/ stack' = <<>> /\ info' = NoTree /\ proc' # "walking"
    BY DEF SendResult, SendPartial, WalkFails, Freed
  <2> QED BY <2>1, WalksKept
<1> QED BY <1>1, <1>9, <1>10, FileKept, OldKept DEF TInv

LEMMA WriteFileTInv ==
  ASSUME TInv, WriteFile
  PROVE  TInv'
<1>1. /\ UNCHANGED <<anal, pos, cnt, stops, old, faults>>
      /\ proc' = "ended" /\ stack' = <<>> /\ info' = NoTree
      /\ file' = Written(life, info)
  BY DEF WriteFile
<1>2. Scalars'
  <2>1. proc' \in Steps /\ cnt' \in Nat /\ pos' \in 0 .. Len(Walk)
    BY <1>1, ScalarsIn DEF Steps
  <2> QED BY <1>1, <2>1, ScalarsKept DEF anal
<1>3. Walks'
  BY <1>1, WalksKept
<1>4. FileIs'
  BY <1>1, WrittenIs DEF TInv, Walks, WalkState
<1> QED BY <1>1, <1>2, <1>3, <1>4, OldKept DEF anal, TInv

LEMMA OldTInv ==
  ASSUME TInv, OldProcess
  PROVE  TInv'
<1>0. /\ cnt \in Nat /\ proc \in Steps /\ pos \in 0 .. Len(Walk)
      /\ faults \in 0 .. MaxFaults /\ status \in {"in progress", "complete", "removed"}
      /\ results \subseteq [of : 1 .. life, says : {"complete", "failed"}]
  BY Zenon DEF TInv, Scalars
<1>1. /\ old = [proc |-> old.proc, info |-> old.info, cnt |-> old.cnt, of |-> old.of]
      /\ old.cnt \in Nat /\ Tree(old.info) /\ Sound(old.info)
      /\ old.proc # "ended" => old.of \in 1 .. life
  BY Zenon DEF TInv, OldProc
<1>2. CASE OldTells
  <2>1. /\ UNCHANGED <<status, life, file, proc, mem, stops, ghost>>
        /\ Tell(old.cnt) /\ old.proc = "telling"
        /\ old' = [old EXCEPT !.proc = "writing"]
        /\ results' = results \/ results' = results \cup {[of |-> old.of, says |-> "complete"]}
    BY <1>2 DEF OldTells
  <2>2. results' \subseteq [of : 1 .. life, says : {"complete", "failed"}]
    <3>1. old.of \in 1 .. life
      BY <1>1, <2>1
    <3>2. [of |-> old.of, says |-> "complete"] \in [of : 1 .. life, says : {"complete", "failed"}]
      BY <3>1
    <3> QED BY <1>0, <2>1, <3>2
  <2>3. Scalars'
    <3>1. told' \in Nat
      BY <1>1, <2>1, Told
    <3> QED BY <1>0, <2>1, <2>2, <3>1, ScalarsIf DEF mem, ghost
  <2>4. OldProc'
    <3>1. old' = [proc |-> "writing", info |-> old.info, cnt |-> old.cnt, of |-> old.of]
      BY <1>1, <2>1
    <3>2. /\ old'.proc = "writing" /\ old'.info = old.info /\ old'.cnt = old.cnt
          /\ old'.of = old.of
      BY <3>1
    <3>3. old'.of \in 1 .. life
      BY <1>1, <2>1, <3>2
    <3> QED BY <1>1, <2>1, <3>1, <3>2, <3>3 DEF OldProc
  <2> QED BY <2>1, <2>3, <2>4, WalksKept, FileKept DEF mem, TInv
<1>3. CASE OldWrites
  <2>1. /\ UNCHANGED <<anal, proc, mem, stops, ghost>>
        /\ old' = NoProc /\ file' = Written(old.of, old.info)
    BY <1>3 DEF OldWrites
  <2>2. Scalars'
    BY <1>0, <2>1, ScalarsKept DEF anal, mem, ghost
  <2>3. FileIs'
    BY <1>1, <2>1, WrittenIs
  <2> QED BY <2>1, <2>2, <2>3, NoProcIs, WalksKept DEF mem, TInv
<1> QED BY <1>2, <1>3 DEF OldProcess

\* threads_remove, also for a failure, and a completion that is applied.
LEMMA ManagerTInv ==
  ASSUME TInv, Apply \/ Remove \/ Kill
  PROVE  TInv'
<1>0. /\ cnt \in Nat /\ proc \in Steps /\ pos \in 0 .. Len(Walk) /\ told \in Nat
      /\ faults \in 0 .. MaxFaults /\ status \in {"in progress", "complete", "removed"}
      /\ results \subseteq [of : 1 .. life, says : {"complete", "failed"}]
  BY Zenon DEF TInv, Scalars
<1>1. UNCHANGED <<life, proc, mem, stops, old, faults>>
  BY DEF Apply, Remove, Kill, ghost
<1>2. results' \subseteq results
  BY DEF Apply, Remove, Kill
<1>3. status' \in {"in progress", "complete", "removed"}
  BY <1>0 DEF Apply, Remove, Kill, Removed
<1>4. told' \in Nat
  <2>1. told' = told \/ told' = 0
    BY DEF Apply, Remove, Kill, Removed
  <2>2. told \in Nat
    BY ScalarsIn
  <2> QED BY <2>1, <2>2
<1>5. file' = file \/ file' = NewFile
  BY DEF Apply, Remove, Kill, Removed
<1>6. Scalars'
  <2>1. results' \subseteq [of : 1 .. life, says : {"complete", "failed"}]
    BY <1>0, <1>2
  <2>2. proc' \in Steps /\ cnt' \in Nat /\ faults' \in 0 .. MaxFaults /\ pos' = pos
    BY <1>0, <1>1 DEF mem
  <2> QED BY <1>1, <1>3, <1>4, <2>1, <2>2, ScalarsIf
<1> QED BY <1>1, <1>5, <1>6, FileKept, NewFileIs, OldKept, WalksKept DEF mem, TInv

LEMMA ReuseTInv ==
  ASSUME TInv, Reuse
  PROVE  TInv'
<1>0. /\ life \in 1 .. MaxLives /\ MaxLives \in Nat /\ life < MaxLives
      /\ cnt \in Nat /\ proc \in Steps /\ 0 \in 0 .. Len(Walk)
      /\ life + 1 \in 1 .. MaxLives /\ life \in 1 .. life + 1
      /\ 1 .. life \subseteq 1 .. life + 1
  <2>1. MaxLives \in Nat
    BY AnalysisAssumption
  <2>2. life \in 1 .. MaxLives /\ life < MaxLives
    BY Zenon DEF TInv, Scalars, Reuse
  <2>3. /\ life + 1 \in 1 .. MaxLives /\ life \in 1 .. life + 1
        /\ 1 .. life \subseteq 1 .. life + 1
    BY <2>1, <2>2
  <2> QED BY <2>1, <2>2, <2>3, ScalarsIn
<1>1. /\ life' = life + 1 /\ status' = "in progress" /\ proc' = "forked"
      /\ pos' = 0 /\ stack' = <<>> /\ info' = NoTree /\ cnt' = 0 /\ told' = 0
      /\ UNCHANGED <<results, file, stops, faults>>
  BY DEF Reuse, Freed
<1>2. Scalars'
  <2>1. life' \in 1 .. MaxLives
    BY <1>0, <1>1
  <2>2. results' \subseteq [of : 1 .. life', says : {"complete", "failed"}]
    <3>1. results \subseteq [of : 1 .. life, says : {"complete", "failed"}]
      BY Zenon DEF TInv, Scalars
    <3>2. 1 .. life \subseteq 1 .. life'
      BY <1>0, <1>1
    <3> QED BY <1>1, <3>1, <3>2
  <2>3. /\ stops' \in 0 .. MaxStops /\ faults' \in 0 .. MaxFaults
        /\ pos' \in 0 .. Len(Walk) /\ told' \in Nat /\ cnt' \in Nat
    BY <1>0, <1>1, Zenon DEF TInv, Scalars
  <2>4. status' \in {"in progress", "complete", "removed"} /\ proc' \in Steps
    BY <1>1 DEF Steps
  <2> QED BY <2>1, <2>2, <2>3, <2>4, Zenon DEF Scalars
<1>3. Walks'
  BY <1>1, WalksKept
<1>4. OldProc'
  <2>1. CASE proc \in {"telling", "writing"}
    <3>1. old' = [proc |-> proc, info |-> info, cnt |-> cnt, of |-> life]
      BY <2>1 DEF Reuse
    <3>2. old'.proc = proc /\ old'.info = info /\ old'.cnt = cnt /\ old'.of = life
      BY <3>1
    <3>3. Tree(info) /\ Sound(info) /\ life \in 1 .. life'
      BY <1>0, <1>1 DEF TInv, Walks, WalkState
    <3> QED BY <1>0, <2>1, <3>1, <3>2, <3>3 DEF OldProc
  <2>2. CASE proc \notin {"telling", "writing"}
    BY <2>2, NoProcIs DEF Reuse
  <2> QED BY <2>1, <2>2
<1> QED BY <1>1, <1>2, <1>3, <1>4, FileKept DEF TInv

LEMMA RestartTInv ==
  ASSUME TInv, Restart
  PROVE  TInv'
<1>1. /\ UNCHANGED <<status, told, life, file, stops, old, faults>> /\ results' = {}
      /\ proc' \in Steps /\ proc' # "walking"
      /\ pos' = 0 /\ stack' = <<>> /\ info' = NoTree /\ cnt' = 0
  BY DEF Restart, Freed, Steps
<1>2. Scalars'
  <2>1. /\ status \in {"in progress", "complete", "removed"} /\ told \in Nat
        /\ life \in 1 .. MaxLives /\ stops \in 0 .. MaxStops /\ faults \in 0 .. MaxFaults
        /\ 0 \in 0 .. Len(Walk)
    BY ScalarsIn, Zenon DEF TInv, Scalars
  <2>2. results' \subseteq [of : 1 .. life', says : {"complete", "failed"}]
    BY <1>1
  <2>3. 0 \in Nat
    OBVIOUS
  <2> QED BY <1>1, <2>1, <2>2, <2>3 DEF Scalars
<1> QED BY <1>1, <1>2, WalksKept, FileKept, OldKept DEF TInv

LEMMA NextTInv ==
  ASSUME TInv, [Next]_vars
  PROVE  TInv'
<1>1. CASE Process
  BY <1>1, FindReportTInv, StartWalkTInv, ReadFileTInv, ReadDirTInv, ReadEndTInv,
     QuietTInv, SendTInv, WriteFileTInv DEF Process
<1>2. CASE SendPartial \/ WalkFails
  BY <1>2, SendTInv
<1>3. CASE OldProcess
  BY <1>3, OldTInv
<1>4. CASE Apply \/ Remove \/ Kill
  BY <1>4, ManagerTInv
<1>5. CASE Suspend \/ Resume \/ Stop \/ UNCHANGED vars
  BY <1>5, QuietTInv
<1>6. CASE Reuse
  BY <1>6, ReuseTInv
<1>7. CASE Restart
  BY <1>7, RestartTInv
<1> QED BY <1>1, <1>2, <1>3, <1>4, <1>5, <1>6, <1>7 DEF Next

\* What is true or false stays so.
Bits == /\ suspended \in BOOLEAN /\ interrupted \in BOOLEAN /\ done \in BOOLEAN
        /\ killing \in BOOLEAN /\ unsent \in BOOLEAN /\ cut \in BOOLEAN /\ tardy \in BOOLEAN

LEMMA NextBits ==
  ASSUME Bits, [Next]_vars
  PROVE  Bits'
<1> USE DEF Bits, flags, ghost, anal
<1>1. CASE Process
  <2>1. CASE FindReport \/ SendResult \/ WriteFile
    BY <1>1, <2>1 DEF FindReport, SendResult, WriteFile, SendCompletion
  <2>2. CASE StartWalk \/ ReadFile \/ ReadDir \/ ReadEnd \/ EndInterrupted \/ GoesOn
    BY <1>1, <2>2 DEF StartWalk, ReadFile, ReadDir, ReadEnd, EndInterrupted, GoesOn
  <2> QED BY <1>1, <2>1, <2>2 DEF Process
<1>2. CASE SendPartial \/ WalkFails \/ OldProcess
  BY <1>2 DEF SendPartial, WalkFails, OldProcess, OldTells, OldWrites
<1>3. CASE Apply \/ Remove \/ Kill
  BY <1>3 DEF Apply, Remove, Kill, Removed
<1>4. CASE Suspend \/ Resume \/ Stop \/ Reuse \/ Restart
  BY <1>4 DEF Suspend, Resume, Stop, Reuse, Restart
<1>5. CASE UNCHANGED vars
  BY <1>5 DEF vars
<1> QED BY <1>1, <1>2, <1>3, <1>4, <1>5 DEF Next

LEMMA TInvHolds == Spec => [](TInv /\ Bits)
<1>1. Init => Bits
  BY DEF Init, Bits
<1> QED BY <1>1, InitTInv, NextTInv, NextBits, PTL DEF Spec

\* Every variable has its type, there is a frame exactly while the walk goes
\* on, and the directory of a frame has a state (forks_manager.c:259-349).
THEOREM TypeCorrect == Spec => []TypeOK
<1>1. ASSUME TInv, Bits
      PROVE  TypeOK
  <2>1. \A i \in DOMAIN stack : /\ SubSeq(stack, 1, i) \in DOMAIN info
                                /\ ~info[SubSeq(stack, 1, i)].null
    <3>1. Frames(stack, info, pos) /\ Sound(info)
      BY <1>1 DEF TInv, Walks, WalkState
    <3>2. stack \in Seq(Dirs)
      BY <3>1 DEF Frames
    <3>3. ASSUME NEW i \in DOMAIN stack
          PROVE  Frame(stack, i) \in DOMAIN info /\ Frame(stack, i) # <<>>
      BY <3>1, <3>2, FrameFacts DEF Frames
    <3> QED BY <3>1, <3>3 DEF Frame, Sound
  <2>2. Tree(file.info) /\ Tree(old.info) /\ Tree(info)
    BY <1>1 DEF TInv, FileIs, OldProc, Walks, WalkState
  <2>3. {told, cnt} \subseteq Nat
    BY <1>1, ScalarsIn
  <2>4. {suspended, interrupted, done, killing, unsent, cut, tardy} \subseteq BOOLEAN
    BY <1>1 DEF Bits
  <2>5. proc = "walking" => stack # <<>>
    BY <1>1 DEF TInv, Walks
  <2>6. /\ file.kind \in {"empty", "progress", "report"}
        /\ old.proc \in {"telling", "writing", "ended"}
    BY <1>1, Zenon DEF TInv, FileIs, OldProc
  <2> QED BY <1>1, <2>1, <2>2, <2>3, <2>4, <2>5, <2>6, Zenon
          DEF TypeOK, TInv, Scalars, Steps
<1> QED BY <1>1, TInvHolds, PTL

\* No null pointer is followed: fts_read is not called after the end of the
\* root, and a report is of nodes with a state (forks_manager.c:281-349).
THEOREM NoNullFollowed == Spec => []FollowsNoNull
<1>1. ASSUME TInv
      PROVE  FollowsNoNull
  <2>1. proc = "walking" => pos < Len(Walk)
    BY <1>1, WalksOn
  <2>2. Sound(file.info)
    BY <1>1 DEF TInv, FileIs
  <2> QED BY <2>1, <2>2 DEF FollowsNoNull, Sound
<1> QED BY <1>1, TInvHolds, PTL
-----------------------------------------------------------------------------
(* The report of a walk that no stop interrupts *)

Files(a, b) == {i \in a .. b : Walk[i].kind = "F"}

\* How far the entries go that have been added to the frame i.
Upto(s, i, n) == IF i = Len(s) THEN n ELSE StartOf(s[i + 1])

\* The nodes of t are those of the directories in D, one each, where it lies.
Nodes(t, D) ==
  /\ {NameOf(p) : p \in DOMAIN t \ {<<>>}} = D
  /\ \A p, q \in DOMAIN t \ {<<>>} : NameOf(p) = NameOf(q) => p = q
  /\ \A p \in DOMAIN t \ {<<>>} : IsPath(p, NameOf(p))

\* Every directory that was met has a node, those that are closed with their
\* size, those that are open with what has been added so far.
ExactState(s, t, n) ==
  /\ Nodes(t, {x \in Dirs : StartOf(x) <= n})
  /\ {s[i] : i \in 1 .. Len(s)} = Open(n)
  /\ \A p \in DOMAIN t \ {<<>>} :
       NameOf(p) \notin Open(n) => t[p].size = SizeOf(NameOf(p))
  /\ \A i \in 1 .. Len(s) :
       t[Frame(s, i)].size = Cardinality(Files(StartOf(s[i]), Upto(s, i, n)))
  /\ s # <<>> => ~t[s].done

Whole(t) == /\ Nodes(t, Dirs)
            /\ \A p \in DOMAIN t \ {<<>>} : t[p].size = SizeOf(NameOf(p))

\* ReportExact needs what the walk has collected, in the process, in the one
\* before and in the file.
EInv ==
  /\ done => stops > 0
  /\ file.kind = "empty" => file.info = NoTree
  /\ stops = 0 =>
       /\ file.kind # "progress" /\ proc # "saving"
       /\ proc = "walking" => ExactState(stack, info, pos)
       /\ proc \in {"walked", "telling", "writing"} => Whole(info)
       /\ old.proc \in {"telling", "writing"} => Whole(old.info)
       /\ file.kind = "report" => Whole(file.info)


LEMMA FilesFinite ==
  ASSUME NEW a \in Nat, NEW b \in Nat
  PROVE  IsFiniteSet(Files(a, b)) /\ Cardinality(Files(a, b)) \in Nat
<1>1. IsFiniteSet(a .. b) /\ Files(a, b) \in SUBSET (a .. b)
  BY FS_Interval DEF Files
<1> QED BY <1>1, FS_Subset, FS_CardinalityType

LEMMA FilesNext ==
  ASSUME NEW a \in Nat, NEW n \in Nat, a <= n + 1
  PROVE  /\ Walk[n + 1].kind # "F" => Files(a, n + 1) = Files(a, n)
         /\ Walk[n + 1].kind = "F" =>
              Cardinality(Files(a, n + 1)) = Cardinality(Files(a, n)) + 1
<1>1. ASSUME Walk[n + 1].kind # "F"
      PROVE  Files(a, n + 1) = Files(a, n)
  BY <1>1 DEF Files
<1>2. ASSUME Walk[n + 1].kind = "F"
      PROVE  Cardinality(Files(a, n + 1)) = Cardinality(Files(a, n)) + 1
  <2>1. Files(a, n + 1) = Files(a, n) \cup {n + 1} /\ n + 1 \notin Files(a, n)
    BY <1>2 DEF Files
  <2> QED BY <2>1, FilesFinite, FS_AddElement
<1> QED BY <1>1, <1>2

\* The files of two stretches that meet in an entry that is no file.
LEMMA FilesSum ==
  ASSUME NEW a \in Nat, NEW m \in Nat, NEW n \in Nat, a <= m, m <= n,
         Walk[m].kind # "F"
  PROVE  Cardinality(Files(a, n)) = Cardinality(Files(a, m)) + Cardinality(Files(m, n))
<1>1. Files(a, n) = Files(a, m) \cup Files(m, n) /\ Files(a, m) \cap Files(m, n) = {}
  BY DEF Files
<1>2. Cardinality({}) = 0
  BY FS_EmptySet
<1>3. /\ IsFiniteSet(Files(a, m)) /\ IsFiniteSet(Files(m, n))
      /\ Cardinality(Files(a, m)) \in Nat /\ Cardinality(Files(m, n)) \in Nat
  BY FilesFinite
<1>4. Cardinality(Files(a, m) \cup Files(m, n)) =
        Cardinality(Files(a, m)) + Cardinality(Files(m, n)) - Cardinality(Files(a, m) \cap Files(m, n))
  BY <1>3, FS_Union
<1> QED BY <1>1, <1>2, <1>3, <1>4

LEMMA FilesNone ==
  ASSUME NEW n \in Nat, Walk[n].kind # "F"
  PROVE  Cardinality(Files(n, n)) = 0
<1>1. Files(n, n) = {}
  BY DEF Files
<1> QED BY <1>1, FS_EmptySet

LEMMA SizeOfFiles ==
  ASSUME NEW x \in Dirs
  PROVE  SizeOf(x) = Cardinality(Files(StartOf(x), EndOf(x)))
BY DEF SizeOf, Between, Files

LEMMA NodesStay ==
  ASSUME NEW t, NEW u, NEW D, Nodes(t, D), DOMAIN u = DOMAIN t
  PROVE  Nodes(u, D)
BY DEF Nodes

\* No directory is met with a file or an end.
LEMMA NoneMet ==
  ASSUME NEW n \in Nat, n < Len(Walk), Walk[n + 1].kind # "D"
  PROVE  {x \in Dirs : StartOf(x) <= n + 1} = {x \in Dirs : StartOf(x) <= n}
<1> SUFFICES ASSUME NEW x \in Dirs
             PROVE  StartOf(x) <= n + 1 <=> StartOf(x) <= n
  OBVIOUS
<1>1. StartOf(x) \in Nat /\ Walk[StartOf(x)] = [kind |-> "D", dir |-> x]
  BY Ends, EndsType
<1>2. StartOf(x) # n + 1
  BY <1>1
<1> QED BY <1>1, <1>2

\* In a tree of which the nodes are one for each directory, a frame is the
\* node of its directory.
LEMMA FrameNode ==
  ASSUME NEW s, NEW t, NEW n \in Nat, Frames(s, t, n), NEW D, Nodes(t, D),
         NEW i \in 1 .. Len(s), NEW p \in DOMAIN t \ {<<>>}, NameOf(p) = s[i]
  PROVE  p = Frame(s, i)
<1>1. s \in Seq(Dirs) /\ Frame(s, i) \in DOMAIN t
  BY DEF Frames
<1>2. Frame(s, i) # <<>> /\ NameOf(Frame(s, i)) = s[i]
  BY <1>1, FrameFacts
<1> QED BY <1>1, <1>2, Zenon DEF Nodes

LEMMA ExactRoot ==
  ASSUME NEW u, DOMAIN u = {<<>>, <<Root>>}, u[<<Root>>] = Fresh
  PROVE  ExactState(<<Root>>, u, 1)
<1>1. /\ <<Root>> # <<>> /\ NameOf(<<Root>>) = Root /\ Frame(<<Root>>, 1) = <<Root>>
      /\ Len(<<Root>>) = 1 /\ <<Root>>[1] = Root /\ DOMAIN <<Root>> = {1}
  BY RootFrame
<1>2. \A x \in Dirs : /\ StartOf(x) \in 1 .. Len(Walk) /\ EndOf(x) \in 1 .. Len(Walk)
                      /\ StartOf(x) < EndOf(x)
                      /\ StartOf(x) = 1 => x = Root
  BY AllEnds
<1>3. StartOf(Root) = 1 /\ EndOf(Root) = Len(Walk) /\ Root \in Dirs /\ Len(Walk) \in Nat
  BY RootEnds, WalkType
<1>4. {x \in Dirs : StartOf(x) <= 1} = {Root}
  BY <1>2, <1>3
<1>5. IsPath(<<Root>>, Root)
  <2>1. {y \in Dirs : StartOf(y) <= StartOf(Root) /\ EndOf(Root) <= EndOf(y)} = {Root}
    BY <1>2, <1>3
  <2>2. {<<Root>>[i] : i \in DOMAIN <<Root>>} = {Root}
    BY <1>1
  <2>3. \A i, j \in DOMAIN <<Root>> : ~(i < j)
    BY <1>1
  <2> QED BY <2>1, <2>2, <2>3, Zenon DEF IsPath
<1>6. DOMAIN u \ {<<>>} = {<<Root>>}
  BY <1>1
<1>7. Nodes(u, {Root})
  BY <1>1, <1>5, <1>6 DEF Nodes
<1>8. Walk[1].kind # "F"
  <2>1. Walk[1] = [kind |-> "D", dir |-> Root]
    BY AnalysisAssumption
  <2> QED BY <2>1
<1>9. Cardinality(Files(1, 1)) = 0
  BY <1>8, FilesNone
<1>10. {<<Root>>[i] : i \in 1 .. Len(<<Root>>)} = {Root}
  BY <1>1
<1>11. \A i \in 1 .. Len(<<Root>>) : i = 1 /\ i = Len(<<Root>>)
  BY <1>1
<1>12. u[<<Root>>].size = 0 /\ ~u[<<Root>>].done
  BY DEF Fresh
<1>13. \A i \in 1 .. Len(<<Root>>) :
          u[Frame(<<Root>>, i)].size
            = Cardinality(Files(StartOf(<<Root>>[i]), Upto(<<Root>>, i, 1)))
  BY <1>1, <1>3, <1>9, <1>11, <1>12 DEF Upto
<1>14. \A p \in DOMAIN u \ {<<>>} : NameOf(p) \in Open(1)
  BY <1>1, <1>6, OpenRoot
<1> QED BY <1>4, <1>7, <1>10, <1>12, <1>13, <1>14, OpenRoot DEF ExactState

LEMMA ExactFile ==
  ASSUME NEW s, NEW t, NEW u, NEW n \in Nat, s # <<>>, Frames(s, t, n),
         ExactState(s, t, n), Walk[n + 1].kind = "F", DOMAIN u = DOMAIN t,
         u[s].size = t[s].size + 1, u[s].done = t[s].done,
         \A q \in DOMAIN t \ {s} : u[q] = t[q]
  PROVE  ExactState(s, u, n + 1)
<1>1. /\ n < Len(Walk) /\ s \in Seq(Dirs) /\ s \in DOMAIN t /\ NameOf(s) \in Open(n)
      /\ StartOf(NameOf(s)) \in 1 .. n
  BY MoreToRead
<1>2. /\ Len(s) \in Nat /\ Frame(s, Len(s)) = s /\ NameOf(s) = s[Len(s)]
      /\ Len(s) \in 1 .. Len(s)
  BY <1>1, FrameFacts
<1>3. Open(n + 1) = Open(n)
  BY <1>1, OpenFile
<1>4. Nodes(u, {x \in Dirs : StartOf(x) <= n + 1})
  BY <1>1, NoneMet, NodesStay DEF ExactState
<1>5. \A p \in DOMAIN u \ {<<>>} : NameOf(p) \notin Open(n + 1) => u[p].size = SizeOf(NameOf(p))
  BY <1>1, <1>3 DEF ExactState
<1>6. ASSUME NEW i \in 1 .. Len(s)
      PROVE  u[Frame(s, i)].size = Cardinality(Files(StartOf(s[i]), Upto(s, i, n + 1)))
  <2>1. t[Frame(s, i)].size = Cardinality(Files(StartOf(s[i]), Upto(s, i, n)))
    BY DEF ExactState
  <2>2. CASE i = Len(s)
    <3>1. Cardinality(Files(StartOf(s[i]), n + 1)) = Cardinality(Files(StartOf(s[i]), n)) + 1
      BY <1>1, <1>2, <2>2, FilesNext
    <3> QED BY <1>2, <2>1, <2>2, <3>1 DEF Upto
  <2>3. CASE i # Len(s)
    <3>1. Frame(s, i) \in DOMAIN t /\ Frame(s, i) # s
      BY <1>1, <1>2, <2>3, FrameFacts DEF Frames
    <3> QED BY <2>1, <2>3, <3>1 DEF Upto
  <2> QED BY <2>2, <2>3
<1> QED BY <1>1, <1>3, <1>4, <1>5, <1>6 DEF ExactState

\* The directories that a new one lies in are those that are open.
LEMMA PathOfNew ==
  ASSUME NEW n \in Nat, n < Len(Walk), NEW x \in Dirs, StartOf(x) = n + 1
  PROVE  {y \in Dirs : StartOf(y) <= StartOf(x) /\ EndOf(x) <= EndOf(y)} = Open(n) \cup {x}
<1>1. StartOf(x) < EndOf(x) /\ EndOf(x) \in Nat
  BY Ends, EndsType
<1>2. ASSUME NEW y \in Dirs, y # x
      PROVE  StartOf(y) <= StartOf(x) /\ EndOf(x) <= EndOf(y) <=> y \in Open(n)
  <2>1. /\ StartOf(y) \in Nat /\ EndOf(y) \in Nat /\ StartOf(y) < EndOf(y)
        /\ StartOf(x) # StartOf(y) /\ EndOf(x) # EndOf(y) /\ StartOf(x) # EndOf(y)
    BY <1>2, Ends, EndsType, Apart
  <2>2. StartOf(y) < StartOf(x) /\ StartOf(x) < EndOf(y) => EndOf(x) < EndOf(y)
    BY Nested
  <2> QED BY <1>1, <2>1, <2>2 DEF Open
<1>3. StartOf(x) <= StartOf(x) /\ EndOf(x) <= EndOf(x)
  BY <1>1
<1>4. Open(n) \subseteq Dirs
  BY DEF Open
<1> QED BY <1>2, <1>3, <1>4

LEMMA NodesGrow ==
  ASSUME NEW t, NEW u, NEW D, Nodes(t, D), NEW c, c # <<>>,
         DOMAIN u = DOMAIN t \cup {c}, NameOf(c) \notin D, IsPath(c, NameOf(c))
  PROVE  Nodes(u, D \cup {NameOf(c)})
<1>1. DOMAIN u \ {<<>>} = (DOMAIN t \ {<<>>}) \cup {c}
  OBVIOUS
<1>2. \A p \in DOMAIN t \ {<<>>} : NameOf(p) # NameOf(c)
  BY DEF Nodes
<1>3. {NameOf(p) : p \in DOMAIN u \ {<<>>}} = D \cup {NameOf(c)}
  BY <1>1 DEF Nodes
<1>4. \A p, q \in DOMAIN u \ {<<>>} : NameOf(p) = NameOf(q) => p = q
  BY <1>1, <1>2 DEF Nodes
<1>5. \A p \in DOMAIN u \ {<<>>} : IsPath(p, NameOf(p))
  BY <1>1 DEF Nodes
<1> QED BY <1>3, <1>4, <1>5 DEF Nodes

LEMMA ExactEnter ==
  ASSUME NEW s, NEW t, NEW u, NEW n \in Nat, s # <<>>, Frames(s, t, n),
         ExactState(s, t, n), Walk[n + 1].kind = "D",
         WithNode(u, t, Append(s, Walk[n + 1].dir), Fresh)
  PROVE  ExactState(Append(s, Walk[n + 1].dir), u, n + 1)
<1> DEFINE x == Walk[n + 1].dir
           c == Append(s, x)
<1>1. n < Len(Walk) /\ s \in Seq(Dirs) /\ s \in DOMAIN t
  BY MoreToRead
<1>2. x \in Dirs /\ StartOf(x) = n + 1 /\ Open(n + 1) = Open(n) \cup {x} /\ x \notin Open(n)
  BY <1>1, OpenStart
<1>3. /\ c \in Seq(Dirs) \ {<<>>} /\ Len(c) = Len(s) + 1 /\ NameOf(c) = x
      /\ c[Len(s) + 1] = x
      /\ \A i \in 1 .. Len(s) : c[i] = s[i] /\ Frame(c, i) = Frame(s, i)
  BY <1>1, <1>2, ChildFacts
<1>4. Walk[n + 1].kind # "F" /\ WithNode(u, t, c, Fresh)
  OBVIOUS
<1> HIDE DEF c, x
<1>5. /\ Len(s) \in Nat /\ Frame(c, Len(c)) = c /\ DOMAIN c = 1 .. Len(c)
      /\ \A i \in 1 .. Len(c) : i \in 1 .. Len(s) \/ i = Len(c)
      /\ \A i \in 1 .. Len(s) : i \in 1 .. Len(c) /\ i # Len(c)
      /\ Len(c) \in 1 .. Len(c) /\ Len(c) = Len(s) + 1
  BY <1>1, <1>3, FrameFacts
<1>6. {c[i] : i \in 1 .. Len(c)} = Open(n + 1)
  <2>1. {c[i] : i \in 1 .. Len(c)} = {s[i] : i \in 1 .. Len(s)} \cup {x}
    BY <1>3, <1>5
  <2> QED BY <1>2, <2>1 DEF ExactState
<1>7. c \notin DOMAIN t
  <2>1. Nodes(t, {y \in Dirs : StartOf(y) <= n})
    BY DEF ExactState
  <2>2. x \notin {y \in Dirs : StartOf(y) <= n}
    BY <1>2
  <2> QED BY <1>3, <2>1, <2>2 DEF Nodes
<1>8. /\ DOMAIN u = DOMAIN t \cup {c} /\ u[c] = Fresh
      /\ \A q \in DOMAIN t : u[q] = t[q]
  BY <1>4, <1>7 DEF WithNode
<1>9. Nodes(u, {y \in Dirs : StartOf(y) <= n + 1})
  <2>1. IsPath(c, x)
    <3>1. {c[i] : i \in DOMAIN c} = {y \in Dirs : StartOf(y) <= StartOf(x) /\ EndOf(x) <= EndOf(y)}
      BY <1>1, <1>2, <1>5, <1>6, PathOfNew
    <3>2. ASSUME NEW i \in DOMAIN c, NEW j \in DOMAIN c, i < j
          PROVE  StartOf(c[i]) < StartOf(c[j])
      <4>1. i \in 1 .. Len(s) /\ c[i] = s[i]
        BY <1>3, <1>5, <3>2
      <4>2. CASE j \in 1 .. Len(s)
        BY <1>3, <3>2, <4>1, <4>2 DEF Frames
      <4>3. CASE j = Len(c)
        <5>1. s[i] \in Open(n)
          BY <4>1 DEF Frames
        <5>2. StartOf(s[i]) <= n /\ StartOf(s[i]) \in Nat
          BY <5>1, EndsType DEF Open
        <5> QED BY <1>2, <1>3, <1>5, <4>1, <4>3, <5>2
      <4> QED BY <1>5, <4>2, <4>3
    <3> QED BY <3>1, <3>2, Zenon DEF IsPath
  <2>2. {y \in Dirs : StartOf(y) <= n + 1} = {y \in Dirs : StartOf(y) <= n} \cup {x}
    <3>1. \A y \in Dirs \ {x} : StartOf(y) # n + 1 /\ StartOf(y) \in Nat
      BY <1>2, Apart, EndsType
    <3> QED BY <1>2, <3>1
  <2>3. x \notin {y \in Dirs : StartOf(y) <= n}
    BY <1>2
  <2>4. Nodes(t, {y \in Dirs : StartOf(y) <= n})
    BY DEF ExactState
  <2> QED BY <1>3, <1>8, <2>1, <2>2, <2>3, <2>4, NodesGrow
<1>10. \A p \in DOMAIN u \ {<<>>} : NameOf(p) \notin Open(n + 1) => u[p].size = SizeOf(NameOf(p))
  BY <1>2, <1>3, <1>8 DEF ExactState
<1>11. ASSUME NEW i \in 1 .. Len(c)
       PROVE  u[Frame(c, i)].size = Cardinality(Files(StartOf(c[i]), Upto(c, i, n + 1)))
  <2>1. CASE i \in 1 .. Len(s)
    <3>1. t[Frame(s, i)].size = Cardinality(Files(StartOf(s[i]), Upto(s, i, n)))
      BY <2>1 DEF ExactState
    <3>2. Frame(s, i) \in DOMAIN t
      BY <2>1 DEF Frames
    <3>3. u[Frame(c, i)].size = t[Frame(s, i)].size
      BY <1>3, <1>8, <2>1, <3>2
    <3>4. Files(StartOf(c[i]), Upto(c, i, n + 1)) = Files(StartOf(s[i]), Upto(s, i, n))
      <4>1. CASE i = Len(s)
        <5>1. Upto(s, i, n) = n
          BY <4>1 DEF Upto
        <5>2. Upto(c, i, n + 1) = n + 1
          BY <1>2, <1>3, <1>5, <2>1, <4>1 DEF Upto
        <5>3. s[i] \in Open(n)
          BY <2>1 DEF Frames
        <5>4. StartOf(s[i]) <= n /\ StartOf(s[i]) \in Nat
          BY <5>3, EndsType DEF Open
        <5>5. StartOf(s[i]) <= n + 1
          BY <5>4
        <5>6. Files(StartOf(s[i]), n + 1) = Files(StartOf(s[i]), n)
          BY <1>4, <5>4, <5>5, FilesNext
        <5> QED BY <1>3, <2>1, <5>1, <5>2, <5>6
      <4>2. CASE i # Len(s)
        <5>1. i + 1 \in 1 .. Len(s)
          BY <1>5, <2>1, <4>2
        <5>2. Upto(c, i, n + 1) = Upto(s, i, n)
          BY <1>3, <1>5, <2>1, <4>2, <5>1 DEF Upto
        <5> QED BY <1>3, <2>1, <5>2
      <4> QED BY <4>1, <4>2
    <3> QED BY <3>1, <3>3, <3>4
  <2>2. CASE i = Len(c)
    <3>1. Upto(c, i, n + 1) = n + 1 /\ c[i] = x /\ Frame(c, i) = c
      BY <1>3, <1>5, <2>2 DEF Upto
    <3>2. u[c].size = 0
      BY <1>8 DEF Fresh
    <3>3. Cardinality(Files(n + 1, n + 1)) = 0
      BY <1>4, FilesNone
    <3> QED BY <1>2, <3>1, <3>2, <3>3
  <2> QED BY <1>5, <2>1, <2>2
<1>12. ~u[c].done
  BY <1>8 DEF Fresh
<1> QED BY <1>6, <1>9, <1>10, <1>11, <1>12 DEF ExactState, c, x

\* The directory that ends is that of the innermost frame.
LEMMA EndsInnermost ==
  ASSUME NEW s, NEW t, NEW n \in Nat, s # <<>>, Frames(s, t, n),
         ExactState(s, t, n), Walk[n + 1].kind = "DP"
  PROVE  /\ EndOf(NameOf(s)) = n + 1 /\ Open(n + 1) = Open(n) \ {NameOf(s)}
         /\ {Above(s)[i] : i \in 1 .. Len(Above(s))} = Open(n + 1)
<1>1. n < Len(Walk) /\ s \in Seq(Dirs)
  BY MoreToRead
<1>2. /\ Len(s) \in Nat /\ Len(s) \in 1 .. Len(s) /\ NameOf(s) = s[Len(s)]
  BY <1>1, FrameFacts
<1>3. PICK x \in Open(n) : /\ EndOf(x) = n + 1 /\ Open(n + 1) = Open(n) \ {x}
                           /\ \A y \in Open(n) : StartOf(y) <= StartOf(x)
  BY <1>1, OpenEnd
<1>4. PICK k \in 1 .. Len(s) : x = s[k]
  BY <1>3 DEF ExactState
<1>5. \A i \in 1 .. Len(s) : s[i] \in Open(n) /\ s[i] \in Dirs /\ StartOf(s[i]) \in Nat
  <2>1. \A i \in 1 .. Len(s) : s[i] \in Open(n)
    BY DEF Frames
  <2> QED BY <2>1, EndsType DEF Open
<1>6. k = Len(s)
  <2>1. ASSUME k # Len(s)
        PROVE  FALSE
    <3>1. StartOf(s[k]) < StartOf(s[Len(s)])
      BY <1>2, <2>1 DEF Frames
    <3>2. StartOf(s[Len(s)]) <= StartOf(s[k])
      BY <1>2, <1>3, <1>4, <1>5
    <3>3. StartOf(s[k]) \in Nat /\ StartOf(s[Len(s)]) \in Nat
      BY <1>2, <1>5
    <3> QED BY <3>1, <3>2, <3>3
  <2> QED BY <2>1
<1>7. \A i \in 1 .. Len(s) : i < Len(s) => s[i] # s[Len(s)]
  <2>1. \A i \in 1 .. Len(s) : i < Len(s) => StartOf(s[i]) < StartOf(s[Len(s)])
    BY <1>2 DEF Frames
  <2> QED BY <1>2, <1>5, <2>1
<1>8. {Above(s)[i] : i \in 1 .. Len(Above(s))} = Open(n) \ {s[Len(s)]}
  <2>1. /\ Len(Above(s)) = Len(s) - 1
        /\ \A i \in 1 .. Len(s) - 1 : Above(s)[i] = s[i]
    BY <1>1, AboveFacts
  <2>2. {Above(s)[i] : i \in 1 .. Len(Above(s))} = {s[i] : i \in 1 .. Len(s) - 1}
    BY <2>1
  <2>3. {s[i] : i \in 1 .. Len(s)} = {s[i] : i \in 1 .. Len(s) - 1} \cup {s[Len(s)]}
    BY <1>2
  <2>4. s[Len(s)] \notin {s[i] : i \in 1 .. Len(s) - 1}
    BY <1>2, <1>7
  <2>5. {s[i] : i \in 1 .. Len(s)} = Open(n)
    BY DEF ExactState
  <2> QED BY <2>2, <2>3, <2>4, <2>5
<1> QED BY <1>2, <1>3, <1>4, <1>6, <1>8

LEMMA ExactEnd ==
  ASSUME NEW s, NEW t, NEW u, NEW n \in Nat, s # <<>>, Frames(s, t, n),
         ExactState(s, t, n), Walk[n + 1].kind = "DP", DOMAIN u = DOMAIN t,
         u[s].size = t[s].size,
         Above(s) # <<>> => /\ u[Above(s)].size = t[Above(s)].size + t[s].size
                            /\ u[Above(s)].done = t[Above(s)].done,
         \A q \in DOMAIN t \ {s, Above(s)} : u[q] = t[q]
  PROVE  ExactState(Above(s), u, n + 1)
<1> DEFINE x == NameOf(s)
           a == Above(s)
<1>1. /\ n < Len(Walk) /\ s \in Seq(Dirs) /\ s \in DOMAIN t /\ x \in Open(n)
      /\ StartOf(x) \in 1 .. n
  BY MoreToRead
<1>2. /\ Len(s) \in Nat /\ Len(s) \in 1 .. Len(s) /\ x = s[Len(s)] /\ Frame(s, Len(s)) = s
  BY <1>1, FrameFacts
<1>3. /\ EndOf(x) = n + 1 /\ Open(n + 1) = Open(n) \ {x} /\ x \in Dirs
      /\ {a[i] : i \in 1 .. Len(a)} = Open(n + 1)
  BY <1>1, EndsInnermost DEF Open
<1>4. /\ a \in Seq(Dirs) /\ Len(a) = Len(s) - 1 /\ a # s
      /\ \A i \in 1 .. Len(s) - 1 : a[i] = s[i] /\ Frame(a, i) = Frame(s, i)
      /\ a # <<>> => a = Frame(s, Len(s) - 1)
  BY <1>1, AboveFacts
<1>5. Walk[n + 1].kind # "F" /\ Walk[n + 1].kind # "D"
  OBVIOUS
<1>6. /\ a # <<>> => /\ u[a].size = t[a].size + t[s].size
                     /\ u[a].done = t[a].done
      /\ \A q \in DOMAIN t \ {s, a} : u[q] = t[q]
  OBVIOUS
<1>7. t[s].size = Cardinality(Files(StartOf(x), n))
  <2>1. t[Frame(s, Len(s))].size = Cardinality(Files(StartOf(s[Len(s)]), Upto(s, Len(s), n)))
    BY <1>2 DEF ExactState
  <2>2. Upto(s, Len(s), n) = n
    BY DEF Upto
  <2> QED BY <1>2, <2>1, <2>2
<1> HIDE DEF x, a
<1>8. Nodes(u, {y \in Dirs : StartOf(y) <= n + 1})
  BY <1>1, <1>5, NoneMet, NodesStay DEF ExactState
<1>9. ASSUME NEW p \in DOMAIN u \ {<<>>}, NameOf(p) \notin Open(n + 1)
      PROVE  u[p].size = SizeOf(NameOf(p))
  <2>1. CASE p = s
    <3>1. Files(StartOf(x), n + 1) = Files(StartOf(x), n)
      BY <1>1, <1>5, FilesNext
    <3> QED BY <1>3, <1>7, <2>1, <3>1, SizeOfFiles DEF x
  <2>2. CASE p # s
    <3>1. NameOf(p) # x
      <4>1. Nodes(t, {y \in Dirs : StartOf(y) <= n})
        BY DEF ExactState
      <4> QED BY <1>1, <2>2, <4>1, Zenon DEF Nodes, x
    <3>2. NameOf(p) \notin Open(n)
      BY <1>3, <1>9, <3>1
    <3>3. p # a
      <4> SUFFICES ASSUME p = a PROVE FALSE
        OBVIOUS
      <4>1. a # <<>>
        OBVIOUS
      <4>2. Len(s) - 1 \in 1 .. Len(s)
        BY <1>2, <1>4, <4>1
      <4>3. NameOf(a) = s[Len(s) - 1]
        BY <1>1, <1>4, <4>1, <4>2, FrameFacts
      <4>4. s[Len(s) - 1] \in Open(n)
        BY <4>2 DEF Frames
      <4> QED BY <3>2, <4>3, <4>4
    <3> QED BY <1>6, <2>2, <3>2, <3>3 DEF ExactState
  <2> QED BY <2>1, <2>2
<1>10. ASSUME NEW i \in 1 .. Len(a)
       PROVE  u[Frame(a, i)].size = Cardinality(Files(StartOf(a[i]), Upto(a, i, n + 1)))
  <2>1. /\ i \in 1 .. Len(s) /\ i < Len(s) /\ i \in 1 .. Len(s) - 1 /\ i + 1 \in 1 .. Len(s)
        /\ i \in Nat
    BY <1>2, <1>4
  <2>2. a[i] = s[i] /\ Frame(a, i) = Frame(s, i)
    BY <1>4, <2>1
  <2>3. t[Frame(s, i)].size = Cardinality(Files(StartOf(s[i]), StartOf(s[i + 1])))
    BY <2>1 DEF ExactState, Upto
  <2>4. /\ Frame(s, i) \in DOMAIN t /\ s[i] \in Open(n) /\ s[i + 1] \in Open(n)
        /\ StartOf(s[i]) < StartOf(s[i + 1])
    BY <2>1 DEF Frames
  <2>5. Frame(s, i) # s /\ Len(Frame(s, i)) = i
    BY <1>1, <2>1, FrameFacts
  <2>6. CASE i = Len(a)
    <3>1. i + 1 = Len(s) /\ a # <<>> /\ a = Frame(s, i)
      BY <1>2, <1>4, <2>6
    <3>2. u[Frame(a, i)].size = Cardinality(Files(StartOf(s[i]), StartOf(x)))
                                  + Cardinality(Files(StartOf(x), n))
      BY <1>2, <1>6, <1>7, <2>2, <2>3, <3>1
    <3>3. StartOf(s[i]) \in Nat /\ StartOf(x) \in Nat /\ StartOf(s[i]) < StartOf(x)
      BY <1>2, <1>3, <2>4, <3>1, EndsType DEF Open
    <3>4. Walk[StartOf(x)].kind # "F"
      <4>1. Walk[StartOf(x)] = [kind |-> "D", dir |-> x]
        BY <1>3, Ends
      <4> QED BY <4>1
    <3>5. Cardinality(Files(StartOf(s[i]), n)) = Cardinality(Files(StartOf(s[i]), StartOf(x)))
                                                   + Cardinality(Files(StartOf(x), n))
      BY <1>1, <3>3, <3>4, FilesSum
    <3>6. Files(StartOf(s[i]), n + 1) = Files(StartOf(s[i]), n)
      BY <1>1, <1>5, <3>3, FilesNext
    <3>7. Upto(a, i, n + 1) = n + 1
      BY <2>6 DEF Upto
    <3> QED BY <2>2, <3>2, <3>5, <3>6, <3>7
  <2>7. CASE i # Len(a)
    <3>1. Frame(s, i) # a
      BY <2>5, <2>7
    <3>2. i + 1 \in 1 .. Len(s) - 1
      BY <1>2, <1>4, <2>1, <2>7
    <3>3. a[i + 1] = s[i + 1]
      BY <1>4, <3>2
    <3>4. Upto(a, i, n + 1) = StartOf(s[i + 1])
      BY <2>7, <3>3 DEF Upto
    <3> QED BY <1>6, <2>2, <2>3, <2>4, <2>5, <3>1, <3>4
  <2> QED BY <2>6, <2>7
<1>11. a # <<>> => ~u[a].done
  <2> SUFFICES ASSUME a # <<>> PROVE ~t[a].done
    BY <1>6
  <2>1. Len(s) - 1 \in 1 .. Len(s) /\ Len(s) - 1 < Len(s)
    BY <1>2, <1>4
  <2>2. ~t[Frame(s, Len(s) - 1)].done
    BY <2>1 DEF Frames
  <2> QED BY <1>4, <2>2
<1> QED BY <1>3, <1>8, <1>9, <1>10, <1>11 DEF ExactState, a

\* When the last frame has ended, everything was met and is closed.
LEMMA ExactWhole ==
  ASSUME NEW t, NEW n \in 1 .. Len(Walk), ExactState(<<>>, t, n)
  PROVE  Whole(t)
<1>1. Open(n) = {}
  BY DEF ExactState
<1>2. n = Len(Walk)
  BY <1>1, RootEnds, WalkType DEF Open
<1>3. \A x \in Dirs : StartOf(x) \in 1 .. Len(Walk)
  BY Ends
<1>4. {x \in Dirs : StartOf(x) <= n} = Dirs
  BY <1>2, <1>3
<1> QED BY <1>1, <1>4 DEF ExactState, Whole

\* The process, the one before and the file, with no stop so far.
LEMMA EInvIf ==
  ASSUME EInv, done' => stops' > 0, stops' = 0 => stops = 0,
         file' = file \/ file' = NewFile
           \/ /\ file'.kind \in {"progress", "report"}
              /\ stops' = 0 => file'.kind = "report" /\ Whole(file'.info),
         stops' = 0 => /\ \/ UNCHANGED <<stack, info, pos, proc>>
                          \/ proc' \in {"forked", "ended"}
                          \/ proc' = "walking" /\ ExactState(stack', info', pos')
                          \/ proc' \in {"walked", "telling", "writing"} /\ Whole(info')
                       /\ \/ old'.proc = "ended"
                          \/ old'.info = old.info /\ old.proc \in {"telling", "writing"}
                          \/ Whole(old'.info)
                          \/ old' = old
  PROVE  EInv'
<1>1. /\ file' = NewFile => file'.kind = "empty" /\ file'.info = NoTree
  BY DEF NewFile
<1>2. file'.kind = "empty" => file'.info = NoTree
  BY <1>1 DEF EInv
<1>3. ASSUME stops' = 0
      PROVE  /\ file'.kind # "progress"
             /\ file'.kind = "report" => Whole(file'.info)
  BY <1>1, <1>3 DEF EInv
<1>4. ASSUME stops' = 0
      PROVE  /\ proc' # "saving"
             /\ proc' = "walking" => ExactState(stack', info', pos')
             /\ proc' \in {"walked", "telling", "writing"} => Whole(info')
  <2>1. CASE UNCHANGED <<stack, info, pos, proc>>
    BY <1>4, <2>1 DEF EInv
  <2> QED BY <1>4, <2>1
<1>5. ASSUME stops' = 0
      PROVE  old'.proc \in {"telling", "writing"} => Whole(old'.info)
  BY <1>5 DEF EInv
<1> QED BY <1>2, <1>3, <1>4, <1>5 DEF EInv

LEMMA StartWalkEInv ==
  ASSUME TInv, EInv, StartWalk
  PROVE  EInv'
<1>1. /\ info' = Insert(file.info, <<Root>>, Fresh) /\ stack' = <<Root>> /\ pos' = 1
      /\ proc' = "walking" /\ file.kind # "report"
      /\ UNCHANGED <<file, old, stops, done>>
  BY DEF StartWalk, flags
<1>2. ASSUME stops' = 0
      PROVE  ExactState(stack', info', pos')
  <2>1. file.info = NoTree
    BY <1>1, <1>2 DEF TInv, FileIs, EInv
  <2>2. DOMAIN info' = {<<>>, <<Root>>} /\ info'[<<Root>>] = Fresh
    BY <1>1, <2>1 DEF Insert, NoTree
  <2> QED BY <1>1, <2>2, ExactRoot
<1>3. done' => stops' > 0
  BY <1>1 DEF EInv
<1> QED BY <1>1, <1>2, <1>3, EInvIf

LEMMA ReadFileEInv ==
  ASSUME TInv, EInv, ReadFile
  PROVE  EInv'
<1>1. /\ proc = "walking" /\ Walk[pos + 1].kind = "F"
      /\ pos' = pos + 1 /\ stack' = stack /\ proc' = proc
      /\ info' = [info EXCEPT ![stack].size = @ + 1]
      /\ UNCHANGED <<file, old, stops, done>>
  BY DEF ReadFile, Reads, Entry, flags
<1>2. /\ pos \in Nat /\ stack # <<>> /\ stack \in DOMAIN info
      /\ Tree(info) /\ Frames(stack, info, pos)
  BY <1>1, WalksOn DEF WalkState
<1>3. ASSUME stops' = 0
      PROVE  ExactState(stack', info', pos')
  <2>1. ExactState(stack, info, pos)
    BY <1>1, <1>3 DEF EInv
  <2>2. /\ Resized(info', info) /\ info'[stack].size = info[stack].size + 1
        /\ \A q \in DOMAIN info \ {stack} : info'[q] = info[q]
    BY <1>1, <1>2, SizeUp
  <2>3. DOMAIN info' = DOMAIN info /\ info'[stack].done = info[stack].done
    BY <1>2, <2>2 DEF Resized
  <2> QED BY <1>1, <1>2, <2>1, <2>2, <2>3, ExactFile
<1>4. done' => stops' > 0
  BY <1>1 DEF EInv
<1> QED BY <1>1, <1>3, <1>4, EInvIf

\* Without a stop a subdirectory is entered, for the first time.
LEMMA EntersNew ==
  ASSUME TInv, EInv, ReadDir, stops = 0
  PROVE  /\ proc = "walking" /\ proc' = "walking" /\ pos' = pos + 1
         /\ ExactState(stack', info', pos')
<1> DEFINE x == Walk[pos + 1].dir
           c == Append(stack, x)
           node == Made(info, c)
<1>1. /\ proc = "walking" /\ Walk[pos + 1].kind = "D"
      /\ \/ done
         \/ /\ info[stack].done /\ info' = node /\ pos' = EndOf(x) - 1
            /\ proc' = proc /\ stack' = stack
         \/ /\ ~info[stack].done /\ stack' = c /\ pos' = pos + 1 /\ proc' = proc
            /\ info' = IF node[c].null THEN Insert(node, c, Fresh) ELSE node
  BY DEF ReadDir, Reads, Entry
<1>2. /\ pos \in Nat /\ pos < Len(Walk) /\ stack # <<>> /\ Frames(stack, info, pos)
      /\ stack \in Seq(Dirs)
  BY <1>1, WalksOn DEF WalkState
<1>3. ExactState(stack, info, pos) /\ ~done
  BY <1>1 DEF EInv
<1>4. ~info[stack].done
  BY <1>2, <1>3 DEF ExactState
<1>5. x \in Dirs /\ StartOf(x) = pos + 1
  BY <1>1, <1>2, OpenStart
<1>6. c # <<>> /\ NameOf(c) = x
  BY <1>2, <1>5, ChildFacts
<1>7. c \notin DOMAIN info
  <2>1. x \notin {y \in Dirs : StartOf(y) <= pos}
    BY <1>2, <1>5
  <2> QED BY <1>3, <1>6, <2>1 DEF ExactState, Nodes
<1>8. /\ DOMAIN node = DOMAIN info \cup {c} /\ \A q \in DOMAIN info : node[q] = info[q]
      /\ node[c] = Null
  BY <1>7, MadeFacts
<1> HIDE DEF c, x, node
<1>9. /\ info' = Insert(node, c, Fresh) /\ stack' = c /\ pos' = pos + 1 /\ proc' = proc
  BY <1>1, <1>3, <1>4, <1>8 DEF Null
<1>10. WithNode(info', info, c, Fresh)
  <2>1. /\ DOMAIN Insert(node, c, Fresh) = DOMAIN node \cup {c}
        /\ Insert(node, c, Fresh)[c] = Fresh
        /\ \A q \in DOMAIN node \ {c} : Insert(node, c, Fresh)[q] = node[q]
    BY DEF Insert
  <2> QED BY <1>7, <1>8, <1>9, <2>1 DEF WithNode
<1> QED BY <1>1, <1>2, <1>3, <1>9, <1>10, ExactEnter DEF c, x

\* Without a stop a frame ends with its directory; the last one ends the walk.
LEMMA EndsFrame ==
  ASSUME TInv, EInv, ReadEnd, stops = 0
  PROVE  /\ proc' \in {"walking", "walked"} /\ ExactState(stack', info', pos')
         /\ proc' = "walked" => Whole(info')
<1> DEFINE f == [info EXCEPT ![stack].done = TRUE]
<1>1. /\ proc = "walking" /\ Walk[pos + 1].kind = "DP" /\ pos' = pos + 1 /\ Return(f)
  BY DEF ReadEnd, Reads, Entry
<1>2. /\ pos \in Nat /\ pos + 1 \in 0 .. Len(Walk) /\ stack # <<>> /\ stack \in Seq(Dirs)
      /\ stack \in DOMAIN info /\ Tree(info) /\ Frames(stack, info, pos)
  BY <1>1, WalksOn DEF WalkState
<1>3. /\ DOMAIN f = DOMAIN info /\ f[stack].size = info[stack].size /\ f[stack] \in State
      /\ \A q \in DOMAIN info \ {stack} : f[q] = info[q]
  BY <1>2, DoneSet
<1>4. \/ Len(stack) = 1 /\ proc' = "walked" /\ info' = f
      \/ Len(stack) # 1 /\ proc' = proc
           /\ info' = [f EXCEPT ![Above(stack)].size = @ + f[stack].size]
  BY <1>1 DEF Return, Parent
<1>5. stack' = Above(stack)
  BY <1>1 DEF Return, Parent
<1> HIDE DEF f
<1>6. Above(stack) # stack /\ Above(stack) \in DOMAIN f /\ (Len(stack) = 1 <=> Above(stack) = <<>>)
  <2>1. /\ Above(stack) \in Seq(Dirs) /\ Len(Above(stack)) = Len(stack) - 1
        /\ Above(stack) # stack /\ Len(stack) \in Nat
    BY <1>2, AboveFacts
  <2>2. Above(stack) = <<>> <=> Len(Above(stack)) = 0
    <3>1. \A a \in Seq(Dirs) : a = <<>> <=> Len(a) = 0
      OBVIOUS
    <3> QED BY <2>1, <3>1
  <2>3. Above(stack) \in DOMAIN info
    BY <1>2 DEF Tree
  <2> QED BY <1>3, <2>1, <2>2, <2>3
<1>7. Tree(f)
  <2>1. \A q \in DOMAIN f : f[q] \in State
    BY <1>2, <1>3 DEF Tree
  <2> QED BY <1>2, <1>3, <2>1, TreeStays
<1>8. ExactState(stack, info, pos)
  BY <1>1 DEF EInv
<1>9. /\ DOMAIN info' = DOMAIN info /\ info'[stack].size = info[stack].size
      /\ Above(stack) # <<>> =>
           /\ info'[Above(stack)].size = info[Above(stack)].size + info[stack].size
           /\ info'[Above(stack)].done = info[Above(stack)].done
      /\ \A q \in DOMAIN info \ {stack, Above(stack)} : info'[q] = info[q]
  <2>1. CASE Len(stack) = 1
    BY <1>2, <1>3, <1>4, <1>6, <2>1
  <2>2. CASE Len(stack) # 1
    <3>0. f[stack].size \in Nat
      BY <1>3 DEF State
    <3> DEFINE g == [f EXCEPT ![Above(stack)].size = @ + f[stack].size]
    <3>3. /\ Resized(g, f)
          /\ g[Above(stack)].size = f[Above(stack)].size + f[stack].size
          /\ \A q \in DOMAIN f \ {Above(stack)} : g[q] = f[q]
      BY <1>6, <1>7, <3>0, SizeUp
    <3>4. info' = g
      BY <1>4, <2>2
    <3> HIDE DEF g
    <3>1. /\ Resized(info', f)
          /\ info'[Above(stack)].size = f[Above(stack)].size + f[stack].size
          /\ \A q \in DOMAIN f \ {Above(stack)} : info'[q] = f[q]
      BY <3>3, <3>4
    <3>2. DOMAIN info' = DOMAIN f /\ info'[Above(stack)].done = f[Above(stack)].done
      BY <1>6, <3>1 DEF Resized
    <3> QED BY <1>2, <1>3, <1>6, <3>1, <3>2
  <2> QED BY <2>1, <2>2
<1>10. ExactState(stack', info', pos')
  BY <1>1, <1>2, <1>5, <1>8, <1>9, ExactEnd
<1>11. proc' = "walked" => Whole(info')
  <2> SUFFICES ASSUME proc' = "walked" PROVE Whole(info')
    OBVIOUS
  <2>1. stack' = <<>>
    BY <1>1, <1>4, <1>5, <1>6
  <2>2. pos' \in 1 .. Len(Walk)
    BY <1>1, <1>2, WalkType
  <2> QED BY <1>10, <2>1, <2>2, ExactWhole
<1> QED BY <1>1, <1>4, <1>10, <1>11

LEMMA NextEInv ==
  ASSUME TInv, EInv, [Next]_vars
  PROVE  EInv'
<1>0. (done => stops > 0) /\ stops \in Nat
  <2>1. MaxStops \in Nat /\ stops \in 0 .. MaxStops
    BY AnalysisAssumption, Zenon DEF TInv, Scalars
  <2> QED BY <2>1 DEF EInv
<1>1. CASE StartWalk
  BY <1>1, StartWalkEInv
<1>2. CASE ReadFile
  BY <1>2, ReadFileEInv
<1>3. CASE ReadDir
  <2>1. UNCHANGED <<file, old, stops, done>>
    BY <1>3 DEF ReadDir, flags
  <2> QED BY <1>0, <1>3, <2>1, EntersNew, EInvIf
<1>4. CASE ReadEnd
  <2>1. UNCHANGED <<file, old, stops, done>>
    BY <1>4 DEF ReadEnd, flags
  <2> QED BY <1>0, <1>4, <2>1, EndsFrame, EInvIf
<1>5. CASE FindReport \/ EndInterrupted \/ WalkFails
  <2>1. UNCHANGED <<file, old, stops, done>> /\ proc' = "ended"
    BY <1>5 DEF FindReport, EndInterrupted, WalkFails, flags
  <2> QED BY <1>0, <2>1, EInvIf
<1>6. CASE GoesOn \/ SendResult
  <2>1. /\ UNCHANGED <<file, old, stops, done>> /\ info' = info
        /\ proc \in {"walked", "telling"}
        /\ proc' \in {"telling", "writing"} \/ done
    BY <1>6 DEF GoesOn, SendResult, flags, mem
  <2> QED BY <1>0, <2>1, EInvIf DEF EInv
<1>7. CASE WriteFile
  <2>1. /\ UNCHANGED <<old, stops, done>> /\ proc' = "ended"
        /\ proc \in {"writing", "saving"}
        /\ file'.kind = (IF done THEN "progress" ELSE "report") /\ file'.info = info
    BY <1>7 DEF WriteFile, Written, flags
  <2> QED BY <1>0, <2>1, EInvIf DEF EInv
<1>8. CASE SendPartial \/ Suspend \/ Resume \/ Kill \/ UNCHANGED vars
  <2>1. UNCHANGED <<file, old, stops, done, stack, info, pos, proc>>
    BY <1>8 DEF SendPartial, Suspend, Resume, Kill, vars, flags, mem
  <2> QED BY <1>0, <2>1, EInvIf
<1>9. CASE OldTells
  <2>1. /\ UNCHANGED <<file, stops, done, stack, info, pos, proc>>
        /\ old.proc = "telling" /\ old' = [old EXCEPT !.proc = "writing"]
    BY <1>9 DEF OldTells, flags, mem
  <2>2. old'.info = old.info
    <3>1. old = [proc |-> old.proc, info |-> old.info, cnt |-> old.cnt, of |-> old.of]
      BY Zenon DEF TInv, OldProc
    <3>2. old' = [proc |-> "writing", info |-> old.info, cnt |-> old.cnt, of |-> old.of]
      BY <2>1, <3>1
    <3> QED BY <3>2
  <2> QED BY <1>0, <2>1, <2>2, EInvIf
<1>10. CASE OldWrites
  <2>1. /\ UNCHANGED <<stops, done, stack, info, pos, proc>>
        /\ old.proc = "writing" /\ old'.proc = "ended"
        /\ file'.kind = (IF done THEN "progress" ELSE "report") /\ file'.info = old.info
    BY <1>10 DEF OldWrites, Written, NoProc, flags, mem
  <2> QED BY <1>0, <2>1, EInvIf DEF EInv
<1>11. CASE Apply \/ Remove
  <2>1. UNCHANGED <<old, stops, done, stack, info, pos, proc>> /\ (file' = file \/ file' = NewFile)
    BY <1>11 DEF Apply, Remove, Removed, flags, mem
  <2> QED BY <1>0, <2>1, EInvIf
<1>12. CASE Reuse
  <2>1. UNCHANGED <<file, stops, done>> /\ proc' = "forked"
    BY <1>12 DEF Reuse
  <2>2. \/ old'.proc = "ended"
        \/ old'.info = info /\ proc \in {"telling", "writing"}
    BY <1>12 DEF Reuse, NoProc
  <2> QED BY <1>0, <2>1, <2>2, EInvIf DEF EInv
<1>13. CASE Stop
  <2>1. UNCHANGED <<file, old>> /\ stops' > 0
    BY <1>0, <1>13 DEF Stop
  <2> QED BY <2>1, EInvIf
<1>14. CASE Restart
  <2>1. UNCHANGED <<file, old, stops>> /\ proc' \in {"forked", "ended"} /\ done' = FALSE
    BY <1>14 DEF Restart
  <2> QED BY <2>1, EInvIf
<1> QED BY <1>1, <1>2, <1>3, <1>4, <1>5, <1>6, <1>7, <1>8, <1>9, <1>10, <1>11, <1>12,
           <1>13, <1>14 DEF Next, Process, OldProcess

LEMMA EInvHolds == Spec => [](TInv /\ EInv)
<1>1. Init => EInv
  <2> SUFFICES ASSUME Init PROVE EInv
    OBVIOUS
  <2>1. file.kind = "empty" /\ file.info = NoTree /\ old.proc = "ended"
    BY DEF Init, NewFile, NoProc
  <2> QED BY <2>1 DEF Init, EInv
<1> QED BY <1>1, InitTInv, NextTInv, NextEInv, PTL DEF Spec

\* Without a stop a report has one node for each directory, at its path, with
\* the space that it occupies (forks_manager.c:259-349, 422-483).
THEOREM ReportsAreExact == Spec => []ReportExact
<1>1. EInv => ReportExact
  BY DEF EInv, Whole, Nodes, ReportExact
<1> QED BY <1>1, EInvHolds, PTL
-----------------------------------------------------------------------------
(* The counts of a walk that no stop interrupts *)

LEMMA EntriesFacts ==
  /\ Entries(0) = 0 /\ Entries(1) = 0
  /\ \A n \in Nat : Entries(n) \in Nat
  /\ \A n \in Nat \ {0} :
       Entries(n + 1) = IF Walk[n + 1].kind = "DP" THEN Entries(n) ELSE Entries(n) + 1
<1> DEFINE Met(n) == {i \in 2 .. n : Walk[i].kind # "DP"}
<1>1. \A n \in Nat : IsFiniteSet(Met(n)) /\ Entries(n) = Cardinality(Met(n))
                     /\ Cardinality(Met(n)) \in Nat
  <2> SUFFICES ASSUME NEW n \in Nat
               PROVE  IsFiniteSet(Met(n)) /\ Entries(n) = Cardinality(Met(n))
                      /\ Cardinality(Met(n)) \in Nat
    OBVIOUS
  <2>1. IsFiniteSet(2 .. n) /\ Met(n) \in SUBSET (2 .. n)
    BY FS_Interval
  <2>2. Entries(n) = Cardinality(Met(n))
    BY DEF Entries
  <2> QED BY <2>1, <2>2, FS_Subset, FS_CardinalityType
<1>2. Met(0) = {} /\ Met(1) = {}
  OBVIOUS
<1>3. ASSUME NEW n \in Nat \ {0}
      PROVE  Entries(n + 1) = IF Walk[n + 1].kind = "DP" THEN Entries(n) ELSE Entries(n) + 1
  <2>1. Met(n + 1) = IF Walk[n + 1].kind = "DP" THEN Met(n) ELSE Met(n) \cup {n + 1}
    OBVIOUS
  <2>2. n + 1 \notin Met(n)
    OBVIOUS
  <2> HIDE DEF Met
  <2>3. Cardinality(Met(n) \cup {n + 1}) = Cardinality(Met(n)) + 1
    BY <1>1, <2>2, FS_AddElement
  <2> QED BY <1>1, <2>1, <2>3
<1> QED BY <1>1, <1>2, <1>3, FS_EmptySet

Balanced == /\ told + cnt <= Entries(pos)
            /\ faults = 0 => told + cnt = Entries(pos)

\* CountsExact needs that a process that was interrupted counts for nobody,
\* that a result is lost for a fault only, and where a process begins.
KInv == /\ unsent => faults > 0
        /\ interrupted => status = "removed"
        /\ proc = "forked" => pos = 0 /\ cnt = 0
        /\ stops = 0 /\ ~tardy /\ status # "removed" => Balanced

LEMMA Numbers ==
  ASSUME TInv
  PROVE  /\ told \in Nat /\ cnt \in Nat /\ faults \in Nat /\ stops \in Nat /\ pos \in Nat
         /\ Entries(pos) \in Nat
<1>1. MaxFaults \in Nat /\ faults \in 0 .. MaxFaults /\ MaxStops \in Nat /\ stops \in 0 .. MaxStops
  BY AnalysisAssumption, Zenon DEF TInv, Scalars
<1>2. pos \in 0 .. Len(Walk) /\ Len(Walk) \in Nat
  BY ScalarsIn, WalkType
<1>3. faults \in Nat /\ stops \in Nat /\ pos \in Nat
  BY <1>1, <1>2
<1> QED BY <1>3, ScalarsIn, EntriesFacts

\* Nothing is counted or told; a fault may come.
LEMMA QuietKInv ==
  ASSUME TInv, KInv, told' = told, cnt' = cnt, pos' = pos,
         faults' = faults \/ faults' = faults + 1,
         stops' = stops \/ stops' > 0, tardy => tardy',
         status' = status \/ status' = "removed" \/ status # "removed",
         interrupted' => interrupted \/ killing, killing => status = "removed",
         unsent' => unsent \/ faults' = faults + 1,
         proc' = "forked" => proc = "forked"
  PROVE  KInv'
<1>1. /\ told \in Nat /\ cnt \in Nat /\ faults \in Nat /\ Entries(pos) \in Nat
      /\ stops \in Nat
  BY Numbers
<1>2. faults' > 0 \/ faults' = faults
  BY <1>1
<1>3. unsent' => faults' > 0
  BY <1>1, <1>2 DEF KInv
<1>4. interrupted' => status' = "removed"
  BY DEF KInv
<1>5. ASSUME stops' = 0, ~tardy', status' # "removed"
      PROVE  Balanced'
  <2>1. stops = 0 /\ ~tardy /\ status # "removed"
    BY <1>5
  <2>2. Balanced
    BY <2>1 DEF KInv
  <2> QED BY <1>1, <1>2, <2>2 DEF Balanced
<1> QED BY <1>3, <1>4, <1>5 DEF KInv

\* The process counts or tells, and goes on.
LEMMA CountsKInv ==
  ASSUME TInv, KInv, UNCHANGED <<status, interrupted, stops, tardy>>,
         unsent' => unsent \/ faults' > 0, faults' = faults \/ faults' = faults + 1,
         proc' # "forked",
         stops = 0 /\ ~tardy /\ status # "removed" /\ Balanced => Balanced'
  PROVE  KInv'
<1>1. faults \in Nat
  BY Numbers
<1>2. unsent' => faults' > 0
  BY <1>1 DEF KInv
<1>3. interrupted' => status' = "removed"
  BY DEF KInv
<1>4. stops' = 0 /\ ~tardy' /\ status' # "removed" => Balanced'
  BY DEF KInv
<1> QED BY <1>2, <1>3, <1>4 DEF KInv

\* An entry is read.
LEMMA EntryBalanced ==
  ASSUME TInv, Balanced, proc = "walking", pos' = pos + 1, UNCHANGED <<told, faults>>,
         cnt' = IF Walk[pos + 1].kind = "DP" THEN cnt ELSE cnt + 1
  PROVE  Balanced'
<1>1. told \in Nat /\ cnt \in Nat /\ faults \in Nat /\ Entries(pos) \in Nat /\ pos \in Nat
  BY Numbers
<1>2. pos # 0
  <2>1. stack # <<>> /\ Frames(stack, info, pos)
    BY WalksOn DEF WalkState
  <2>2. StartOf(NameOf(stack)) \in 1 .. pos
    BY <1>1, <2>1, MoreToRead
  <2> QED BY <2>2
<1>3. Entries(pos + 1) = IF Walk[pos + 1].kind = "DP" THEN Entries(pos) ELSE Entries(pos) + 1
  BY <1>1, <1>2, EntriesFacts
<1> QED BY <1>1, <1>3 DEF Balanced

LEMMA ReadKInv ==
  ASSUME TInv, EInv, KInv, ReadFile \/ ReadDir \/ ReadEnd
  PROVE  KInv'
<1>1. /\ proc = "walking" /\ proc' \in {"walking", "walked"}
      /\ UNCHANGED <<status, interrupted, stops, tardy, told, faults, unsent>>
  BY DEF ReadFile, ReadDir, ReadEnd, Reads, Return, anal, flags, ghost
<1>2. ASSUME stops = 0, Balanced
      PROVE  Balanced'
  <2>1. pos' = pos + 1
    <3>1. CASE ReadFile \/ ReadEnd
      BY <3>1 DEF ReadFile, ReadEnd
    <3>2. CASE ReadDir
      BY <1>2, <3>2, EntersNew
    <3> QED BY <3>1, <3>2
  <2>2. cnt' = IF Walk[pos + 1].kind = "DP" THEN cnt ELSE cnt + 1
    BY DEF ReadFile, ReadDir, ReadEnd, Reads, Entry
  <2> QED BY <1>1, <1>2, <2>1, <2>2, EntryBalanced
<1> QED BY <1>1, <1>2, CountsKInv

LEMMA StartWalkKInv ==
  ASSUME TInv, KInv, StartWalk
  PROVE  KInv'
<1>1. /\ proc = "forked" /\ proc' = "walking" /\ pos' = 1
      /\ UNCHANGED <<status, interrupted, stops, tardy, told, faults, unsent, cnt>>
  BY DEF StartWalk, anal, flags, ghost
<1>2. ASSUME Balanced
      PROVE  Balanced'
  <2>1. pos = 0 /\ Entries(0) = 0 /\ Entries(1) = 0
    BY <1>1, EntriesFacts DEF KInv
  <2> QED BY <1>1, <1>2, <2>1 DEF Balanced
<1> QED BY <1>1, <1>2, CountsKInv

\* What is told is not counted any more; with a fault it is lost.
LEMMA SendKInv ==
  ASSUME TInv, KInv, EInv, SendPartial \/ SendResult \/ WalkFails
  PROVE  KInv'
<1>1. /\ UNCHANGED <<status, interrupted, stops, tardy, pos>> /\ proc' # "forked"
      /\ cnt' = 0
  BY DEF SendPartial, SendResult, WalkFails, SendCounts, Freed, flags
<1>2. told \in Nat /\ cnt \in Nat /\ faults \in Nat /\ Entries(pos) \in Nat
  BY Numbers
<1>3. \/ faults' = faults /\ unsent' = unsent /\ Tell(cnt)
      \/ faults' = faults /\ unsent' = unsent /\ unsent' /\ told' = told
      \/ faults' = faults + 1 /\ (told' = told \/ Tell(cnt))
  BY DEF SendPartial, SendResult, WalkFails, SendCounts, SendCompletion, Fault
<1>4. ASSUME status # "removed", Balanced
      PROVE  Balanced'
  <2>1. Tell(cnt) => told' = told + cnt
    BY <1>4 DEF Tell
  <2>2. \/ faults' = faults /\ told' = told + cnt
        \/ faults' = faults /\ faults > 0 /\ told' = told
        \/ faults' = faults + 1 /\ (told' = told \/ told' = told + cnt)
    BY <1>3, <2>1 DEF KInv
  <2> QED BY <1>1, <1>2, <1>4, <2>2 DEF Balanced
<1>5. faults' = faults + 1 => faults' > 0
  BY <1>2
<1>6. unsent' => unsent \/ faults' > 0
  BY <1>3, <1>5, Zenon
<1>7. faults' = faults \/ faults' = faults + 1
  BY <1>3, Zenon
<1> QED BY <1>1, <1>4, <1>6, <1>7, CountsKInv

LEMMA NextKInv ==
  ASSUME TInv, EInv, OInv, KInv, [Next]_vars
  PROVE  KInv'
<1>0. /\ stops \in Nat /\ (killing => status = "removed")
      /\ (~tardy => old.proc = "ended") /\ (done => stops > 0)
      /\ (interrupted => status = "removed") /\ (unsent => faults > 0)
  BY Numbers DEF OInv, EInv, KInv
<1>1. CASE ReadFile \/ ReadDir \/ ReadEnd
  BY <1>1, ReadKInv
<1>2. CASE StartWalk
  BY <1>2, StartWalkKInv
<1>3. CASE SendPartial \/ SendResult \/ WalkFails
  BY <1>3, SendKInv
<1>4. CASE FindReport
  <2>1. /\ UNCHANGED <<told, cnt, pos, stops, tardy, status, interrupted>>
        /\ proc' = "ended"
        /\ \/ faults' = faults /\ unsent' = unsent
           \/ faults' = faults + 1
    BY <1>4 DEF FindReport, SendCompletion, Fault, mem, flags
  <2> QED BY <1>0, <2>1, QuietKInv
<1>5. CASE GoesOn \/ WriteFile \/ Suspend \/ Resume \/ OldWrites \/ UNCHANGED vars
  <2>1. /\ UNCHANGED <<told, cnt, pos, faults, stops, tardy, status, interrupted, unsent>>
        /\ proc' = "forked" => proc = "forked"
    BY <1>5 DEF GoesOn, WriteFile, Suspend, Resume, OldWrites, vars, anal, mem, flags, ghost
  <2> QED BY <1>0, <2>1, QuietKInv
<1>6. CASE Stop
  <2>1. /\ UNCHANGED <<told, cnt, pos, faults, tardy, status, interrupted, unsent, proc>>
        /\ stops' = stops + 1
    BY <1>6 DEF Stop, anal, mem, ghost
  <2>2. stops' > 0
    BY <1>0, <2>1
  <2> QED BY <1>0, <2>1, <2>2, QuietKInv
<1>7. CASE Kill
  <2>1. /\ UNCHANGED <<told, cnt, pos, faults, stops, status, unsent, proc>> /\ killing
        /\ tardy => tardy'
    BY <1>7 DEF Kill, mem
  <2> QED BY <1>0, <2>1, QuietKInv
<1>8. CASE Apply \/ Remove
  <2>1. /\ UNCHANGED <<cnt, pos, faults, stops, tardy, interrupted, unsent, proc>>
        /\ \/ status' = "removed"
           \/ status # "removed" /\ told' = told
    BY <1>8 DEF Apply, Remove, Removed, mem, flags, ghost
  <2>2. CASE status' = "removed"
    BY <1>0, <2>1, <2>2 DEF KInv
  <2>3. CASE status # "removed" /\ told' = told
    BY <1>0, <2>1, <2>3, QuietKInv
  <2> QED BY <2>1, <2>2, <2>3
<1>9. CASE EndInterrupted
  <2>1. /\ interrupted /\ UNCHANGED <<faults, status, interrupted, unsent>> /\ proc' = "ended"
    BY <1>9 DEF EndInterrupted, anal, flags, ghost
  <2> QED BY <1>0, <2>1 DEF KInv
<1>10. CASE OldTells
  <2>1. /\ UNCHANGED <<cnt, pos, faults, stops, tardy, status, interrupted, unsent, proc>>
        /\ old.proc = "telling"
    BY <1>10 DEF OldTells, mem, flags, ghost
  <2> QED BY <1>0, <2>1 DEF KInv
<1>11. CASE Reuse
  <2>1. /\ pos' = 0 /\ cnt' = 0 /\ told' = 0 /\ interrupted' = FALSE /\ unsent' = FALSE
    BY <1>11 DEF Reuse, Freed
  <2> QED BY <2>1, EntriesFacts DEF KInv, Balanced
<1>12. CASE Restart
  <2>1. /\ done /\ UNCHANGED stops /\ pos' = 0 /\ cnt' = 0 /\ interrupted' = FALSE
        /\ unsent' = FALSE
    BY <1>12 DEF Restart, Freed
  <2>2. stops' # 0
    BY <1>0, <2>1
  <2> QED BY <2>1, <2>2 DEF KInv
<1> QED BY <1>1, <1>2, <1>3, <1>4, <1>5, <1>6, <1>7, <1>8, <1>9, <1>10, <1>11, <1>12
        DEF Next, Process, OldProcess

\* Without a stop what was told and what is counted are together the entries
\* that were read, or less if a connection failed (forks_manager.c:214-254,
\* 283-318).
THEOREM CountsAreExact == Spec => []CountsExact
<1>1. Init => KInv
  <2> SUFFICES ASSUME Init PROVE KInv
    OBVIOUS
  <2>1. told = 0 /\ cnt = 0 /\ pos = 0 /\ unsent = FALSE /\ interrupted = FALSE
    BY DEF Init
  <2>2. Balanced
    BY <2>1, EntriesFacts DEF Balanced
  <2> QED BY <2>1, <2>2, Zenon DEF KInv
<1>2. TInv /\ EInv /\ OInv /\ KInv /\ [Next]_vars => KInv'
  BY NextKInv
<1>3. Spec => []OInv
  BY InitOInv, NextOInv, PTL DEF Spec
<1>4. KInv => CountsExact
  BY DEF KInv, Balanced, CountsExact
<1> QED BY <1>1, <1>2, <1>3, <1>4, EInvHolds, PTL DEF Spec
-----------------------------------------------------------------------------
(* Loops *)

LEMMA NatWF == IsWellFoundedOn({p \in Nat \X Nat : p[1] < p[2]}, Nat)
BY NatLessThanWellFounded DEF OpToRel

\* Induction, with a set in the place of a predicate.
LEMMA NatSetInduction ==
  ASSUME NEW S, 0 \in S, \A n \in Nat : n \in S => n + 1 \in S
  PROVE  \A n \in Nat : n \in S
<1> DEFINE T == Nat \ S
           R == {p \in Nat \X Nat : p[1] < p[2]}
<1>1. SUFFICES ASSUME T # {} PROVE FALSE
  OBVIOUS
<1>2. PICK x \in T : \A y \in T : ~(<<y, x>> \in R)
  <2>1. T \subseteq Nat /\ IsWellFoundedOn(R, Nat)
    BY NatWF
  <2> HIDE DEF R, T
  <2> QED BY <1>1, <2>1, WFMin
<1>3. x - 1 \in Nat
  BY x # 0
<1>4. x - 1 \notin S
  BY <1>3
<1>5. <<x - 1, x>> \in R
  BY <1>3
<1> QED BY <1>2, <1>3, <1>4, <1>5

\* A loop that goes n times through the body H, from v on.
Loop(f, n, V, v, H) ==
  /\ f \in [0 .. n -> V] /\ f[0] = v
  /\ \A k \in 1 .. n : f[k] = H[<<k, f[k - 1]>>]

LEMMA LoopExists ==
  ASSUME NEW n \in Nat, NEW V, NEW v \in V, NEW H \in [(1 .. n) \X V -> V]
  PROVE  \E f : Loop(f, n, V, v, H)
<1> DEFINE Till(m, f) == /\ f \in [0 .. m -> V] /\ f[0] = v
                         /\ \A k \in 1 .. m : f[k] = H[<<k, f[k - 1]>>]
           S == {m \in Nat : m <= n => \E f : Till(m, f)}
<1>1. 0 \in S
  <2>1. Till(0, [k \in 0 .. 0 |-> v])
    OBVIOUS
  <2> QED BY <2>1
<1>2. ASSUME NEW m \in Nat, m \in S
      PROVE  m + 1 \in S
  <2> SUFFICES ASSUME m + 1 <= n
               PROVE  \E f : Till(m + 1, f)
    OBVIOUS
  <2>1. PICK f : Till(m, f)
    BY <1>2
  <2>2. f[m] \in V /\ m + 1 \in 1 .. n
    BY <2>1
  <2>3. H[<<m + 1, f[m]>>] \in V
    BY <2>2
  <2> DEFINE g == [k \in 0 .. m + 1 |-> IF k = m + 1 THEN H[<<m + 1, f[m]>>]
                                        ELSE f[k]]
  <2>4. g \in [0 .. m + 1 -> V]
    <3> SUFFICES ASSUME NEW k \in 0 .. m + 1
                 PROVE  g[k] \in V
      OBVIOUS
    <3>1. CASE k = m + 1
      BY <2>3, <3>1
    <3>2. CASE k # m + 1
      BY <2>1, <3>2
    <3> QED BY <3>1, <3>2
  <2>5. g[0] = v
    BY <2>1
  <2>6. ASSUME NEW k \in 1 .. m + 1
        PROVE  g[k] = H[<<k, g[k - 1]>>]
    <3>1. CASE k = m + 1
      <4>1. m \in 0 .. m + 1 /\ m + 1 \in 0 .. m + 1 /\ m # m + 1 /\ (m + 1) - 1 = m
        OBVIOUS
      <4>2. g[m + 1] = H[<<m + 1, f[m]>>] /\ g[m] = f[m]
        BY <4>1
      <4> HIDE DEF g
      <4> QED BY <3>1, <4>1, <4>2
    <3>2. CASE k # m + 1
      <4>1. k \in 1 .. m /\ k \in 0 .. m + 1 /\ k - 1 \in 0 .. m + 1 /\ k - 1 # m + 1
        BY <3>2
      <4> QED BY <2>1, <3>2, <4>1
    <3> QED BY <3>1, <3>2
  <2> HIDE DEF g
  <2>7. Till(m + 1, g)
    BY <2>4, <2>5, <2>6
  <2> QED BY <2>7
<1> HIDE DEF S
<1>3. n \in S
  BY <1>1, <1>2, NatSetInduction
<1> QED BY <1>3 DEF S, Loop

-----------------------------------------------------------------------------
(* The progress file: what of a tree is in it, and what is read from it.   *)

Paths  == Seq(Dirs)
Trees  == UNION {[E -> State] : E \in SUBSET Paths}
Items  == State \cup {Plus(x) : x \in Dirs} \cup {Minus}
Texts  == Seq(Items)
Places == [at : Paths, tree : Trees]

\* A walk leaves finitely many directories, and of a bounded depth.
Small(t) == /\ t \in Trees /\ IsFiniteSet(DOMAIN t)
            /\ \E l \in Nat : \A p \in DOMAIN t : Len(p) <= l

LEMMA ItemKinds ==
  /\ \A st \in State : "sign" \notin DOMAIN st
  /\ \A x : "sign" \in DOMAIN Plus(x) /\ Plus(x).sign = "+" /\ Plus(x).name = x
  /\ "sign" \in DOMAIN Minus /\ Minus.sign = "-"
<1>1. ASSUME NEW st \in State
      PROVE  "sign" \notin DOMAIN st
  BY DEF State
<1> QED BY <1>1 DEF Plus, Minus

LEMMA ReadsState ==
  ASSUME NEW s \in Places, NEW st \in State
  PROVE  ReadItem(s, st) = [at |-> s.at, tree |-> Insert(s.tree, s.at, st)]
BY ItemKinds DEF ReadItem, Places

LEMMA ReadsPlus ==
  ASSUME NEW s \in Places, NEW x \in Dirs
  PROVE  ReadItem(s, Plus(x)) = [at |-> Append(s.at, x), tree |-> s.tree]
BY ItemKinds DEF ReadItem, Places

LEMMA ReadsMinus ==
  ASSUME NEW s \in Places
  PROVE  ReadItem(s, Minus) = [at |-> Above(s.at), tree |-> s.tree]
BY ItemKinds DEF ReadItem, Places

LEMMA AboveIn ==
  ASSUME NEW p \in Paths
  PROVE  Above(p) \in Paths
<1>1. CASE p = <<>>
  <2>1. Above(p) = <<>>
    BY <1>1 DEF Above
  <2> QED BY <2>1 DEF Paths
<1>2. CASE p # <<>>
  BY <1>2, AboveFacts DEF Paths
<1> QED BY <1>1, <1>2

LEMMA InsertIn ==
  ASSUME NEW t \in Trees, NEW p \in Paths, NEW st \in State
  PROVE  Insert(t, p, st) \in Trees
<1>1. PICK E \in SUBSET Paths : t \in [E -> State]
  BY DEF Trees
<1>2. E \cup {p} \in SUBSET Paths /\ Insert(t, p, st) \in [E \cup {p} -> State]
  BY <1>1 DEF Insert
<1> QED BY <1>2 DEF Trees

LEMMA ReadItemIn ==
  ASSUME NEW s \in Places, NEW item \in Items
  PROVE  ReadItem(s, item) \in Places
<1>1. s.at \in Paths /\ s.tree \in Trees
  BY DEF Places
<1>2. CASE item \in State
  BY <1>1, <1>2, ReadsState, InsertIn DEF Places
<1>3. ASSUME NEW x \in Dirs, item = Plus(x)
      PROVE  ReadItem(s, item) \in Places
  <2>1. Append(s.at, x) \in Paths
    BY <1>1 DEF Paths
  <2>2. ReadItem(s, item) = [at |-> Append(s.at, x), tree |-> s.tree]
    BY ONLY s \in Places, x \in Dirs, <1>3, ReadsPlus
  <2> QED BY <1>1, <2>1, <2>2 DEF Places
<1>4. CASE item = Minus
  BY <1>1, <1>4, ReadsMinus, AboveIn DEF Places
<1> QED BY <1>2, <1>3, <1>4 DEF Items

\* How far the reading of the items is after each of them.
Reading(items) ==
  CHOOSE r : r = [k \in 0 .. Len(items) |->
                    IF k = 0 THEN [at |-> <<>>, tree |-> NoTree]
                    ELSE ReadItem(r[k - 1], items[k])]

LEMMA NoTreeIn == [at |-> <<>>, tree |-> NoTree] \in Places
<1>1. {<<>>} \in SUBSET Paths /\ Null \in State
  BY DEF Paths, Null, State
<1>2. NoTree \in [{<<>>} -> State]
  BY <1>1 DEF NoTree
<1>3. NoTree \in Trees
  BY <1>1, <1>2 DEF Trees
<1> QED BY <1>1, <1>3 DEF Places

LEMMA ReadingRec ==
  ASSUME NEW items \in Texts
  PROVE  /\ Built(items) = Reading(items)[Len(items)].tree
         /\ Reading(items)[0] = [at |-> <<>>, tree |-> NoTree]
         /\ \A k \in 1 .. Len(items) :
              Reading(items)[k] = ReadItem(Reading(items)[k - 1], items[k])
         /\ \A k \in 0 .. Len(items) : Reading(items)[k] \in Places
<1> DEFINE n == Len(items)
           v == [at |-> <<>>, tree |-> NoTree]
           H == [w \in (1 .. n) \X Places |-> ReadItem(w[2], items[w[1]])]
           W(f, k) == IF k = 0 THEN v ELSE ReadItem(f[k - 1], items[k])
           R == Reading(items)
<1>1. n \in Nat /\ v \in Places /\ \A k \in 1 .. n : items[k] \in Items
  BY NoTreeIn DEF Texts
<1>2. H \in [(1 .. n) \X Places -> Places]
  <2>1. ASSUME NEW w \in (1 .. n) \X Places
        PROVE  ReadItem(w[2], items[w[1]]) \in Places
    <3>1. w[1] \in 1 .. n /\ w[2] \in Places
      OBVIOUS
    <3> HIDE DEF n
    <3> QED BY <1>1, <3>1, ReadItemIn
  <2> QED BY <2>1
<1>3. PICK g : Loop(g, n, Places, v, H)
  <2> HIDE DEF n, v, H
  <2> QED BY <1>1, <1>2, LoopExists
<1>4. /\ g \in [0 .. n -> Places] /\ g[0] = v
      /\ \A k \in 1 .. n : g[k] = ReadItem(g[k - 1], items[k])
  <2>1. /\ g \in [0 .. n -> Places] /\ g[0] = v
        /\ \A k \in 1 .. n : g[k] = H[<<k, g[k - 1]>>]
    <3> HIDE DEF n, v, H
    <3> QED BY <1>3 DEF Loop
  <2>2. ASSUME NEW k \in 1 .. n
        PROVE  g[k] = ReadItem(g[k - 1], items[k])
    <3>1. k - 1 \in 0 .. n
      BY <1>1
    <3>2. <<k, g[k - 1]>> \in (1 .. n) \X Places
      BY <2>1, <3>1
    <3> QED BY <2>1, <3>2
  <2> QED BY <2>1, <2>2
<1> HIDE DEF H
<1>5. g = [k \in 0 .. n |-> W(g, k)]
  <2>1. ASSUME NEW k \in 0 .. n
        PROVE  g[k] = W(g, k)
    <3>1. k # 0 => k \in 1 .. n
      BY <1>1
    <3> HIDE DEF n, v
    <3> QED BY <1>4, <3>1
  <2> HIDE DEF n, W
  <2> QED BY <1>4, <2>1
<1>6. R = [k \in 0 .. n |-> W(R, k)]
  <2> DEFINE P(f) == f = [k \in 0 .. n |-> W(f, k)]
  <2>1. P(g)
    BY <1>5
  <2>2. R = CHOOSE f : P(f)
    BY DEF Reading
  <2>3. P(R)
    <3> HIDE DEF P, R
    <3> QED BY <2>1, <2>2
  <2> QED BY <2>3
<1>7. Built(items) = R[n].tree
  BY DEF Built, Reading
<1> HIDE DEF R
<1>8. R[0] = v /\ \A k \in 1 .. n : R[k] = ReadItem(R[k - 1], items[k])
  <2>1. \A k \in 1 .. n : k \in 0 .. n /\ k # 0
    BY <1>1
  <2>2. 0 \in 0 .. n
    BY <1>1
  <2> HIDE DEF n, v
  <2> QED BY <1>6, <2>1, <2>2
<1>9. \A k \in 0 .. n : R[k] \in Places
  <2> DEFINE S == {k \in Nat : k <= n => R[k] \in Places}
  <2>1. 0 \in S
    BY <1>1, <1>8
  <2>2. ASSUME NEW k \in Nat, k \in S
        PROVE  k + 1 \in S
    <3> SUFFICES ASSUME k + 1 <= n
                 PROVE  R[k + 1] \in Places
      OBVIOUS
    <3>1. k + 1 \in 1 .. n /\ (k + 1) - 1 = k /\ R[k] \in Places
      BY <1>1, <2>2
    <3> HIDE DEF n
    <3> QED BY <1>1, <1>8, <3>1, ReadItemIn
  <2> HIDE DEF S
  <2>3. \A k \in Nat : k \in S
    BY <2>1, <2>2, NatSetInduction
  <2> QED BY <1>1, <2>3 DEF S
<1> QED BY <1>7, <1>8, <1>9 DEF R, n, v

\* The nodes of t that are p or below it, and t in the place of T for those of X.
Agree(p, x) == Len(p) <= Len(x) /\ \A i \in 1 .. Len(p) : x[i] = p[i]
Sub(t, p)   == {x \in DOMAIN t : Agree(p, x)}
Joined(T, t, X) == [x \in DOMAIN T \cup X |-> IF x \in X THEN t[x] ELSE T[x]]

LEMMA JoinedTwice ==
  ASSUME NEW T, NEW t, NEW X, NEW Y
  PROVE  Joined(Joined(T, t, X), t, Y) = Joined(T, t, X \cup Y)
<1> DEFINE J == Joined(T, t, X)
           K == Joined(J, t, Y)
           M == Joined(T, t, X \cup Y)
<1>1. /\ DOMAIN J = DOMAIN T \cup X
      /\ \A x \in DOMAIN T \cup X : J[x] = IF x \in X THEN t[x] ELSE T[x]
  BY DEF Joined
<1>2. K = [x \in DOMAIN J \cup Y |-> IF x \in Y THEN t[x] ELSE J[x]]
  BY DEF Joined
<1>3. M = [x \in DOMAIN T \cup (X \cup Y) |-> IF x \in X \cup Y THEN t[x] ELSE T[x]]
  BY DEF Joined
<1> HIDE DEF J, K, M
<1>4. DOMAIN J \cup Y = DOMAIN T \cup (X \cup Y)
  BY <1>1
<1>5. \A x \in DOMAIN T \cup (X \cup Y) :
         (IF x \in Y THEN t[x] ELSE J[x]) = IF x \in X \cup Y THEN t[x] ELSE T[x]
  BY <1>1
<1>6. K = M
  BY <1>2, <1>3, <1>4, <1>5
<1> QED BY <1>6 DEF K, J, M

LEMMA JoinedInsert ==
  ASSUME NEW T, NEW t, NEW p
  PROVE  Insert(T, p, t[p]) = Joined(T, t, {p})
<1>1. \A q \in DOMAIN T \cup {p} :
         (IF q = p THEN t[p] ELSE T[q]) = IF q \in {p} THEN t[q] ELSE T[q]
  OBVIOUS
<1> QED BY <1>1 DEF Insert, Joined

LEMMA JoinedIn ==
  ASSUME NEW T \in Trees, NEW t, Tree(t), NEW X \in SUBSET DOMAIN t
  PROVE  Joined(T, t, X) \in Trees
<1>1. PICK E \in SUBSET Paths : T \in [E -> State]
  BY DEF Trees
<1>2. X \subseteq Paths /\ \A x \in X : t[x] \in State
  BY DEF Tree, Paths
<1>3. E \cup X \in SUBSET Paths
  BY <1>1, <1>2
<1>4. Joined(T, t, X) \in [E \cup X -> State]
  BY <1>1, <1>2 DEF Joined
<1> QED BY <1>3, <1>4 DEF Trees

\* The nodes are closed under the taking of a beginning.
LEMMA FrameIn ==
  ASSUME NEW t, Tree(t), NEW x \in DOMAIN t, NEW m \in 1 .. Len(x)
  PROVE  Frame(x, m) \in DOMAIN t
<1>1. /\ x \in Seq(Dirs) /\ Len(x) \in Nat
      /\ \A p \in DOMAIN t \ {<<>>} : Above(p) \in DOMAIN t
      /\ \A p \in DOMAIN t : p \in Seq(Dirs)
  BY DEF Tree
<1> DEFINE S == {k \in Nat : k < Len(x) => Frame(x, Len(x) - k) \in DOMAIN t}
<1>2. 0 \in S
  <2>1. Frame(x, Len(x)) = x
    BY <1>1, FrameFacts
  <2>2. Len(x) - 0 = Len(x)
    BY <1>1
  <2> QED BY <2>1, <2>2
<1>3. ASSUME NEW k \in Nat, k \in S
      PROVE  k + 1 \in S
  <2> SUFFICES ASSUME k + 1 < Len(x)
               PROVE  Frame(x, Len(x) - (k + 1)) \in DOMAIN t
    OBVIOUS
  <2> DEFINE n == Len(x) - k
             p == Frame(x, n)
  <2>1. /\ p \in DOMAIN t /\ n \in 1 .. Len(x) /\ n > 1 /\ n - 1 \in 1 .. Len(x)
        /\ Len(x) - (k + 1) = n - 1
    BY <1>1, <1>3
  <2>2. p \in Seq(Dirs) /\ p # <<>> /\ Len(p) = n
    BY <1>1, <2>1, FrameFacts
  <2>3. Above(p) = Frame(p, n - 1)
    <3> HIDE DEF p, n
    <3> QED BY <2>2 DEF Above, Frame
  <2>4. Frame(p, n - 1) = Frame(x, n - 1)
    <3> HIDE DEF n
    <3>1. \A i \in 1 .. n : p[i] = x[i]
      BY <1>1, <2>1, SubSeqProperties DEF Frame
    <3> HIDE DEF p
    <3>2. /\ Frame(p, n - 1) \in Seq(Dirs) /\ Len(Frame(p, n - 1)) = n - 1
          /\ \A i \in 1 .. n - 1 : Frame(p, n - 1)[i] = p[i]
      BY <2>1, <2>2, SubSeqProperties DEF Frame
    <3>3. /\ Frame(x, n - 1) \in Seq(Dirs) /\ Len(Frame(x, n - 1)) = n - 1
          /\ \A i \in 1 .. n - 1 : Frame(x, n - 1)[i] = x[i]
      BY <1>1, <2>1, SubSeqProperties DEF Frame
    <3>4. \A i \in 1 .. n - 1 : p[i] = x[i]
      BY <2>1, <3>1
    <3> HIDE DEF p
    <3> QED BY <2>1, <3>2, <3>3, <3>4, SeqEqual
  <2> HIDE DEF p, n
  <2>5. Above(p) \in DOMAIN t
    BY <1>1, <2>1, <2>2
  <2> QED BY <2>1, <2>3, <2>4, <2>5
<1> HIDE DEF S
<1>4. Len(x) - m \in S
  <2>1. Len(x) - m \in Nat
    BY <1>1
  <2> QED BY <1>2, <1>3, <2>1, NatSetInduction
<1>5. Len(x) - m < Len(x) /\ Len(x) - (Len(x) - m) = m
  BY <1>1
<1> QED BY <1>4, <1>5 DEF S

\* What is below a node is the node and what is below its children.
LEMMA SubIs ==
  ASSUME NEW t, Tree(t), NEW p \in DOMAIN t
  PROVE  /\ p \in Sub(t, p)
         /\ \A x \in Sub(t, p) \ {p} :
              \E q \in DOMAIN t \ {<<>>} : Above(q) = p /\ x \in Sub(t, q)
         /\ \A q \in DOMAIN t \ {<<>>} : Above(q) = p => Sub(t, q) \subseteq Sub(t, p)
<1>1. \A x \in DOMAIN t : /\ x \in Seq(Dirs) /\ Len(x) \in Nat
  BY DEF Tree
<1>2. p \in Sub(t, p)
  BY <1>1 DEF Sub, Agree
<1>3. ASSUME NEW x \in Sub(t, p) \ {p}
      PROVE  \E q \in DOMAIN t \ {<<>>} : Above(q) = p /\ x \in Sub(t, q)
  <2> DEFINE m == Len(p) + 1
             q == Frame(x, m)
  <2>1. x \in DOMAIN t /\ Len(p) <= Len(x) /\ \A i \in 1 .. Len(p) : x[i] = p[i]
    BY <1>3 DEF Sub, Agree
  <2>2. Len(p) # Len(x)
    <3> SUFFICES ASSUME Len(p) = Len(x)
                 PROVE  x = p
      BY <1>3
    <3> QED BY <1>1, <2>1, SeqEqual
  <2>3. m \in 1 .. Len(x)
    BY <1>1, <2>1, <2>2
  <2>4. q \in DOMAIN t /\ q # <<>> /\ Len(q) = m
    <3> HIDE DEF m
    <3> QED BY <1>1, <2>1, <2>3, FrameIn, FrameFacts
  <2>5. \A i \in 1 .. m : q[i] = x[i]
    <3> HIDE DEF m
    <3> QED BY <1>1, <2>1, <2>3, SubSeqProperties DEF Frame
  <2> HIDE DEF q
  <2>6. Above(q) = p
    <3>1. /\ Above(q) \in Seq(Dirs) /\ Len(Above(q)) = m - 1
          /\ \A i \in 1 .. m - 1 : Above(q)[i] = q[i]
      BY <1>1, <2>4, AboveFacts
    <3>2. m - 1 = Len(p) /\ \A i \in 1 .. Len(p) : i \in 1 .. m
      BY <1>1
    <3>3. \A i \in 1 .. Len(p) : Above(q)[i] = p[i]
      BY <2>1, <2>5, <3>1, <3>2
    <3> QED BY <1>1, <3>1, <3>2, <3>3, SeqEqual
  <2>7. x \in Sub(t, q)
    BY <2>1, <2>3, <2>4, <2>5 DEF Sub, Agree
  <2> QED BY <2>4, <2>6, <2>7
<1>4. ASSUME NEW q \in DOMAIN t \ {<<>>}, Above(q) = p
      PROVE  Sub(t, q) \subseteq Sub(t, p)
  <2>1. Len(p) = Len(q) - 1 /\ \A i \in 1 .. Len(q) - 1 : p[i] = q[i]
    BY <1>1, <1>4, AboveFacts
  <2>2. ASSUME NEW x \in Sub(t, q)
        PROVE  x \in Sub(t, p)
    <3>1. x \in DOMAIN t /\ Len(q) <= Len(x) /\ \A i \in 1 .. Len(q) : x[i] = q[i]
      BY <2>2 DEF Sub, Agree
    <3>2. Len(x) \in Nat /\ Len(q) \in Nat
      BY <1>1, <3>1
    <3>3. Len(p) <= Len(x)
      BY <2>1, <3>1, <3>2
    <3>4. ASSUME NEW i \in 1 .. Len(p)
          PROVE  x[i] = p[i]
      <4>1. i \in 1 .. Len(q) - 1 /\ i \in 1 .. Len(q)
        BY <2>1, <3>2
      <4> QED BY <2>1, <3>1, <4>1
    <3> QED BY <3>1, <3>3, <3>4 DEF Sub, Agree
  <2> QED BY <2>2
<1> QED BY <1>2, <1>3, <1>4

\* The children, in their order.
LEMMA ChildrenFacts ==
  ASSUME NEW t, Tree(t), Small(t), NEW p \in DOMAIN t
  PROVE  LET c == Children(t, p)
         IN /\ Len(c) \in Nat
            /\ \A i \in 1 .. Len(c) :
                 /\ c[i] \in DOMAIN t /\ Above(c[i]) = p
                 /\ Len(c[i]) = Len(p) + 1
                 /\ NameOf(c[i]) \in Dirs /\ Append(p, NameOf(c[i])) = c[i]
            /\ \A q \in DOMAIN t \ {<<>>} :
                 Above(q) = p => \E i \in 1 .. Len(c) : c[i] = q
<1> DEFINE S == {q \in DOMAIN t \ {<<>>} : Above(q) = p}
           n == Cardinality(S)
           P(c) == {c[i] : i \in DOMAIN c} = S
           c == Children(t, p)
<1>1. IsFiniteSet(S)
  <2>1. S \subseteq DOMAIN t /\ IsFiniteSet(DOMAIN t)
    BY DEF Small
  <2> HIDE DEF S
  <2> QED BY <2>1, FS_Subset
<1>2. n \in Nat /\ ExistsBijection(1 .. n, S)
  <2> HIDE DEF S
  <2> QED BY <1>1, FS_CardinalityType
<1>3. PICK b : b \in [1 .. n -> S] /\ \A q \in S : \E i \in 1 .. n : b[i] = q
  <2> HIDE DEF S, n
  <2> QED BY <1>2 DEF ExistsBijection, Bijection, Surjection
<1>4. P(b)
  <2> HIDE DEF S, n
  <2> QED BY <1>3
<1>5. c \in [1 .. n -> S] /\ P(c)
  <2>1. c = CHOOSE x \in [1 .. n -> S] : P(x)
    BY DEF Children
  <2> HIDE DEF P, S, n, c
  <2> QED BY <1>3, <1>4, <2>1
<1>6. Len(c) = n /\ DOMAIN c = 1 .. n
  <2> HIDE DEF S, n, c
  <2>1. c \in Seq(S)
    BY <1>2, <1>5, IsASeq
  <2> QED BY <1>2, <1>5, <2>1, LenProperties
<1> HIDE DEF c
<1>7. ASSUME NEW i \in 1 .. n
      PROVE  /\ c[i] \in DOMAIN t /\ Above(c[i]) = p
             /\ Len(c[i]) = Len(p) + 1
             /\ NameOf(c[i]) \in Dirs /\ Append(p, NameOf(c[i])) = c[i]
  <2>1. c[i] \in DOMAIN t \ {<<>>} /\ Above(c[i]) = p
    <3>1. c[i] \in S
      <4> HIDE DEF S, n
      <4> QED BY <1>5
    <3> QED BY <3>1
  <2>2. PICK q : q = c[i]
    OBVIOUS
  <2>3. q \in Seq(Dirs) /\ q # <<>> /\ p \in Seq(Dirs) /\ Above(q) = p
    BY <2>1, <2>2 DEF Tree
  <2>4. /\ Len(q) \in Nat \ {0} /\ Len(p) = Len(q) - 1
        /\ \A j \in 1 .. Len(q) - 1 : p[j] = q[j]
    BY <2>3, AboveFacts
  <2>5. NameOf(q) = q[Len(q)] /\ NameOf(q) \in Dirs
    BY <2>3, <2>4 DEF NameOf
  <2>6. /\ Append(p, NameOf(q)) \in Seq(Dirs)
        /\ Len(Append(p, NameOf(q))) = Len(q)
        /\ \A j \in 1 .. Len(q) : Append(p, NameOf(q))[j] = q[j]
    <3>1. /\ Append(p, NameOf(q)) \in Seq(Dirs)
          /\ Len(Append(p, NameOf(q))) = Len(p) + 1
          /\ \A j \in 1 .. Len(p) : Append(p, NameOf(q))[j] = p[j]
          /\ Append(p, NameOf(q))[Len(p) + 1] = NameOf(q)
      BY <2>3, <2>5, AppendProperties
    <3>2. Len(p) + 1 = Len(q)
      BY <2>4
    <3>3. ASSUME NEW j \in 1 .. Len(q)
          PROVE  Append(p, NameOf(q))[j] = q[j]
      <4>1. CASE j = Len(q)
        BY <2>5, <3>1, <3>2, <4>1
      <4>2. CASE j # Len(q)
        <5>1. j \in 1 .. Len(q) - 1 /\ j \in 1 .. Len(p)
          BY <2>4, <4>2
        <5> QED BY <2>4, <3>1, <5>1
      <4> QED BY <4>1, <4>2
    <3> QED BY <3>1, <3>2, <3>3
  <2>7. Append(p, NameOf(q)) = q
    BY <2>3, <2>6, SeqEqual
  <2> QED BY <2>1, <2>2, <2>4, <2>5, <2>7
<1>8. ASSUME NEW q \in DOMAIN t \ {<<>>}, Above(q) = p
      PROVE  \E i \in 1 .. n : c[i] = q
  <2>1. q \in S
    BY <1>8
  <2> HIDE DEF S, n
  <2> QED BY <1>5, <1>6, <2>1
<1> HIDE DEF n, S
<1> QED BY <1>2, <1>6, <1>7, <1>8 DEF c

\* What is saved of p before the end mark, up to each child, where f is what is
\* saved of the children; and what is saved of each node.
TextTo(t, p, f) ==
  LET c == Children(t, p)
  IN CHOOSE g : g = [i \in 0 .. Len(c) |->
       IF i = 0 THEN <<t[p]>>
       ELSE g[i - 1] \o <<Plus(NameOf(c[i]))>> \o f[c[i]]]
Node(t, p, f) == TextTo(t, p, f)[Len(Children(t, p))] \o <<Minus>>
SavedTo(t)    == CHOOSE f : f = [p \in DOMAIN t |-> Node(t, p, f)]

LEMMA SavedIs == \A t, p : Saved(t, p) = SavedTo(t)[p]
BY DEF Saved, SavedTo, Node, TextTo

LEMMA TextToRec ==
  ASSUME NEW t, Tree(t), Small(t), NEW p \in DOMAIN t, NEW f,
         \A i \in 1 .. Len(Children(t, p)) : f[Children(t, p)[i]] \in Texts
  PROVE  LET c == Children(t, p)
             g == TextTo(t, p, f)
         IN /\ g[0] = <<t[p]>>
            /\ \A i \in 1 .. Len(c) :
                 g[i] = (g[i - 1] \o <<Plus(NameOf(c[i]))>>) \o f[c[i]]
            /\ \A i \in 0 .. Len(c) : g[i] \in Texts
<1> DEFINE c == Children(t, p)
           n == Len(c)
           v == <<t[p]>>
           U(x, i) == (x \o <<Plus(NameOf(c[i]))>>) \o f[c[i]]
           H == [w \in (1 .. n) \X Texts |-> U(w[2], w[1])]
           W(g, i) == IF i = 0 THEN v ELSE U(g[i - 1], i)
           G == TextTo(t, p, f)
<1>1. n \in Nat /\ v \in Texts
  <2>1. t[p] \in Items
    BY DEF Tree, Items
  <2> QED BY <2>1, ChildrenFacts DEF Texts
<1>2. ASSUME NEW x \in Texts, NEW i \in 1 .. n
      PROVE  U(x, i) \in Texts
  <2>1. Plus(NameOf(c[i])) \in Items
    BY ChildrenFacts DEF Items
  <2>2. <<Plus(NameOf(c[i]))>> \in Texts
    <3> HIDE DEF c, n
    <3> QED BY <2>1 DEF Texts
  <2>3. f[c[i]] \in Texts
    OBVIOUS
  <2> HIDE DEF c, n
  <2> QED BY <2>2, <2>3, ConcatProperties DEF Texts
<1> HIDE DEF U, c, n
<1>3. H \in [(1 .. n) \X Texts -> Texts]
  BY <1>2
<1>4. PICK g : Loop(g, n, Texts, v, H)
  <2> HIDE DEF v, H
  <2> QED BY <1>1, <1>3, LoopExists
<1>5. /\ g \in [0 .. n -> Texts] /\ g[0] = v
      /\ \A i \in 1 .. n : g[i] = U(g[i - 1], i)
  <2>1. /\ g \in [0 .. n -> Texts] /\ g[0] = v
        /\ \A i \in 1 .. n : g[i] = H[<<i, g[i - 1]>>]
    <3> HIDE DEF v, H
    <3> QED BY <1>4 DEF Loop
  <2>2. ASSUME NEW i \in 1 .. n
        PROVE  g[i] = U(g[i - 1], i)
    <3>1. i - 1 \in 0 .. n
      BY <1>1
    <3>2. <<i, g[i - 1]>> \in (1 .. n) \X Texts
      BY <2>1, <3>1
    <3> QED BY <2>1, <3>2
  <2> QED BY <2>1, <2>2
<1> HIDE DEF H
<1>6. g = [i \in 0 .. n |-> W(g, i)]
  <2>1. ASSUME NEW i \in 0 .. n
        PROVE  g[i] = W(g, i)
    <3>1. i # 0 => i \in 1 .. n
      BY <1>1
    <3> HIDE DEF v
    <3> QED BY <1>5, <3>1
  <2> HIDE DEF W
  <2> QED BY <1>5, <2>1
<1>7. G = [i \in 0 .. n |-> W(G, i)]
  <2> DEFINE P(h) == h = [i \in 0 .. n |-> W(h, i)]
  <2>1. P(g)
    BY <1>6
  <2>2. G = CHOOSE h : P(h)
    BY DEF TextTo, U, c, n
  <2>3. P(G)
    <3> HIDE DEF P, G
    <3> QED BY <2>1, <2>2
  <2> QED BY <2>3
<1> HIDE DEF G
<1>8. G[0] = v /\ \A i \in 1 .. n : G[i] = U(G[i - 1], i)
  <2>1. \A i \in 1 .. n : i \in 0 .. n /\ i # 0
    BY <1>1
  <2>2. 0 \in 0 .. n
    BY <1>1
  <2> HIDE DEF v
  <2> QED BY <1>7, <2>1, <2>2
<1> HIDE DEF W, v
<1>9. \A i \in 0 .. n : G[i] \in Texts
  <2> DEFINE S == {i \in Nat : i <= n => G[i] \in Texts}
  <2>1. 0 \in S
    BY <1>1, <1>8
  <2>2. ASSUME NEW i \in Nat, i \in S
        PROVE  i + 1 \in S
    <3> SUFFICES ASSUME i + 1 <= n
                 PROVE  G[i + 1] \in Texts
      OBVIOUS
    <3>1. i + 1 \in 1 .. n /\ (i + 1) - 1 = i /\ G[i] \in Texts
      BY <1>1, <2>2
    <3>2. G[i + 1] = U(G[i], i + 1)
      BY <1>8, <3>1
    <3> QED BY <1>2, <3>1, <3>2
  <2> HIDE DEF S
  <2>3. \A i \in Nat : i \in S
    BY <2>1, <2>2, NatSetInduction
  <2> QED BY <1>1, <2>3 DEF S
<1> QED BY <1>8, <1>9 DEF G, U, c, n, v

\* It depends on what is saved of the children.
LEMMA TextToSame ==
  ASSUME NEW t, Tree(t), Small(t), NEW p \in DOMAIN t, NEW f, NEW h,
         \A q \in DOMAIN t : Len(q) = Len(p) + 1 => f[q] = h[q]
  PROVE  Node(t, p, f) = Node(t, p, h)
<1> DEFINE c == Children(t, p)
           n == Len(c)
           X(x, i, g) == x \o <<Plus(NameOf(c[i]))>> \o g[c[i]]
           W(g, i) == IF i = 0 THEN <<t[p]>> ELSE X(g[i - 1], i, f)
           Z(g, i) == IF i = 0 THEN <<t[p]>> ELSE X(g[i - 1], i, h)
<1>1. n \in Nat /\ \A i \in 1 .. n : f[c[i]] = h[c[i]]
  BY ChildrenFacts
<1>2. ASSUME NEW g, NEW i \in 0 .. n
      PROVE  W(g, i) = Z(g, i)
  <2>1. i # 0 => i \in 1 .. n
    BY <1>1
  <2> HIDE DEF n, c
  <2> QED BY <1>1, <2>1
<1>3. ASSUME NEW g
      PROVE  [i \in 0 .. n |-> W(g, i)] = [i \in 0 .. n |-> Z(g, i)]
  <2> HIDE DEF W, Z
  <2> QED BY <1>2
<1>4. (CHOOSE g : g = [i \in 0 .. n |-> W(g, i)])
        = CHOOSE g : g = [i \in 0 .. n |-> Z(g, i)]
  <2> HIDE DEF W, Z, n
  <2> QED BY <1>3
<1>5. TextTo(t, p, f) = TextTo(t, p, h)
  BY <1>4 DEF TextTo
<1> QED BY <1>5 DEF Node

LEMMA NodeIn ==
  ASSUME NEW t, Tree(t), Small(t), NEW p \in DOMAIN t, NEW f,
         \A q \in DOMAIN t : Len(q) = Len(p) + 1 => f[q] \in Texts
  PROVE  Node(t, p, f) \in Texts
<1>1. ASSUME NEW i \in 1 .. Len(Children(t, p))
      PROVE  f[Children(t, p)[i]] \in Texts
  <2>1. /\ Children(t, p)[i] \in DOMAIN t
        /\ Len(Children(t, p)[i]) = Len(p) + 1
    BY ChildrenFacts
  <2> QED BY <2>1
<1>2. Len(Children(t, p)) \in 0 .. Len(Children(t, p))
  BY ChildrenFacts
<1>3. TextTo(t, p, f)[Len(Children(t, p))] \in Texts
  BY <1>1, <1>2, TextToRec
<1>4. <<Minus>> \in Texts
  BY DEF Texts, Items
<1> QED BY <1>3, <1>4, ConcatProperties DEF Node, Texts

LEMMA SavedRec ==
  ASSUME NEW t, Tree(t), Small(t)
  PROVE  \A p \in DOMAIN t : /\ SavedTo(t)[p] = Node(t, p, SavedTo(t))
                             /\ SavedTo(t)[p] \in Texts
<1> DEFINE D == DOMAIN t
           V == [D -> Texts]
           step(f) == [p \in D |-> Node(t, p, f)]
           F == SavedTo(t)
<1>1. PICK l \in Nat : \A p \in D : Len(p) <= l
  BY DEF Small
<1>2. \A p \in D : Len(p) \in Nat
  BY DEF Tree
<1>3. \A f \in V : step(f) \in V
  BY NodeIn
<1> DEFINE H == [w \in (1 .. l + 2) \X V |-> step(w[2])]
           v == [p \in D |-> <<>>]
<1>4. v \in V /\ H \in [(1 .. l + 2) \X V -> V]
  <2>1. <<>> \in Texts
    BY DEF Texts
  <2> HIDE DEF D, step
  <2> QED BY <1>3, <2>1
<1>5. PICK g : Loop(g, l + 2, V, v, H)
  <2> HIDE DEF V, v, H
  <2>1. l + 2 \in Nat
    BY <1>1
  <2> QED BY <1>4, <2>1, LoopExists
<1>6. /\ g \in [0 .. l + 2 -> V]
      /\ \A k \in 1 .. l + 2 : g[k] = step(g[k - 1])
  <2>1. /\ g \in [0 .. l + 2 -> V]
        /\ \A k \in 1 .. l + 2 : g[k] = H[<<k, g[k - 1]>>]
    <3> HIDE DEF V, v, H
    <3> QED BY <1>5 DEF Loop
  <2>2. ASSUME NEW k \in 1 .. l + 2
        PROVE  g[k] = step(g[k - 1])
    <3>1. k - 1 \in 0 .. l + 2
      BY <1>1
    <3>2. <<k, g[k - 1]>> \in (1 .. l + 2) \X V
      <4> HIDE DEF V
      <4> QED BY <2>1, <3>1
    <3> HIDE DEF V, step
    <3> QED BY <2>1, <3>2
  <2> QED BY <2>1, <2>2
<1> HIDE DEF H, v
<1> DEFINE S == {k \in Nat : k <= l + 1 =>
                   \A p \in D : Len(p) + k > l => g[k + 1][p] = g[k][p]}
<1>7. 0 \in S
  <2>1. \A p \in D : ~(Len(p) + 0 > l)
    BY <1>1, <1>2
  <2> QED BY <2>1
<1>8. ASSUME NEW k \in Nat, k \in S
      PROVE  k + 1 \in S
  <2> SUFFICES ASSUME k + 1 <= l + 1, NEW p \in D, Len(p) + (k + 1) > l
               PROVE  g[(k + 1) + 1][p] = g[k + 1][p]
    OBVIOUS
  <2>1. /\ (k + 1) + 1 \in 1 .. l + 2 /\ ((k + 1) + 1) - 1 = k + 1
        /\ k + 1 \in 1 .. l + 2 /\ (k + 1) - 1 = k
    BY <1>1
  <2>2. g[(k + 1) + 1] = step(g[k + 1]) /\ g[k + 1] = step(g[k])
    <3> HIDE DEF step
    <3> QED BY <1>6, <2>1
  <2>3. \A q \in D : Len(q) = Len(p) + 1 => g[k + 1][q] = g[k][q]
    BY <1>1, <1>2, <1>8
  <2>4. Node(t, p, g[k + 1]) = Node(t, p, g[k])
    BY <2>3, TextToSame
  <2>5. g[(k + 1) + 1][p] = Node(t, p, g[k + 1]) /\ g[k + 1][p] = Node(t, p, g[k])
    BY <2>2
  <2> QED BY <2>4, <2>5
<1> DEFINE h == g[l + 1]
<1>9. h = step(h)
  <2>1. l + 1 \in Nat /\ l + 1 \in S
    <3> HIDE DEF S
    <3> QED BY <1>1, <1>7, <1>8, NatSetInduction
  <2>2. \A p \in D : g[(l + 1) + 1][p] = g[l + 1][p]
    BY <1>1, <1>2, <2>1
  <2>3. /\ (l + 1) + 1 \in 1 .. l + 2 /\ ((l + 1) + 1) - 1 = l + 1
        /\ l + 1 \in 0 .. l + 2 /\ (l + 1) + 1 \in 0 .. l + 2
    BY <1>1
  <2>4. g[(l + 1) + 1] = step(g[l + 1])
    <3> HIDE DEF step
    <3> QED BY <1>6, <2>3
  <2>5. g[(l + 1) + 1] \in V /\ g[l + 1] \in V
    <3> HIDE DEF V
    <3> QED BY <1>6, <2>3
  <2>6. g[(l + 1) + 1] = g[l + 1]
    <3> HIDE DEF D
    <3> QED BY <2>2, <2>5
  <2> QED BY <2>4, <2>6
<1>10. F = step(F)
  <2> DEFINE P(f) == f = step(f)
  <2>1. P(h)
    BY <1>9
  <2>2. F = CHOOSE f : P(f)
    BY DEF SavedTo
  <2>3. P(F)
    <3> HIDE DEF P, F, h
    <3> QED BY <2>1, <2>2
  <2> QED BY <2>3
<1> HIDE DEF F
<1>11. \A p \in D : F[p] = Node(t, p, F)
  <2> DEFINE N(p) == Node(t, p, F)
  <2>1. F = [p \in D |-> N(p)]
    BY <1>10
  <2>2. \A p \in D : F[p] = N(p)
    <3> HIDE DEF N
    <3> QED BY <2>1
  <2> QED BY <2>2
<1> DEFINE R == {k \in Nat : \A p \in D : Len(p) + k > l => F[p] \in Texts}
<1>12. 0 \in R
  <2>1. \A p \in D : ~(Len(p) + 0 > l)
    BY <1>1, <1>2
  <2> QED BY <2>1
<1>13. ASSUME NEW k \in Nat, k \in R
       PROVE  k + 1 \in R
  <2> SUFFICES ASSUME NEW p \in D, Len(p) + (k + 1) > l
               PROVE  F[p] \in Texts
    OBVIOUS
  <2>1. \A q \in D : Len(q) = Len(p) + 1 => F[q] \in Texts
    BY <1>1, <1>2, <1>13
  <2>2. Node(t, p, F) \in Texts
    BY <2>1, NodeIn
  <2> QED BY <1>11, <2>2
<1>14. \A p \in D : F[p] \in Texts
  <2>1. l + 1 \in Nat /\ l + 1 \in R
    <3> HIDE DEF R
    <3> QED BY <1>1, <1>12, <1>13, NatSetInduction
  <2> QED BY <1>1, <1>2, <2>1
<1> QED BY <1>11, <1>14 DEF F

\* The items w are in s after the first k.
At(s, k, w) == k + Len(w) <= Len(s) /\ \A j \in 1 .. Len(w) : s[k + j] = w[j]

\* As a predicate, for the provers to find its instances.
Cat(w, a, b) == w = a \o b

LEMMA AtParts ==
  ASSUME NEW s \in Texts, NEW k \in Nat, NEW a \in Texts, NEW b \in Texts,
         NEW w, Cat(w, a, b), At(s, k, w)
  PROVE  /\ At(s, k, a) /\ At(s, k + Len(a), b)
         /\ Len(a) \in Nat /\ Len(b) \in Nat /\ Len(w) = Len(a) + Len(b)
<1>1. /\ Len(a) \in Nat /\ Len(b) \in Nat /\ Len(s) \in Nat
      /\ Len(w) = Len(a) + Len(b)
      /\ \A j \in 1 .. Len(a) + Len(b) :
           w[j] = IF j <= Len(a) THEN a[j] ELSE b[j - Len(a)]
  BY ConcatProperties DEF Texts, Cat
<1>2. /\ k + (Len(a) + Len(b)) <= Len(s)
      /\ \A j \in 1 .. Len(a) + Len(b) : s[k + j] = w[j]
  BY <1>1 DEF At
<1>3. At(s, k, a)
  <2>1. ASSUME NEW j \in 1 .. Len(a)
        PROVE  s[k + j] = a[j]
    <3>1. j \in 1 .. Len(a) + Len(b) /\ j <= Len(a)
      BY <1>1
    <3> QED BY <1>1, <1>2, <3>1
  <2> QED BY <1>1, <1>2, <2>1 DEF At
<1>4. At(s, k + Len(a), b)
  <2>1. ASSUME NEW j \in 1 .. Len(b)
        PROVE  s[(k + Len(a)) + j] = b[j]
    <3> DEFINE m == Len(a) + j
    <3>1. /\ m \in 1 .. Len(a) + Len(b) /\ ~(m <= Len(a)) /\ m - Len(a) = j
          /\ (k + Len(a)) + j = k + m
      BY <1>1
    <3> HIDE DEF m
    <3>2. s[k + m] = b[m - Len(a)]
      BY <1>1, <1>2, <3>1
    <3> QED BY <3>1, <3>2
  <2> QED BY <1>1, <1>2, <2>1 DEF At
<1> QED BY <1>1, <1>3, <1>4

LEMMA AtOne ==
  ASSUME NEW s \in Texts, NEW k \in Nat, NEW x, At(s, k, <<x>>)
  PROVE  /\ k + 1 \in 1 .. Len(s) /\ s[k + 1] = x /\ Len(<<x>>) = 1
         /\ Reading(s)[k + 1] = ReadItem(Reading(s)[k], x)
<1>1. Len(<<x>>) = 1 /\ <<x>>[1] = x
  OBVIOUS
<1>2. k + 1 <= Len(s) /\ s[k + 1] = x /\ Len(s) \in Nat
  BY <1>1 DEF At, Texts
<1>3. k + 1 \in 1 .. Len(s) /\ (k + 1) - 1 = k
  BY <1>2
<1> QED BY <1>1, <1>2, <1>3, ReadingRec

\* Where the items of p are in s, they are read as p and all below it.
ReadsNode(s, t, p) ==
  \A k \in Nat, T \in Trees :
    /\ At(s, k, SavedTo(t)[p])
    /\ Reading(s)[k] = [at |-> p, tree |-> T]
    => Reading(s)[k + Len(SavedTo(t)[p])]
         = [at |-> Above(p), tree |-> Joined(T, t, Sub(t, p))]

LEMMA NodeRead ==
  ASSUME NEW t, Tree(t), Small(t), NEW s \in Texts, NEW p \in DOMAIN t,
         \A q \in DOMAIN t : Len(q) = Len(p) + 1 => ReadsNode(s, t, q)
  PROVE  ReadsNode(s, t, p)
<1> DEFINE F == SavedTo(t)
           c == Children(t, p)
           n == Len(c)
           g == TextTo(t, p, F)
           r == Reading(s)
           X(i) == {x \in DOMAIN t : x = p \/ \E j \in 1 .. i : x \in Sub(t, c[j])}
<1>1. /\ n \in Nat
      /\ \A i \in 1 .. n : /\ c[i] \in DOMAIN t /\ Above(c[i]) = p
                           /\ Len(c[i]) = Len(p) + 1
                           /\ NameOf(c[i]) \in Dirs
                           /\ Append(p, NameOf(c[i])) = c[i]
      /\ \A q \in DOMAIN t \ {<<>>} :
           Above(q) = p => \E i \in 1 .. n : c[i] = q
  BY ChildrenFacts
<1>2. F[p] = g[n] \o <<Minus>> /\ F[p] \in Texts /\ \A q \in DOMAIN t : F[q] \in Texts
  BY SavedRec DEF Node
<1>3. /\ g[0] = <<t[p]>>
      /\ \A i \in 1 .. n : g[i] = (g[i - 1] \o <<Plus(NameOf(c[i]))>>) \o F[c[i]]
      /\ \A i \in 0 .. n : g[i] \in Texts
  <2>1. \A i \in 1 .. Len(Children(t, p)) : F[Children(t, p)[i]] \in Texts
    BY <1>1, <1>2
  <2> HIDE DEF F
  <2> QED BY <2>1, TextToRec
<1>4. p \in Paths /\ t[p] \in State
  BY DEF Tree, Paths
<1> HIDE DEF F, c, n, g
<1> SUFFICES ASSUME NEW k \in Nat, NEW T \in Trees, At(s, k, F[p]),
                    r[k] = [at |-> p, tree |-> T]
             PROVE  r[k + Len(F[p])]
                      = [at |-> Above(p), tree |-> Joined(T, t, Sub(t, p))]
  BY DEF ReadsNode, F
<1> DEFINE Y(i) == [at |-> p, tree |-> Joined(T, t, X(i))]
<1>5. ASSUME NEW i \in 0 .. n
      PROVE  Y(i) \in Places /\ Joined(T, t, X(i)) \in Trees
  <2>1. X(i) \in SUBSET DOMAIN t
    OBVIOUS
  <2> HIDE DEF X
  <2>2. Joined(T, t, X(i)) \in Trees
    BY <2>1, JoinedIn
  <2> QED BY <1>4, <2>2 DEF Places
<1> DEFINE S == {i \in Nat : i <= n /\ At(s, k, g[i]) => r[k + Len(g[i])] = Y(i)}
<1>6. 0 \in S
  <2> SUFFICES ASSUME At(s, k, g[0])
               PROVE  r[k + Len(g[0])] = Y(0)
    OBVIOUS
  <2>1. Len(<<t[p]>>) = 1 /\ r[k + 1] = ReadItem(r[k], t[p])
    <3>1. At(s, k, <<t[p]>>) /\ t[p] \in Items
      BY <1>3, <1>4 DEF Items
    <3>2. Reading(s)[k + 1] = ReadItem(Reading(s)[k], t[p])
      BY ONLY s \in Texts, k \in Nat, <3>1, AtOne
    <3> QED BY <3>2
  <2>2. [at |-> p, tree |-> T] \in Places
    BY <1>4 DEF Places
  <2>3. r[k + 1] = [at |-> p, tree |-> Insert(T, p, t[p])]
    <3> HIDE DEF r
    <3>1. [at |-> p, tree |-> T].at = p /\ [at |-> p, tree |-> T].tree = T
      OBVIOUS
    <3>2. ReadItem([at |-> p, tree |-> T], t[p])
            = [at |-> p, tree |-> Insert(T, p, t[p])]
      BY <1>4, <2>2, <3>1, ReadsState
    <3> QED BY <2>1, <3>2
  <2>4. X(0) = {p}
    OBVIOUS
  <2>5. Insert(T, p, t[p]) = Joined(T, t, X(0))
    BY <2>4, JoinedInsert
  <2> QED BY <1>3, <2>1, <2>3, <2>5
<1>7. ASSUME NEW i \in Nat, i \in S
      PROVE  i + 1 \in S
  <2> SUFFICES ASSUME i + 1 <= n, At(s, k, g[i + 1])
               PROVE  r[k + Len(g[i + 1])] = Y(i + 1)
    OBVIOUS
  <2> DEFINE q == c[i + 1]
             a == g[i]
             b == <<Plus(NameOf(q))>>
  <2>1. i + 1 \in 1 .. n /\ (i + 1) - 1 = i /\ i \in 0 .. n /\ i <= n
    <3>1. n \in Nat /\ i \in Nat /\ i + 1 <= n
      BY <1>1
    <3> HIDE DEF S
    <3> QED BY ONLY <3>1
  <2>2. /\ q \in DOMAIN t /\ Above(q) = p /\ Len(q) = Len(p) + 1
        /\ NameOf(q) \in Dirs /\ Append(p, NameOf(q)) = q
    BY <1>1, <2>1
  <2> DEFINE u == a \o b
  <2>3. /\ g[i + 1] = u \o F[q] /\ Cat(g[i + 1], u, F[q])
        /\ a \in Texts /\ F[q] \in Texts
    BY <1>2, <1>3, <2>1, <2>2 DEF Cat
  <2>4. b \in Texts
    BY <2>2 DEF Texts, Items
  <2>5. u \in Texts /\ Cat(u, a, b)
    <3> HIDE DEF q, a, b
    <3> QED BY <2>3, <2>4, ConcatProperties DEF Texts, Cat
  <2> HIDE DEF q, a, b, u
  <2>6. /\ At(s, k, u) /\ At(s, k + Len(u), F[q])
        /\ Len(g[i + 1]) = Len(u) + Len(F[q]) /\ Len(F[q]) \in Nat
    BY <2>3, <2>5, AtParts
  <2>7. /\ At(s, k, a) /\ At(s, k + Len(a), b)
        /\ Len(u) = Len(a) + Len(b) /\ Len(a) \in Nat
    BY <2>3, <2>4, <2>5, <2>6, AtParts
  <2>8. k + Len(a) \in Nat /\ Len(b) = 1
    BY <2>7 DEF b
  <2>9. r[k + Len(a)] = Y(i)
    BY <1>7, <2>1, <2>7 DEF a
  <2>10. r[(k + Len(a)) + 1] = ReadItem(r[k + Len(a)], Plus(NameOf(q)))
    <3> HIDE DEF r
    <3>1. At(s, k + Len(a), <<Plus(NameOf(q))>>)
      BY <2>7 DEF b
    <3> QED BY <2>8, <3>1, AtOne DEF r
  <2> DEFINE m == (k + Len(a)) + 1
             J == Joined(T, t, X(i))
  <2>11. r[m] = [at |-> q, tree |-> J]
    <3>1. Y(i) \in Places /\ Y(i).at = p /\ Y(i).tree = J
      BY <1>5, <2>1
    <3>2. ReadItem(Y(i), Plus(NameOf(q))) = [at |-> Append(p, NameOf(q)), tree |-> J]
      <4> HIDE DEF Y, J
      <4> QED BY <2>2, <3>1, ReadsPlus
    <3> HIDE DEF Y, J
    <3> QED BY <2>2, <2>9, <2>10, <3>2
  <2>12. /\ m \in Nat /\ m = k + Len(u) /\ J \in Trees
         /\ k + Len(g[i + 1]) = m + Len(F[q])
    <3>1. J \in Trees
      BY <1>5, <2>1
    <3>2. /\ k \in Nat /\ Len(a) \in Nat /\ Len(b) = 1
          /\ Len(u) = Len(a) + Len(b) /\ Len(F[q]) \in Nat
          /\ Len(g[i + 1]) = Len(u) + Len(F[q])
      BY <2>6, <2>7, <2>8
    <3> HIDE DEF J, S, Y, X, r
    <3>3. m \in Nat
      BY ONLY <3>2
    <3>4. m = k + Len(u)
      BY ONLY <3>2
    <3>5. k + Len(g[i + 1]) = m + Len(F[q])
      <4>1. PICK x, y, z : x = Len(u) /\ y = Len(F[q]) /\ z = Len(g[i + 1])
        OBVIOUS
      <4>2. x \in Nat /\ y \in Nat /\ k \in Nat /\ z = x + y /\ m = k + x
        BY ONLY <3>2, <3>4, <4>1
      <4>3. k + z = m + y
        <5> HIDE DEF m
        <5> QED BY ONLY <4>2
      <4> QED BY ONLY <4>1, <4>3
    <3> QED BY ONLY <3>1, <3>3, <3>4, <3>5
  <2> HIDE DEF m, J
  <2>13. r[m + Len(F[q])] = [at |-> p, tree |-> Joined(J, t, Sub(t, q))]
    <3>1. ReadsNode(s, t, q) /\ At(s, m, F[q])
      BY <2>2, <2>6, <2>12
    <3> QED BY <2>2, <2>11, <2>12, <3>1 DEF ReadsNode, F
  <2>14. X(i + 1) = X(i) \cup Sub(t, q)
    <3>1. \A j : j \in 1 .. i + 1 <=> j \in 1 .. i \/ j = i + 1
      BY <2>1
    <3>2. Sub(t, q) \subseteq DOMAIN t
      BY DEF Sub
    <3> QED BY <3>1, <3>2 DEF q
  <2>15. Joined(J, t, Sub(t, q)) = Joined(T, t, X(i + 1))
    <3> HIDE DEF X
    <3> QED BY <2>14, JoinedTwice DEF J
  <2> QED BY <2>12, <2>13, <2>15
<1>8. X(n) = Sub(t, p)
  <2>1. ASSUME NEW x \in Sub(t, p), x # p
        PROVE  \E j \in 1 .. n : x \in Sub(t, c[j])
    <3>1. PICK q \in DOMAIN t \ {<<>>} : Above(q) = p /\ x \in Sub(t, q)
      BY <2>1, SubIs
    <3>2. PICK j \in 1 .. n : c[j] = q
      BY <1>1, <3>1
    <3> QED BY <3>1, <3>2
  <2>2. ASSUME NEW j \in 1 .. n
        PROVE  Sub(t, c[j]) \subseteq Sub(t, p)
    <3>1. c[j] \in DOMAIN t /\ Above(c[j]) = p /\ Len(c[j]) = Len(p) + 1
      BY <1>1
    <3>2. c[j] # <<>>
      <4>1. Len(p) \in Nat
        BY <1>4 DEF Paths
      <4>2. Len(c[j]) # 0
        BY <3>1, <4>1
      <4> QED BY <4>2
    <3> QED BY <3>1, <3>2, SubIs
  <2>3. p \in Sub(t, p) /\ Sub(t, p) \subseteq DOMAIN t
    BY SubIs DEF Sub
  <2> QED BY <2>1, <2>2, <2>3
<1>9. /\ At(s, k, g[n]) /\ At(s, k + Len(g[n]), <<Minus>>)
      /\ Len(F[p]) = Len(g[n]) + 1 /\ Len(g[n]) \in Nat
  <2>1. g[n] \in Texts
    <3>1. n \in 0 .. n
      BY <1>1
    <3> QED BY <1>3, <3>1
  <2> DEFINE e == <<Minus>>
  <2>2. e \in Texts /\ Len(e) = 1
    BY DEF Texts, Items
  <2>3. At(s, k, F[p]) /\ Cat(F[p], g[n], e)
    BY <1>2 DEF Cat
  <2> HIDE DEF e
  <2>4. /\ At(s, k, g[n]) /\ At(s, k + Len(g[n]), e)
        /\ Len(g[n]) \in Nat /\ Len(F[p]) = Len(g[n]) + Len(e)
    <3> HIDE DEF S, Y, X, r
    <3>1. s \in Texts /\ k \in Nat
      OBVIOUS
    <3>2. PICK x, y : x = g[n] /\ y = F[p]
      OBVIOUS
    <3>3. x \in Texts /\ e \in Texts /\ At(s, k, y) /\ Cat(y, x, e)
      BY ONLY <2>1, <2>2, <2>3, <3>2
    <3>4. /\ At(s, k, x) /\ At(s, k + Len(x), e)
          /\ Len(x) \in Nat /\ Len(y) = Len(x) + Len(e)
      BY ONLY <3>1, <3>3, AtParts
    <3> QED BY ONLY <3>2, <3>4
  <2> QED BY <2>2, <2>4 DEF e
<1>10. r[k + Len(g[n])] = Y(n)
  <2> HIDE DEF S
  <2>1. n \in S /\ n <= n
    BY <1>1, <1>6, <1>7, NatSetInduction
  <2>2. n <= n /\ At(s, k, g[n]) => r[k + Len(g[n])] = Y(n)
    <3> HIDE DEF Y, r
    <3> QED BY <2>1 DEF S
  <2> QED BY <1>9, <2>1, <2>2
<1>11. r[(k + Len(g[n])) + 1] = ReadItem(r[k + Len(g[n])], Minus)
  <2>1. k + Len(g[n]) \in Nat
    BY <1>9
  <2> QED BY <1>9, <2>1, AtOne
<1>12. ReadItem(Y(n), Minus) = [at |-> Above(p), tree |-> Joined(T, t, X(n))]
  <2>1. /\ Y(n) \in Places
        /\ Y(n).at = p /\ Y(n).tree = Joined(T, t, X(n))
    <3>1. n \in 0 .. n
      BY <1>1
    <3>2. Y(n) \in Places
      BY <1>5, <3>1
    <3> HIDE DEF X
    <3> QED BY <3>2
  <2> HIDE DEF Y, X
  <2> QED BY <2>1, ReadsMinus
<1>13. (k + Len(g[n])) + 1 = k + Len(F[p])
  BY <1>9
<1> HIDE DEF Y, X, r
<1> QED BY <1>8, <1>10, <1>11, <1>12, <1>13

\* tree_build reads from what tree_save wrote the tree that was saved: every
\* node at its place, with its state.
THEOREM SavedIsRead ==
  ASSUME NEW t, Tree(t), Small(t)
  PROVE  Built(Saved(t, <<>>)) = t
<1> DEFINE D == DOMAIN t
           F == SavedTo(t)
           s == F[<<>>]
<1>1. PICK l \in Nat : \A p \in D : Len(p) <= l
  BY DEF Small
<1>2. <<>> \in D /\ \A p \in D : p \in Seq(Dirs) /\ Len(p) \in Nat
  BY DEF Tree
<1>3. s \in Texts /\ Len(s) \in Nat
  BY <1>2, SavedRec DEF Texts
<1> HIDE DEF F, s
<1> DEFINE S == {k \in Nat : \A p \in D : Len(p) + k > l => ReadsNode(s, t, p)}
<1>4. 0 \in S
  <2>1. \A p \in D : ~(Len(p) + 0 > l)
    BY <1>1, <1>2
  <2> QED BY <2>1
<1>5. ASSUME NEW k \in Nat, k \in S
      PROVE  k + 1 \in S
  <2> SUFFICES ASSUME NEW p \in D, Len(p) + (k + 1) > l
               PROVE  ReadsNode(s, t, p)
    OBVIOUS
  <2>1. \A q \in D : Len(q) = Len(p) + 1 => ReadsNode(s, t, q)
    BY <1>1, <1>2, <1>5
  <2> QED BY <1>3, <2>1, NodeRead
<1>6. ReadsNode(s, t, <<>>)
  <2>1. l + 1 \in Nat /\ l + 1 \in S
    <3> HIDE DEF S
    <3> QED BY <1>1, <1>4, <1>5, NatSetInduction
  <2> QED BY <1>1, <1>2, <2>1
<1>7. At(s, 0, F[<<>>])
  BY <1>3 DEF At, s
<1>8. NoTree \in Trees /\ Reading(s)[0] = [at |-> <<>>, tree |-> NoTree]
  BY <1>3, ReadingRec, NoTreeIn DEF Places
<1>9. Reading(s)[0 + Len(s)]
        = [at |-> Above(<<>>), tree |-> Joined(NoTree, t, Sub(t, <<>>))]
  BY <1>6, <1>7, <1>8 DEF ReadsNode, s, F
<1>10. Built(s) = Joined(NoTree, t, Sub(t, <<>>))
  <2>1. 0 + Len(s) = Len(s)
    BY <1>3
  <2> QED BY <1>3, <1>9, <2>1, ReadingRec
<1>11. Sub(t, <<>>) = D
  <2>1. ASSUME NEW x \in D
        PROVE  Agree(<<>>, x)
    <3>1. Len(<<>>) = 0 /\ Len(x) \in Nat
      BY <1>2
    <3> QED BY <3>1 DEF Agree
  <2> QED BY <2>1 DEF Sub
<1>12. Joined(NoTree, t, D) = t
  <2>1. DOMAIN NoTree \cup D = D
    BY <1>2 DEF NoTree
  <2>2. t = [x \in DOMAIN t |-> t[x]]
    BY DEF Small, Trees
  <2> QED BY <2>1, <2>2 DEF Joined
<1>13. Saved(t, <<>>) = s
  BY SavedIs DEF s, F
<1> QED BY <1>10, <1>11, <1>12, <1>13
-----------------------------------------------------------------------------
(* The trees of the processes and of the files *)

LEMMA SmallIs ==
  ASSUME NEW t, Small(t)
  PROVE  t \in [DOMAIN t -> State] /\ DOMAIN t \subseteq Paths
BY DEF Small, Trees

LEMMA SmallSame ==
  ASSUME NEW t, Small(t), NEW u \in [DOMAIN t -> State]
  PROVE  Small(u)
<1>1. DOMAIN u = DOMAIN t /\ DOMAIN t \in SUBSET Paths
  BY SmallIs
<1>2. u \in Trees
  BY <1>1 DEF Trees
<1> QED BY <1>1, <1>2 DEF Small

LEMMA SmallNoTree == Small(NoTree)
<1>1. NoTree \in Trees
  BY NoTreeIn DEF Places
<1>2. DOMAIN NoTree = {<<>>} /\ \A p \in {<<>>} : Len(p) <= 0
  BY DEF NoTree
<1>3. IsFiniteSet({<<>>})
  BY FS_Singleton
<1> QED BY <1>1, <1>2, <1>3 DEF Small

LEMMA SmallInsert ==
  ASSUME NEW t, Small(t), NEW p \in Paths, NEW st \in State
  PROVE  Small(Insert(t, p, st))
<1> DEFINE u == Insert(t, p, st)
<1>1. u \in Trees
  BY InsertIn DEF Small
<1>2. DOMAIN u = DOMAIN t \cup {p}
  BY InsertFacts
<1> HIDE DEF u
<1>3. IsFiniteSet(DOMAIN u)
  BY <1>2, FS_AddElement DEF Small
<1>4. PICK l \in Nat : \A q \in DOMAIN t : Len(q) <= l
  BY DEF Small
<1>5. Len(p) \in Nat /\ \A q \in DOMAIN t : Len(q) \in Nat
  BY SmallIs DEF Paths
<1>6. \A q \in DOMAIN u : Len(q) <= l + Len(p)
  BY <1>2, <1>4, <1>5
<1>7. l + Len(p) \in Nat
  BY <1>5
<1> QED BY <1>1, <1>3, <1>6, <1>7 DEF Small, u

LEMMA SmallMade ==
  ASSUME NEW t, Small(t), NEW p \in Paths
  PROVE  Small(Made(t, p))
<1>1. Null \in State
  BY DEF Null, State
<1> QED BY <1>1, SmallInsert DEF Made

LEMMA SmallSized ==
  ASSUME NEW t, Small(t), NEW p \in DOMAIN t, NEW k \in Nat
  PROVE  Small([t EXCEPT ![p].size = @ + k])
<1>1. t \in [DOMAIN t -> State]
  BY SmallIs
<1>2. [t EXCEPT ![p].size = @ + k] \in [DOMAIN t -> State]
  BY <1>1 DEF State
<1> QED BY <1>2, SmallSame

LEMMA SmallDone ==
  ASSUME NEW t, Small(t), NEW p \in DOMAIN t
  PROVE  LET u == [t EXCEPT ![p].done = TRUE] IN Small(u) /\ DOMAIN u = DOMAIN t
<1>1. t \in [DOMAIN t -> State]
  BY SmallIs
<1>2. [t EXCEPT ![p].done = TRUE] \in [DOMAIN t -> State]
  BY <1>1 DEF State
<1> QED BY <1>2, SmallSame

\* Every tree is of finitely many directories, and of a bounded depth.
FInv == Small(info) /\ Small(file.info) /\ Small(old.info)

LEMMA ReturnSmall ==
  ASSUME TInv, proc = "walking", NEW f, Small(f), DOMAIN f = DOMAIN info, Return(f)
  PROVE  Small(info')
<1>1. stack \in DOMAIN info /\ stack \in Seq(Dirs) /\ stack # <<>> /\ Tree(info)
  BY WalksOn
<1>2. CASE Len(stack) = 1
  BY <1>2 DEF Return
<1>3. CASE Len(stack) # 1
  <2>1. info' = [f EXCEPT ![Above(stack)].size = @ + f[stack].size]
    BY <1>3 DEF Return, Parent
  <2>2. Above(stack) \in DOMAIN f
    BY <1>1 DEF Tree
  <2>3. f[stack].size \in Nat
    BY <1>1, SmallIs DEF State
  <2> QED BY <2>1, <2>2, <2>3, SmallSized
<1> QED BY <1>2, <1>3

LEMMA ReadDirSmall ==
  ASSUME TInv, FInv, ReadDir
  PROVE  Small(info')
<1> DEFINE x == Walk[pos + 1].dir
           c == Append(stack, x)
           node == Made(info, c)
<1>1. proc = "walking" /\ Walk[pos + 1].kind = "D"
  BY DEF ReadDir, Reads, Entry
<1>2. \/ Return(info)
      \/ info' = node
      \/ info' = Insert(node, c, Fresh)
  BY DEF ReadDir, Entry
<1>3. stack \in Seq(Dirs) /\ pos \in Nat /\ pos < Len(Walk)
  BY <1>1, WalksOn
<1>4. x \in Dirs
  BY <1>1, <1>3, OpenStart
<1>5. c \in Paths
  BY <1>3, <1>4, ChildFacts DEF Paths
<1>6. Small(info) /\ Fresh \in State
  BY DEF FInv, Fresh, State
<1> HIDE DEF x, c
<1>7. Small(node)
  BY <1>5, <1>6, SmallMade
<1> HIDE DEF node
<1> QED BY <1>1, <1>2, <1>5, <1>6, <1>7, SmallInsert, ReturnSmall

LEMMA NextFInv ==
  ASSUME TInv, FInv, [Next]_vars
  PROVE  FInv'
<1>0. Small(info) /\ Small(file.info) /\ Small(old.info) /\ Small(NoTree)
  BY SmallNoTree DEF FInv
<1>1. CASE StartWalk
  <2>1. <<Root>> \in Paths /\ Fresh \in State
    BY RootFrame DEF Paths, Fresh, State
  <2>2. info' = Insert(file.info, <<Root>>, Fresh) /\ UNCHANGED <<file, old>>
    BY <1>1 DEF StartWalk
  <2> QED BY <1>0, <2>1, <2>2, SmallInsert DEF FInv
<1>2. CASE ReadFile
  <2>1. proc = "walking" /\ info' = [info EXCEPT ![stack].size = @ + 1] /\ UNCHANGED <<file, old>>
    BY <1>2 DEF ReadFile, Reads
  <2>2. stack \in DOMAIN info
    BY <2>1, WalksOn
  <2> QED BY <1>0, <2>1, <2>2, SmallSized DEF FInv
<1>3. CASE ReadDir
  <2>1. UNCHANGED <<file, old>>
    BY <1>3 DEF ReadDir
  <2> QED BY <1>0, <1>3, <2>1, ReadDirSmall DEF FInv
<1>4. CASE ReadEnd
  <2> DEFINE f == [info EXCEPT ![stack].done = TRUE]
  <2>1. proc = "walking" /\ Return(f) /\ UNCHANGED <<file, old>>
    BY <1>4 DEF ReadEnd, Reads
  <2>2. stack \in DOMAIN info
    BY <2>1, WalksOn
  <2>3. Small(f) /\ DOMAIN f = DOMAIN info
    BY <1>0, <2>2, SmallDone
  <2> HIDE DEF f
  <2> QED BY <1>0, <2>1, <2>3, ReturnSmall DEF FInv
<1>5. CASE EndInterrupted \/ WalkFails \/ Restart
  <2>1. UNCHANGED <<file, old>> /\ info' = NoTree
    BY <1>5 DEF EndInterrupted, WalkFails, Restart, Freed
  <2> QED BY <1>0, <2>1 DEF FInv
<1>6. CASE \/ FindReport \/ GoesOn \/ SendResult \/ SendPartial \/ Suspend \/ Resume
           \/ Kill \/ Stop \/ UNCHANGED vars
  <2>1. UNCHANGED <<file, old, info>>
    BY <1>6 DEF FindReport, GoesOn, SendResult, SendPartial, Suspend, Resume, Kill, Stop,
                vars, mem
  <2> QED BY <1>0, <2>1 DEF FInv
<1>7. CASE WriteFile
  <2>1. file'.info = info /\ info' = NoTree /\ UNCHANGED old
    BY <1>7 DEF WriteFile, Written
  <2> QED BY <1>0, <2>1 DEF FInv
<1>8. CASE OldTells
  <2>1. UNCHANGED <<file, info>> /\ old' = [old EXCEPT !.proc = "writing"]
    BY <1>8 DEF OldTells, mem
  <2>2. old = [proc |-> old.proc, info |-> old.info, cnt |-> old.cnt, of |-> old.of]
    BY Zenon DEF TInv, OldProc
  <2>3. old' = [proc |-> "writing", info |-> old.info, cnt |-> old.cnt, of |-> old.of]
    BY <2>1, <2>2
  <2>4. old'.info = old.info
    BY <2>3
  <2> QED BY <1>0, <2>1, <2>4 DEF FInv
<1>9. CASE OldWrites
  <2>1. file'.info = old.info /\ info' = info /\ old'.info = NoTree
    BY <1>9 DEF OldWrites, Written, NoProc, mem
  <2> QED BY <1>0, <2>1 DEF FInv
<1>10. CASE Apply \/ Remove
  <2>1. UNCHANGED <<info, old>> /\ (file' = file \/ file' = NewFile)
    BY <1>10 DEF Apply, Remove, Removed, mem
  <2>2. file'.info = file.info \/ file'.info = NoTree
    BY <2>1 DEF NewFile
  <2> QED BY <1>0, <2>1, <2>2 DEF FInv
<1>11. CASE Reuse
  <2>1. info' = NoTree /\ file' = file /\ (old'.info = NoTree \/ old'.info = info)
    BY <1>11 DEF Reuse, Freed, NoProc
  <2> QED BY <1>0, <2>1 DEF FInv
<1> QED BY <1>1, <1>2, <1>3, <1>4, <1>5, <1>6, <1>7, <1>8, <1>9, <1>10, <1>11
        DEF Next, Process, OldProcess

\* What a process saves when SIGTERM came is what the next one reads, of every
\* tree that a walk can leave (tree.c:65-78, 178-188; hash.c:177-228).
THEOREM SavedReadBack == Spec => []ReadBack
<1>1. Init => FInv
  <2> SUFFICES ASSUME Init PROVE FInv
    OBVIOUS
  <2>1. file.info = NoTree /\ info = NoTree /\ old.info = NoTree
    BY DEF Init, NewFile, NoProc
  <2> QED BY <2>1, SmallNoTree DEF FInv
<1>2. ASSUME TInv, FInv
      PROVE  ReadBack
  <2>1. Tree(info)
    BY <1>2 DEF TInv, Walks, WalkState
  <2> QED BY <1>2, <2>1, SavedIsRead DEF FInv, ReadBack
<1> QED BY <1>1, <1>2, TInvHolds, NextFInv, PTL DEF Spec
=============================================================================

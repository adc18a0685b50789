--------------------------- MODULE ShutdownProofs ---------------------------
(***************************************************************************)
(* The hand-over of the descriptor, the count of threads and the stages of *)
(* a stop, for any number of clients.  The argument rests on cnt_threads   *)
(* and cnt_forks: races can leave them too high, but never too low.        *)
(***************************************************************************)
EXTENDS Shutdown, FiniteSetTheorems, TLAPS

(* How many clients have a value *)

LEMMA SizeInNat ==
  ASSUME NEW f, NEW S
  PROVE  /\ Size(f, S) \in Nat
         /\ IsFiniteSet({c \in Client : f[c] \in S})
BY FS_Subset, FS_CardinalityType, ShutdownAssumption DEF Size

LEMMA SizeNone ==
  ASSUME NEW f, NEW S
  PROVE  Size(f, S) = 0 <=> \A c \in Client : f[c] \notin S
<1>1. Size(f, S) = 0 <=> {c \in Client : f[c] \in S} = {}
  BY SizeInNat, FS_EmptySet DEF Size
<1> QED BY <1>1

One(x, S) == IF x \in S THEN 1 ELSE 0

LEMMA SizeChange ==
  ASSUME NEW f, NEW g, NEW c \in Client, NEW S,
         \A d \in Client \ {c} : g[d] = f[d]
  PROVE  Size(g, S) = Size(f, S) - One(f[c], S) + One(g[c], S)
<1> DEFINE F == {d \in Client : f[d] \in S}
           G == {d \in Client : g[d] \in S}
<1>1. F \ {c} = G \ {c}
  OBVIOUS
<1>2. (c \in F <=> f[c] \in S) /\ (c \in G <=> g[c] \in S)
  OBVIOUS
<1>3. /\ Cardinality(F) \in Nat /\ Cardinality(G) \in Nat
      /\ IsFiniteSet(F) /\ IsFiniteSet(G)
  BY SizeInNat DEF Size
<1>4. /\ Cardinality(F \ {c}) = IF c \in F THEN Cardinality(F) - 1 ELSE Cardinality(F)
      /\ Cardinality(G \ {c}) = IF c \in G THEN Cardinality(G) - 1 ELSE Cardinality(G)
  BY <1>3, FS_RemoveElement
<1>5. (IF c \in F THEN Cardinality(F) - 1 ELSE Cardinality(F))
        = IF c \in G THEN Cardinality(G) - 1 ELSE Cardinality(G)
  BY <1>1, <1>4
<1>6. Cardinality(G) = Cardinality(F) - (IF c \in F THEN 1 ELSE 0)
                                      + (IF c \in G THEN 1 ELSE 0)
  <2> HIDE DEF F, G
  <2>1. CASE c \in F /\ c \in G
    BY <2>1, <1>3, <1>5
  <2>2. CASE c \in F /\ c \notin G
    BY <2>2, <1>3, <1>5
  <2>3. CASE c \notin F /\ c \in G
    BY <2>3, <1>3, <1>5
  <2>4. CASE c \notin F /\ c \notin G
    BY <2>4, <1>3, <1>5
  <2> QED BY <2>1, <2>2, <2>3, <2>4
<1> QED BY <1>2, <1>3, <1>6 DEF Size, One
-----------------------------------------------------------------------------
(* The hand-over of the descriptor *)

\* While the requests thread accepts it holds socket_mutex, and no thread that
\* was created has yet to read the descriptor.
Own == /\ worker \in [Client -> Workers] /\ socket \in BOOLEAN
       /\ fd \in Client \cup {Nil}
       /\ requests \in {"accept", "count"} =>
            socket /\ \A c \in Client : worker[c] # "created"
       /\ requests = "count" => fd \in Client /\ worker[fd] = "accepted"
       /\ \A c \in Client : worker[c] = "created" => socket /\ fd = c

\* The steps that leave everything alone that Own is about.
Idle == UNCHANGED <<requests, worker, fd, socket>>

LEMMA InitOwn == Init => Own
BY DEF Init, Own, Workers

\* A thread that was created reads the descriptor, or a thread moves that has
\* read it or has not been accepted.
LEMMA WorkerOwn ==
  ASSUME Own, NEW c \in Client, NEW w \in Workers \ {"created", "accepted"},
         worker[c] # "accepted",
         worker' = [worker EXCEPT ![c] = w],
         socket' = IF worker[c] = "created" THEN FALSE ELSE socket,
         UNCHANGED <<requests, fd>>
  PROVE  Own'
BY DEF Own, Workers, Counted

LEMMA RequestsOwn ==
  ASSUME Own, Requests \/ ReqFails
  PROVE  Own'
<1>1. CASE ReqAccept
  BY <1>1 DEF ReqAccept, Queued, Own, Workers, Counted
<1>2. CASE ReqCount
  BY <1>2 DEF ReqCount, Own, Workers, Counted
<1>3. CASE ReqLock \/ ReqAgain \/ ReqFails
  BY <1>3 DEF ReqLock, ReqAgain, ReqFails, Own
<1>4. CASE ReqLoop \/ ReqWait \/ ReqDrain \/ ReqSpin \/ ReqEnd
  BY <1>4 DEF ReqLoop, ReqWait, ReqDrain, ReqSpin, ReqEnd, Own, pool
<1> QED BY <1>1, <1>2, <1>3, <1>4 DEF Requests

LEMMA WorkersOwn ==
  ASSUME Own, NEW c \in Client, Connect(c) \/ Worker(c)
  PROVE  Own'
<1>1. PICK w \in Workers \ {"created", "accepted"} :
         worker' = [worker EXCEPT ![c] = w]
  BY DEF Connect, Worker, TakeFd, Serve, ReadPid, DecrLoad, DecrStore,
         DecrUnlock, Move, Workers, Counted
<1>2. /\ worker[c] # "accepted"
      /\ socket' = IF worker[c] = "created" THEN FALSE ELSE socket
      /\ UNCHANGED <<requests, fd>>
  BY DEF Connect, Worker, TakeFd, Serve, ReadPid, DecrLoad, DecrStore,
         DecrUnlock, Move
<1> QED BY <1>1, <1>2, WorkerOwn

LEMMA ForkOwn ==
  ASSUME Own, FmFork
  PROVE  Own'
<1>1. PICK c \in Client : /\ worker[c] = "asked"
                          /\ worker' = [worker EXCEPT ![c] = "forked"]
  BY DEF FmFork, Asked
<1>2. UNCHANGED <<requests, fd, socket>>
  BY DEF FmFork
<1> QED BY <1>1, <1>2, WorkerOwn DEF Workers, Counted

\* The steps that leave the threads of the requests alone.
Others == \/ Stop \/ RespFails \/ RespEnd \/ MainSaves \/ TmTerm
          \/ FmLoop \/ FmAgain \/ FmLoad \/ FmStore \/ FmWait \/ FmBroadcast
          \/ FmEnd \/ FmFails \/ FmTerm \/ FmUsr1 \/ FmChld
          \/ \E c \in Client : ChildReady(c) \/ ChildEnds(c)
          \/ UNCHANGED vars

LEMMA NextSplit ==
  ASSUME [Next]_vars
  PROVE  \/ Requests \/ ReqFails \/ \E c \in Client : Connect(c) \/ Worker(c)
         \/ FmFork \/ Others
BY DEF Next, ForksManager, Others

LEMMA OthersIdle == Others => UNCHANGED <<requests, pool>>
BY DEF Others, Stop, RespFails, RespEnd, MainSaves, TmTerm, FmLoop, FmAgain,
       FmLoad, FmStore, FmWait, FmBroadcast, FmEnd, FmFails, FmTerm, FmUsr1,
       FmChld, ChildReady, ChildEnds, vars

LEMMA NextOwn ==
  ASSUME Own, [Next]_vars
  PROVE  Own'
<1>1. CASE Others
  BY <1>1, OthersIdle DEF Own, pool
<1> QED BY <1>1, NextSplit, RequestsOwn, WorkersOwn, ForkOwn

\* A new thread finds its own client in the descriptor, for any number of
\* clients, faults and stops (manager.c:186-222).
THEOREM OwnDescriptorHolds == Spec => []OwnDescriptor
<1>1. Own => OwnDescriptor
  BY DEF Own, OwnDescriptor
<1> QED BY <1>1, InitOwn, NextOwn, PTL DEF Spec
-----------------------------------------------------------------------------
(* The count of threads *)

\* Clients that no thread was counted for yet.
Before == {"outside", "queued", "accepted"}

\* n may be the value of cnt_threads: the threads that count are in it, and it
\* has none for clients that were not yet counted.
Fits(n) == Size(worker, Counted) <= n /\ n + Size(worker, Before) <= Cardinality(Client)

Holds(c) == worker[c] \in {"loaded", "stored"}

\* cnt_threads may be too high, when the last loop of the requests thread took
\* counter_mutex from a thread that decrements it, but never too low.
Threads ==
  /\ cntThreads \in Nat /\ reg \in [Client -> Nat] /\ counter \in BOOLEAN
  /\ Fits(cntThreads)
  /\ \A c \in Client : worker[c] = "loaded" => Fits(reg[c])
  /\ requests \notin {"spin", "ended"} =>
       \A c, d \in Client : Holds(c) /\ Holds(d) => counter /\ c = d

LEMMA InitThreads == Init => Threads
<1> SUFFICES ASSUME Init PROVE Threads
  OBVIOUS
<1>1. \A c \in Client : worker[c] \notin Counted /\ worker[c] \in Before
  BY DEF Init, Counted, Before
<1>2. Size(worker, Counted) = 0
  BY <1>1, SizeNone
<1>3. {c \in Client : worker[c] \in Before} = Client
  BY <1>1
<1>4. Cardinality(Client) \in Nat /\ Size(worker, Before) = Cardinality(Client)
  BY <1>3, FS_CardinalityType, ShutdownAssumption DEF Size
<1>5. Fits(cntThreads)
  BY <1>2, <1>4 DEF Init, Fits
<1> QED BY <1>1, <1>5 DEF Init, Threads, Holds, Counted

\* A client moves, and the counts of those counted and of those before change
\* by what it was and is.
LEMMA MoveSizes ==
  ASSUME Own, NEW c \in Client, NEW w, NEW S,
         worker' = [worker EXCEPT ![c] = w]
  PROVE  /\ Size(worker, S) \in Nat /\ Size(worker', S) \in Nat
         /\ Size(worker', S) = Size(worker, S) - One(worker[c], S) + One(w, S)
<1>1. worker'[c] = w /\ \A d \in Client \ {c} : worker'[d] = worker[d]
  BY DEF Own
<1>2. ASSUME NEW f, NEW g, \A d \in Client \ {c} : g[d] = f[d]
      PROVE  Size(g, S) = Size(f, S) - One(f[c], S) + One(g[c], S)
  BY <1>2, SizeChange, SMT
<1>3. Size(worker', S) = Size(worker, S) - One(worker[c], S) + One(worker'[c], S)
  BY <1>1, <1>2, Zenon
<1> QED BY <1>1, <1>3, SizeInNat

\* The value of cnt_threads may stay where it fits if no client passes from
\* those before to those that count, and may lose one with a client that does
\* not count any more.
LEMMA FitsMove ==
  ASSUME Own, NEW c \in Client, NEW w,
         worker' = [worker EXCEPT ![c] = w],
         worker[c] \in Before <=> w \in Before,
         NEW n \in Nat, Fits(n)
  PROVE  /\ worker[c] \in Counted \/ w \notin Counted
              => /\ Size(worker', Counted) <= n
                 /\ n + Size(worker', Before) <= Cardinality(Client)
         /\ worker[c] \in Counted /\ w \notin Counted
              => /\ n - 1 \in Nat
                 /\ Size(worker', Counted) <= n - 1
                 /\ n - 1 + Size(worker', Before) <= Cardinality(Client)
<1>1. /\ Size(worker, Counted) \in Nat /\ Size(worker', Counted) \in Nat
      /\ Size(worker', Counted) = Size(worker, Counted)
                               - One(worker[c], Counted) + One(w, Counted)
  BY MoveSizes
<1>2. /\ Size(worker, Before) \in Nat /\ Size(worker', Before) \in Nat
      /\ Size(worker', Before) = Size(worker, Before)
                               - One(worker[c], Before) + One(w, Before)
  BY MoveSizes
<1>3. One(worker[c], Before) = One(w, Before) /\ One(w, Before) \in {0, 1}
  BY DEF One
<1>4. /\ worker[c] \in Counted => One(worker[c], Counted) = 1
      /\ worker[c] \notin Counted => One(worker[c], Counted) = 0
      /\ w \in Counted => One(w, Counted) = 1
      /\ w \notin Counted => One(w, Counted) = 0
  BY DEF One
<1>5. Cardinality(Client) \in Nat
  BY FS_CardinalityType, ShutdownAssumption
<1>6. Size(worker, Counted) <= n /\ n + Size(worker, Before) <= Cardinality(Client)
  BY DEF Fits
<1> QED BY <1>1, <1>2, <1>3, <1>4, <1>5, <1>6

\* A client moves that holds no lock, or does not get one, and keeps counting
\* or not counting; the counters stay.
LEMMA QuietThreads ==
  ASSUME Own, Threads, NEW c \in Client, NEW w,
         worker' = [worker EXCEPT ![c] = w],
         worker[c] \in Before <=> w \in Before,
         worker[c] \in Counted \/ w \notin Counted,
         w \notin {"loaded", "stored"},
         requests \in {"spin", "ended"} => requests' \in {"spin", "ended"},
         UNCHANGED <<cntThreads, reg, counter>>
  PROVE  Threads'
<1>1. \A n \in Nat : Fits(n) =>
         /\ Size(worker', Counted) <= n
         /\ n + Size(worker', Before) <= Cardinality(Client)
  BY FitsMove
<1>2. Fits(cntThreads)'
  BY <1>1 DEF Threads, Fits, Size
<1>3. \A d \in Client : worker'[d] = "loaded" \/ Holds(d)' =>
         d # c /\ worker'[d] = worker[d]
  BY DEF Own, Holds
<1>4. ASSUME NEW d \in Client, worker'[d] = "loaded"
      PROVE  Fits(reg[d])'
  <2>1. Fits(reg[d]) /\ reg[d] \in Nat /\ reg' = reg
    BY <1>3, <1>4 DEF Threads
  <2> QED BY <1>1, <2>1 DEF Fits, Size
<1> QED BY <1>2, <1>3, <1>4 DEF Threads, Holds

LEMMA SameThreads ==
  ASSUME Threads, counter' \in BOOLEAN,
         requests' \in {"spin", "ended"}
           \/ (requests \notin {"spin", "ended"} /\ counter' = counter),
         UNCHANGED <<worker, cntThreads, reg>>
  PROVE  Threads'
BY DEF Threads, Fits, Holds, Size

LEMMA RequestsThreads ==
  ASSUME Own, Threads, Requests \/ ReqFails
  PROVE  Threads'
<1>1. CASE ReqAccept
  <2>1. PICK c \in Client : /\ worker[c] = "queued"
                            /\ worker' = [worker EXCEPT ![c] = "accepted"]
    BY <1>1 DEF ReqAccept, Queued
  <2> QED BY <1>1, <2>1, QuietThreads DEF ReqAccept, Before, Counted
<1>2. CASE ReqCount
  <2>1. /\ fd \in Client /\ worker[fd] = "accepted"
        /\ worker' = [worker EXCEPT ![fd] = "created"]
        /\ cntThreads' = cntThreads + 1 /\ ~counter
        /\ requests = "count" /\ UNCHANGED <<reg, counter>>
    BY <1>2 DEF ReqCount, Own
  <2>2. \A c \in Client : ~Holds(c)
    BY <2>1 DEF Threads
  <2>3. \A c \in Client : worker'[c] \notin {"loaded", "stored"}
    BY <2>1, <2>2 DEF Own, Holds
  <2>4. \A S : /\ Size(worker, S) \in Nat /\ Size(worker', S) \in Nat
               /\ Size(worker', S) = Size(worker, S)
                                     - One("accepted", S) + One("created", S)
    BY <2>1, MoveSizes
  <2>5. /\ One("accepted", Counted) = 0 /\ One("created", Counted) = 1
        /\ One("accepted", Before) = 1 /\ One("created", Before) = 0
    BY DEF One, Counted, Before
  <2>6. cntThreads \in Nat /\ Cardinality(Client) \in Nat
        /\ Size(worker, Counted) <= cntThreads
        /\ cntThreads + Size(worker, Before) <= Cardinality(Client)
    BY FS_CardinalityType, ShutdownAssumption DEF Threads, Fits
  <2>7. /\ Size(worker', Counted) <= cntThreads + 1
        /\ cntThreads + 1 + Size(worker', Before) <= Cardinality(Client)
    <3>1. /\ Size(worker', Counted) = Size(worker, Counted) - 0 + 1
          /\ Size(worker', Before) = Size(worker, Before) - 1 + 0
      BY <2>4, <2>5
    <3> QED BY <2>4, <2>6, <3>1
  <2>8. Fits(cntThreads)'
    BY <2>1, <2>7 DEF Fits, Size
  <2> QED BY <2>1, <2>3, <2>6, <2>8 DEF Threads, Holds
<1>3. CASE ReqLoop \/ ReqLock \/ ReqAgain \/ ReqFails \/ ReqWait \/ ReqDrain
             \/ ReqSpin \/ ReqEnd
  BY <1>3, SameThreads DEF ReqLoop, ReqLock, ReqAgain, ReqFails, ReqWait,
                           ReqDrain, ReqSpin, ReqEnd, pool, Threads
<1> QED BY <1>1, <1>2, <1>3 DEF Requests

LEMMA WorkersThreads ==
  ASSUME Own, Threads, NEW c \in Client, Connect(c) \/ Worker(c)
  PROVE  Threads'
<1>1. CASE Connect(c) \/ TakeFd(c) \/ Serve(c) \/ ReadPid(c)
  <2>1. PICK w \in {"queued", "serving", "asked", "leaving"} :
          /\ worker' = [worker EXCEPT ![c] = w]
          /\ IF w = "queued" THEN worker[c] = "outside"
             ELSE worker[c] \in {"created", "serving", "forked"}
    BY <1>1 DEF Connect, TakeFd, Serve, ReadPid, Move
  <2>2. UNCHANGED <<requests, cntThreads, reg, counter>>
    BY <1>1 DEF Connect, TakeFd, Serve, ReadPid
  <2> QED BY <2>1, <2>2, QuietThreads DEF Before, Counted
<1>3. CASE DecrLoad(c)
  <2>1. /\ worker[c] = "leaving" /\ worker' = [worker EXCEPT ![c] = "loaded"]
        /\ reg' = [reg EXCEPT ![c] = cntThreads] /\ ~counter /\ counter' = TRUE
        /\ UNCHANGED <<requests, cntThreads>>
    BY <1>3 DEF DecrLoad, Move
  <2>2. \A n \in Nat : Fits(n) =>
          /\ Size(worker', Counted) <= n
          /\ n + Size(worker', Before) <= Cardinality(Client)
    BY <2>1, FitsMove DEF Before, Counted
  <2>3. cntThreads \in Nat /\ Fits(cntThreads) /\ Fits(cntThreads)'
    BY <2>1, <2>2 DEF Threads, Fits, Size
  <2>4. reg' \in [Client -> Nat]
    BY <2>1 DEF Threads
  <2>5. ASSUME NEW d \in Client, worker'[d] = "loaded"
        PROVE  Fits(reg[d])'
    <3>1. d = c \/ worker[d] = "loaded"
      BY <2>1, <2>5 DEF Own
    <3>2. reg'[d] \in Nat /\ Fits(reg'[d])
      BY <2>1, <2>3, <3>1 DEF Threads
    <3> QED BY <2>2, <3>2 DEF Fits, Size
  <2>6. requests \notin {"spin", "ended"} =>
          \A d \in Client : Holds(d)' => d = c
    BY <2>1 DEF Threads, Holds, Own
  <2> QED BY <2>1, <2>3, <2>4, <2>5, <2>6 DEF Threads
<1>4. CASE DecrStore(c)
  <2>1. /\ worker[c] = "loaded" /\ worker' = [worker EXCEPT ![c] = "stored"]
        /\ cntThreads' = reg[c] - 1
        /\ UNCHANGED <<requests, reg, counter>>
    BY <1>4 DEF DecrStore, Move
  <2>2. /\ reg[c] \in Nat /\ Fits(reg[c])
    BY <2>1 DEF Threads
  <2>3. /\ reg[c] - 1 \in Nat
        /\ Size(worker', Counted) <= reg[c] - 1
        /\ reg[c] - 1 + Size(worker', Before) <= Cardinality(Client)
    <3>1. /\ worker[c] \in Counted /\ "stored" \notin Counted
          /\ worker[c] \notin Before /\ "stored" \notin Before
      BY <2>1 DEF Before, Counted
    <3> QED BY <2>1, <2>2, <3>1, FitsMove
  <2>4. Fits(cntThreads)' /\ cntThreads' \in Nat
    BY <2>1, <2>3 DEF Fits, Size
  <2>5. ASSUME NEW d \in Client, worker'[d] = "loaded"
        PROVE  Fits(reg[d])'
    <3>1. worker[d] = "loaded"
      BY <2>1, <2>5 DEF Own
    <3>2. reg[d] \in Nat /\ Fits(reg[d])
      BY <3>1 DEF Threads
    <3>3. One("stored", Counted) = 0 /\ One("loaded", Counted) = 1
          /\ One("stored", Before) = 0 /\ One("loaded", Before) = 0
      BY DEF One, Counted, Before
    <3>4. /\ Size(worker, Counted) \in Nat /\ Size(worker, Before) \in Nat
          /\ Size(worker', Counted) = Size(worker, Counted)
                                      - One("loaded", Counted) + One("stored", Counted)
          /\ Size(worker', Before) = Size(worker, Before)
                                      - One("loaded", Before) + One("stored", Before)
      BY <2>1, MoveSizes
    <3>5. /\ Size(worker', Counted) = Size(worker, Counted) - 1 + 0
          /\ Size(worker', Before) = Size(worker, Before) - 0 + 0
      BY <3>3, <3>4
    <3>6. /\ Size(worker, Counted) <= reg[d]
          /\ reg[d] + Size(worker, Before) <= Cardinality(Client)
      BY <3>2 DEF Fits
    <3>7. /\ Size(worker', Counted) <= reg[d]
          /\ reg[d] + Size(worker', Before) <= Cardinality(Client)
      BY <3>2, <3>4, <3>5, <3>6
    <3> QED BY <2>1, <3>7 DEF Fits, Size
  <2>6. \A d \in Client : Holds(d)' => Holds(d)
    BY <2>1 DEF Holds, Own
  <2> QED BY <2>1, <2>4, <2>5, <2>6 DEF Threads
<1>5. CASE DecrUnlock(c)
  <2>1. /\ worker[c] = "stored" /\ worker' = [worker EXCEPT ![c] = "gone"]
        /\ counter' = FALSE
        /\ UNCHANGED <<requests, cntThreads, reg>>
    BY <1>5 DEF DecrUnlock, Move
  <2>2. \A n \in Nat : Fits(n) =>
          /\ Size(worker', Counted) <= n
          /\ n + Size(worker', Before) <= Cardinality(Client)
    <3>1. /\ "gone" \notin Counted
          /\ worker[c] \notin Before /\ "gone" \notin Before
      BY <2>1 DEF Before, Counted
    <3> QED BY <2>1, <3>1, FitsMove
  <2>3. Fits(cntThreads)'
    BY <2>1, <2>2 DEF Threads, Fits, Size
  <2>4. ASSUME NEW d \in Client, worker'[d] = "loaded"
        PROVE  Fits(reg[d])'
    <3>1. reg[d] \in Nat /\ Fits(reg[d]) /\ reg' = reg
      BY <2>1, <2>4 DEF Threads, Own
    <3> QED BY <2>2, <3>1 DEF Fits, Size
  <2>5. requests \notin {"spin", "ended"} => \A d \in Client : ~Holds(d)'
    BY <2>1 DEF Threads, Holds, Own
  <2> QED BY <2>1, <2>3, <2>4, <2>5 DEF Threads
<1> QED BY <1>1, <1>3, <1>4, <1>5 DEF Worker

LEMMA ForkThreads ==
  ASSUME Own, Threads, FmFork
  PROVE  Threads'
<1>1. PICK c \in Client : /\ worker[c] = "asked"
                          /\ worker' = [worker EXCEPT ![c] = "forked"]
  BY DEF FmFork, Asked
<1>2. UNCHANGED <<requests, cntThreads, reg, counter>>
  BY DEF FmFork
<1> QED BY <1>1, <1>2, QuietThreads DEF Before, Counted

LEMMA NextThreads ==
  ASSUME Own, Threads, [Next]_vars
  PROVE  Threads'
<1>1. CASE Others
  <2>1. UNCHANGED <<requests, worker, counter, cntThreads, reg>>
    BY <1>1, OthersIdle DEF pool
  <2>2. Threads' = Threads
    BY <2>1 DEF Threads, Fits, Holds, Size
  <2> QED BY <2>2
<1> QED BY <1>1, NextSplit, RequestsThreads, WorkersThreads, ForkThreads
-----------------------------------------------------------------------------
(* The stages, and the types *)

\* The SIGTERMs that FM has sent to TM; tmDone counts those that arrived.
Bit(b) == IF b THEN 1 ELSE 0
SentToTm == Bit(fmTerm # "handler1") + Bit(fm \in {"drain", "exited"})
              + Bit(fm = "exited")

Stages == /\ tmDone \in Nat
          /\ tmDone + Bit(tmPend) <= SentToTm
          /\ fmTerm = "ignore" <=> fmDone
          /\ fm \in {"broadcast", "drain", "exited"} => fmDone

LEMMA InitStages == Init => Stages
BY DEF Init, Stages, SentToTm, Bit

LEMMA NextStages ==
  ASSUME TypeOK, Stages, [Next]_vars
  PROVE  Stages'
<1> USE DEF TypeOK, Stages, SentToTm, Bit, FmLoops
<1>1. CASE TmTerm
  BY <1>1 DEF TmTerm, forks
<1>2. CASE FmTerm
  BY <1>2 DEF FmTerm, TermToTm, forks
<1>3. CASE FmBroadcast
  BY <1>3 DEF FmBroadcast, TermToTm, fmSig
<1>4. CASE FmEnd
  BY <1>4 DEF FmEnd, TermToTm, fmSig
<1>5. CASE FmLoop \/ FmAgain \/ FmFork \/ FmLoad \/ FmStore \/ FmWait \/ FmFails
  BY <1>5 DEF FmLoop, FmAgain, FmFork, FmLoad, FmStore, FmWait, FmFails, tmSig,
              fmSig
<1>6. ASSUME UNCHANGED <<tmDone, tmPend, fm, fmTerm, fmDone>>
      PROVE  Stages'
  BY <1>6
<1>7. CASE Requests \/ ReqFails
  BY <1>7, <1>6 DEF Requests, ReqLoop, ReqLock, ReqAccept, ReqAgain, ReqCount,
       ReqWait, ReqDrain, ReqSpin, ReqEnd, ReqFails, tmSig, fmSig, forks
<1>8. CASE \E c \in Client : Connect(c) \/ Worker(c) \/ ChildReady(c) \/ ChildEnds(c)
  BY <1>8, <1>6 DEF Connect, Worker, TakeFd, Serve, ReadPid, DecrLoad, DecrStore,
       DecrUnlock, ChildReady, ChildEnds, tmSig, fmSig, forks
<1>9. CASE Stop \/ RespFails \/ RespEnd \/ MainSaves \/ FmUsr1 \/ FmChld
             \/ UNCHANGED vars
  BY <1>9, <1>6 DEF Stop, RespFails, RespEnd, MainSaves, FmUsr1, FmChld, tmSig,
       fmSig, forks, vars
<1> QED BY <1>1, <1>2, <1>3, <1>4, <1>5, <1>7, <1>8, <1>9 DEF Next, ForksManager

\* tmDone and the counters are bounded by Stages and by Threads.
LEMMA CountsTyped ==
  Threads /\ Stages => cntThreads \in Counts /\ tmDone \in 0 .. 3
<1>1. Cardinality(Client) \in Nat /\ Size(worker, Before) \in Nat
  BY SizeInNat, FS_CardinalityType, ShutdownAssumption
<1> QED BY <1>1 DEF Threads, Fits, Stages, SentToTm, Bit, Counts

\* TypeOK in four parts.
Switches == /\ saved \in BOOLEAN /\ socket \in BOOLEAN /\ counter \in BOOLEAN
            /\ tmPend \in BOOLEAN /\ fmDone \in BOOLEAN /\ resmanDone \in BOOLEAN
Numbers  == /\ cntThreads \in Counts /\ reg \in [Client -> Counts] /\ tmDone \in 0 .. 3
            /\ cntForks \in Int /\ freg \in Int
            /\ stops \in 0 .. MaxStops
Places   == /\ requests \in {"loop", "lock", "accept", "count", "wait", "drain",
                              "spin", "ended"}
            /\ responses \in {"loop", "wait", "ended"}
            /\ tmTerm \in {"reqman", "resman", "ignore"}
            /\ fm \in FmLoops \cup {"wait", "broadcast", "drain", "exited"}
            /\ fmTerm \in {"handler1", "handler2", "ignore"}
Clients  == /\ worker \in [Client -> Workers]
            /\ fd \in Client \cup {Nil}
            /\ fmPend \subseteq {"TERM", "USR1", "CHLD"}
            /\ child \in [Client -> Live \cup {"none", "zombie", "reaped"}]

LEMMA TypeParts == TypeOK <=> Switches /\ Numbers /\ Places /\ Clients
<1>1. {saved, socket, counter, tmPend, fmDone, resmanDone} \subseteq BOOLEAN
        <=> Switches
  BY DEF Switches
<1> QED BY <1>1 DEF TypeOK, Numbers, Places, Clients

LEMMA InitTypeOK == Init => TypeOK
<1> SUFFICES ASSUME Init PROVE TypeOK
  OBVIOUS
<1>1. Cardinality(Client) \in Nat /\ MaxStops \in Nat
  BY FS_CardinalityType, ShutdownAssumption
<1>2. Switches
  BY DEF Init, Switches
<1>3. Numbers
  BY <1>1 DEF Init, Numbers, Counts
<1>4. Places
  BY DEF Init, Places, FmLoops
<1>5. Clients
  BY DEF Init, Clients, Workers, Live
<1> QED BY <1>2, <1>3, <1>4, <1>5, TypeParts

TInv == TypeOK /\ Own /\ Threads /\ Stages

\* The parts of TypeOK, except what follows from the other invariants.
LEMMA NextParts ==
  ASSUME Switches, Numbers, Places, Clients, [Next]_vars,
         Own', Threads', cntThreads' \in Counts, tmDone' \in 0 .. 3
  PROVE  Switches' /\ Numbers' /\ Places' /\ Clients'
<1> USE DEF Next, Requests, ReqLoop, ReqLock, ReqAccept, ReqAgain, ReqCount,
       ReqWait, ReqDrain, ReqSpin, ReqEnd, ReqFails, Connect, Worker, TakeFd,
       Serve, ReadPid, DecrLoad, DecrStore, DecrUnlock, ChildReady, ChildEnds,
       Stop, RespFails, RespEnd, MainSaves, TmTerm, ForksManager, FmLoop,
       FmAgain, FmFork, FmLoad, FmStore, FmWait, FmBroadcast, FmEnd, FmFails,
       FmTerm, FmUsr1, FmChld, vars
<1>1. Switches'
  <2>1. tmPend' \in BOOLEAN
    <3>1. tmPend' = tmPend \/ tmPend' = FALSE \/ tmPend' = (tmPend \/ tmTerm # "ignore")
      BY DEF TermToTm, tmSig
    <3> HIDE DEF Next, vars
    <3> QED BY <3>1 DEF Switches
  <2>2. saved' \in BOOLEAN /\ fmDone' \in BOOLEAN /\ resmanDone' \in BOOLEAN
    BY DEF Switches, fmSig
  <2> QED BY <2>1, <2>2 DEF Switches, Own, Threads
<1>2. requests' \in {"loop", "lock", "accept", "count", "wait", "drain", "spin",
                     "ended"}
  BY DEF Places
<1>3. responses' \in {"loop", "wait", "ended"}
  BY DEF Places
<1>4. tmTerm' \in {"reqman", "resman", "ignore"}
  BY DEF Places, tmSig
<1>5. /\ fm' \in FmLoops \cup {"wait", "broadcast", "drain", "exited"}
      /\ fmTerm' \in {"handler1", "handler2", "ignore"}
  BY DEF Places, FmLoops, fmSig, forks
<1>6. stops' \in 0 .. MaxStops
  <2>1. stops' = stops \/ Fault
    OBVIOUS
  <2> QED BY <2>1, ShutdownAssumption DEF Numbers, Fault
<1>7. reg' \in [Client -> Counts]
  <2>1. reg' = reg \/ \E c \in Client : reg' = [reg EXCEPT ![c] = cntThreads]
    BY DEF pool
  <2> HIDE DEF Next, vars
  <2> QED BY <2>1 DEF Numbers
<1>8. cntForks' \in Int /\ freg' \in Int
  BY DEF Numbers, forks
<1>9. fmPend' \subseteq {"TERM", "USR1", "CHLD"}
  BY DEF Clients, TermToFm, fmSig
<1>10. child' \in [Client -> Live \cup {"none", "zombie", "reaped"}]
  BY DEF Clients, Live, forks
<1> HIDE DEF Next, vars
<1> QED BY <1>1, <1>2, <1>3, <1>4, <1>5, <1>6, <1>7, <1>8, <1>9, <1>10
        DEF Numbers, Places, Clients, Counts, Own, FmLoops, Live

LEMMA NextTypeOK ==
  ASSUME TInv, [Next]_vars
  PROVE  TypeOK'
<1>1. Own' /\ Threads' /\ Stages'
  BY NextOwn, NextThreads, NextStages DEF TInv
<1>2. cntThreads' \in Counts /\ tmDone' \in 0 .. 3
  <2>1. (Threads /\ Stages => cntThreads \in Counts /\ tmDone \in 0 .. 3)'
    BY CountsTyped, PTL
  <2> QED BY <1>1, <2>1 DEF Counts
<1>3. Switches /\ Numbers /\ Places /\ Clients
  BY TypeParts DEF TInv
<1>4. (TypeOK <=> Switches /\ Numbers /\ Places /\ Clients)'
  BY TypeParts, PTL
<1> QED BY <1>1, <1>2, <1>3, <1>4, NextParts

LEMMA TInvHolds == Spec => []TInv
<1>1. Init => TInv
  BY InitTypeOK, InitOwn, InitThreads, InitStages DEF TInv
<1>2. TInv /\ [Next]_vars => TInv'
  BY NextTypeOK, NextOwn, NextThreads, NextStages DEF TInv
<1> QED BY <1>1, <1>2, PTL DEF Spec

\* cnt_threads never gets below 0 or above the threads there are, be
\* counter_mutex taken from a thread that holds it; and TM counts three stages
\* at most, whatever SIGTERMs come (manager.c:22-35, 53-81, 207-210).
THEOREM TypeCorrect == Spec => []TypeOK
BY TInvHolds, PTL DEF TInv
-----------------------------------------------------------------------------
(* The order of the stages, with one reason to stop *)

\* An add waits for its process while that sets itself up.
Asking == \A c \in Client : child[c] = "forked" => worker[c] = "forked"

\* What has been sent and has arrived tells how far the requests thread is: it
\* leaves its loop only when TM was told to, and tells FM when no request is
\* under way.
Order == /\ fmTerm # "handler1" \/ "TERM" \in fmPend => stops # 0
         /\ requests \in {"drain", "spin", "ended"} => tmDone # 0
         /\ fmTerm = "ignore" => requests = "ended"
         /\ fmTerm = "handler2" /\ "TERM" \in fmPend => requests = "ended"
         /\ requests = "ended" => \A c \in Client : worker[c] \notin Counted
         /\ Asking

Alive == Live \cup {"zombie"}

\* cnt_forks may be too high, but not too low; so at its end FM has no process,
\* and TM saves after it.
Forks == /\ Size(child, Alive) <= ForksToBe
         /\ fm = "exited" => \A c \in Client : child[c] \notin Alive
         /\ responses = "ended" => fm = "exited"
         /\ saved => responses = "ended"

LEMMA InitOrder == Init => Order
BY DEF Init, Order, Asking

LEMMA InitForks == Init => Forks
<1> SUFFICES ASSUME Init PROVE Forks
  OBVIOUS
<1>1. Size(child, Alive) = 0
  BY SizeNone DEF Init, Alive, Live
<1> QED BY <1>1 DEF Init, Forks, ForksToBe

\* The requests thread ends when cnt_threads is 0, so that no thread counts.
LEMMA NobodyCounts ==
  ASSUME Threads, cntThreads = 0
  PROVE  \A c \in Client : worker[c] \notin Counted
<1>1. Size(worker, Counted) \in Nat /\ Size(worker, Counted) <= 0
  BY SizeInNat DEF Threads, Fits
<1>2. Size(worker, Counted) = 0
  BY <1>1
<1> QED BY <1>2, SizeNone

LEMMA NextAsking ==
  ASSUME TInv, Asking, [Next]_vars
  PROVE  Asking'
<1> USE DEF Asking, TInv, TypeOK
<1>1. CASE Requests \/ ReqFails
  <2>1. UNCHANGED child
    BY <1>1 DEF Requests, ReqLoop, ReqLock, ReqAccept, ReqAgain, ReqCount,
       ReqWait, ReqDrain, ReqSpin, ReqEnd, ReqFails, forks
  <2>2. \/ UNCHANGED worker
        \/ \E d \in Client : /\ worker[d] \in {"queued", "accepted"}
                            /\ \A c \in Client \ {d} : worker'[c] = worker[c]
    <3>1. CASE ReqAccept
      BY <3>1 DEF ReqAccept, Queued
    <3>2. CASE ReqCount
      BY <3>2 DEF ReqCount, Own
    <3>3. CASE ~ReqAccept /\ ~ReqCount
      BY <1>1, <3>3 DEF Requests, ReqLoop, ReqLock, ReqAgain, ReqWait, ReqDrain,
                        ReqSpin, ReqEnd, ReqFails, pool
    <3> QED BY <3>1, <3>2, <3>3
  <2> QED BY <2>1, <2>2
<1>2. ASSUME NEW c \in Client, Connect(c) \/ Worker(c)
      PROVE  Asking'
  <2>1. UNCHANGED child /\ \A d \in Client \ {c} : worker'[d] = worker[d]
    BY <1>2 DEF Connect, Worker, TakeFd, Serve, ReadPid, DecrLoad, DecrStore,
                DecrUnlock, Move, forks
  <2>2. worker[c] = "forked" => child[c] # "forked"
    BY <1>2 DEF Connect, Worker, TakeFd, Serve, ReadPid, DecrLoad, DecrStore,
                DecrUnlock, Move
  <2> QED BY <2>1, <2>2
<1>3. CASE FmFork
  BY <1>3 DEF FmFork, Asked
<1>4. CASE Others
  <2>1. /\ UNCHANGED worker
        /\ \A c \in Client : child'[c] = "forked" => child[c] = "forked"
    BY <1>4 DEF Others, Stop, RespFails, RespEnd, MainSaves, TmTerm, FmLoop,
       FmAgain, FmLoad, FmStore, FmWait, FmBroadcast, FmEnd, FmFails, FmTerm,
       FmUsr1, FmChld, ChildReady, ChildEnds, vars, pool, forks
  <2> QED BY <2>1
<1> QED BY <1>1, <1>2, <1>3, <1>4, NextSplit

\* A reason to stop comes when none has come yet, and its SIGTERM is the first.
LEMMA FaultOrder ==
  ASSUME MaxStops <= 1, TInv, Order, Fault, TermToFm, Asking',
         requests' = requests \/ requests' = "wait",
         UNCHANGED <<worker, tmDone, fmTerm>>
  PROVE  Order'
<1>1. stops = 0 /\ stops' = 1
  BY ShutdownAssumption DEF TInv, TypeOK, Fault
<1>2. fmTerm = "handler1"
  BY <1>1 DEF Order
<1> QED BY <1>1, <1>2 DEF Order

LEMMA RequestsOrder ==
  ASSUME TInv, Order, Requests, Asking'
  PROVE  Order'
<1>1. CASE ReqEnd
  <2>1. \A c \in Client : worker'[c] \notin Counted
    BY <1>1, NobodyCounts DEF ReqEnd, TInv
  <2>2. fmTerm # "handler1"
    BY <1>1 DEF ReqEnd, Order, TInv, Stages, SentToTm, Bit
  <2> QED BY <1>1, <2>1, <2>2 DEF ReqEnd, Order, tmSig
<1>2. CASE Requests /\ ~ReqEnd
  <2>1. /\ requests \notin {"ended"} /\ requests' # "ended"
        /\ UNCHANGED <<stops, tmDone, fmTerm, fmPend>>
        /\ requests' \in {"drain", "spin"} => tmDone # 0
    BY <1>2 DEF Requests, ReqLoop, ReqLock, ReqAccept, ReqAgain, ReqCount,
       ReqWait, ReqDrain, ReqSpin, Order, tmSig, fmSig
  <2> QED BY <2>1 DEF Order
<1> QED BY <1>1, <1>2

LEMMA ClientsOrder ==
  ASSUME TInv, Order, Asking', NEW c \in Client, Connect(c) \/ Worker(c)
  PROVE  Order'
<1>1. UNCHANGED <<requests, stops, tmDone, fmTerm, fmPend>>
  BY DEF Connect, Worker, TakeFd, Serve, ReadPid, DecrLoad, DecrStore,
         DecrUnlock, tmSig, fmSig
<1>2. /\ worker[c] \notin Counted => worker'[c] \notin Counted
      /\ \A d \in Client \ {c} : worker'[d] = worker[d]
  BY DEF Connect, Worker, TakeFd, Serve, ReadPid, DecrLoad, DecrStore,
         DecrUnlock, Move, Counted, TInv, TypeOK
<1> QED BY <1>1, <1>2 DEF Order

LEMMA NextOrder ==
  ASSUME MaxStops <= 1, TInv, Order, [Next]_vars
  PROVE  Order'
<1>1. Asking'
  BY NextAsking DEF Order
<1>2. CASE Requests
  BY <1>1, <1>2, RequestsOrder
<1>3. CASE \E c \in Client : Connect(c) \/ Worker(c)
  BY <1>1, <1>3, ClientsOrder
<1>4. CASE FmFork
  <2>1. \E c \in Client : worker[c] \in Counted
    BY <1>4 DEF FmFork, Asked, Counted
  <2> QED BY <1>1, <1>4, <2>1 DEF FmFork, Order, tmSig, fmSig
<1>5. CASE ReqFails \/ Stop \/ RespFails \/ FmFails
  <2>1. /\ Fault /\ TermToFm /\ UNCHANGED <<worker, tmDone, fmTerm>>
        /\ requests' = requests \/ requests' = "wait"
    BY <1>5 DEF ReqFails, Stop, RespFails, FmFails, pool, tmSig
  <2> QED BY <1>1, <2>1, FaultOrder
<1>6. CASE TmTerm
  <2>1. /\ tmDone \in Nat /\ tmDone' = tmDone + 1
        /\ "TERM" \in fmPend' => "TERM" \in fmPend
        /\ UNCHANGED <<requests, worker, stops, fmTerm>>
    BY <1>6 DEF TmTerm, TInv, Stages, pool
  <2>2. tmDone' # 0
    BY <2>1
  <2> QED BY <1>1, <2>1, <2>2 DEF Order
<1>7. CASE FmTerm
  BY <1>1, <1>7 DEF FmTerm, Order, TInv, TypeOK, pool
<1>8. CASE /\ UNCHANGED <<requests, worker, stops, tmDone, fmTerm>>
           /\ "TERM" \in fmPend' => "TERM" \in fmPend
  BY <1>1, <1>8 DEF Order
<1>9. CASE RespEnd \/ MainSaves \/ FmLoop \/ FmAgain \/ FmLoad \/ FmStore \/ FmWait
             \/ FmBroadcast \/ FmEnd \/ FmUsr1 \/ FmChld \/ UNCHANGED vars
             \/ \E c \in Client : ChildReady(c) \/ ChildEnds(c)
  BY <1>8, <1>9 DEF RespEnd, MainSaves, FmLoop, FmAgain, FmLoad, FmStore, FmWait,
       FmBroadcast, FmEnd, FmUsr1, FmChld, ChildReady, ChildEnds, vars, pool,
       tmSig, fmSig
<1> QED BY <1>2, <1>3, <1>4, <1>5, <1>6, <1>7, <1>9, NextSplit DEF Others

\* A step that brings no process to life and lets FM count as before.
LEMMA SameForks ==
  ASSUME TInv, Forks,
         \A c \in Client : child'[c] \in Alive => child[c] \in Alive,
         ForksToBe' = ForksToBe,
         fm' = "exited" <=> fm = "exited",
         UNCHANGED <<responses, saved>>
  PROVE  Forks'
<1>1. Size(child', Alive) \in Nat /\ Size(child, Alive) \in Nat
  BY SizeInNat
<1>2. Size(child', Alive) <= Size(child, Alive)
  <2>1. {c \in Client : child'[c] \in Alive} \in SUBSET {c \in Client : child[c] \in Alive}
    OBVIOUS
  <2>2. IsFiniteSet({c \in Client : child[c] \in Alive})
    BY SizeInNat
  <2> QED BY <2>1, <2>2, FS_Subset DEF Size
<1>3. Size(child, Alive) <= ForksToBe /\ ForksToBe \in Int
  BY DEF Forks, ForksToBe, TInv, TypeOK
<1>4. Size(child, Alive)' <= ForksToBe'
  <2>1. Size(child', Alive) <= ForksToBe'
    BY <1>1, <1>2, <1>3
  <2> QED BY <2>1 DEF Size, Alive
<1> QED BY <1>4 DEF Forks, Alive

\* One process more, or one less.
LEMMA ChildSizes ==
  ASSUME TInv, NEW c \in Client, NEW w, child' = [child EXCEPT ![c] = w]
  PROVE  /\ Size(child, Alive) \in Nat /\ Size(child', Alive) \in Nat
         /\ Size(child', Alive) = Size(child, Alive)
                               - One(child[c], Alive) + One(w, Alive)
<1>1. child'[c] = w /\ \A d \in Client \ {c} : child'[d] = child[d]
  BY DEF TInv, TypeOK
<1>2. ASSUME NEW f, NEW g, \A d \in Client \ {c} : g[d] = f[d]
      PROVE  Size(g, Alive) = Size(f, Alive) - One(f[c], Alive) + One(g[c], Alive)
  BY <1>2, SizeChange, SMT
<1>3. Size(child', Alive) = Size(child, Alive) - One(child[c], Alive) + One(child'[c], Alive)
  BY <1>1, <1>2, Zenon
<1> QED BY <1>1, <1>3, SizeInNat

LEMMA ManagerForks ==
  ASSUME TInv, Forks, ForksManager \/ FmFails
  PROVE  Forks'
<1> USE DEF Forks, ForksToBe
<1>1. CASE FmFork
  <2>1. PICK c \in Client : child' = [child EXCEPT ![c] = "forked"]
    BY <1>1 DEF FmFork, Asked
  <2>2. /\ Size(child, Alive) \in Nat /\ Size(child', Alive) \in Nat
        /\ Size(child', Alive) = Size(child, Alive)
                              - One(child[c], Alive) + One("forked", Alive)
    BY <2>1, ChildSizes
  <2>3. One("forked", Alive) \in {0, 1} /\ One(child[c], Alive) \in {0, 1}
    BY DEF One
  <2>4. /\ fm = "accept" /\ fm' = "load" /\ cntForks \in Int
        /\ UNCHANGED <<cntForks, freg, responses, saved>>
    BY <1>1 DEF FmFork, TInv, TypeOK
  <2>5. Size(child', Alive) <= cntForks + 1
    BY <2>2, <2>3, <2>4
  <2>6. Size(child, Alive)' <= ForksToBe'
    BY <2>4, <2>5 DEF Size, Alive
  <2> QED BY <2>4, <2>6
<1>2. CASE FmEnd
  <2>1. /\ fm = "drain" /\ cntForks = 0 /\ fm' = "exited"
        /\ UNCHANGED <<cntForks, freg, child, responses, saved>>
    BY <1>2 DEF FmEnd
  <2>2. Size(child, Alive) \in Nat /\ Size(child, Alive) <= 0
    BY <2>1, SizeInNat
  <2>3. Size(child, Alive) = 0
    BY <2>2
  <2>4. \A c \in Client : child[c] \notin Alive
    BY <2>3, SizeNone
  <2>5. Size(child, Alive)' <= ForksToBe'
    BY <2>1, <2>2 DEF Size, Alive
  <2> QED BY <2>1, <2>4, <2>5 DEF Alive
<1>3. CASE FmBroadcast
  <2>1. \A c \in Client : child'[c] \in Alive => child[c] \in Alive
    BY <1>3 DEF FmBroadcast, Alive, Live
  <2> QED BY <1>3, <2>1, SameForks DEF FmBroadcast
<1>4. CASE FmLoad \/ FmStore
  <2>1. ForksToBe' = ForksToBe
    BY <1>4 DEF FmLoad, FmStore
  <2> QED BY <1>4, <2>1, SameForks DEF FmLoad, FmStore
<1>5. CASE FmLoop \/ FmAgain \/ FmWait \/ FmFails
  BY <1>5, SameForks DEF FmLoop, FmAgain, FmWait, FmFails
<1> QED BY <1>1, <1>2, <1>3, <1>4, <1>5 DEF ForksManager

LEMMA NextForks ==
  ASSUME TInv, Forks, [Next]_vars
  PROVE  Forks'
<1>1. CASE ForksManager \/ FmFails
  BY <1>1, ManagerForks
<1>2. CASE FmChld
  <2>1. PICK c \in Client : /\ child[c] = "zombie"
                            /\ child' = [child EXCEPT ![c] = "reaped"]
    BY <1>2 DEF FmChld
  <2>2. /\ Size(child, Alive) \in Nat /\ Size(child', Alive) \in Nat
        /\ Size(child', Alive) = Size(child, Alive)
                              - One("zombie", Alive) + One("reaped", Alive)
    BY <2>1, ChildSizes
  <2>3. One("zombie", Alive) = 1 /\ One("reaped", Alive) = 0
    BY DEF One, Alive, Live
  <2>4. /\ cntForks \in Int /\ freg \in Int
        /\ cntForks' = cntForks - 1
        /\ UNCHANGED <<fm, freg, responses, saved>>
    BY <1>2 DEF FmChld, TInv, TypeOK
  <2>5. Size(child', Alive) <= ForksToBe - 1
    <3>1. Size(child, Alive) <= ForksToBe /\ ForksToBe \in Int
      BY <2>4 DEF Forks, ForksToBe
    <3> QED BY <2>2, <2>3, <3>1
  <2>6. ForksToBe' >= ForksToBe - 1 /\ ForksToBe \in Int /\ ForksToBe' \in Int
    BY <2>4 DEF ForksToBe
  <2>7. Size(child, Alive)' <= ForksToBe'
    <3>1. Size(child', Alive) <= ForksToBe'
      BY <2>2, <2>5, <2>6
    <3> QED BY <3>1 DEF Size, Alive
  <2>8. \A d \in Client : child'[d] \in Alive => child[d] \in Alive
    BY <2>1 DEF Alive, Live, TInv, TypeOK
  <2> QED BY <2>4, <2>7, <2>8 DEF Forks, Alive
<1>3. CASE \E c \in Client : ChildReady(c) \/ ChildEnds(c)
  <2>1. \A c \in Client : child'[c] \in Alive => child[c] \in Alive
    BY <1>3 DEF ChildReady, ChildEnds, Alive, Live, TInv, TypeOK
  <2> QED BY <1>3, <2>1, SameForks DEF ChildReady, ChildEnds, ForksToBe
<1>4. CASE RespEnd
  <2>1. fm = "exited"
    BY <1>4 DEF RespEnd, TInv, TypeOK, Stages, SentToTm, Bit
  <2> QED BY <1>4, <2>1 DEF RespEnd, Forks, ForksToBe, Size, Alive, forks
<1>5. CASE RespFails \/ MainSaves
  BY <1>5 DEF RespFails, MainSaves, Forks, ForksToBe, Size, Alive, forks
<1>6. CASE UNCHANGED <<fm, cntForks, freg, child, responses, saved>>
  BY <1>6 DEF Forks, ForksToBe, Size, Alive
<1>7. CASE Requests \/ ReqFails \/ Stop \/ TmTerm \/ FmTerm \/ FmUsr1
             \/ UNCHANGED vars \/ \E c \in Client : Connect(c) \/ Worker(c)
  BY <1>6, <1>7 DEF Requests, ReqLoop, ReqLock, ReqAccept, ReqAgain, ReqCount,
       ReqWait, ReqDrain, ReqSpin, ReqEnd, ReqFails, Stop, TmTerm, FmTerm,
       FmUsr1, Connect, Worker, TakeFd, Serve, ReadPid, DecrLoad, DecrStore,
       DecrUnlock, forks, vars
<1> QED BY <1>1, <1>2, <1>3, <1>4, <1>5, <1>7 DEF Next

LEMMA ForksHold == Spec => [](TInv /\ Forks)
<1>1. TInv /\ Forks /\ [Next]_vars => Forks'
  BY NextForks
<1> QED BY <1>1, TInvHolds, InitForks, PTL DEF Spec

LEMMA OrderHolds ==
  ASSUME MaxStops <= 1
  PROVE  Spec => [](TInv /\ Order /\ Forks)
<1>1. TInv /\ Order /\ [Next]_vars => Order'
  BY NextOrder
<1> QED BY <1>1, ForksHold, InitOrder, PTL DEF Spec

\* In the stages in which the group is signalled.
LEMMA LateStages ==
  ASSUME TInv, Order, fm \in {"broadcast", "drain", "exited"}
  PROVE  /\ requests = "ended"
         /\ \A c \in Client : worker[c] \notin Counted /\ child[c] # "forked"
<1>1. requests = "ended"
  BY DEF Order, TInv, Stages
<1> QED BY <1>1 DEF Order, Asking, Counted

\* With one reason to stop, a fault or a SIGTERM, FM signals the group when no
\* request is under way any more, however many clients there are and however
\* their threads interleave (manager.c:205-216, 359-361).
THEOREM RequestsFirstHolds ==
  ASSUME MaxStops <= 1
  PROVE  Spec => []RequestsFirst
<1>1. TInv /\ Order /\ Forks => RequestsFirst
  BY LateStages DEF RequestsFirst
<1> QED BY <1>1, OrderHolds, PTL

\* The tables are saved when the request threads and the analysis processes are
\* over (manager.c:166-177, 359-368).
THEOREM SavedLastHolds ==
  ASSUME MaxStops <= 1
  PROVE  Spec => []SavedLast
<1>1. TInv /\ Order /\ Forks => SavedLast
  BY LateStages DEF SavedLast, Forks, Alive
<1> QED BY <1>1, OrderHolds, PTL
=============================================================================

---------------------------- MODULE ClientProofs ----------------------------
(***************************************************************************)
(* Proofs about module Client, for any clients, command lines, texts and   *)
(* tables.                                                                 *)
(*                                                                         *)
(* First its encodings: a task as it is sent and read, and the stream of a *)
(* reply.  A reply is one sequence of cells: a header of at most one cell, *)
(* then for each text its length and the text.  Cell p of it is            *)
(* CellAt(header, texts, p).                                               *)
(*                                                                         *)
(* The heart of it: what a client has not read, in the connection and with *)
(* the thread, is always the rest of one stream, that of the texts of the  *)
(* reply.                                                                  *)
(***************************************************************************)
EXTENDS Client, SequenceTheorems, FiniteSetTheorems, TLAPS

(* Streams *)

CellAt(h, texts, p) ==
  IF p <= Len(h) THEN h[p]
  ELSE LET q == p - Len(h) - 1
       IN IF q % 3 = 0 THEN Field(Len(texts[q \div 3 + 1]))
          ELSE texts[q \div 3 + 1][q % 3]

\* All texts but the last have two pieces.
Total(h, texts) ==
  Len(h) + (IF texts = <<>> THEN 0
            ELSE 3 * (Len(texts) - 1) + 1 + Len(texts[Len(texts)]))

\* rest is what follows the first r cells.
Follows(rest, h, texts, r) ==
  /\ r + Len(rest) = Total(h, texts)
  /\ \A j \in 1 .. Len(rest) : rest[j] = CellAt(h, texts, r + j)

Kinds == {"unknown", "refused", "about", "listed", "report", "not done"}

Cell == [num : Int] \cup [sol : {"0", "1"}] \cup [path : Paths \cup {NoPath}]
        \cup [says : Kinds, of : Int, piece : Int]

Texts == {t \in Seq(Cell) : 1 <= Len(t) /\ Len(t) <= 2}

\* What is still to be sent: at most a header and a message.
Flat(messages) == IF Len(messages) = 0 THEN <<>>
                  ELSE IF Len(messages) = 1 THEN messages[1]
                  ELSE messages[1] \o messages[2]

-----------------------------------------------------------------------------
(* Tasks and their encoding *)

\* The task as the request carries it.
Carried(t) == readTask(taskToString(t))

\* The tasks that a command line can mean.
Meant ==
  {NoTask} \cup {Task(1, NoId, n, p) : n \in Int, p \in Paths}
  \cup {Task(k, n, 0, NoPath) : k \in 2 .. 8, n \in Int}

\* A number is cut to a number, one of four characters is not cut.
LEMMA CutNumber ==
  ASSUME NEW n \in Int
  PROVE  Cut(n) \in Int /\ (n \in FourCharacters => Cut(n) = n)
<1>1. \A m \in Int : DropFigure(m) \in Int
  BY DEF DropFigure
<1>2. \A m \in Int : Leading(m) \in Int
  BY <1>1, Zenon DEF Drop2, Leading
<1>3. -n \in Int /\ Leading(-n) \div 10 \in Int
  BY <1>2
<1>4. Cut(n) \in Int
  BY <1>2, <1>3 DEF Cut
<1>5. n \in FourCharacters => Cut(n) = n
  BY DEF Cut, FourCharacters
<1> QED BY <1>4, <1>5

\* Every command line means a task of the eight, or none.
LEMMA MeantTask ==
  ASSUME NEW line \in Lines, NEW junk \in Junk
  PROVE  get_task(line, junk) \in Meant
<1>1. junk \in Int
  BY ClientAssumption
<1>2. CASE line = <<>>
  BY <1>2 DEF get_task, Meant
<1>3. CASE line # <<>>
  <2>0. line \in Seq({line[i] : i \in DOMAIN line})
    BY ClientAssumption
  <2>1. 1 \in DOMAIN line
    BY <1>3, <2>0
  <2>2. line[1].opt = "a" \/ line[1].arg \in Int
    BY <2>1, ClientAssumption
  <2>3. Len(line) = 2 => (line[2].opt = "a" \/ line[2].arg \in Int)
    <3>1. Len(line) = 2 => 2 \in DOMAIN line
      BY <2>0
    <3> QED BY <3>1, ClientAssumption
  <2>5. CASE line[1].opt \notin DOMAIN TaskOf
    BY <2>5 DEF get_task, Meant
  <2>6. CASE line[1].opt \in DOMAIN TaskOf /\ line[1].opt # "a"
    <3>1. TaskOf[line[1].opt] \in 2 .. 8
      BY <2>6 DEF TaskOf
    <3> QED BY <2>2, <2>6, <1>1, <1>3, <3>1, SMT DEF get_task, Meant
  <2>7. CASE line[1].opt = "a"
    <3>1. line[1].opt \in DOMAIN TaskOf
      BY <2>7 DEF TaskOf
    <3>2. CASE line[1].arg \notin Paths
      BY <2>7, <1>3, <3>1, <3>2, SMT DEF get_task, Meant
    <3>3. CASE line[1].arg \in Paths /\ Len(line) = 1
      <4>1. get_task(line, junk) = Task(1, NoId, 2, line[1].arg)
        BY <2>7, <1>3, <3>1, <3>3, SMT DEF get_task
      <4> QED BY <3>3, <4>1, SMT DEF Meant
    <3>4. CASE line[1].arg \in Paths /\ Len(line) = 2 /\ line[2].opt = "p"
      <4>1. get_task(line, junk) = Task(1, NoId, line[2].arg, line[1].arg)
        BY <2>7, <1>3, <3>1, <3>4, SMT DEF get_task
      <4>2. line[2].arg \in Int
        BY <2>3, <3>4
      <4> QED BY <3>4, <4>1, <4>2, SMT DEF Meant
    <3>5. CASE Len(line) # 1 /\ ~(Len(line) = 2 /\ line[2].opt = "p")
      <4>1. get_task(line, junk) = NoTask
        BY <2>7, <1>3, <3>1, <3>5, SMT DEF get_task
      <4> QED BY <4>1 DEF Meant
    <3> QED BY <3>2, <3>3, <3>4, <3>5
  <2> QED BY <2>5, <2>6, <2>7
<1> QED BY <1>2, <1>3

LEMMA MeantType ==
  ASSUME NEW t \in Meant
  PROVE  /\ t \in TaskType
         /\ t = NoTask <=> t.cnt = 0
         /\ t.cnt = 1 => /\ t = Task(1, NoId, t.priority, t.path)
                         /\ t.path \in Paths
         /\ t.cnt \in 2 .. 8 => t = Task(t.cnt, t.id, 0, NoPath)
BY DEF Meant, TaskType, Task, NoTask, NoId, NoPath

LEMMA ValueOfField ==
  ASSUME NEW n
  PROVE  Value(Field(n)) = n
BY DEF Value, Field

\* The three layouts of a request.
LEMMA RequestOfAdd ==
  ASSUME NEW t \in Meant, t.cnt = 1
  PROVE  /\ taskToString(t) \in Seq(Cell) /\ Len(taskToString(t)) = 4
         /\ taskToString(t)[1] = Field(1) /\ taskToString(t)[3] = Field(1)
         /\ Carried(t) = Task(1, NoId, Cut(t.priority), t.path)
<1>1. t \in TaskType /\ t.path \in Paths
  BY MeantType
<1>2. Cut(t.priority) \in Int
  BY <1>1, CutNumber DEF TaskType
<1>3. taskToString(t) = <<Field(1), Field(Cut(t.priority)), Field(1), [path |-> t.path]>>
  BY DEF taskToString
<1>4. Field(1) \in Cell /\ Field(Cut(t.priority)) \in Cell /\ [path |-> t.path] \in Cell
  BY <1>1, <1>2 DEF Cell, Field
<1>5. Value(Field(1)) = 1 /\ Value(Field(Cut(t.priority))) = Cut(t.priority)
  BY DEF Field, Value
<1>6. /\ taskToString(t) \in Seq(Cell) /\ Len(taskToString(t)) = 4
      /\ taskToString(t)[1] = Field(1) /\ taskToString(t)[3] = Field(1)
      /\ taskToString(t)[2] = Field(Cut(t.priority))
      /\ taskToString(t)[4] = [path |-> t.path]
  <2> HIDE DEF Cell, Field
  <2> QED BY <1>3, <1>4
<1>7. taskToString(t)[4].path = t.path
  BY <1>6
<1>8. Carried(t) = Task(1, NoId, Cut(t.priority), t.path)
  BY <1>5, <1>6, <1>7 DEF Carried, readTask
<1> QED BY <1>6, <1>8

LEMMA RequestOfList ==
  ASSUME NEW t \in Meant, t.cnt = 6
  PROVE  /\ taskToString(t) \in Seq(Cell) /\ Len(taskToString(t)) = 1
         /\ taskToString(t)[1] = Field(6)
         /\ Carried(t) = Task(6, NoId, 0, NoPath)
<1>1. taskToString(t) = <<Field(6)>>
  BY DEF taskToString
<1>2. Field(6) \in Cell /\ Value(Field(6)) = 6
  BY DEF Cell, Field, Value
<1>3. /\ taskToString(t) \in Seq(Cell) /\ Len(taskToString(t)) = 1
      /\ taskToString(t)[1] = Field(6)
  BY <1>1, <1>2
<1> QED BY <1>2, <1>3 DEF Carried, readTask

LEMMA RequestOfId ==
  ASSUME NEW t \in Meant, t.cnt \in 2 .. 8 \ {6}
  PROVE  /\ taskToString(t) \in Seq(Cell) /\ Len(taskToString(t)) = 2
         /\ taskToString(t)[1] = Field(t.cnt)
         /\ Carried(t) = Task(t.cnt, Cut(t.id), 0, NoPath)
<1>1. t \in TaskType
  BY MeantType
<1>2. Cut(t.id) \in Int /\ t.cnt \in Int
  BY <1>1, CutNumber DEF TaskType
<1>3. taskToString(t) = <<Field(t.cnt), Field(Cut(t.id))>>
  BY DEF taskToString
<1>4. Field(t.cnt) \in Cell /\ Field(Cut(t.id)) \in Cell
  BY <1>2 DEF Cell, Field
<1>5. Value(Field(t.cnt)) = t.cnt /\ Value(Field(Cut(t.id))) = Cut(t.id)
  BY DEF Field, Value
<1>6. /\ taskToString(t) \in Seq(Cell) /\ Len(taskToString(t)) = 2
      /\ taskToString(t)[1] = Field(t.cnt) /\ taskToString(t)[2] = Field(Cut(t.id))
  BY <1>3, <1>4
<1>7. t.cnt # 1 /\ t.cnt # 6
  OBVIOUS
<1> QED BY <1>5, <1>6, <1>7 DEF Carried, readTask

\* What the thread reads of a whole request: the task that was meant, but for
\* a number that does not fit.
THEOREM CarriedTask ==
  ASSUME NEW t \in Meant, t # NoTask
  PROVE  /\ taskToString(t) \in Seq(Cell) /\ Len(taskToString(t)) > 0
         /\ Carried(t) \in TaskType /\ Carried(t) # NoTask
         /\ Carried(t).cnt = t.cnt
         /\ Fits(t) /\ t.cnt # 6 => Carried(t) = t
         /\ t.cnt = 1 => Carried(t).path = t.path
<1>1. t \in TaskType /\ t.cnt \in 1 .. 8
  BY MeantType DEF TaskType
<1>2. /\ Cut(t.id) \in Int /\ Cut(t.priority) \in Int
      /\ Fits(t) => Cut(t.id) = t.id /\ Cut(t.priority) = t.priority
  <2>1. t.id \in Int /\ t.priority \in Int
    BY <1>1 DEF TaskType
  <2>2. Cut(t.id) \in Int /\ (t.id \in FourCharacters => Cut(t.id) = t.id)
    BY <2>1, CutNumber
  <2>3. /\ Cut(t.priority) \in Int
        /\ (t.priority \in FourCharacters => Cut(t.priority) = t.priority)
    BY <2>1, CutNumber
  <2> QED BY <2>2, <2>3 DEF Fits
<1>3. CASE t.cnt = 1
  <2>1. t = Task(1, NoId, t.priority, t.path) /\ t.path \in Paths
    BY <1>3, MeantType
  <2>2. Carried(t) = Task(1, NoId, Cut(t.priority), t.path)
    BY <1>3, RequestOfAdd
  <2>3. Fits(t) => Carried(t) = t
    BY <2>1, <2>2, <1>2, Zenon
  <2>4. /\ Carried(t) \in TaskType /\ Carried(t) # NoTask
        /\ Carried(t).cnt = 1 /\ Carried(t).path = t.path
    BY <2>1, <2>2, <1>2 DEF Task, TaskType, NoTask, NoId
  <2> QED BY <2>3, <2>4, <1>3, RequestOfAdd
<1>4. CASE t.cnt = 6
  <2>1. Carried(t) = Task(6, NoId, 0, NoPath)
    BY <1>4, RequestOfList
  <2>2. Carried(t) \in TaskType /\ Carried(t) # NoTask /\ Carried(t).cnt = 6
    BY <2>1 DEF Task, TaskType, NoTask, NoId
  <2> QED BY <2>2, <1>4, RequestOfList
<1>5. CASE t.cnt \in 2 .. 8 \ {6}
  <2>1. t = Task(t.cnt, t.id, 0, NoPath)
    BY <1>5, MeantType
  <2>2. Carried(t) = Task(t.cnt, Cut(t.id), 0, NoPath)
    BY <1>5, RequestOfId
  <2>3. Fits(t) => Carried(t) = t
    BY <2>1, <2>2, <1>2, Zenon
  <2>4. /\ Carried(t) \in TaskType /\ Carried(t) # NoTask
        /\ Carried(t).cnt = t.cnt
    BY <2>2, <1>1, <1>2 DEF Task, TaskType, NoTask, NoId
  <2> QED BY <2>3, <2>4, <1>5, RequestOfId
<1> QED BY <1>1, <1>3, <1>4, <1>5

\* The thread goes on when the whole request is there, not before.
LEMMA ArrivedWhole ==
  ASSUME NEW t \in Meant, t # NoTask, NEW s \in Seq(Cell), Arrived(s),
         Len(s) <= Len(taskToString(t)),
         \A j \in 1 .. Len(s) : s[j] = taskToString(t)[j]
  PROVE  s = taskToString(t)
<1> DEFINE whole == taskToString(t)
<1>0. Len(s) \in Nat /\ Len(s) <= Len(whole)
  OBVIOUS
<1> HIDE DEF whole
<1>1. t.cnt \in 1 .. 8
  BY MeantType DEF TaskType
<1>2. whole \in Seq(Cell) /\ \A j \in 1 .. Len(s) : s[j] = whole[j]
  BY CarriedTask DEF whole
<1>3. Len(s) >= 1 /\ s # <<>>
  BY DEF Arrived
<1>4. Len(s) = Len(whole)
  <2>1. CASE t.cnt = 1
    <3>1. Len(whole) = 4 /\ whole[1] = Field(1) /\ whole[3] = Field(1)
      BY <2>1, RequestOfAdd DEF whole
    <3>2. s[1] = Field(1)
      BY <1>2, <1>3, <3>1
    <3>3. Value(s[1]) = 1
      BY <3>2, ValueOfField, Zenon
    <3>4. Len(s) >= 3 /\ Len(s) >= 3 + Value(s[3])
      BY <3>3 DEF Arrived
    <3>5. s[3] = Field(1)
      BY <1>2, <3>1, <3>4
    <3>6. Value(s[3]) = 1
      BY <3>5, ValueOfField, Zenon
    <3>7. Len(s) >= 4
      BY <3>4, <3>6, <1>0
    <3> QED BY <3>1, <3>7, <1>0, <1>2
  <2>2. CASE t.cnt = 6
    BY <2>2, <1>0, <1>3, RequestOfList DEF whole
  <2>3. CASE t.cnt \in 2 .. 8 \ {6}
    <3>1. Len(whole) = 2 /\ whole[1] = Field(t.cnt)
      BY <2>3, RequestOfId DEF whole
    <3>2. s[1] = Field(t.cnt)
      BY <1>2, <1>3, <3>1
    <3>3. Value(s[1]) = t.cnt
      BY <3>2, ValueOfField, Zenon
    <3>4. Len(s) >= 2
      BY <2>3, <3>3 DEF Arrived
    <3> QED BY <3>1, <3>4, <1>0, <1>2
  <2> QED BY <1>1, <2>1, <2>2, <2>3
<1> QED BY <1>2, <1>4, SeqEqual DEF whole

-----------------------------------------------------------------------------
(* The stream of a reply *)

\* Where a header, a length and a piece of a text are.
LEMMA CellOfHeader ==
  ASSUME NEW h \in Seq(Cell), NEW texts, NEW p \in 1 .. Len(h)
  PROVE  CellAt(h, texts, p) = h[p]
BY DEF CellAt

LEMMA CellOfLength ==
  ASSUME NEW h \in Seq(Cell), NEW texts, NEW k \in Nat, NEW p \in Int,
         p = Len(h) + 3 * k + 1
  PROVE  CellAt(h, texts, p) = Field(Len(texts[k + 1]))
<1>1. Len(h) \in Nat
  OBVIOUS
<1>2. p - Len(h) - 1 = 3 * k /\ ~(p <= Len(h))
  BY <1>1
<1>3. (3 * k) % 3 = 0 /\ (3 * k) \div 3 = k
  OBVIOUS
<1> QED BY <1>2, <1>3 DEF CellAt

Place(h, k, j) == Len(h) + 3 * k + 1 + j
Pieces(texts, k) == texts[k + 1]

LEMMA CellOfPiece ==
  ASSUME NEW h \in Seq(Cell), NEW texts, NEW k \in Nat, NEW j \in 1 .. 2
  PROVE  CellAt(h, texts, Place(h, k, j)) = Pieces(texts, k)[j]
<1>1. PICK hd \in Nat : hd = Len(h)
  OBVIOUS
<1>2. PICK p \in Int : p = Place(h, k, j)
  BY <1>1 DEF Place
<1>3. p - Len(h) - 1 = 3 * k + j /\ ~(p <= Len(h))
  BY <1>1, <1>2 DEF Place
<1>4. (3 * k + j) % 3 = j /\ (3 * k + j) \div 3 = k /\ j # 0
  OBVIOUS
<1>5. CellAt(h, texts, p) = texts[k + 1][j]
  BY <1>3, <1>4 DEF CellAt
<1> QED BY <1>2, <1>5, Zenon DEF Pieces

LEMMA CellOfFirst ==
  ASSUME NEW h \in Seq(Cell), NEW texts, NEW j \in 1 .. 2,
         NEW p \in Int, p = Len(h) + 1 + j
  PROVE  CellAt(h, texts, p) = texts[1][j]
<1>1. Len(h) \in Nat
  OBVIOUS
<1>2. p - Len(h) - 1 = j /\ ~(p <= Len(h))
  BY <1>1
<1>3. j % 3 = j /\ j \div 3 + 1 = 1 /\ j # 0
  OBVIOUS
<1> QED BY <1>2, <1>3 DEF CellAt

\* The length of a stream.
LEMMA TotalType ==
  ASSUME NEW h \in Seq(Cell), NEW texts \in Seq(Texts)
  PROVE  /\ Total(h, texts) \in Nat /\ Len(h) \in Nat /\ Len(texts) \in Nat
         /\ texts = <<>> => Total(h, texts) = Len(h)
         /\ texts # <<>> =>
              /\ Len(texts) >= 1
              /\ \E last \in 1 .. 2 :
                   /\ last = Len(texts[Len(texts)])
                   /\ Total(h, texts) = Len(h) + 3 * (Len(texts) - 1) + 1 + last
<1>1. Len(h) \in Nat /\ Len(texts) \in Nat
  OBVIOUS
<1>2. CASE texts = <<>>
  <2>1. Total(h, texts) = Len(h) + 0
    BY <1>2 DEF Total
  <2> QED BY <1>1, <1>2, <2>1
<1>3. CASE texts # <<>>
  <2>1. Len(texts) >= 1 /\ texts[Len(texts)] \in Texts
    BY <1>3
  <2>2. PICK last \in 1 .. 2 : last = Len(texts[Len(texts)])
    <3>1. /\ Len(texts[Len(texts)]) \in Nat
          /\ 1 <= Len(texts[Len(texts)]) /\ Len(texts[Len(texts)]) <= 2
      BY <2>1 DEF Texts
    <3>2. \A n \in Nat : 1 <= n /\ n <= 2 => n \in 1 .. 2
      OBVIOUS
    <3>3. Len(texts[Len(texts)]) \in 1 .. 2
      BY <3>1, <3>2, Zenon
    <3> QED BY <3>3, Zenon
  <2>3. Total(h, texts) = Len(h) + (3 * (Len(texts) - 1) + 1 + last)
    BY <1>3, <2>2 DEF Total
  <2>4. /\ Total(h, texts) = Len(h) + 3 * (Len(texts) - 1) + 1 + last
        /\ Total(h, texts) \in Nat
    BY <1>1, <2>1, <2>3
  <2> QED BY <1>1, <1>3, <2>1, <2>2, <2>4
<1> QED BY <1>2, <1>3

\* n cells are read.
LEMMA FollowsTake ==
  ASSUME NEW d \in Seq(Cell), NEW f \in Seq(Cell), NEW n \in Nat, n <= Len(d),
         NEW h, NEW texts, NEW r \in Nat, Follows(d \o f, h, texts, r)
  PROVE  Follows(SubSeq(d, n + 1, Len(d)) \o f, h, texts, r + n)
<1> DEFINE e == SubSeq(d, n + 1, Len(d))
<1>1. e \in Seq(Cell) /\ Len(e) = Len(d) - n
  BY SubSeqProperties
<1>2. \A j \in 1 .. Len(e) : e[j] = d[n + j]
  BY SubSeqProperties
<1> HIDE DEF e
<1>3. Len(e \o f) = Len(d \o f) - n /\ Len(d \o f) = Len(d) + Len(f)
  BY <1>1
<1>4. \A j \in 1 .. Len(e \o f) : (e \o f)[j] = (d \o f)[n + j]
  BY <1>1, <1>2, SMTT(30)
<1>5. \A j \in 1 .. Len(e \o f) :
        /\ n + j \in 1 .. Len(d \o f) /\ r + (n + j) = (r + n) + j
  BY <1>3, <1>1
<1>6. r + n + Len(e \o f) = r + Len(d \o f)
  BY <1>3, <1>1
<1> QED BY <1>4, <1>5, <1>6 DEF Follows, e

\* The client reads the header, a length, a text.
LEMMA ReadHeader ==
  ASSUME NEW d \in Seq(Cell), NEW f \in Seq(Cell), Len(d) >= 1,
         NEW h \in Seq(Cell), Len(h) = 1, NEW texts, Follows(d \o f, h, texts, 0)
  PROVE  d[1] = h[1]
<1>1. 1 \in 1 .. Len(d \o f) /\ (d \o f)[1] = d[1]
  OBVIOUS
<1>2. d[1] = CellAt(h, texts, 0 + 1)
  BY <1>1 DEF Follows
<1>3. 0 + 1 = 1 /\ 1 \in 1 .. Len(h)
  OBVIOUS
<1> QED BY <1>2, <1>3, CellOfHeader

LEMMA ReadLength ==
  ASSUME NEW d \in Seq(Cell), NEW f \in Seq(Cell), Len(d) >= 1,
         NEW h \in Seq(Cell), NEW texts \in Seq(Texts),
         NEW k \in Nat, k <= Len(texts),
         Follows(d \o f, h, texts, Len(h) + 3 * k)
  PROVE  k < Len(texts) /\ d[1] = Field(Len(texts[k + 1]))
<1>1. Len(h) \in Nat /\ Len(texts) \in Nat
  BY TotalType
<1>2. Len(d \o f) >= 1 /\ Len(d \o f) \in Nat /\ (d \o f)[1] = d[1]
  OBVIOUS
<1>3. Len(h) + 3 * k + Len(d \o f) = Total(h, texts)
  BY DEF Follows
<1>4. k # Len(texts)
  <2>1. SUFFICES ASSUME k = Len(texts) PROVE FALSE
    OBVIOUS
  <2>2. CASE texts = <<>>
    <3>1. Total(h, texts) = Len(h)
      BY <2>2, TotalType
    <3> QED BY <1>1, <1>2, <1>3, <3>1
  <2>3. CASE texts # <<>>
    <3>1. PICK last \in 1 .. 2 :
            Total(h, texts) = Len(h) + 3 * (Len(texts) - 1) + 1 + last
      BY <2>3, TotalType
    <3> QED BY <1>1, <1>2, <1>3, <2>1, <3>1
  <2> QED BY <2>2, <2>3
<1>5. d[1] = CellAt(h, texts, Len(h) + 3 * k + 1)
  BY <1>2 DEF Follows
<1>6. Len(h) + 3 * k + 1 \in Int
  BY <1>1
<1> QED BY <1>1, <1>4, <1>5, <1>6, CellOfLength

LEMMA ReadPieces ==
  ASSUME NEW d \in Seq(Cell), NEW f \in Seq(Cell),
         NEW h \in Seq(Cell), NEW texts \in Seq(Texts),
         NEW k \in Nat, k < Len(texts), Len(d) >= Len(texts[k + 1]),
         Follows(d \o f, h, texts, Len(h) + 3 * k + 1)
  PROVE  SubSeq(d, 1, Len(texts[k + 1])) = texts[k + 1]
<1> DEFINE text == texts[k + 1]
           got  == SubSeq(d, 1, Len(text))
<1>1. Len(h) \in Nat /\ Len(texts) \in Nat
  BY TotalType
<1>2. text \in Seq(Cell) /\ 1 <= Len(text) /\ Len(text) <= 2
  <2>1. text \in Texts
    BY <1>1
  <2> QED BY <2>1 DEF Texts
<1>0. Len(d) >= Len(text) /\ Len(d) \in Nat /\ \A j \in 1 .. Len(d) : d[j] \in Cell
  OBVIOUS
<1>3. got \in Seq(Cell) /\ Len(got) = Len(text) /\ \A j \in 1 .. Len(text) : got[j] = d[j]
  <2> HIDE DEF text
  <2>1. \A j \in 1 .. Len(text) : d[j] \in Cell
    BY <1>0, <1>2
  <2>2. Len(text) \in Int /\ 1 \in Int
    BY <1>2
  <2> QED BY <1>2, <2>1, <2>2, SubSeqProperties
<1>4. ASSUME NEW j \in 1 .. Len(text)
      PROVE  d[j] = text[j]
  <2>1. j \in 1 .. Len(d \o f) /\ (d \o f)[j] = d[j] /\ j \in 1 .. 2
    <3> HIDE DEF text
    <3>1. j \in 1 .. 2 /\ j \in 1 .. Len(d)
      BY <1>0, <1>2
    <3>2. Len(d \o f) = Len(d) + Len(f) /\ Len(f) \in Nat /\ (d \o f)[j] = d[j]
      BY <3>1
    <3> QED BY <1>0, <3>1, <3>2
  <2>2. d[j] = CellAt(h, texts, Len(h) + 3 * k + 1 + j)
    BY <2>1 DEF Follows
  <2>3. CellAt(h, texts, Place(h, k, j)) = Pieces(texts, k)[j]
    BY <2>1, CellOfPiece, Zenon
  <2> QED BY <2>2, <2>3, Zenon DEF Place, Pieces
<1> HIDE DEF text, got
<1>5. got = text
  BY <1>2, <1>3, <1>4, SeqEqual
<1> QED BY <1>5 DEF got, text

\* After the last text nothing is left.
LEMMA ReadAll ==
  ASSUME NEW h \in Seq(Cell), NEW texts \in Seq(Texts), texts # <<>>,
         NEW rest \in Seq(Cell), NEW r \in Int,
         Follows(rest, h, texts, r),
         r >= Len(h) + 3 * (Len(texts) - 1) + 1 + Len(texts[Len(texts)])
  PROVE  rest = <<>>
<1>1. Len(rest) \in Nat /\ (Len(rest) = 0 => rest = <<>>)
  OBVIOUS
<1>2. r + Len(rest) = Total(h, texts)
  BY DEF Follows
<1>3. PICK last \in 1 .. 2 :
        /\ last = Len(texts[Len(texts)])
        /\ Total(h, texts) = Len(h) + 3 * (Len(texts) - 1) + 1 + last
  BY TotalType
<1>4. Len(h) \in Nat /\ Len(texts) \in Nat
  BY TotalType
<1>5. r >= Len(h) + 3 * (Len(texts) - 1) + 1 + last
  BY <1>3
<1>6. r >= Total(h, texts)
  BY <1>3, <1>5, Zenon
<1>7. Len(rest) = 0
  <2>1. Total(h, texts) \in Nat
    BY TotalType
  <2> QED BY <1>1, <1>2, <1>6, <2>1
<1> QED BY <1>1, <1>7

\* The thread makes a reply of one text, or goes on with a list.
LEMMA MessageType ==
  ASSUME NEW text \in Texts
  PROVE  /\ Message(text) \in Seq(Cell) \ {<<>>}
         /\ Len(Message(text)) = Len(text) + 1
         /\ Message(text)[1] = Field(Len(text))
         /\ \A j \in 1 .. Len(text) : Message(text)[j + 1] = text[j]
<1>1. text \in Seq(Cell) /\ Len(text) \in Nat
  BY DEF Texts
<1>2. Field(Len(text)) \in Cell
  BY <1>1 DEF Cell, Field
<1>3. <<Field(Len(text))>> \in Seq(Cell) /\ Len(<<Field(Len(text))>>) = 1
      /\ <<Field(Len(text))>>[1] = Field(Len(text))
  BY <1>2
<1> QED BY <1>1, <1>3, ConcatProperties DEF Message

LEMMA FollowsReply ==
  ASSUME NEW h \in Seq(Cell), NEW text \in Texts
  PROVE  Follows(h \o Message(text), h, <<text>>, 0)
<1> DEFINE m == Message(text)
           s == h \o m
<1>1. /\ m \in Seq(Cell) /\ Len(m) = Len(text) + 1 /\ m[1] = Field(Len(text))
      /\ \A j \in 1 .. Len(text) : m[j + 1] = text[j]
  BY MessageType
<1>2. Len(h) \in Nat /\ 1 <= Len(text) /\ Len(text) <= 2
  BY DEF Texts
<1> HIDE DEF m
<1>3. Len(s) = Len(h) + Len(text) + 1
  BY <1>1, <1>2
<1>4. <<text>> \in Seq(Texts) /\ <<text>> # <<>> /\ Len(<<text>>) = 1 /\ <<text>>[1] = text
  OBVIOUS
<1>5. Total(h, <<text>>) = Len(h) + 1 + Len(text)
  <2>1. Total(h, <<text>>) = Len(h) + 3 * (1 - 1) + 1 + Len(text)
    BY <1>4, TotalType
  <2> QED BY <2>1, <1>2
<1>6. ASSUME NEW j \in 1 .. Len(s)
      PROVE  s[j] = CellAt(h, <<text>>, 0 + j)
  <2>0. 0 + j = j /\ j \in Int
    BY <1>2, <1>3
  <2>1. CASE j <= Len(h)
    <3>1. j \in 1 .. Len(h) /\ s[j] = h[j]
      BY <2>1, <1>1, <1>2
    <3> QED BY <2>0, <3>1, CellOfHeader
  <2>2. CASE j = Len(h) + 1
    <3>1. s[j] = Field(Len(text))
      BY <2>2, <1>1, <1>2
    <3>2. j = Len(h) + 3 * 0 + 1
      BY <2>2, <1>2
    <3>3. CellAt(h, <<text>>, j) = Field(Len(<<text>>[0 + 1]))
      BY <2>0, <3>2, CellOfLength
    <3> QED BY <2>0, <3>1, <3>3, <1>4
  <2>3. CASE j > Len(h) + 1
    <3> DEFINE i == j - (Len(h) + 1)
    <3>0. i \in Int /\ i > 0 /\ i <= Len(text)
      BY <2>3, <1>2, <1>3
    <3>1. i \in 1 .. 2 /\ j = Len(h) + 1 + i /\ i <= Len(text)
      BY <3>0, <2>0, <1>2
    <3> HIDE DEF i
    <3>2. s[j] = text[i]
      BY <3>1, <1>1, <1>2
    <3>4. CellAt(h, <<text>>, j) = <<text>>[1][i]
      <4>1. j \in Int /\ i \in 1 .. 2
        BY <2>0, <3>1
      <4> QED BY <4>1, <3>1, CellOfFirst, Zenon
    <3> QED BY <2>0, <3>2, <3>4, <1>4
  <2> QED BY <2>1, <2>2, <2>3, <1>2
<1>7. 0 + Len(s) = Total(h, <<text>>)
  BY <1>2, <1>3, <1>5
<1> QED BY <1>6, <1>7 DEF Follows, m

\* A list has its header first, then grows text by text.
LEMMA FollowsHeader ==
  ASSUME NEW h \in Seq(Cell)
  PROVE  Follows(h, h, <<>>, 0)
<1>0. <<>> \in Seq(Texts)
  OBVIOUS
<1>1. Total(h, <<>>) = Len(h) /\ Len(h) \in Nat
  BY <1>0, TotalType
<1>2. \A j \in 1 .. Len(h) : 0 + j = j /\ CellAt(h, <<>>, j) = h[j]
  BY CellOfHeader
<1> QED BY <1>1, <1>2 DEF Follows

LEMMA FollowsGrow ==
  ASSUME NEW h \in Seq(Cell), NEW texts \in Seq(Texts), NEW text \in Texts,
         \A i \in 1 .. Len(texts) : Len(texts[i]) = 2, Len(text) = 2,
         NEW rest \in Seq(Cell), NEW r \in Nat, Follows(rest, h, texts, r)
  PROVE  Follows(rest \o Message(text), h, Append(texts, text), r)
<1> DEFINE m == Message(text)
           new == Append(texts, text)
           s == rest \o m
<1>1. /\ m \in Seq(Cell) /\ Len(m) = 3 /\ m[1] = Field(2)
      /\ m[2] = text[1] /\ m[3] = text[2]
  <2>1. /\ m \in Seq(Cell) /\ Len(m) = Len(text) + 1 /\ m[1] = Field(Len(text))
        /\ \A j \in 1 .. Len(text) : m[j + 1] = text[j]
    BY MessageType
  <2> HIDE DEF m
  <2>2. \A j \in 1 .. 2 : m[j + 1] = text[j]
    BY <2>1
  <2>3. m[1 + 1] = text[1] /\ m[2 + 1] = text[2]
    BY <2>2
  <2> QED BY <2>1, <2>3
<1>2. PICK hd \in Nat, n \in Nat, len \in Nat :
        hd = Len(h) /\ n = Len(texts) /\ len = Len(rest)
  OBVIOUS
<1>3. /\ new \in Seq(Texts) /\ new # <<>> /\ Len(new) = n + 1
      /\ new[n + 1] = text
      /\ \A i \in 1 .. n : new[i] = texts[i]
  BY <1>2, AppendProperties
<1>4. r + len = hd + 3 * n
  <2>1. r + len = Total(h, texts)
    BY <1>2 DEF Follows
  <2>2. CASE texts = <<>>
    <3>1. Total(h, texts) = hd /\ n = 0
      BY <1>2, <2>2, TotalType
    <3> QED BY <2>1, <3>1
  <2>3. CASE texts # <<>>
    <3>1. PICK last \in 1 .. 2 :
            /\ last = Len(texts[n])
            /\ Total(h, texts) = hd + 3 * (n - 1) + 1 + last
      BY <1>2, <2>3, TotalType
    <3>2. n \in 1 .. Len(texts)
      BY <1>2, <2>3
    <3>3. last = 2
      BY <3>1, <3>2
    <3> QED BY <2>1, <3>1, <3>3
  <2> QED BY <2>2, <2>3
<1> HIDE DEF m, new
<1>5. Total(h, new) = hd + 3 * n + 3
  <2>1. PICK last \in 1 .. 2 :
          /\ last = Len(new[Len(new)])
          /\ Total(h, new) = Len(h) + 3 * (Len(new) - 1) + 1 + last
    BY <1>3, TotalType
  <2>2. Len(new[Len(new)]) = 2
    BY <1>3
  <2>3. Total(h, new) = hd + 3 * ((n + 1) - 1) + 1 + 2
    BY <2>1, <2>2, <1>2, <1>3, Zenon
  <2> QED BY <2>3
<1>6. /\ Len(s) = len + 3
      /\ \A j \in 1 .. len : s[j] = rest[j]
      /\ \A i \in 1 .. 3 : s[len + i] = m[i]
  <2>1. /\ Len(s) = Len(rest) + Len(m)
        /\ \A i \in 1 .. Len(rest) + Len(m) :
             s[i] = IF i <= Len(rest) THEN rest[i] ELSE m[i - Len(rest)]
    BY <1>1, ConcatProperties
  <2> HIDE DEF s
  <2>2. /\ Len(s) = len + 3
        /\ \A i \in 1 .. len + 3 : s[i] = IF i <= len THEN rest[i] ELSE m[i - len]
    BY <2>1, <1>1, <1>2, Zenon
  <2>3. \A j \in 1 .. len : s[j] = rest[j]
    BY <2>2
  <2>4. ASSUME NEW i \in 1 .. 3 PROVE s[len + i] = m[i]
    <3>1. PICK q \in Int : q = len + i
      OBVIOUS
    <3>2. q \in 1 .. len + 3 /\ ~(q <= len) /\ q - len = i
      BY <3>1
    <3>3. s[q] = m[q - len]
      BY <2>2, <3>2
    <3> QED BY <3>1, <3>2, <3>3, Zenon
  <2> QED BY <2>2, <2>3, <2>4
<1> HIDE DEF s
<1>7. ASSUME NEW j \in 1 .. len
      PROVE  CellAt(h, texts, r + j) = CellAt(h, new, r + j)
  <2>0. PICK p \in Int : p = r + j
    OBVIOUS
  <2>1. p > 0 /\ p <= hd + 3 * n
    BY <2>0, <1>4
  <2>2. CASE p <= hd
    <3>1. p \in 1 .. Len(h)
      BY <2>1, <2>2, <1>2
    <3> QED BY <2>0, <3>1, CellOfHeader
  <2>3. CASE p > hd
    <3>1. PICK q \in Nat : q = p - hd - 1
      BY <2>3
    <3>2. q \div 3 + 1 \in 1 .. n
      BY <3>1, <2>1
    <3>3. new[q \div 3 + 1] = texts[q \div 3 + 1]
      BY <3>2, <1>3
    <3>4. CellAt(h, texts, p) = CellAt(h, new, p)
      <4>1. q = p - Len(h) - 1
        BY <3>1, <1>2
      <4> QED BY <3>3, <4>1, Zenon DEF CellAt
    <3> QED BY <2>0, <3>4
  <2> QED BY <2>2, <2>3
<1>8. ASSUME NEW j \in 1 .. len + 3
      PROVE  s[j] = CellAt(h, new, r + j)
  <2>1. CASE j <= len
    <3>1. j \in 1 .. len /\ j \in 1 .. Len(rest)
      BY <2>1, <1>2
    <3>2. s[j] = rest[j] /\ rest[j] = CellAt(h, texts, r + j)
      BY <3>1, <1>6 DEF Follows
    <3> QED BY <3>1, <3>2, <1>7
  <2>2. CASE j > len
    <3>0. PICK i \in 1 .. 3 : j = len + i
      BY <2>2
    <3>1. s[j] = m[i]
      BY <3>0, <1>6
    <3>2. PICK p \in Int : p = r + j
      OBVIOUS
    <3>3. p = hd + 3 * n + i
      BY <3>0, <3>2, <1>4
    <3>4. CASE i = 1
      <4>1. p = Len(h) + 3 * n + 1
        BY <3>3, <3>4, <1>2
      <4>2. CellAt(h, new, p) = Field(Len(new[n + 1]))
        BY <4>1, CellOfLength
      <4> QED BY <3>1, <3>2, <3>4, <4>2, <1>1, <1>3
    <3>5. CASE i # 1
      <4>0. PICK k \in 1 .. 2 : i = k + 1
        BY <3>5
      <4>1. p = Len(h) + 3 * n + 1 + k
        BY <3>3, <4>0, <1>2
      <4>2. CellAt(h, new, Place(h, n, k)) = Pieces(new, n)[k]
        BY CellOfPiece, ZenonT(60)
      <4>3. m[k + 1] = text[k]
        BY <4>0, <1>1
      <4> QED BY <3>1, <3>2, <4>0, <4>1, <4>2, <4>3, <1>3, Zenon DEF Place, Pieces
    <3> QED BY <3>4, <3>5
  <2> QED BY <2>1, <2>2
<1>9. r + Len(s) = Total(h, new)
  <2>1. r + (len + 3) = hd + 3 * n + 3
    BY <1>4
  <2> QED BY <2>1, <1>5, <1>6, Zenon
<1> QED BY <1>6, <1>8, <1>9 DEF Follows, s, m, new

\* What is still to be sent.
LEMMA FlatFacts ==
  ASSUME NEW o \in Seq(Seq(Cell) \ {<<>>}), Len(o) <= 2
  PROVE  /\ Flat(o) \in Seq(Cell)
         /\ Flat(o) = <<>> <=> o = <<>>
         /\ o # <<>> => /\ Head(o) \in Seq(Cell) /\ Tail(o) \in Seq(Seq(Cell) \ {<<>>})
                        /\ Len(Tail(o)) = Len(o) - 1
                        /\ Flat(o) = Head(o) \o Flat(Tail(o))
<1>0. ASSUME NEW p \in Seq(Seq(Cell) \ {<<>>})
      PROVE  /\ Len(p) = 0 => Flat(p) = <<>>
             /\ Len(p) = 1 => Flat(p) = p[1]
             /\ Len(p) = 2 => Flat(p) = p[1] \o p[2]
  <2>1. 1 # 0 /\ 2 # 0 /\ 2 # 1
    OBVIOUS
  <2> QED BY <2>1, Zenon DEF Flat
<1>1. PICK len \in Nat : len = Len(o) /\ (len = 0 <=> o = <<>>)
  OBVIOUS
<1>2. CASE len = 0
  <2>1. o = <<>> /\ Flat(o) = <<>>
    BY <1>0, <1>1, <1>2, Zenon
  <2>2. <<>> \in Seq(Cell)
    OBVIOUS
  <2> QED BY <2>1, <2>2, Zenon
<1>3. CASE len # 0
  <2>1. /\ o # <<>> /\ Head(o) = o[1] /\ o[1] \in Seq(Cell) \ {<<>>}
        /\ Tail(o) \in Seq(Seq(Cell) \ {<<>>}) /\ Len(Tail(o)) = Len(o) - 1
        /\ \A i \in 1 .. Len(Tail(o)) : Tail(o)[i] = o[i + 1]
    BY <1>3, <1>1, HeadTailProperties
  <2>2. CASE len = 1
    <3>0. Len(o) = 1 /\ Len(Tail(o)) = 0
      <4>1. Len(o) = 1 /\ Len(Tail(o)) = 1 - 1
        BY <2>1, <2>2, <1>1, Zenon
      <4> QED BY <4>1
    <3>1. Flat(o) = o[1] /\ Flat(Tail(o)) = <<>>
      BY <1>0, <2>1, <3>0, Zenon
    <3>2. o[1] \o <<>> = o[1]
      BY <2>1, ConcatEmptySeq
    <3> QED BY <2>1, <3>1, <3>2, Zenon
  <2>3. CASE len = 2
    <3>0. Len(o) = 2 /\ Len(Tail(o)) = 1
      <4>1. Len(o) = 2 /\ Len(Tail(o)) = 2 - 1
        BY <2>1, <2>3, <1>1, Zenon
      <4> QED BY <4>1
    <3>1. Tail(o)[1] = o[2] /\ o[2] \in Seq(Cell) \ {<<>>}
      <4>1. 1 \in 1 .. 1 /\ 1 + 1 = 2 /\ 2 \in 1 .. 2
        OBVIOUS
      <4>2. Tail(o)[1] = o[1 + 1]
        BY <2>1, <3>0, <4>1, Zenon
      <4>3. \A i \in 1 .. Len(o) : o[i] \in Seq(Cell) \ {<<>>}
        OBVIOUS
      <4> QED BY <3>0, <4>1, <4>2, <4>3, Zenon
    <3>2. Flat(o) = o[1] \o o[2] /\ Flat(Tail(o)) = o[2]
      BY <1>0, <2>1, <3>0, <3>1, Zenon
    <3>3. o[1] \o o[2] \in Seq(Cell) /\ o[1] \o o[2] # <<>>
      BY <2>1, <3>1, ConcatEqualIffEmpty, ConcatProperties
    <3> QED BY <2>1, <3>2, <3>3, Zenon
  <2>4. len = 1 \/ len = 2
    BY <1>1, <1>3
  <2> QED BY <2>2, <2>3, <2>4
<1> QED BY <1>2, <1>3

LEMMA CellsAssociative ==
  \A s, t, u \in Seq(Cell) : (s \o t) \o u = s \o (t \o u)
BY ConcatAssociative

\* A send moves what is sent, and leaves the rest of the stream as it is.
LEMMA SendKeepsRest ==
  ASSUME NEW d \in Seq(Cell), NEW o \in Seq(Seq(Cell) \ {<<>>}),
         Len(o) <= 2, o # <<>>
  PROVE  (d \o Head(o)) \o Flat(Tail(o)) = d \o Flat(o)
<1>1. /\ Head(o) \in Seq(Cell) /\ Tail(o) \in Seq(Seq(Cell) \ {<<>>})
      /\ Len(Tail(o)) = Len(o) - 1 /\ Flat(o) = Head(o) \o Flat(Tail(o))
  BY FlatFacts
<1>2. Len(Tail(o)) <= 2
  BY <1>1
<1>3. Flat(Tail(o)) \in Seq(Cell)
  BY <1>1, <1>2, FlatFacts, Zenon
<1>4. (d \o Head(o)) \o Flat(Tail(o)) = d \o (Head(o) \o Flat(Tail(o)))
  BY <1>1, <1>3, CellsAssociative, Zenon
<1> QED BY <1>1, <1>3, <1>4, Zenon

-----------------------------------------------------------------------------
(* Texts and messages *)

LEMMA TextTypes ==
  ASSUME NEW i \in Int
  PROVE  /\ Unknown(i) \in Texts /\ Refused \in Texts /\ About(i) \in Texts
         /\ ReportOf(i) \in Texts /\ NotDone(i) \in Texts
         /\ Listed(i) \in Texts /\ Len(Listed(i)) = 2
<1>1. ASSUME NEW kind \in Kinds, NEW n \in Int, NEW len \in 1 .. 2
      PROVE  Text(kind, n, len) \in Texts /\ Len(Text(kind, n, len)) = len
  <2>1. \A k \in 1 .. len : [says |-> kind, of |-> n, piece |-> k] \in Cell
    BY DEF Cell
  <2>2. Text(kind, n, len) \in [1 .. len -> Cell]
    BY <2>1 DEF Text
  <2>3. len \in Nat /\ 1 <= len /\ len <= 2
    OBVIOUS
  <2>4. Text(kind, n, len) \in Seq(Cell)
    <3>1. [1 .. len -> Cell] \in {[1 .. k -> Cell] : k \in Nat}
      BY <2>3
    <3>2. Text(kind, n, len) \in UNION {[1 .. k -> Cell] : k \in Nat}
      BY <2>2, <3>1, Zenon
    <3> QED BY <3>2, SeqDef, Zenon
  <2>5. Len(Text(kind, n, len)) = len
    <3>1. DOMAIN Text(kind, n, len) = 1 .. len
      BY Zenon DEF Text
    <3>2. PICK t \in Seq(Cell) : t = Text(kind, n, len)
      BY <2>4, Zenon
    <3>3. DOMAIN t = 1 .. len
      BY <3>1, <3>2, Zenon
    <3>4. Len(t) = len
      BY <3>3, <2>3
    <3> QED BY <3>2, <3>4, Zenon
  <2> QED BY <2>3, <2>4, <2>5, Zenon DEF Texts
<1>2. NoId \in Int /\ 1 \in 1 .. 2 /\ 2 \in 1 .. 2
  BY DEF NoId
<1>3. /\ "unknown" \in Kinds /\ "refused" \in Kinds /\ "about" \in Kinds
      /\ "listed" \in Kinds /\ "report" \in Kinds /\ "not done" \in Kinds
  BY DEF Kinds
<1> QED BY <1>1, <1>2, <1>3, Zenon DEF Unknown, Refused, About, ReportOf, NotDone, Listed

LEMMA ValueType ==
  ASSUME NEW cell \in Cell
  PROVE  /\ Value(cell) \in Int
         /\ "sol" \in DOMAIN cell => cell.sol \in {"0", "1"}
BY DEF Cell, Value

LEMMA TwoInOne ==
  ASSUME NEW S, NEW x \in S, NEW y \in S
  PROVE  <<x>> \o <<y>> = <<x, y>>
<1> DEFINE s == <<x>> \o <<y>>
           t == <<x, y>>
<1>1. s \in Seq(S) /\ t \in Seq(S) /\ Len(t) = 2
  OBVIOUS
<1>2. Len(s) = 2 /\ s[1] = x /\ s[2] = y
  OBVIOUS
<1>3. t[1] = x /\ t[2] = y
  OBVIOUS
<1> HIDE DEF s, t
<1>4. s = t
  BY <1>1, <1>2, <1>3, SeqEqual
<1> QED BY <1>4 DEF s, t

\* What precedes the message of a reply is the header.
LEMMA ReplyMessages ==
  ASSUME NEW text \in Texts, NEW first \in {<<>>, <<Sol("0")>>, <<Sol("1")>>}
  PROVE  /\ first \o <<Message(text)>> \in Seq(Seq(Cell) \ {<<>>})
         /\ Len(first \o <<Message(text)>>) <= 2
         /\ Flat(first) \in Seq(Cell)
         /\ Flat(first \o <<Message(text)>>) = Flat(first) \o Message(text)
<1> DEFINE m == Message(text)
           S == Seq(Cell) \ {<<>>}
<1>1. m \in S
  BY MessageType
<1>2. /\ \A x \in Seq(S) : Len(x) = 0 => Flat(x) = <<>>
      /\ \A x \in Seq(S) : Len(x) = 1 => Flat(x) = x[1]
      /\ \A x \in Seq(S) : Len(x) = 2 => Flat(x) = x[1] \o x[2]
  <2>1. 1 # 0 /\ 2 # 0 /\ 2 # 1
    OBVIOUS
  <2> QED BY <2>1, Zenon DEF Flat
<1> HIDE DEF m
<1>3. CASE first = <<>>
  <2>1. first \o <<m>> = <<m>> /\ <<m>> \in Seq(S) /\ Len(<<m>>) = 1 /\ <<m>>[1] = m
    BY <1>1, <1>3
  <2>2. Flat(<<m>>) = m
    BY <1>2, <2>1, Zenon
  <2>3. Flat(first) = <<>>
    <3>1. <<>> \in Seq(S) /\ Len(<<>>) = 0
      BY EmptySeq
    <3>2. Flat(<<>>) = <<>>
      BY <1>2, <3>1, Zenon
    <3> QED BY <1>3, <3>2, Zenon
  <2>4. <<>> \o m = m /\ <<>> \in Seq(Cell)
    BY <1>1, ConcatEmptySeq
  <2>5. 1 <= 2
    OBVIOUS
  <2>6. /\ first \o <<m>> \in Seq(S) /\ Len(first \o <<m>>) <= 2
        /\ Flat(first) \in Seq(Cell)
    BY <2>1, <2>3, <2>4, <2>5, Zenon
  <2>7. Flat(first \o <<m>>) = Flat(first) \o m
    <3>1. Flat(first \o <<m>>) = m
      BY <2>1, <2>2, Zenon
    <3>2. Flat(first) \o m = m
      BY <2>3, <2>4, Zenon
    <3> QED BY <3>1, <3>2, Zenon
  <2> QED BY <2>6, <2>7 DEF m
<1>4. ASSUME NEW f \in {"0", "1"}, first = <<Sol(f)>>
      PROVE  /\ first \o <<m>> \in Seq(S) /\ Len(first \o <<m>>) <= 2
             /\ Flat(first) \in Seq(Cell)
             /\ Flat(first \o <<m>>) = Flat(first) \o m
  <2>1. Sol(f) \in S
    BY DEF Sol, Cell
  <2>2. /\ <<Sol(f)>> \in Seq(S) /\ Len(<<Sol(f)>>) = 1 /\ <<Sol(f)>>[1] = Sol(f)
        /\ <<Sol(f)>> \o <<m>> = <<Sol(f), m>>
        /\ <<Sol(f), m>> \in Seq(S) /\ Len(<<Sol(f), m>>) = 2
        /\ <<Sol(f), m>>[1] = Sol(f) /\ <<Sol(f), m>>[2] = m
    <3> DEFINE sol == Sol(f)
    <3>1. sol \in S
      BY <2>1
    <3> HIDE DEF sol, S
    <3>2. /\ <<sol>> \in Seq(S) /\ Len(<<sol>>) = 1 /\ <<sol>>[1] = sol
      BY <3>1
    <3>3. /\ <<sol, m>> \in Seq(S) /\ Len(<<sol, m>>) = 2
          /\ <<sol, m>>[1] = sol /\ <<sol, m>>[2] = m
      BY <1>1, <3>1
    <3>4. <<sol>> \o <<m>> = <<sol, m>>
      BY <1>1, <3>1, TwoInOne, Zenon
    <3> QED BY <3>2, <3>3, <3>4 DEF sol
  <2>3. Flat(<<Sol(f)>>) = Sol(f) /\ Flat(<<Sol(f), m>>) = Sol(f) \o m
    BY <1>2, <2>2, Zenon
  <2>4. 2 <= 2
    OBVIOUS
  <2> QED BY <1>4, <2>1, <2>2, <2>3, <2>4, Zenon
<1> QED BY <1>3, <1>4 DEF m

LEMMA FlatOfFirst ==
  /\ Flat(<<>>) = <<>>
  /\ \A f \in {"0", "1"} : Flat(<<Sol(f)>>) = Sol(f) /\ Sol(f) \in Seq(Cell)
<1>1. Len(<<>>) = 0 /\ 1 # 0
  BY EmptySeq
<1>2. Flat(<<>>) = <<>>
  BY <1>1, Zenon DEF Flat
<1>3. ASSUME NEW f \in {"0", "1"}
      PROVE  Flat(<<Sol(f)>>) = Sol(f) /\ Sol(f) \in Seq(Cell)
  <2>1. Sol(f) \in Seq(Cell)
    BY DEF Sol, Cell
  <2>2. \A m \in Seq(Cell) : Len(<<m>>) = 1 /\ <<m>>[1] = m
    OBVIOUS
  <2>3. Flat(<<Sol(f)>>) = Sol(f)
    BY <1>1, <2>1, <2>2, Zenon DEF Flat
  <2> QED BY <2>1, <2>3
<1> QED BY <1>2, <1>3
-----------------------------------------------------------------------------
(* The inductive invariant *)

Rest(c) == down[c] \o Flat(out[c])

\* The header of a reply: the flag of a report, the count of a list.
IsHeader(n, h) == IF n = 6 THEN \E i \in Int : h = <<Field(i)>>
                  ELSE IF n = 7 THEN \E f \in {"0", "1"} : h = Sol(f)
                  ELSE h = <<>>

ReadSoFar(c, h) ==
  IF cpc[c] \in {"flag", "count"} THEN 0
  ELSE Len(h) + 3 * Len(printed[c]) + (IF cpc[c] = "text" THEN 1 ELSE 0)

Entry == [path : Paths \cup {NoPath}, complete : BOOLEAN, by : Clients \cup {Nobody}]

ClientTypes ==
  /\ cpc \in [Clients -> {"idle", "send", "flag", "count", "size", "text",
                          "ended", "left"}]
  /\ meant \in [Clients -> TaskType] /\ req \in [Clients -> Seq(Cell)]
  /\ flag \in [Clients -> {NoFlag, "0", "1"}]
  /\ todo \in [Clients -> Int] /\ size \in [Clients -> Nat]
  /\ printed \in [Clients -> Seq(Seq(Cell))]

ConnTypes == up \in [Clients -> Seq(Cell)] /\ down \in [Clients -> Seq(Cell)]

ThreadTypes ==
  /\ tpc \in [Clients -> {"none", "read", "serve", "fork", "list", "send",
                          "hung", "closed"}]
  /\ served \in [Clients -> TaskType]
  /\ mine \in [Clients -> Ids \cup {NoId}] /\ at \in [Clients -> Ids \cup {NoId}]
  /\ out \in [Clients -> Seq(Seq(Cell) \ {<<>>})]

SharedTypes ==
  /\ alive \in BOOLEAN /\ cnt \in Int /\ lock \in Clients \cup {Nobody}
  /\ table \in [Ids -> Entry]

GhostTypes ==
  /\ said \in [Clients -> Seq(Texts)]
  /\ quiet \in [Clients -> BOOLEAN] /\ noMemory \in [Clients -> BOOLEAN]

LockSends == lock # Nobody => tpc[lock] = "send"

Types == /\ ClientTypes /\ ConnTypes /\ ThreadTypes /\ SharedTypes /\ GhostTypes
         /\ LockSends

\* Nothing of a reply is there.
Silent(c) ==
  /\ down[c] = <<>> /\ out[c] = <<>> /\ said[c] = <<>> /\ printed[c] = <<>>
  /\ flag[c] = NoFlag /\ at[c] = NoId /\ ~quiet[c]

Gone(c) == cpc[c] = "left" \/ (cpc[c] = "ended" /\ ~alive)

\* The request is sent, nothing of the reply is read.
Waits(c) ==
  \/ cpc[c] = ReadsAfter(meant[c].cnt) /\ todo[c] = 1
  \/ Gone(c)

Before(c) ==
  /\ tpc[c] = "none" /\ cpc[c] \in {"idle", "ended"}
  /\ cpc[c] = "ended" => meant[c] = NoTask \/ ~alive
  /\ Silent(c) /\ up[c] = <<>> /\ served[c] = NoTask /\ ~noMemory[c]

\* What was sent is the first of the request, and the client has the rest.
Asking(c) ==
  LET whole == taskToString(meant[c]) IN
  /\ tpc[c] = "read" /\ meant[c] # NoTask
  /\ Silent(c) /\ served[c] = NoTask /\ ~noMemory[c]
  /\ Len(up[c]) <= Len(whole)
  /\ \A j \in 1 .. Len(up[c]) : up[c][j] = whole[j]
  /\ \/ /\ cpc[c] = "send" /\ req[c] # <<>>
        /\ Len(up[c]) + Len(req[c]) = Len(whole)
        /\ \A j \in 1 .. Len(req[c]) : req[c][j] = whole[Len(up[c]) + j]
     \/ Waits(c)

Serving(c) ==
  /\ tpc[c] \in {"serve", "fork", "hung"} \/ (tpc[c] = "closed" /\ noMemory[c])
  /\ noMemory[c] => tpc[c] = "closed"
  /\ meant[c] # NoTask
  /\ served[c] = (IF noMemory[c] THEN NoTask ELSE Carried(meant[c]))
  /\ ~noMemory[c] => meant[c].cnt \in 1 .. 7
  /\ tpc[c] = "fork" => mine[c] \in Ids /\ meant[c].cnt = 1
  /\ Silent(c) /\ Waits(c)

\* How much the reply has by now.
Shape(c) ==
  LET n == meant[c].cnt IN
  /\ Len(out[c]) <= 2
  /\ tpc[c] = "list" => n = 6
  /\ n = 6 => /\ \A k \in 1 .. Len(said[c]) : Len(said[c][k]) = 2
              /\ Len(out[c]) <= 1
  /\ n \in 1 .. 7 \ {6} => Len(said[c]) = 1
  /\ n = 8 => said[c] = <<>> /\ out[c] = <<>>
  /\ n # 7 => flag[c] = NoFlag
  /\ tpc[c] = "closed" => out[c] = <<>>

\* Texts that are still to be listed.
Coming(c) == IF tpc[c] = "list" THEN Cardinality(Later(c)) ELSE 0

Reads(c) ==
  LET n == meant[c].cnt IN
  /\ cpc[c] # "send" /\ n \in 1 .. 7
  /\ cpc[c] = "count" => n = 6
  /\ cpc[c] = "flag" => n = 7
  /\ cpc[c] \in {"count", "flag"} => printed[c] = <<>>
  /\ n # 6 => todo[c] = 1 /\ printed[c] = <<>>
  /\ cpc[c] = "text" => /\ Len(printed[c]) < Len(said[c])
                        /\ size[c] = Len(said[c][Len(printed[c]) + 1])
  /\ \E h \in Seq(Cell) :
       /\ IsHeader(n, h)
       /\ Follows(Rest(c), h, said[c], ReadSoFar(c, h))
       /\ n = 6 =>
            /\ cpc[c] # "count" =>
                 todo[c] # 0 /\ h[1].num = todo[c] + Len(printed[c])
            /\ quiet[c] => h[1].num = Len(said[c]) + Coming(c)

\* The client is through.
Through(c) ==
  LET n == meant[c].cnt IN
  \/ n = 8
  \/ /\ n \in 1 .. 7 \ {6} /\ out[c] = <<>>
     /\ printed[c] = said[c] \/ (flag[c] = "1" /\ printed[c] = <<>>)
  \/ n = 6 /\ ~quiet[c]
  \/ n = 6 /\ printed[c] = said[c] /\ out[c] = <<>> /\ Coming(c) = 0

Replying(c) ==
  /\ tpc[c] \in {"list", "send", "closed"} /\ ~noMemory[c]
  /\ meant[c] # NoTask /\ served[c] = Carried(meant[c])
  /\ Shape(c)
  /\ Len(printed[c]) <= Len(said[c])
  /\ \A k \in 1 .. Len(printed[c]) : printed[c][k] = said[c][k]
  /\ \/ Running(c) /\ Reads(c)
     \/ cpc[c] = "ended" /\ (alive => Through(c))
     \/ cpc[c] = "left"

Conversation(c) == 
  /\ meant[c] \in Meant
  /\ Before(c) \/ Asking(c) \/ Serving(c) \/ Replying(c)

IInv == /\ Types
        /\ \A c \in Clients : Conversation(c)
        /\ DeathHasCause

-----------------------------------------------------------------------------
(* Types *)

LEMMA TypesTypeOK ==
  ASSUME Types
  PROVE  TypeOK
<1>1. \A c \in Clients : meant[c] \in TaskType /\ served[c] \in TaskType
  BY DEF Types, ClientTypes, ThreadTypes
<1> QED BY <1>1 DEF Types, ClientTypes, ThreadTypes, SharedTypes, LockSends, TypeOK

\* The parts that an action leaves alone.
LEMMA TypesKept ==
  ASSUME Types
  PROVE  /\ UNCHANGED client => ClientTypes'
         /\ UNCHANGED conn => ConnTypes'
         /\ UNCHANGED thread => ThreadTypes'
         /\ UNCHANGED shared => SharedTypes'
         /\ UNCHANGED ghost => GhostTypes'
BY DEF Types, ClientTypes, ConnTypes, ThreadTypes, SharedTypes, GhostTypes,
       client, conn, thread, shared, ghost

\* A client that has not asked has no thread.
LEMMA IdleIsBefore ==
  ASSUME IInv, NEW c \in Clients, cpc[c] = "idle"
  PROVE  Before(c)
<1>1. ReadsAfter(meant[c].cnt) # "idle"
  BY DEF ReadsAfter
<1>2. ~Waits(c) /\ ~Running(c)
  BY <1>1 DEF Waits, Gone, Running
<1> QED BY <1>2 DEF IInv, Conversation, Asking, Serving, Replying

LEMMA TypesOfAsk ==
  ASSUME IInv, NEW c \in Clients, NEW line \in Lines, NEW junk \in Junk,
         Ask(c, line, junk)
  PROVE  Types' /\ get_task(line, junk) \in Meant
<1> DEFINE t == get_task(line, junk)
<1>1. t \in Meant
  BY MeantTask
<1>0. /\ cpc[c] = "idle"
      /\ meant' = [meant EXCEPT ![c] = t]
      /\ \/ cpc' = [cpc EXCEPT ![c] = "ended"] /\ req' = req /\ tpc' = tpc
         \/ /\ t # NoTask
            /\ cpc' = [cpc EXCEPT ![c] = "send"]
            /\ req' = [req EXCEPT ![c] = taskToString(t)]
            /\ tpc' = [tpc EXCEPT ![c] = "read"]
      /\ UNCHANGED <<flag, todo, size, printed>>
      /\ UNCHANGED <<conn, shared, ghost, served, mine, at, out>>
  BY Zenon DEF Ask
<1> HIDE DEF t
<1>2. t \in TaskType
  BY <1>1, MeantType
<1>3. t # NoTask => taskToString(t) \in Seq(Cell)
  BY <1>1, CarriedTask
<1>4. Types
  BY DEF IInv
<1>6. ClientTypes'
  <2>1. UNCHANGED <<flag, todo, size, printed>>
    BY <1>0
  <2>2. cpc' \in [Clients -> {"idle", "send", "flag", "count", "size", "text",
                          "ended", "left"}]
    <3>1. cpc' = [cpc EXCEPT ![c] = "ended"] \/ cpc' = [cpc EXCEPT ![c] = "send"]
      BY <1>0, Zenon
    <3> QED BY <3>1, <1>4 DEF Types, ClientTypes
  <2>3. meant' \in [Clients -> TaskType]
    BY <1>0, <1>2, <1>4, SMT DEF Types, ClientTypes
  <2>4. req' \in [Clients -> Seq(Cell)]
    <3>1. req' = req \/ (t # NoTask /\ req' = [req EXCEPT ![c] = taskToString(t)])
      BY <1>0, Zenon
    <3> QED BY <3>1, <1>3, <1>4 DEF Types, ClientTypes
  <2> QED BY <2>1, <2>2, <2>3, <2>4, <1>4 DEF Types, ClientTypes
<1>7. ThreadTypes'
  <2>1. UNCHANGED <<served, mine, at, out>>
    BY <1>0
  <2>2. tpc' \in [Clients -> {"none", "read", "serve", "fork", "list", "send",
                          "hung", "closed"}]
    <3>1. tpc' = tpc \/ tpc' = [tpc EXCEPT ![c] = "read"]
      BY <1>0, Zenon
    <3> QED BY <3>1, <1>4 DEF Types, ThreadTypes
  <2> QED BY <2>1, <2>2, <1>4 DEF Types, ThreadTypes
<1>8. LockSends'
  <2>1. tpc[c] # "send"
    BY <1>0, IdleIsBefore DEF Before
  <2> QED BY <1>0, <1>4, <2>1, SMT DEF Types, ThreadTypes, SharedTypes, LockSends, shared
<1> QED BY <1>0, <1>1, <1>4, <1>6, <1>7, <1>8, TypesKept DEF Types, t
-----------------------------------------------------------------------------
(* A step of one client or its thread keeps the conversations of others *)

\* What belongs to d is as it was; only a list of d may no longer be quiet.
Same(d) ==
  /\ cpc'[d] = cpc[d] /\ meant'[d] = meant[d] /\ req'[d] = req[d]
  /\ flag'[d] = flag[d] /\ todo'[d] = todo[d] /\ size'[d] = size[d]
  /\ printed'[d] = printed[d]
  /\ up'[d] = up[d] /\ down'[d] = down[d]
  /\ tpc'[d] = tpc[d] /\ served'[d] = served[d] /\ mine'[d] = mine[d]
  /\ at'[d] = at[d] /\ out'[d] = out[d]
  /\ said'[d] = said[d] /\ noMemory'[d] = noMemory[d]
  /\ quiet'[d] => quiet[d]

\* A change of the table is noticed.
Noticed(d) == \/ Existing' = Existing
              \/ tpc[d] # "list"
              \/ ~quiet'[d]

LEMMA OtherKept ==
  ASSUME NEW d \in Clients, Same(d), Noticed(d), alive' => alive, Conversation(d)
  PROVE  Conversation(d)'
<1>1. Silent(d) => Silent(d)'
  BY DEF Silent, Same
<1>2. (Gone(d) => Gone(d)') /\ (Waits(d) => Waits(d)')
  BY DEF Gone, Waits, Same
<1>3. Before(d) => Before(d)'
  BY <1>1 DEF Before, Same
<1>4. Asking(d) => Asking(d)'
  BY <1>1, <1>2 DEF Asking, Same
<1>5. Serving(d) => Serving(d)'
  BY <1>1, <1>2 DEF Serving, Same
<1>6. Existing' = Existing \/ tpc[d] # "list" => Coming(d)' = Coming(d)
  BY DEF Coming, Later, Same
<1>7. quiet'[d] => Coming(d)' = Coming(d) /\ quiet[d]
  BY <1>6 DEF Noticed, Same
<1>8. Reads(d) => Reads(d)'
  <2>1. Rest(d)' = Rest(d) /\ \A h : ReadSoFar(d, h)' = ReadSoFar(d, h)
    BY DEF Rest, ReadSoFar, Same
  <2> QED BY <2>1, <1>7 DEF Reads, Same
<1>9. Through(d) => Through(d)'
  BY <1>7 DEF Through, Same
<1>10. Replying(d) => Replying(d)'
  BY <1>8, <1>9 DEF Replying, Shape, Running, Same
<1> QED BY <1>3, <1>4, <1>5, <1>10 DEF Conversation, Same

LEMMA OthersSame ==
  ASSUME Types, NEW c \in Clients, NEW d \in Clients, d # c
  PROVE  /\ \A line \in Lines, junk \in Junk :
              Ask(c, line, junk) => Same(d) /\ UNCHANGED shared
         /\ ClientStep(c) \/ ConnectionReset(c) \/ Leave(c) => Same(d) /\ UNCHANGED shared
         /\ ThreadStep(c) \/ ThreadNoMemory(c) => Same(d) /\ Noticed(d) /\ (alive' => alive)
<1>1. /\ \A e : [cpc EXCEPT ![c] = e][d] = cpc[d] /\ [meant EXCEPT ![c] = e][d] = meant[d]
      /\ \A e : [req EXCEPT ![c] = e][d] = req[d] /\ [flag EXCEPT ![c] = e][d] = flag[d]
      /\ \A e : [todo EXCEPT ![c] = e][d] = todo[d] /\ [size EXCEPT ![c] = e][d] = size[d]
      /\ \A e : [printed EXCEPT ![c] = e][d] = printed[d]
  BY DEF Types, ClientTypes
<1>2. \A e : [up EXCEPT ![c] = e][d] = up[d] /\ [down EXCEPT ![c] = e][d] = down[d]
  BY DEF Types, ConnTypes
<1>3. /\ \A e : [tpc EXCEPT ![c] = e][d] = tpc[d] /\ [served EXCEPT ![c] = e][d] = served[d]
      /\ \A e : [mine EXCEPT ![c] = e][d] = mine[d] /\ [at EXCEPT ![c] = e][d] = at[d]
      /\ \A e : [out EXCEPT ![c] = e][d] = out[d]
  BY DEF Types, ThreadTypes
<1>4. /\ \A e : [said EXCEPT ![c] = e][d] = said[d] /\ [quiet EXCEPT ![c] = e][d] = quiet[d]
      /\ \A e : [noMemory EXCEPT ![c] = e][d] = noMemory[d]
  BY DEF Types, GhostTypes
<1>5. Stirred => (quiet'[d] => quiet[d]) /\ (tpc[d] # "list" \/ ~quiet'[d])
  BY Zenon DEF Stirred
<1>6. UNCHANGED table => Existing' = Existing
  BY Zenon DEF Existing
<1> USE DEF Same, Noticed, client, conn, thread, shared, ghost, Goto, Reply, Take
<1>7. \A line \in Lines, junk \in Junk :
        Ask(c, line, junk) => Same(d) /\ UNCHANGED shared
  <2> SUFFICES ASSUME NEW line \in Lines, NEW junk \in Junk, Ask(c, line, junk)
               PROVE  Same(d) /\ UNCHANGED shared
    OBVIOUS
  <2>1. cpc' = [cpc EXCEPT ![c] = "ended"] \/ cpc' = [cpc EXCEPT ![c] = "send"]
    BY Zenon DEF Ask
  <2>2. req' = req \/ \E e : req' = [req EXCEPT ![c] = e]
    BY Zenon DEF Ask
  <2>3. tpc' = tpc \/ tpc' = [tpc EXCEPT ![c] = "read"]
    BY Zenon DEF Ask
  <2>4. \E e : meant' = [meant EXCEPT ![c] = e]
    BY Zenon DEF Ask
  <2>5. UNCHANGED <<flag, todo, size, printed, up, down, served, mine, at, out,
                    said, quiet, noMemory>> /\ UNCHANGED shared
    BY DEF Ask
  <2>6. cpc'[d] = cpc[d] /\ req'[d] = req[d] /\ meant'[d] = meant[d]
    BY <1>1, <2>1, <2>2, <2>4
  <2>7. tpc'[d] = tpc[d]
    BY <1>3, <2>3
  <2> QED BY <2>5, <2>6, <2>7
<1>8. SendRequest(c) => Same(d) /\ UNCHANGED shared
  <2> SUFFICES ASSUME SendRequest(c) PROVE Same(d) /\ UNCHANGED shared
    OBVIOUS
  <2>1. cpc' = cpc \/ \E e : cpc' = [cpc EXCEPT ![c] = e]
    BY Zenon DEF SendRequest
  <2>2. todo' = todo \/ todo' = [todo EXCEPT ![c] = 1]
    BY Zenon DEF SendRequest
  <2>3. \E e : up' = [up EXCEPT ![c] = e]
    BY Zenon DEF SendRequest
  <2>4. \E e : req' = [req EXCEPT ![c] = e]
    BY Zenon DEF SendRequest
  <2>5. UNCHANGED <<meant, flag, size, printed, down, tpc, served, mine, at, out,
                    said, quiet, noMemory>> /\ UNCHANGED shared
    BY Zenon DEF SendRequest
  <2>6. cpc'[d] = cpc[d]
    BY <1>1, <2>1
  <2>7. todo'[d] = todo[d]
    BY <1>1, <2>2
  <2>8. req'[d] = req[d]
    BY <1>1, <2>4
  <2>9. up'[d] = up[d]
    BY <1>2, <2>3
  <2> QED BY <2>5, <2>6, <2>7, <2>8, <2>9, SMTT(30)
<1>9. ReadFlag(c) => Same(d) /\ UNCHANGED shared
  BY <1>1, <1>2 DEF ReadFlag
<1>10. ReadCount(c) => Same(d) /\ UNCHANGED shared
  BY <1>1, <1>2 DEF ReadCount
<1>11. ReadSize(c) => Same(d) /\ UNCHANGED shared
  BY <1>1, <1>2 DEF ReadSize
<1>12. ReadText(c) => Same(d) /\ UNCHANGED shared
  <2> SUFFICES ASSUME ReadText(c) PROVE Same(d) /\ UNCHANGED shared
    OBVIOUS
  <2>1. \E e : printed' = [printed EXCEPT ![c] = e] \/ printed' = printed
    BY Zenon DEF ReadText
  <2>2. \E e : cpc' = [cpc EXCEPT ![c] = e]
    BY Zenon DEF ReadText
  <2>3. \E e : down' = [down EXCEPT ![c] = e]
    BY Zenon DEF ReadText
  <2>4. \E e : todo' = [todo EXCEPT ![c] = e]
    BY Zenon DEF ReadText
  <2>5. UNCHANGED <<meant, req, flag, size, up, tpc, served, mine, at, out,
                    said, quiet, noMemory>> /\ UNCHANGED shared
    BY DEF ReadText
  <2>6. cpc'[d] = cpc[d]
    BY <1>1, <2>2
  <2>8. todo'[d] = todo[d]
    BY <1>1, <2>4
  <2>9. printed'[d] = printed[d]
    BY <1>1, <2>1
  <2>7. down'[d] = down[d]
    BY <1>2, <2>3
  <2> QED BY <2>5, <2>6, <2>8, <2>9, <2>7
<1>13. ConnectionReset(c) => Same(d) /\ UNCHANGED shared
  BY <1>1 DEF ConnectionReset
<1>14. Leave(c) => Same(d) /\ UNCHANGED shared
  BY <1>1, <1>2 DEF Leave
<1>15. ReadTask(c) => Same(d) /\ Noticed(d) /\ (alive' => alive)
  BY <1>3, <1>6 DEF ReadTask
<1>16. ThreadNoMemory(c) => Same(d) /\ Noticed(d) /\ (alive' => alive)
  BY <1>3, <1>4, <1>6 DEF ThreadNoMemory
<1>17. AddRefused(c) => Same(d) /\ Noticed(d) /\ (alive' => alive)
  BY <1>3, <1>4, <1>6 DEF AddRefused
<1>18. (\E i \in Ids : AddInserts(c, i)) => Same(d) /\ Noticed(d) /\ (alive' => alive)
  BY <1>3, <1>4, <1>5 DEF AddInserts
<1>19. AddForkFails(c) => Same(d) /\ Noticed(d) /\ (alive' => alive)
  BY <1>3, <1>4, <1>5 DEF AddForkFails
<1>20. AddFinish(c) => Same(d) /\ Noticed(d) /\ (alive' => alive)
  BY <1>3, <1>4, <1>5 DEF AddFinish
<1>21. Change(c) => Same(d) /\ Noticed(d) /\ (alive' => alive)
  BY <1>3, <1>4, <1>6 DEF Change
<1>22. Remove(c) => Same(d) /\ Noticed(d) /\ (alive' => alive)
  BY <1>3, <1>4, <1>5, <1>6 DEF Remove
<1>23. CopyHangs(c) => Same(d) /\ Noticed(d) /\ (alive' => alive)
  BY <1>3, <1>4, <1>6 DEF CopyHangs
<1>24. Status(c) => Same(d) /\ Noticed(d) /\ (alive' => alive)
  BY <1>3, <1>4, <1>6 DEF Status
<1>25. Result(c) => Same(d) /\ Noticed(d) /\ (alive' => alive)
  <2> SUFFICES ASSUME Result(c) PROVE Same(d) /\ Noticed(d) /\ (alive' => alive)
    OBVIOUS
  <2>1. \E e : out' = [out EXCEPT ![c] = e]
    BY Zenon DEF Result
  <2>2. \E e : said' = [said EXCEPT ![c] = e]
    BY Zenon DEF Result
  <2>3. tpc' = [tpc EXCEPT ![c] = "send"]
    BY Zenon DEF Result
  <2>4. UNCHANGED <<cpc, meant, req, flag, todo, size, printed, up, down, served,
                    mine, at, alive, table, quiet, noMemory>>
    BY Zenon DEF Result
  <2> QED BY <1>3, <1>4, <1>6, <2>1, <2>2, <2>3, <2>4
<1>26. List(c) => Same(d) /\ Noticed(d) /\ (alive' => alive)
  BY <1>3, <1>4, <1>6 DEF List
<1>27. ListNext(c) => Same(d) /\ Noticed(d) /\ (alive' => alive)
  <2> SUFFICES ASSUME ListNext(c) PROVE Same(d) /\ Noticed(d) /\ (alive' => alive)
    OBVIOUS
  <2>1. tpc' = tpc \/ tpc' = [tpc EXCEPT ![c] = "send"]
    BY Zenon DEF ListNext
  <2>2. out' = out \/ \E e : out' = [out EXCEPT ![c] = e]
    BY Zenon DEF ListNext
  <2>3. at' = at \/ \E e : at' = [at EXCEPT ![c] = e]
    BY Zenon DEF ListNext
  <2>4. said' = said \/ \E e : said' = [said EXCEPT ![c] = e]
    BY Zenon DEF ListNext
  <2>5. UNCHANGED <<cpc, meant, req, flag, todo, size, printed, up, down, served,
                    mine, alive, table, quiet, noMemory>>
    BY Zenon DEF ListNext
  <2>6. tpc'[d] = tpc[d]
    BY <1>3, <2>1
  <2>7. out'[d] = out[d]
    BY <1>3, <2>2
  <2>8. at'[d] = at[d]
    BY <1>3, <2>3
  <2>9. said'[d] = said[d]
    BY <1>4, <2>4
  <2> QED BY <1>6, <2>5, <2>6, <2>7, <2>8, <2>9, SMTT(30)
<1>28. Send(c) => Same(d) /\ Noticed(d) /\ (alive' => alive)
  BY <1>2, <1>3, <1>6 DEF Send
<1>29. SendGone(c) => Same(d) /\ Noticed(d) /\ (alive' => alive)
  <2> SUFFICES ASSUME SendGone(c) PROVE Same(d) /\ Noticed(d) /\ (alive' => alive)
    OBVIOUS
  <2>1. tpc' = tpc \/ tpc' = [tpc EXCEPT ![c] = "send"]
    BY Zenon DEF SendGone
  <2>2. out' = out \/ \E e : out' = [out EXCEPT ![c] = e]
    BY Zenon DEF SendGone
  <2>3. UNCHANGED <<cpc, meant, req, flag, todo, size, printed, up, down, served,
                    mine, at, table, said, quiet, noMemory>> /\ alive
    BY Zenon DEF SendGone
  <2>4. tpc'[d] = tpc[d]
    BY <1>3, <2>1
  <2>5. out'[d] = out[d]
    BY <1>3, <2>2
  <2> QED BY <1>6, <2>3, <2>4, <2>5, SMTT(30)
<1>30. Close(c) => Same(d) /\ Noticed(d) /\ (alive' => alive)
  BY <1>3, <1>6 DEF Close
<1> HIDE DEF Same, Noticed, shared
<1>31. ClientStep(c) \/ ConnectionReset(c) \/ Leave(c) => Same(d) /\ UNCHANGED shared
  BY <1>8, <1>9, <1>10, <1>11, <1>12, <1>13, <1>14, Zenon DEF ClientStep
<1>32. ThreadStep(c) \/ ThreadNoMemory(c) => Same(d) /\ Noticed(d) /\ (alive' => alive)
  BY <1>15, <1>16, <1>17, <1>18, <1>19, <1>20, <1>21, <1>22, <1>23, <1>24, <1>25,
     <1>26, <1>27, <1>28, <1>29, <1>30, Zenon DEF ThreadStep
<1> QED BY <1>7, <1>31, <1>32, Zenon

-----------------------------------------------------------------------------
(* The client takes its steps *)

\* What a step of the client leaves alone.
LEMMA ClientLeaves ==
  ASSUME Types, UNCHANGED <<thread, shared, ghost>>
  PROVE  ThreadTypes' /\ SharedTypes' /\ GhostTypes' /\ LockSends'
<1>1. UNCHANGED thread /\ UNCHANGED shared /\ UNCHANGED ghost
  OBVIOUS
<1>2. LockSends'
  BY <1>1 DEF Types, LockSends, thread, shared
<1> QED BY <1>1, <1>2, TypesKept

LEMMA TakeType ==
  ASSUME Types, NEW c \in Clients, NEW n \in Int, Take(c, n)
  PROVE  /\ ConnTypes' /\ down[c] \in Seq(Cell) /\ n \in Nat /\ n <= Len(down[c])
         /\ down'[c] = SubSeq(down[c], n + 1, Len(down[c])) /\ up' = up
         /\ n = 1 => down[c][1] \in Cell
<1>1. down \in [Clients -> Seq(Cell)] /\ up \in [Clients -> Seq(Cell)]
  BY DEF Types, ConnTypes
<1>2. down[c] \in Seq(Cell)
  BY <1>1
<1>3. n \in Nat /\ n <= Len(down[c]) /\ Len(down[c]) \in Nat
  BY <1>2 DEF Take
<1>4. SubSeq(down[c], n + 1, Len(down[c])) \in Seq(Cell)
  BY <1>2, <1>3
<1>5. down' \in [Clients -> Seq(Cell)] /\ up' = up
  BY <1>1, <1>4 DEF Take
<1>6. down'[c] = SubSeq(down[c], n + 1, Len(down[c]))
  BY <1>1 DEF Take
<1>7. n = 1 => down[c][1] \in Cell
  BY <1>2, <1>3
<1> QED BY <1>1, <1>2, <1>3, <1>5, <1>6, <1>7 DEF ConnTypes

LEMMA ReadsAfterType ==
  ASSUME NEW n \in 0 .. 8
  PROVE  /\ ReadsAfter(n) \in {"size", "count", "flag", "ended"}
         /\ ReadsAfter(n) # "send" /\ ReadsAfter(n) # "text" /\ ReadsAfter(n) # "idle"
         /\ ReadsAfter(n) = "size" => n < 6
         /\ ReadsAfter(n) = "count" => n = 6
         /\ ReadsAfter(n) = "flag" => n = 7
         /\ ReadsAfter(n) = "ended" => n = 8
BY DEF ReadsAfter

LEMMA SendRequestTypes ==
  ASSUME Types, NEW c \in Clients, SendRequest(c)
  PROVE  Types'
<1>0. /\ req \in [Clients -> Seq(Cell)] /\ up \in [Clients -> Seq(Cell)]
      /\ meant[c].cnt \in 0 .. 8
  BY DEF Types, ClientTypes, ConnTypes, TaskType
<1>1. req[c] \in Seq(Cell) /\ req[c] # <<>> /\ up[c] \in Seq(Cell)
  BY <1>0 DEF SendRequest
<1>2. Head(req[c]) \in Cell /\ Tail(req[c]) \in Seq(Cell)
  BY <1>1, HeadTailProperties
<1>3. Append(up[c], Head(req[c])) \in Seq(Cell)
  BY <1>1, <1>2
<1>4. /\ up' = [up EXCEPT ![c] = Append(up[c], Head(req[c]))] /\ down' = down
      /\ req' = [req EXCEPT ![c] = Tail(req[c])]
      /\ UNCHANGED <<meant, flag, size, printed>>
      /\ UNCHANGED <<thread, shared, ghost>>
  BY <1>0 DEF SendRequest
<1>5. ConnTypes'
  BY <1>0, <1>3, <1>4 DEF Types, ConnTypes
<1>6. req' \in [Clients -> Seq(Cell)]
  BY <1>0, <1>2, <1>4
<1>7. cpc' = cpc \/ cpc' = [cpc EXCEPT ![c] = ReadsAfter(meant[c].cnt)]
  BY Zenon DEF SendRequest
<1>8. todo' = todo \/ todo' = [todo EXCEPT ![c] = 1]
  BY Zenon DEF SendRequest
<1>9. todo' \in [Clients -> Int]
  BY <1>8 DEF Types, ClientTypes
<1>10. ReadsAfter(meant[c].cnt) \in {"size", "count", "flag", "ended"}
  BY <1>0, ReadsAfterType
<1>11. cpc' \in [Clients -> {"idle", "send", "flag", "count", "size", "text",
                             "ended", "left"}]
  BY <1>7, <1>10 DEF Types, ClientTypes
<1>12. ClientTypes'
  BY <1>4, <1>6, <1>9, <1>11 DEF Types, ClientTypes
<1> QED BY <1>4, <1>5, <1>12, ClientLeaves DEF Types

LEMMA NextReadType ==
  ASSUME NEW n
  PROVE  NextRead(n) \in {"ended", "size"} /\ (NextRead(n) = "ended" <=> n = 0)
BY DEF NextRead

LEMMA ReadFlagTypes ==
  ASSUME Types, NEW c \in Clients, ReadFlag(c)
  PROVE  Types'
<1>1. ConnTypes' /\ down[c][1] \in Cell
  BY TakeType DEF ReadFlag
<1>2. PICK f \in {NoFlag, "0", "1"} : flag' = [flag EXCEPT ![c] = f]
  <2>1. "sol" \in DOMAIN down[c][1] => down[c][1].sol \in {"0", "1"}
    BY <1>1, ValueType
  <2> QED BY <2>1 DEF ReadFlag
<1>3. ClientTypes'
  BY <1>2 DEF ReadFlag, Types, ClientTypes
<1>4. UNCHANGED <<thread, shared, ghost>>
  BY DEF ReadFlag
<1> QED BY <1>1, <1>3, <1>4, ClientLeaves DEF Types

LEMMA ReadCountTypes ==
  ASSUME Types, NEW c \in Clients, ReadCount(c)
  PROVE  Types'
<1>1. ConnTypes' /\ down[c][1] \in Cell
  BY TakeType DEF ReadCount
<1>2. Value(down[c][1]) \in Int
  BY <1>1, ValueType
<1>3. /\ todo' = [todo EXCEPT ![c] = Value(down[c][1])]
      /\ cpc' = [cpc EXCEPT ![c] = NextRead(todo'[c])]
      /\ UNCHANGED <<meant, req, flag, size, printed>>
      /\ UNCHANGED <<thread, shared, ghost>>
  BY DEF ReadCount
<1>4. NextRead(todo'[c]) \in {"ended", "size"}
  BY NextReadType
<1>5. ClientTypes'
  BY <1>2, <1>3, <1>4 DEF Types, ClientTypes
<1> QED BY <1>1, <1>3, <1>5, ClientLeaves DEF Types

LEMMA ReadTextTypes ==
  ASSUME Types, NEW c \in Clients, ReadText(c)
  PROVE  Types'
<1>0. /\ size \in [Clients -> Nat] /\ todo \in [Clients -> Int]
      /\ printed \in [Clients -> Seq(Seq(Cell))]
  BY DEF Types, ClientTypes
<1> DEFINE text == SubSeq(down[c], 1, size[c])
<1>1. ConnTypes' /\ down[c] \in Seq(Cell) /\ size[c] \in Nat /\ size[c] <= Len(down[c])
  BY <1>0, TakeType DEF ReadText
<1>2. text \in Seq(Cell)
  BY <1>1
<1>3. /\ todo' = [todo EXCEPT ![c] = todo[c] - 1]
      /\ cpc' = [cpc EXCEPT ![c] = NextRead(todo'[c])]
      /\ UNCHANGED <<meant, req, flag, size>>
      /\ UNCHANGED <<thread, shared, ghost>>
  BY <1>0 DEF ReadText
<1>4. printed' = [printed EXCEPT ![c] = Append(printed[c], text)] \/ printed' = printed
  BY <1>0 DEF ReadText
<1> HIDE DEF text
<1>5. Append(printed[c], text) \in Seq(Seq(Cell))
  BY <1>0, <1>2
<1>6. printed' \in [Clients -> Seq(Seq(Cell))]
  BY <1>0, <1>4, <1>5
<1>7. NextRead(todo'[c]) \in {"ended", "size"}
  BY NextReadType
<1>8. todo' \in [Clients -> Int]
  BY <1>0, <1>3
<1>9. ClientTypes'
  BY <1>3, <1>6, <1>7, <1>8 DEF Types, ClientTypes
<1> QED BY <1>1, <1>3, <1>9, ClientLeaves DEF Types

LEMMA StoppedTypes ==
  ASSUME Types, NEW c \in Clients, ConnectionReset(c) \/ Leave(c)
  PROVE  Types'
<1>1. CASE ConnectionReset(c)
  <2>1. ClientTypes'
    BY <1>1 DEF ConnectionReset, Types, ClientTypes
  <2>2. UNCHANGED conn /\ UNCHANGED <<thread, shared, ghost>>
    BY <1>1 DEF ConnectionReset
  <2> QED BY <2>1, <2>2, ClientLeaves, TypesKept DEF Types
<1>2. CASE Leave(c)
  <2>1. ClientTypes'
    BY <1>2 DEF Leave, Types, ClientTypes
  <2>2. ConnTypes'
    BY <1>2 DEF Leave, Types, ConnTypes
  <2>3. UNCHANGED <<thread, shared, ghost>>
    BY <1>2 DEF Leave
  <2> QED BY <2>1, <2>2, <2>3, ClientLeaves DEF Types
<1> QED BY <1>1, <1>2

\* Who sends asks; who has something to read reads a reply.
LEMMA SendIsAsking ==
  ASSUME IInv, NEW c \in Clients, cpc[c] = "send"
  PROVE  /\ Asking(c) /\ req[c] # <<>>
         /\ Len(up[c]) + Len(req[c]) = Len(taskToString(meant[c]))
         /\ \A j \in 1 .. Len(req[c]) :
              req[c][j] = taskToString(meant[c])[Len(up[c]) + j]
<1>1. ReadsAfter(meant[c].cnt) # "send"
  BY DEF ReadsAfter
<1>2. ~Waits(c)
  BY <1>1 DEF Waits, Gone
<1> QED BY <1>2 DEF IInv, Conversation, Before, Asking, Serving, Replying, Reads

LEMMA ReaderReads ==
  ASSUME IInv, NEW c \in Clients, cpc[c] \in {"flag", "count", "size", "text"},
         cpc[c] = "text" \/ down[c] # <<>>
  PROVE  Replying(c) /\ Reads(c)
<1>1. cpc[c] = "text" => ~Waits(c)
  BY DEF Waits, Gone, ReadsAfter
<1>2. ~(Silent(c) /\ Waits(c))
  BY <1>1 DEF Silent
<1> QED BY <1>2 DEF IInv, Conversation, Before, Asking, Serving, Replying

LEMMA ComingType ==
  ASSUME NEW c \in Clients, table \in [Ids -> Entry]
  PROVE  /\ IsFiniteSet(Later(c)) /\ IsFiniteSet(Existing)
         /\ Coming(c) \in Nat
<1>1. Later(c) \in SUBSET Ids /\ Existing \in SUBSET Ids
  BY DEF Later, Existing
<1>2. IsFiniteSet(Ids)
  BY ClientAssumption
<1>3. IsFiniteSet(Later(c)) /\ IsFiniteSet(Existing)
  BY <1>1, <1>2, FS_Subset
<1>4. Cardinality(Later(c)) \in Nat
  BY <1>3, FS_CardinalityType
<1> QED BY <1>3, <1>4 DEF Coming

LEMMA SendRequestKeeps ==
  ASSUME IInv, NEW c \in Clients, SendRequest(c)
  PROVE  Conversation(c)'
<1> DEFINE whole == taskToString(meant[c])
<1>1. /\ Asking(c) /\ Len(up[c]) + Len(req[c]) = Len(whole)
      /\ \A j \in 1 .. Len(req[c]) : req[c][j] = whole[Len(up[c]) + j]
      /\ \A j \in 1 .. Len(up[c]) : up[c][j] = whole[j]
  BY SendIsAsking DEF SendRequest, Asking
<1>2. /\ req \in [Clients -> Seq(Cell)] /\ up \in [Clients -> Seq(Cell)]
      /\ cpc \in [Clients -> {"idle", "send", "flag", "count", "size", "text",
                              "ended", "left"}]
      /\ todo \in [Clients -> Int]
  BY DEF IInv, Types, ClientTypes, ConnTypes
<1>3. req[c] \in Seq(Cell) /\ req[c] # <<>> /\ up[c] \in Seq(Cell)
  BY <1>2 DEF SendRequest
<1>4. /\ Head(req[c]) = req[c][1] /\ Head(req[c]) \in Cell /\ Tail(req[c]) \in Seq(Cell)
      /\ Len(Tail(req[c])) = Len(req[c]) - 1
      /\ \A j \in 1 .. Len(Tail(req[c])) : Tail(req[c])[j] = req[c][j + 1]
  BY <1>3, HeadTailProperties
<1>5. /\ up'[c] = Append(up[c], Head(req[c])) /\ req'[c] = Tail(req[c])
      /\ meant'[c] = meant[c]
      /\ UNCHANGED <<meant, flag, printed, down, thread, shared, ghost>>
  BY <1>2 DEF SendRequest
<1>6. \/ cpc'[c] = cpc[c] /\ req'[c] # <<>>
      \/ cpc'[c] = ReadsAfter(meant[c].cnt) /\ todo'[c] = 1
  BY <1>2 DEF SendRequest
<1>7. PICK n \in Nat, m \in Nat, w \in Int :
        n = Len(up[c]) /\ m = Len(req[c]) /\ w = Len(whole) /\ n + m = w /\ m >= 1
  <2>1. Len(up[c]) \in Nat /\ Len(req[c]) \in Nat /\ Len(req[c]) >= 1
    BY <1>3
  <2>2. Len(whole) \in Int
    BY <1>1, <2>1
  <2> QED BY <1>1, <2>1, <2>2
<1> HIDE DEF whole
<1>8. /\ Len(up'[c]) = n + 1 /\ up'[c][n + 1] = Head(req[c])
      /\ \A j \in 1 .. n : up'[c][j] = up[c][j]
  BY <1>3, <1>4, <1>5, <1>7, AppendProperties
<1>71. n + m = w /\ m >= 1
  BY <1>7, Zenon
<1>9. req[c][1] = whole[n + 1]
  <2>1. \A j \in 1 .. m : req[c][j] = whole[n + j]
    BY <1>1, <1>7, Zenon
  <2>2. 1 \in 1 .. m
    BY <1>71
  <2> QED BY <2>1, <2>2
<1>10. \A j \in 1 .. n + 1 : up'[c][j] = whole[j]
  <2>1. \A j \in 1 .. n : up[c][j] = whole[j]
    BY <1>1, <1>7, Zenon
  <2>2. \A j \in 1 .. n + 1 : j \in 1 .. n \/ j = n + 1
    OBVIOUS
  <2> QED BY <2>1, <2>2, <1>4, <1>8, <1>9, Zenon
<1>11. /\ Len(req'[c]) = m - 1
       /\ \A j \in 1 .. m - 1 : req'[c][j] = whole[n + 1 + j]
  <2>1. \A j \in 1 .. m - 1 : j \in 1 .. Len(Tail(req[c])) /\ j + 1 \in 1 .. Len(req[c])
    BY <1>4, <1>7
  <2>2. \A j \in 1 .. m - 1 : Tail(req[c])[j] = whole[n + (j + 1)]
    BY <2>1, <1>1, <1>4, <1>7
  <2>3. \A j \in 1 .. m - 1 : n + (j + 1) = n + 1 + j
    OBVIOUS
  <2> QED BY <2>2, <2>3, <1>4, <1>5, <1>7
<1>12. n + 1 <= w /\ (n + 1) + (m - 1) = w
  BY <1>71
<1>13. Silent(c)' /\ (Gone(c) => Gone(c)')
  BY <1>1, <1>5 DEF Asking, Silent, Gone, SendRequest, thread, ghost
<1>14. Waits(c)' \/ (cpc'[c] = "send" /\ req'[c] # <<>>)
  BY <1>5, <1>6 DEF Waits, SendRequest
<1>15. tpc'[c] = "read" /\ meant'[c] # NoTask /\ served'[c] = NoTask /\ ~noMemory'[c]
  BY <1>1, <1>5 DEF Asking, thread, ghost
<1>16. meant'[c] \in Meant
  BY <1>5 DEF IInv, Conversation
<1>17. Asking(c)'
  <2>1. taskToString(meant'[c]) = whole
    BY <1>5 DEF whole
  <2>2. Len(up'[c]) <= Len(whole) /\ \A j \in 1 .. Len(up'[c]) : up'[c][j] = whole[j]
    BY <1>7, <1>8, <1>10, <1>12
  <2>3. /\ Len(up'[c]) + Len(req'[c]) = Len(whole)
        /\ \A j \in 1 .. Len(req'[c]) : req'[c][j] = whole[Len(up'[c]) + j]
    BY <1>7, <1>8, <1>11, <1>12
  <2> QED BY <2>1, <2>2, <2>3, <1>13, <1>14, <1>15, Zenon DEF Asking
<1> QED BY <1>16, <1>17 DEF Conversation

\* What is left of the stream after n cells are read.
LEMMA TakeFollows ==
  ASSUME Types, NEW c \in Clients, NEW n \in Nat, Take(c, n), UNCHANGED out,
         Len(out[c]) <= 2, NEW h, NEW texts, NEW r \in Nat,
         Follows(Rest(c), h, texts, r)
  PROVE  /\ Flat(out[c]) \in Seq(Cell) /\ Rest(c)' \in Seq(Cell)
         /\ Follows(Rest(c)', h, texts, r + n)
         /\ Rest(c)' = <<>> => out'[c] = <<>>
<1>1. /\ down[c] \in Seq(Cell) /\ n <= Len(down[c])
      /\ down'[c] = SubSeq(down[c], n + 1, Len(down[c]))
  BY TakeType
<1>2. out[c] \in Seq(Seq(Cell) \ {<<>>})
  BY DEF Types, ThreadTypes
<1>3. Flat(out[c]) \in Seq(Cell) /\ (Flat(out[c]) = <<>> <=> out[c] = <<>>)
  BY <1>2, FlatFacts
<1>4. Rest(c)' = SubSeq(down[c], n + 1, Len(down[c])) \o Flat(out[c])
  BY <1>1 DEF Rest
<1>5. Follows(Rest(c)', h, texts, r + n)
  BY <1>1, <1>3, <1>4, FollowsTake DEF Rest
<1>6. SubSeq(down[c], n + 1, Len(down[c])) \in Seq(Cell)
  BY <1>1
<1>7. Rest(c)' \in Seq(Cell)
  BY <1>3, <1>4, <1>6, ConcatProperties
<1>8. Rest(c)' = <<>> => Flat(out[c]) = <<>>
  <2>1. \A s, t \in Seq(Cell) : s \o t = <<>> => t = <<>>
    BY ConcatEqualIffEmpty
  <2> QED BY <1>3, <1>4, <1>6, <2>1, Zenon
<1> QED BY <1>3, <1>5, <1>7, <1>8

\* A step that reads: what stays of the reply.
LEMMA ReaderLeaves ==
  ASSUME IInv, NEW c \in Clients, UNCHANGED <<meant, thread, shared, ghost>>
  PROVE  /\ meant'[c] \in Meant /\ meant'[c] = meant[c]
         /\ said'[c] = said[c] /\ quiet'[c] = quiet[c] /\ tpc'[c] = tpc[c]
         /\ out' = out /\ Coming(c)' = Coming(c) /\ alive' = alive
         /\ Replying(c) /\ (meant[c].cnt # 7 => flag'[c] = flag[c]) => Shape(c)'
<1>1. meant'[c] \in Meant /\ meant'[c] = meant[c]
  BY DEF IInv, Conversation
<1>2. Coming(c)' = Coming(c)
  BY DEF Coming, Later, Existing, thread, shared
<1>3. Replying(c) /\ (meant[c].cnt # 7 => flag'[c] = flag[c]) => Shape(c)'
  BY <1>1 DEF Replying, Shape, thread, ghost
<1> QED BY <1>1, <1>2, <1>3 DEF thread, shared, ghost

LEMMA HeaderType ==
  ASSUME NEW n, NEW h \in Seq(Cell), IsHeader(n, h)
  PROVE  /\ n \in {6, 7} => Len(h) = 1
         /\ n \notin {6, 7} => h = <<>>
         /\ n = 6 => h[1].num \in Int /\ Value(h[1]) = h[1].num
<1>1. CASE n = 6
  <2>1. PICK i \in Int : h = <<Field(i)>>
    BY <1>1 DEF IsHeader
  <2>2. Len(h) = 1 /\ h[1] = Field(i)
    BY <2>1
  <2>3. Value(h[1]) = i /\ h[1].num = i
    BY <2>2 DEF Value, Field
  <2> QED BY <1>1, <2>2, <2>3
<1>2. CASE n = 7
  BY <1>2 DEF IsHeader, Sol
<1>3. CASE n \notin {6, 7}
  BY <1>3 DEF IsHeader
<1> QED BY <1>1, <1>2, <1>3

LEMMA ReadFlagKeeps ==
  ASSUME IInv, NEW c \in Clients, ReadFlag(c)
  PROVE  Conversation(c)'
<1>1. /\ cpc[c] = "flag" /\ Take(c, 1)
      /\ cpc' = [cpc EXCEPT ![c] = "size"]
      /\ UNCHANGED <<meant, todo, printed>>
      /\ UNCHANGED <<meant, thread, shared, ghost>>
  BY DEF ReadFlag
<1>2. Types /\ cpc'[c] = "size"
  BY <1>1 DEF IInv, Types, ClientTypes
<1>3. down[c] \in Seq(Cell) /\ down[c] # <<>>
  BY <1>1, <1>2, TakeType
<1>4. Replying(c) /\ Reads(c)
  BY <1>1, <1>3, ReaderReads
<1>5. meant[c].cnt = 7 /\ printed[c] = <<>> /\ todo[c] = 1
  BY <1>1, <1>4 DEF Reads
<1>6. PICK h \in Seq(Cell) : IsHeader(7, h) /\ Follows(Rest(c), h, said[c], 0)
  BY <1>1, <1>4, <1>5 DEF Reads, ReadSoFar
<1>7. Follows(Rest(c)', h, said[c], 0 + 1)
  BY <1>1, <1>2, <1>4, <1>6, TakeFollows DEF Replying, Shape, thread
<1>8. ReadSoFar(c, h)' = 1
  BY <1>1, <1>2, <1>5, <1>6, HeaderType DEF ReadSoFar
<1>9. /\ meant'[c] \in Meant /\ meant'[c] = meant[c] /\ said'[c] = said[c]
      /\ Shape(c)'
  BY <1>1, <1>4, <1>5, ReaderLeaves
<1>10. Reads(c)'
  <2>1. Follows(Rest(c)', h, said'[c], ReadSoFar(c, h)')
    BY <1>7, <1>8, <1>9
  <2>2. \E x \in Seq(Cell) :
          /\ IsHeader(meant'[c].cnt, x)
          /\ Follows(Rest(c)', x, said'[c], ReadSoFar(c, x)')
    BY <1>5, <1>6, <1>9, <2>1
  <2>3. /\ cpc'[c] = "size" /\ meant'[c].cnt = 7 /\ printed'[c] = <<>>
        /\ todo'[c] = 1
    BY <1>1, <1>2, <1>5, <1>9
  <2> QED BY <2>2, <2>3 DEF Reads
<1>11. Replying(c)'
  <2>1. Running(c)'
    BY <1>2 DEF Running
  <2> QED BY <2>1, <1>1, <1>4, <1>9, <1>10 DEF Replying, thread, ghost
<1> QED BY <1>9, <1>11 DEF Conversation

\* A list whose count is 0 has no texts, if it was quiet.
LEMMA ReadCountKeeps ==
  ASSUME IInv, NEW c \in Clients, ReadCount(c)
  PROVE  Conversation(c)'
<1>1. /\ cpc[c] = "count" /\ Take(c, 1)
      /\ cpc' = [cpc EXCEPT ![c] = NextRead(todo'[c])]
      /\ todo' = [todo EXCEPT ![c] = Value(down[c][1])]
      /\ UNCHANGED <<printed, flag>>
      /\ UNCHANGED <<meant, thread, shared, ghost>>
  BY DEF ReadCount
<1>2. Types /\ cpc'[c] = NextRead(todo'[c]) /\ todo'[c] = Value(down[c][1])
  BY <1>1 DEF IInv, Types, ClientTypes
<1>3. down[c] \in Seq(Cell) /\ down[c] # <<>> /\ Len(down[c]) >= 1
  BY <1>1, <1>2, TakeType
<1>4. Replying(c) /\ Reads(c)
  BY <1>1, <1>3, ReaderReads
<1>5. meant[c].cnt = 6 /\ printed[c] = <<>> /\ Len(out[c]) <= 2
  BY <1>1, <1>4 DEF Reads, Replying, Shape
<1>6. PICK h \in Seq(Cell) :
        /\ IsHeader(6, h) /\ Follows(Rest(c), h, said[c], 0)
        /\ quiet[c] => h[1].num = Len(said[c]) + Coming(c)
  BY <1>1, <1>4, <1>5 DEF Reads, ReadSoFar
<1>7. /\ Follows(Rest(c)', h, said[c], 0 + 1) /\ Flat(out[c]) \in Seq(Cell)
      /\ Rest(c)' \in Seq(Cell) /\ (Rest(c)' = <<>> => out'[c] = <<>>)
  BY <1>1, <1>2, <1>5, <1>6, TakeFollows DEF thread
<1>8. Len(h) = 1 /\ h[1].num \in Int /\ Value(h[1]) = h[1].num
  BY <1>6, HeaderType
<1>9. todo'[c] = h[1].num
  BY <1>2, <1>3, <1>5, <1>6, <1>7, <1>8, ReadHeader DEF Rest
<1>10. /\ meant'[c] \in Meant /\ meant'[c] = meant[c] /\ said'[c] = said[c]
       /\ quiet'[c] = quiet[c] /\ Coming(c)' = Coming(c) /\ Shape(c)' /\ out' = out
  BY <1>1, <1>4, <1>5, ReaderLeaves
<1>11. Len(said[c]) \in Nat /\ Coming(c) \in Nat /\ said[c] \in Seq(Texts)
  BY <1>2, ComingType DEF Types, GhostTypes, SharedTypes
<1>12. printed'[c] = <<>> /\ Len(printed'[c]) = 0
  BY <1>1, <1>5
<1>13. /\ tpc'[c] \in {"list", "send", "closed"} /\ ~noMemory'[c]
       /\ meant'[c] # NoTask /\ served'[c] = Carried(meant'[c])
  BY <1>1, <1>4 DEF Replying, thread, ghost
<1>14. CASE h[1].num # 0
  <2>1. cpc'[c] = "size"
    BY <1>2, <1>9, <1>14, NextReadType
  <2>2. ReadSoFar(c, h)' = 1
    BY <2>1, <1>8, <1>12 DEF ReadSoFar
  <2>3. /\ IsHeader(meant'[c].cnt, h)
        /\ Follows(Rest(c)', h, said'[c], ReadSoFar(c, h)')
        /\ todo'[c] # 0 /\ h[1].num = todo'[c] + Len(printed'[c])
        /\ quiet'[c] => h[1].num = Len(said'[c]) + Coming(c)'
    BY <2>2, <1>5, <1>6, <1>7, <1>8, <1>9, <1>10, <1>12, <1>14
  <2>4. Reads(c)'
    BY <2>1, <2>3, <1>5, <1>10, <1>12 DEF Reads
  <2>5. Running(c)'
    BY <2>1 DEF Running
  <2>6. Len(printed'[c]) <= Len(said'[c])
    BY <1>10, <1>11, <1>12
  <2> QED BY <2>4, <2>5, <2>6, <1>10, <1>12, <1>13 DEF Conversation, Replying
<1>15. CASE h[1].num = 0
  <2>1. cpc'[c] = "ended"
    BY <1>2, <1>9, <1>15, NextReadType
  <2>2. ASSUME quiet[c]
        PROVE  said[c] = <<>> /\ Coming(c) = 0 /\ out[c] = <<>>
    <3>1. Len(said[c]) + Coming(c) = 0
      BY <2>2, <1>6, <1>15
    <3>2. Len(said[c]) = 0 /\ Coming(c) = 0
      BY <3>1, <1>11
    <3>3. said[c] = <<>>
      BY <3>2, <1>11
    <3>4. Total(h, <<>>) = Len(h)
      BY <1>11, <3>3, TotalType
    <3>5. 1 + Len(Rest(c)') = 1
      BY <1>7, <1>8, <3>3, <3>4 DEF Follows
    <3>6. Rest(c)' = <<>>
      BY <1>7, <3>5
    <3> QED BY <1>7, <1>10, <3>2, <3>3, <3>6
  <2>3. Through(c)'
    BY <2>2, <1>5, <1>10, <1>12 DEF Through
  <2>4. Len(printed'[c]) <= Len(said'[c])
    BY <1>10, <1>11, <1>12
  <2> QED BY <2>1, <2>3, <2>4, <1>10, <1>12, <1>13 DEF Conversation, Replying
<1> QED BY <1>14, <1>15

LEMMA ReadSizeKeeps ==
  ASSUME IInv, NEW c \in Clients, ReadSize(c)
  PROVE  Types' /\ Conversation(c)'
<1>1. /\ cpc[c] = "size" /\ Take(c, 1)
      /\ cpc' = [cpc EXCEPT ![c] = "text"]
      /\ size' = [size EXCEPT ![c] = Value(down[c][1])]
      /\ UNCHANGED <<printed, flag, todo, req>>
      /\ UNCHANGED <<meant, thread, shared, ghost>>
  BY DEF ReadSize
<1>2. Types /\ cpc'[c] = "text" /\ size'[c] = Value(down[c][1])
  BY <1>1 DEF IInv, Types, ClientTypes
<1>3. down[c] \in Seq(Cell) /\ down[c] # <<>> /\ Len(down[c]) >= 1 /\ ConnTypes'
  BY <1>1, <1>2, TakeType
<1>4. Replying(c) /\ Reads(c)
  BY <1>1, <1>3, ReaderReads
<1>5. /\ Len(out[c]) <= 2 /\ Len(printed[c]) <= Len(said[c])
      /\ said[c] \in Seq(Texts) /\ printed[c] \in Seq(Seq(Cell))
  BY <1>2, <1>4 DEF Replying, Shape, Types, ClientTypes, GhostTypes
<1>6. PICK h \in Seq(Cell) :
        /\ IsHeader(meant[c].cnt, h)
        /\ Follows(Rest(c), h, said[c], Len(h) + 3 * Len(printed[c]) + 0)
        /\ meant[c].cnt = 6 =>
             /\ todo[c] # 0 /\ h[1].num = todo[c] + Len(printed[c])
             /\ quiet[c] => h[1].num = Len(said[c]) + Coming(c)
  <2>1. \A h : ReadSoFar(c, h) = Len(h) + 3 * Len(printed[c]) + 0
    BY <1>1 DEF ReadSoFar
  <2>2. cpc[c] # "count"
    BY <1>1
  <2> QED BY <1>4, <2>1, <2>2 DEF Reads
<1>7. PICK k \in Nat, hd \in Nat : k = Len(printed[c]) /\ hd = Len(h)
  BY <1>5
<1>8. Follows(Rest(c), h, said[c], Len(h) + 3 * k)
  <2>1. hd + 3 * k + 0 = hd + 3 * k
    BY <1>7
  <2> QED BY <1>6, <1>7, <2>1, Zenon
<1>9. /\ Follows(Rest(c)', h, said[c], hd + 3 * k + 1) /\ Flat(out[c]) \in Seq(Cell)
  <2>1. hd + 3 * k \in Nat /\ 1 \in Nat
    BY <1>7
  <2>2. UNCHANGED out
    BY <1>1 DEF thread
  <2>3. Follows(Rest(c), h, said[c], hd + 3 * k)
    BY <1>7, <1>8, Zenon
  <2> QED BY <1>1, <1>2, <1>5, <2>1, <2>2, <2>3, TakeFollows
<1>10. k < Len(said[c]) /\ down[c][1] = Field(Len(said[c][k + 1]))
  <2>1. k <= Len(said[c])
    BY <1>5, <1>7, Zenon
  <2> QED BY <1>3, <1>5, <1>8, <1>9, <2>1, ReadLength, SMTT(60) DEF Rest
<1>11. size'[c] = Len(said[c][k + 1]) /\ size'[c] \in Nat
  <2>1. size'[c] = Len(said[c][k + 1])
    BY <1>2, <1>10, ValueOfField, Zenon
  <2>2. k + 1 \in 1 .. Len(said[c])
    BY <1>5, <1>10
  <2>3. said[c][k + 1] \in Texts
    BY <1>5, <2>2
  <2>4. Len(said[c][k + 1]) \in Nat
    BY <2>3 DEF Texts
  <2> QED BY <2>1, <2>4
<1>12. /\ meant'[c] \in Meant /\ meant'[c] = meant[c] /\ said'[c] = said[c]
       /\ quiet'[c] = quiet[c] /\ Coming(c)' = Coming(c) /\ Shape(c)' /\ out' = out
  BY <1>1, <1>4, ReaderLeaves
<1>13. printed'[c] = printed[c] /\ todo'[c] = todo[c]
  BY <1>1
<1>14. Reads(c)'
  <2>1. ReadSoFar(c, h)' = hd + 3 * k + 1
    BY <1>2, <1>7, <1>13 DEF ReadSoFar
  <2>2. /\ IsHeader(meant'[c].cnt, h)
        /\ Follows(Rest(c)', h, said'[c], ReadSoFar(c, h)')
        /\ meant'[c].cnt = 6 =>
             /\ todo'[c] # 0 /\ h[1].num = todo'[c] + Len(printed'[c])
             /\ quiet'[c] => h[1].num = Len(said'[c]) + Coming(c)'
    BY <2>1, <1>6, <1>9, <1>12, <1>13, Zenon
  <2>3. meant[c].cnt \in 1 .. 7 /\ (meant[c].cnt # 6 => todo[c] = 1 /\ printed[c] = <<>>)
    BY <1>4 DEF Reads
  <2>4. /\ meant'[c].cnt \in 1 .. 7
        /\ meant'[c].cnt # 6 => todo'[c] = 1 /\ printed'[c] = <<>>
        /\ Len(printed'[c]) < Len(said'[c])
        /\ size'[c] = Len(said'[c][Len(printed'[c]) + 1])
    BY <2>3, <1>7, <1>10, <1>11, <1>12, <1>13, Zenon
  <2>5. /\ cpc'[c] # "send" /\ cpc'[c] \notin {"count", "flag"}
        /\ cpc'[c] # "count" /\ cpc'[c] # "flag"
    BY <1>2
  <2> QED BY <2>2, <2>4, <2>5, Zenon DEF Reads
<1>15. Running(c)'
  BY <1>2 DEF Running
<1>16. Conversation(c)'
  BY <1>1, <1>4, <1>12, <1>13, <1>14, <1>15
     DEF Conversation, Replying, thread, ghost
<1>17. ClientTypes'
  BY <1>1, <1>2, <1>11 DEF Types, ClientTypes
<1>18. UNCHANGED <<thread, shared, ghost>>
  BY <1>1
<1> QED BY <1>2, <1>3, <1>16, <1>17, <1>18, ClientLeaves DEF Types

\* A text is printed as it was made; after the last one nothing is left.
LEMMA ReadTextKeeps ==
  ASSUME IInv, NEW c \in Clients, ReadText(c)
  PROVE  Conversation(c)'
<1> DEFINE text == SubSeq(down[c], 1, size[c])
<1>0. Types
  BY DEF IInv
<1>1. /\ cpc[c] = "text" /\ Take(c, size[c])
      /\ cpc' = [cpc EXCEPT ![c] = NextRead(todo'[c])]
      /\ todo' = [todo EXCEPT ![c] = todo[c] - 1]
      /\ flag' = flag
      /\ UNCHANGED <<meant, thread, shared, ghost>>
  BY <1>0 DEF ReadText, Types, ClientTypes
<1>2. /\ cpc'[c] = NextRead(todo'[c]) /\ todo'[c] = todo[c] - 1
      /\ \/ printed'[c] = Append(printed[c], text)
         \/ flag[c] = "1" /\ printed'[c] = printed[c]
      /\ size[c] \in Nat /\ todo[c] \in Int
  <2>1. \/ printed' = [printed EXCEPT ![c] = Append(printed[c], text)]
        \/ flag[c] = "1" /\ printed' = printed
    BY <1>0 DEF ReadText, Types, ClientTypes
  <2> QED BY <1>0, <1>1, <2>1 DEF Types, ClientTypes
<1>3. down[c] \in Seq(Cell) /\ size[c] <= Len(down[c])
  BY <1>0, <1>1, <1>2, TakeType
<1>4. Replying(c) /\ Reads(c)
  BY <1>1, ReaderReads
<1>5. /\ Len(out[c]) <= 2 /\ Len(printed[c]) < Len(said[c])
      /\ said[c] \in Seq(Texts) /\ printed[c] \in Seq(Seq(Cell))
      /\ size[c] = Len(said[c][Len(printed[c]) + 1])
      /\ meant[c].cnt \in 1 .. 7
      /\ meant[c].cnt # 6 => Len(said[c]) = 1 /\ printed[c] = <<>> /\ todo[c] = 1
      /\ meant[c].cnt = 6 => \A i \in 1 .. Len(said[c]) : Len(said[c][i]) = 2
      /\ meant[c].cnt # 7 => flag[c] = NoFlag
      /\ \A i \in 1 .. Len(printed[c]) : printed[c][i] = said[c][i]
  BY <1>0, <1>1, <1>4 DEF Reads, Replying, Shape, Types, ClientTypes, GhostTypes
<1>6. PICK h \in Seq(Cell) :
        /\ IsHeader(meant[c].cnt, h)
        /\ Follows(Rest(c), h, said[c], Len(h) + 3 * Len(printed[c]) + 1)
        /\ meant[c].cnt = 6 =>
             /\ todo[c] # 0 /\ h[1].num = todo[c] + Len(printed[c])
             /\ quiet[c] => h[1].num = Len(said[c]) + Coming(c)
  <2>1. \A h : ReadSoFar(c, h) = Len(h) + 3 * Len(printed[c]) + 1
    BY <1>1 DEF ReadSoFar
  <2>2. cpc[c] # "count"
    BY <1>1
  <2> QED BY <1>4, <2>1, <2>2 DEF Reads
<1>7. PICK k \in Nat, hd \in Nat, n \in Nat :
        k = Len(printed[c]) /\ hd = Len(h) /\ n = Len(said[c])
  BY <1>5
<1>8. k < n /\ Follows(Rest(c), h, said[c], hd + 3 * k + 1) /\ size[c] = Len(said[c][k + 1])
  BY <1>5, <1>6, <1>7, Zenon
<1>9. /\ Follows(Rest(c)', h, said[c], hd + 3 * k + 1 + size[c])
      /\ Flat(out[c]) \in Seq(Cell) /\ Rest(c)' \in Seq(Cell)
      /\ Rest(c)' = <<>> => out'[c] = <<>>
  <2>1. hd + 3 * k + 1 \in Nat
    BY <1>7
  <2>2. UNCHANGED out
    BY <1>1 DEF thread
  <2> QED BY <1>0, <1>1, <1>2, <1>5, <1>8, <2>1, <2>2, TakeFollows
<1>10. text = said[c][k + 1]
  <2>1. SubSeq(down[c], 1, Len(said[c][k + 1])) = said[c][k + 1]
    <3>1. k < Len(said[c]) /\ Len(down[c]) >= Len(said[c][k + 1])
      BY <1>3, <1>7, <1>8
    <3>2. Follows(down[c] \o Flat(out[c]), h, said[c], Len(h) + 3 * k + 1)
      BY <1>7, <1>8, Zenon DEF Rest
    <3>3. PICK d \in Seq(Cell), f \in Seq(Cell), t \in Seq(Texts) :
            d = down[c] /\ f = Flat(out[c]) /\ t = said[c]
      BY <1>3, <1>5, <1>9, Zenon
    <3>4. k < Len(t) /\ Len(d) >= Len(t[k + 1]) /\ Follows(d \o f, h, t, Len(h) + 3 * k + 1)
      BY <3>1, <3>2, <3>3, Zenon
    <3>5. SubSeq(d, 1, Len(t[k + 1])) = t[k + 1]
      BY <3>4, ReadPieces
    <3> QED BY <3>3, <3>5, Zenon
  <2> QED BY <2>1, <1>8, Zenon
<1> HIDE DEF text
<1>11. /\ meant'[c] \in Meant /\ meant'[c] = meant[c] /\ said'[c] = said[c]
       /\ quiet'[c] = quiet[c] /\ Coming(c)' = Coming(c) /\ Shape(c)' /\ out' = out
  <2>1. meant[c].cnt # 7 => flag'[c] = flag[c]
    BY <1>1
  <2> QED BY <1>1, <1>4, <2>1, ReaderLeaves
<1>12. /\ tpc'[c] \in {"list", "send", "closed"} /\ ~noMemory'[c]
       /\ meant'[c] # NoTask /\ served'[c] = Carried(meant'[c])
  BY <1>1, <1>4 DEF Replying, thread, ghost
<1>13. Coming(c) \in Nat
  BY <1>0, ComingType DEF Types, SharedTypes
<1>14. k + 1 = n => out'[c] = <<>>
  <2>1. SUFFICES ASSUME k + 1 = n PROVE out'[c] = <<>>
    OBVIOUS
  <2>2. said[c] # <<>>
    BY <1>5, <1>7, <1>8
  <2>0. size[c] \in Nat
    BY <1>2
  <2>3. 3 * (n - 1) = 3 * k /\ hd + 3 * k + 1 + size[c] \in Int
    BY <2>0, <2>1
  <2>4. size[c] = Len(said[c][n])
    BY <2>1, <1>8, Zenon
  <2>5. hd + 3 * k + 1 + size[c] >= hd + 3 * (n - 1) + 1 + size[c]
    BY <2>0, <2>3
  <2>6. hd + 3 * k + 1 + size[c]
          >= Len(h) + 3 * (Len(said[c]) - 1) + 1 + Len(said[c][Len(said[c])])
    BY <2>4, <2>5, <1>7, Zenon
  <2> QED BY <2>2, <2>3, <2>6, <1>5, <1>9, ReadAll
<1>15. CASE printed'[c] = Append(printed[c], text)
  <2>1. /\ Len(printed'[c]) = k + 1 /\ printed'[c][k + 1] = said[c][k + 1]
        /\ \A i \in 1 .. k : printed'[c][i] = said[c][i]
        /\ printed'[c] \in Seq(Seq(Cell))
    <3>1. text \in Seq(Cell)
      <4>1. said[c][k + 1] \in Texts
        BY <1>5, <1>7, <1>8
      <4> QED BY <4>1, <1>10 DEF Texts
    <3>2. /\ Len(printed'[c]) = Len(printed[c]) + 1
          /\ printed'[c] \in Seq(Seq(Cell))
          /\ printed'[c][Len(printed[c]) + 1] = text
          /\ \A i \in 1 .. Len(printed[c]) : printed'[c][i] = printed[c][i]
      BY <3>1, <1>5, <1>15, AppendProperties
    <3> QED BY <3>2, <1>5, <1>7, <1>10, Zenon
  <2>2. /\ Len(printed'[c]) <= Len(said'[c])
        /\ \A i \in 1 .. Len(printed'[c]) : printed'[c][i] = said'[c][i]
    <3>1. k + 1 <= n /\ \A i \in 1 .. k + 1 : i \in 1 .. k \/ i = k + 1
      BY <1>7, <1>8
    <3> QED BY <2>1, <3>1, <1>7, <1>11, Zenon
  <2>3. k + 1 = n => printed'[c] = said'[c]
    <3>1. SUFFICES ASSUME k + 1 = n PROVE printed'[c] = said[c]
      BY <1>11
    <3>2. said[c] \in Seq(Seq(Cell))
      BY <1>5 DEF Texts
    <3>3. Len(printed'[c]) = Len(said[c])
      BY <2>1, <3>1, <1>7, Zenon
    <3>4. \A i \in 1 .. Len(printed'[c]) : printed'[c][i] = said[c][i]
      BY <2>2, <1>11, Zenon
    <3> QED BY <2>1, <3>2, <3>3, <3>4, SeqEqual
  <2>4. CASE meant[c].cnt # 6
    <3>1. k + 1 = n /\ todo'[c] = 0
      <4>1. n = 1 /\ k = 0 /\ todo[c] = 1
        BY <2>4, <1>5, <1>7
      <4> QED BY <4>1, <1>2
    <3>2. cpc'[c] = "ended"
      BY <3>1, <1>2, NextReadType
    <3>3. Through(c)'
      BY <2>3, <2>4, <3>1, <1>5, <1>11, <1>14 DEF Through
    <3> QED BY <3>2, <3>3, <2>2, <1>11, <1>12 DEF Conversation, Replying
  <2>5. CASE meant[c].cnt = 6 /\ todo'[c] = 0
    <3>1. cpc'[c] = "ended"
      BY <2>5, <1>2, NextReadType
    <3>2. quiet[c] => k + 1 = n /\ Coming(c) = 0
      <4>1. quiet[c] => todo[c] + k = n + Coming(c)
        BY <2>5, <1>6, <1>7, Zenon
      <4>2. todo[c] = 1
        BY <2>5, <1>2
      <4> QED BY <4>1, <4>2, <1>7, <1>8, <1>13
    <3>3. Through(c)'
      BY <2>3, <2>5, <3>2, <1>11, <1>14 DEF Through
    <3> QED BY <3>1, <3>3, <2>2, <1>11, <1>12 DEF Conversation, Replying
  <2>6. CASE meant[c].cnt = 6 /\ todo'[c] # 0
    <3>1. cpc'[c] = "size"
      BY <2>6, <1>2, NextReadType
    <3>2. ReadSoFar(c, h)' = hd + 3 * k + 1 + size[c]
      <4>1. ReadSoFar(c, h)' = hd + 3 * (k + 1) + 0
        BY <2>1, <3>1, <1>7 DEF ReadSoFar
      <4>2. size[c] = 2
        BY <2>6, <1>5, <1>7, <1>8
      <4> QED BY <4>1, <4>2, <1>7
    <3>3. todo[c] + k = todo'[c] + (k + 1)
      <4>1. todo'[c] = todo[c] - 1 /\ todo[c] \in Int
        BY <1>2
      <4> QED BY <4>1
    <3>4. /\ IsHeader(meant'[c].cnt, h)
          /\ Follows(Rest(c)', h, said'[c], ReadSoFar(c, h)')
          /\ todo'[c] # 0 /\ h[1].num = todo'[c] + Len(printed'[c])
          /\ quiet'[c] => h[1].num = Len(said'[c]) + Coming(c)'
      BY <2>1, <2>6, <3>2, <3>3, <1>6, <1>7, <1>9, <1>11, Zenon
    <3>5. Reads(c)'
      BY <2>6, <3>1, <3>4, <1>11 DEF Reads
    <3>6. Running(c)'
      BY <3>1 DEF Running
    <3> QED BY <3>5, <3>6, <2>2, <1>11, <1>12 DEF Conversation, Replying
  <2> QED BY <2>4, <2>5, <2>6
<1>16. CASE flag[c] = "1" /\ printed'[c] = printed[c]
  <2>1. meant[c].cnt = 7
    BY <1>5, <1>16 DEF NoFlag
  <2>2. k + 1 = n /\ todo'[c] = 0 /\ printed[c] = <<>> /\ Len(printed[c]) = 0
    <3>1. n = 1 /\ k = 0 /\ todo[c] = 1 /\ printed[c] = <<>>
      BY <2>1, <1>5, <1>7
    <3> QED BY <3>1, <1>2
  <2>3. cpc'[c] = "ended"
    BY <2>2, <1>2, NextReadType
  <2>4. Through(c)'
    BY <2>1, <2>2, <1>1, <1>11, <1>14, <1>16 DEF Through
  <2>5. /\ Len(printed'[c]) <= Len(said'[c])
        /\ \A i \in 1 .. Len(printed'[c]) : printed'[c][i] = said'[c][i]
    BY <2>2, <1>5, <1>11, <1>16
  <2> QED BY <2>3, <2>4, <2>5, <1>11, <1>12 DEF Conversation, Replying
<1> QED BY <1>2, <1>15, <1>16

LEMMA AskKeeps ==
  ASSUME IInv, NEW c \in Clients, NEW line \in Lines, NEW junk \in Junk,
         Ask(c, line, junk)
  PROVE  Conversation(c)'
<1> DEFINE t == get_task(line, junk)
<1>1. t \in Meant
  BY MeantTask
<1>2. /\ cpc[c] = "idle"
      /\ meant' = [meant EXCEPT ![c] = t]
      /\ \/ /\ t = NoTask \/ ~alive
            /\ cpc' = [cpc EXCEPT ![c] = "ended"] /\ req' = req /\ tpc' = tpc
         \/ /\ t # NoTask
            /\ cpc' = [cpc EXCEPT ![c] = "send"]
            /\ req' = [req EXCEPT ![c] = taskToString(t)]
            /\ tpc' = [tpc EXCEPT ![c] = "read"]
      /\ UNCHANGED <<flag, todo, size, printed>>
      /\ UNCHANGED <<conn, shared, ghost, served, mine, at, out>>
  BY Zenon DEF Ask
<1> HIDE DEF t
<1>3. Before(c)
  BY <1>2, IdleIsBefore
<1>4. meant'[c] = t
  BY <1>2 DEF IInv, Types, ClientTypes
<1>5. Silent(c)' /\ up'[c] = <<>> /\ served'[c] = NoTask /\ ~noMemory'[c]
  BY <1>2, <1>3 DEF Before, Silent, conn, ghost
<1>6. CASE cpc' = [cpc EXCEPT ![c] = "ended"] /\ tpc' = tpc /\ (t = NoTask \/ ~alive)
  <2>1. cpc'[c] = "ended"
    BY <1>6 DEF IInv, Types, ClientTypes
  <2>2. tpc'[c] = "none" /\ alive' = alive
    BY <1>2, <1>3, <1>6 DEF Before, shared
  <2>3. Before(c)'
    BY <2>1, <2>2, <1>4, <1>5, <1>6 DEF Before
  <2> QED BY <2>3, <1>1, <1>4 DEF Conversation
<1>7. CASE /\ t # NoTask
           /\ cpc' = [cpc EXCEPT ![c] = "send"]
           /\ req' = [req EXCEPT ![c] = taskToString(t)]
           /\ tpc' = [tpc EXCEPT ![c] = "read"]
  <2>1. cpc'[c] = "send" /\ req'[c] = taskToString(t) /\ tpc'[c] = "read"
    BY <1>7 DEF IInv, Types, ClientTypes, ThreadTypes
  <2>2. taskToString(t) \in Seq(Cell) /\ Len(taskToString(t)) > 0
    BY <1>1, <1>7, CarriedTask
  <2>3. /\ Len(up'[c]) = 0 /\ 0 <= Len(taskToString(t)) /\ taskToString(t) # <<>>
        /\ 0 + Len(taskToString(t)) = Len(taskToString(t))
        /\ \A j \in 1 .. Len(taskToString(t)) :
             taskToString(t)[j] = taskToString(t)[0 + j]
        /\ \A j \in 1 .. 0 : up'[c][j] = taskToString(t)[j]
    BY <2>2, <1>5
  <2>4. Asking(c)'
    BY <2>1, <2>3, <1>4, <1>5, <1>7, ZenonT(60) DEF Asking
  <2> QED BY <2>4, <1>1, <1>4 DEF Conversation
<1> QED BY <1>2, <1>6, <1>7, Zenon

\* The manager died, or the user left: nothing more is asked of the client.
LEMMA StoppedKeeps ==
  ASSUME IInv, NEW c \in Clients, ConnectionReset(c) \/ Leave(c)
  PROVE  Conversation(c)'
<1>1. /\ Running(c) /\ UNCHANGED <<meant, up, thread, shared, ghost, printed>>
      /\ \/ ~alive /\ cpc' = [cpc EXCEPT ![c] = "ended"] /\ UNCHANGED <<flag, down>>
         \/ /\ cpc' = [cpc EXCEPT ![c] = "left"] /\ flag' = [flag EXCEPT ![c] = NoFlag]
            /\ down' = [down EXCEPT ![c] = <<>>]
  BY DEF ConnectionReset, Leave, conn
<1>2. Gone(c)'
  BY <1>1 DEF Gone, shared, IInv, Types, ClientTypes
<1>3. meant'[c] = meant[c] /\ meant[c] \in Meant
  BY <1>1 DEF IInv, Conversation
<1>4. /\ flag'[c] = NoFlag \/ flag'[c] = flag[c]
      /\ down'[c] = <<>> \/ down'[c] = down[c]
  BY <1>1 DEF IInv, Types, ClientTypes, ConnTypes
<1>5. Silent(c) => Silent(c)'
  BY <1>1, <1>4 DEF Silent, thread, ghost
<1>6. ~Before(c)
  BY <1>1 DEF Before, Running
<1>7. Asking(c) => Asking(c)'
  BY <1>1, <1>2, <1>5 DEF Asking, Waits, thread, ghost
<1>8. Serving(c) => Serving(c)'
  BY <1>1, <1>2, <1>5 DEF Serving, Waits, thread, ghost
<1>9. Replying(c) => Replying(c)'
  <2>1. Shape(c) => Shape(c)'
    BY <1>1, <1>4 DEF Shape, thread, ghost
  <2> QED BY <1>1, <1>2, <2>1 DEF Replying, Gone, thread, ghost
<1> QED BY <1>3, <1>6, <1>7, <1>8, <1>9 DEF IInv, Conversation

-----------------------------------------------------------------------------
(* The request thread takes its steps *)

\* A mutex that is held stays with a thread that sends.
LEMMA LockKept ==
  ASSUME Types, NEW c \in Clients, lock' = lock,
         \A d \in Clients \ {c} : tpc'[d] = tpc[d],
         tpc[c] # "send" \/ tpc'[c] = "send"
  PROVE  LockSends'
BY DEF Types, SharedTypes, LockSends

LEMMA ThreadServes ==
  ASSUME IInv, NEW c \in Clients, tpc[c] \in {"serve", "fork"}
  PROVE  /\ Serving(c) /\ ~noMemory[c] /\ meant[c] \in Meant /\ meant[c] # NoTask
         /\ served[c] = Carried(meant[c]) /\ served[c] \in TaskType
         /\ served[c].cnt = meant[c].cnt /\ meant[c].cnt \in 1 .. 7
         /\ served[c].id \in Int
         /\ meant[c].cnt = 1 => served[c].path \in Paths
         /\ tpc[c] = "fork" => mine[c] \in Ids /\ mine[c] \in Int /\ meant[c].cnt = 1
<1>1. /\ Serving(c) /\ ~noMemory[c] /\ meant[c] \in Meant
      /\ served[c] = Carried(meant[c]) /\ meant[c] # NoTask /\ meant[c].cnt \in 1 .. 7
      /\ tpc[c] = "fork" => mine[c] \in Ids /\ meant[c].cnt = 1
  BY DEF IInv, Conversation, Before, Asking, Serving, Replying
<1>2. /\ Carried(meant[c]) \in TaskType /\ Carried(meant[c]).cnt = meant[c].cnt
      /\ meant[c].cnt = 1 => Carried(meant[c]).path = meant[c].path
  BY <1>1, CarriedTask
<1>3. meant[c].cnt = 1 => meant[c].path \in Paths
  BY <1>1, MeantType
<1>4. served[c].id \in Int
  BY <1>1, <1>2 DEF TaskType
<1>5. \A i \in Ids : i \in Int
  BY ClientAssumption
<1> QED BY <1>1, <1>2, <1>3, <1>4, <1>5, Zenon

LEMMA ReadIsAsking ==
  ASSUME IInv, NEW c \in Clients, tpc[c] = "read", Arrived(up[c])
  PROVE  /\ Asking(c) /\ Waits(c) /\ meant[c] \in Meant /\ meant[c] # NoTask
         /\ readTask(up[c]) = Carried(meant[c])
<1>1. Asking(c) /\ meant[c] \in Meant /\ meant[c] # NoTask
  BY DEF IInv, Conversation, Before, Asking, Serving, Replying
<1>2. up[c] \in Seq(Cell) /\ req[c] \in Seq(Cell)
  BY DEF IInv, Types, ClientTypes, ConnTypes
<1>3. up[c] = taskToString(meant[c])
  BY <1>1, <1>2, ArrivedWhole DEF Asking
<1>4. Waits(c)
  <2>1. Len(up[c]) \in Nat /\ (req[c] # <<>> => Len(req[c]) > 0 /\ Len(req[c]) \in Nat)
    BY <1>2
  <2>2. ~(req[c] # <<>> /\ Len(up[c]) + Len(req[c]) = Len(up[c]))
    <3>1. PICK n \in Nat : n = Len(up[c])
      BY <2>1
    <3>2. req[c] # <<>> => n + Len(req[c]) # n
      BY <2>1
    <3> QED BY <3>1, <3>2, Zenon
  <2> QED BY <1>1, <1>3, <2>2 DEF Asking
<1> QED BY <1>1, <1>3, <1>4 DEF Carried

\* The messages of a reply: what is said, as much of the stream.
LEMMA ReplyKeeps ==
  ASSUME IInv, NEW c \in Clients, tpc[c] \in {"serve", "fork"},
         NEW text \in Texts, NEW first \in {<<>>, <<Sol("0")>>, <<Sol("1")>>},
         IF meant[c].cnt = 7 THEN first # <<>> ELSE first = <<>> /\ meant[c].cnt # 6,
         Reply(c, first, text), alive' = alive,
         UNCHANGED <<client, conn, served, mine, at, noMemory>>
  PROVE  /\ Conversation(c)'
         /\ ClientTypes' /\ ConnTypes' /\ ThreadTypes'
         /\ said' \in [Clients -> Seq(Texts)] /\ noMemory' = noMemory
         /\ tpc'[c] = "send" /\ \A d \in Clients \ {c} : tpc'[d] = tpc[d]
<1>0. Types
  BY DEF IInv
<1>1. /\ Serving(c) /\ ~noMemory[c] /\ meant[c] \in Meant /\ meant[c] # NoTask
      /\ served[c] = Carried(meant[c]) /\ meant[c].cnt \in 1 .. 7
  BY ThreadServes
<1>2. /\ down[c] = <<>> /\ said[c] = <<>> /\ printed[c] = <<>> /\ flag[c] = NoFlag
      /\ Waits(c)
  BY <1>1 DEF Serving, Silent
<1> DEFINE o == first \o <<Message(text)>>
           h == Flat(first)
<1>3. /\ o \in Seq(Seq(Cell) \ {<<>>}) /\ Len(o) <= 2 /\ h \in Seq(Cell)
      /\ Flat(o) = h \o Message(text)
  BY ReplyMessages
<1>4. /\ out' = [out EXCEPT ![c] = o] /\ said' = [said EXCEPT ![c] = Append(said[c], text)]
      /\ tpc' = [tpc EXCEPT ![c] = "send"]
  BY <1>0 DEF Reply, Goto, Types, GhostTypes
<1>5. IsHeader(meant[c].cnt, h)
  <2>1. CASE meant[c].cnt = 7
    <3>1. PICK f \in {"0", "1"} : first = <<Sol(f)>>
      BY <2>1
    <3>2. h = Sol(f)
      BY <3>1, FlatOfFirst
    <3> QED BY <2>1, <3>2 DEF IsHeader
  <2>2. CASE meant[c].cnt # 7
    <3>1. h = <<>> /\ meant[c].cnt # 6
      BY <2>2, FlatOfFirst
    <3> QED BY <2>2, <3>1 DEF IsHeader
  <2> QED BY <2>1, <2>2
<1> HIDE DEF o, h
<1>6. Append(said[c], text) = <<text>> /\ <<text>> \in Seq(Texts) /\ Len(<<text>>) = 1
  BY <1>2
<1>7. /\ out' \in [Clients -> Seq(Seq(Cell) \ {<<>>})] /\ out'[c] = o
      /\ tpc' \in [Clients -> {"none", "read", "serve", "fork", "list", "send",
                               "hung", "closed"}]
      /\ tpc'[c] = "send" /\ \A d \in Clients \ {c} : tpc'[d] = tpc[d]
  BY <1>0, <1>3, <1>4 DEF Types, ThreadTypes
<1>8. said' \in [Clients -> Seq(Texts)] /\ said'[c] = <<text>>
  BY <1>0, <1>4, <1>6 DEF Types, GhostTypes
<1>9. UNCHANGED client /\ UNCHANGED conn /\ UNCHANGED <<served, mine, at>>
  OBVIOUS
<1>10. ClientTypes' /\ ConnTypes' /\ ThreadTypes'
  BY <1>0, <1>7, <1>9, TypesKept DEF Types, ThreadTypes
<1>11. meant'[c] = meant[c] /\ printed'[c] = <<>> /\ flag'[c] = NoFlag
       /\ cpc'[c] = cpc[c] /\ todo'[c] = todo[c] /\ down'[c] = <<>>
       /\ served'[c] = served[c] /\ noMemory'[c] = noMemory[c]
  BY <1>2, <1>9 DEF client, conn
<1>12. Follows(Rest(c)', h, <<text>>, 0)
  <2>1. h \o Message(text) \in Seq(Cell)
    BY <1>3, MessageType, ConcatProperties
  <2>2. Rest(c)' = <<>> \o (h \o Message(text))
    BY <1>3, <1>7, <1>11, Zenon DEF Rest
  <2>3. Rest(c)' = h \o Message(text)
    BY <2>1, <2>2, ConcatEmptySeq, Zenon
  <2> QED BY <1>3, <2>3, FollowsReply
<1>13. Shape(c)'
  BY <1>3, <1>6, <1>7, <1>8, <1>11, <1>1 DEF Shape
<1>16. /\ tpc'[c] \in {"list", "send", "closed"} /\ ~noMemory'[c]
       /\ meant'[c] # NoTask /\ served'[c] = Carried(meant'[c])
       /\ Len(printed'[c]) <= Len(said'[c])
       /\ \A k \in 1 .. Len(printed'[c]) : printed'[c][k] = said'[c][k]
  <2>1. Len(printed'[c]) = 0 /\ Len(said'[c]) = 1
    BY <1>6, <1>8, <1>11
  <2>2. 0 <= 1 /\ 1 .. 0 = {}
    OBVIOUS
  <2> QED BY <2>1, <2>2, <1>1, <1>7, <1>11, Zenon
<1>14. ASSUME cpc[c] = ReadsAfter(meant[c].cnt), todo[c] = 1
       PROVE  Conversation(c)'
  <2>0. meant[c].cnt # 6
    OBVIOUS
  <2>1. cpc[c] = IF meant[c].cnt = 7 THEN "flag" ELSE "size"
    BY <1>1, <1>14, <2>0 DEF ReadsAfter
  <2>2. ReadSoFar(c, h)' = 0
    <3>1. CASE meant[c].cnt = 7
      BY <2>1, <3>1, <1>11 DEF ReadSoFar
    <3>2. CASE meant[c].cnt # 7
      <4>1. Len(h) = 0 /\ Len(printed'[c]) = 0
        BY <3>2, <2>0, <1>3, <1>5, <1>11, HeaderType
      <4> QED BY <2>1, <3>2, <4>1, <1>11 DEF ReadSoFar
    <3> QED BY <3>1, <3>2
  <2>3. \E x \in Seq(Cell) :
          /\ IsHeader(meant'[c].cnt, x)
          /\ Follows(Rest(c)', x, said'[c], ReadSoFar(c, x)')
    BY <2>2, <1>3, <1>5, <1>8, <1>11, <1>12
  <2>4. Reads(c)'
    BY <2>0, <2>1, <2>3, <1>1, <1>11, <1>14 DEF Reads
  <2>5. Running(c)'
    BY <2>1, <1>11 DEF Running
  <2>6. Replying(c)'
    BY <2>4, <2>5, <1>13, <1>16, Zenon DEF Replying
  <2> QED BY <2>6, <1>1, <1>11 DEF Conversation
<1>15. ASSUME Gone(c) PROVE Conversation(c)'
  <2>1. cpc'[c] = "left" \/ (cpc'[c] = "ended" /\ ~alive')
    BY <1>11, <1>15 DEF Gone
  <2>2. Replying(c)'
    BY <2>1, <1>13, <1>16, Zenon DEF Replying
  <2> QED BY <2>2, <1>1, <1>11 DEF Conversation
<1> QED BY <1>2, <1>7, <1>8, <1>10, <1>14, <1>15 DEF Waits

LEMMA QuietType ==
  ASSUME quiet \in [Clients -> BOOLEAN]
  PROVE  Stirred => quiet' \in [Clients -> BOOLEAN]
<1>1. \A c \in Clients : (quiet[c] /\ tpc[c] # "list") \in BOOLEAN
  BY Zenon
<1> QED BY <1>1, Zenon DEF Stirred

LEMMA TableType ==
  ASSUME table \in [Ids -> Entry], NEW i \in Ids, NEW c \in Clients
  PROVE  /\ [table EXCEPT ![i] = None] \in [Ids -> Entry]
         /\ [table EXCEPT ![i].complete = FALSE] \in [Ids -> Entry]
         /\ [table EXCEPT ![i].complete = TRUE] \in [Ids -> Entry]
         /\ \A p \in Paths :
              [table EXCEPT ![i] = [path |-> p, complete |-> FALSE, by |-> c]]
                \in [Ids -> Entry]
<1>1. None \in Entry
  BY DEF None, Entry
<1>2. \A p \in Paths : [path |-> p, complete |-> FALSE, by |-> c] \in Entry
  BY DEF Entry
<1>3. table[i] \in Entry
  OBVIOUS
<1>4. [table[i] EXCEPT !.complete = FALSE] \in Entry
  BY <1>3 DEF Entry
<1>5. [table[i] EXCEPT !.complete = TRUE] \in Entry
  BY <1>3 DEF Entry
<1> QED BY <1>1, <1>2, <1>4, <1>5

LEMMA ReadTaskKeeps ==
  ASSUME IInv, NEW c \in Clients, ReadTask(c)
  PROVE  Types' /\ Conversation(c)'
<1>0. Types
  BY DEF IInv
<1>1. /\ alive /\ tpc[c] = "read" /\ Arrived(up[c])
      /\ served' = [served EXCEPT ![c] = readTask(up[c])]
      /\ tpc' = [tpc EXCEPT ![c] = IF served'[c].cnt \in 1 .. 7 THEN "serve" ELSE "send"]
      /\ UNCHANGED <<mine, at, out, lock>>
      /\ UNCHANGED client /\ UNCHANGED conn /\ UNCHANGED shared /\ UNCHANGED ghost
  BY DEF ReadTask, Goto, shared
<1>2. /\ Asking(c) /\ Waits(c) /\ meant[c] \in Meant /\ meant[c] # NoTask
      /\ readTask(up[c]) = Carried(meant[c])
  BY <1>1, ReadIsAsking
<1>3. Carried(meant[c]) \in TaskType /\ Carried(meant[c]).cnt = meant[c].cnt
  BY <1>2, CarriedTask
<1>4. ThreadTypes' /\ served'[c] = Carried(meant[c])
  BY <1>0, <1>1, <1>2, <1>3 DEF Types, ThreadTypes
<1>5. /\ \A d \in Clients \ {c} : tpc'[d] = tpc[d]
      /\ tpc'[c] = IF meant[c].cnt \in 1 .. 7 THEN "serve" ELSE "send"
  BY <1>0, <1>1, <1>3, <1>4 DEF Types, ThreadTypes
<1>6. LockSends'
  BY <1>0, <1>1, <1>5, LockKept
<1>7. Types'
  BY <1>0, <1>1, <1>4, <1>6, TypesKept DEF Types
<1>8. meant[c].cnt \in 1 .. 8
  BY <1>2, MeantType DEF TaskType
<1>9. meant' = meant /\ Silent(c)' /\ Waits(c)' /\ ~noMemory'[c]
  BY <1>1, <1>2 DEF Asking, Silent, Waits, Gone, client, conn, shared, ghost
<1>10. CASE meant[c].cnt \in 1 .. 7
  <2>1. Serving(c)'
    BY <1>2, <1>4, <1>5, <1>9, <1>10 DEF Serving
  <2> QED BY <2>1, <1>2, <1>7, <1>9 DEF Conversation
<1>11. CASE meant[c].cnt = 8
  <2>1. Shape(c)'
    BY <1>5, <1>9, <1>11 DEF Shape, Silent
  <2>2. cpc'[c] = "left" \/ (cpc'[c] = "ended" /\ Through(c)') \/ (cpc'[c] = "ended" /\ ~alive')
    BY <1>9, <1>11 DEF Waits, Gone, ReadsAfter, Through
  <2>3. Replying(c)'
    BY <2>1, <2>2, <1>2, <1>4, <1>5, <1>9, <1>11 DEF Replying, Silent
  <2> QED BY <2>3, <1>2, <1>7, <1>9 DEF Conversation
<1> QED BY <1>8, <1>10, <1>11

LEMMA ThreadNoMemoryKeeps ==
  ASSUME IInv, NEW c \in Clients, ThreadNoMemory(c)
  PROVE  Types' /\ Conversation(c)'
<1>0. Types
  BY DEF IInv
<1>1. /\ alive /\ tpc[c] = "read" /\ Arrived(up[c])
      /\ tpc' = [tpc EXCEPT ![c] = "closed"]
      /\ noMemory' = [noMemory EXCEPT ![c] = TRUE]
      /\ UNCHANGED <<served, mine, at, out, lock, said, quiet>>
      /\ UNCHANGED client /\ UNCHANGED conn /\ UNCHANGED shared
  BY DEF ThreadNoMemory, Goto, shared
<1>2. Asking(c) /\ Waits(c) /\ meant[c] \in Meant /\ meant[c] # NoTask
  BY <1>1, ReadIsAsking
<1>3. /\ ThreadTypes' /\ tpc'[c] = "closed" /\ \A d \in Clients \ {c} : tpc'[d] = tpc[d]
  BY <1>0, <1>1 DEF Types, ThreadTypes
<1>4. noMemory' \in [Clients -> BOOLEAN] /\ noMemory'[c]
  BY <1>0, <1>1 DEF Types, GhostTypes
<1>5. GhostTypes'
  BY <1>0, <1>1, <1>4 DEF Types, GhostTypes
<1>6. LockSends'
  BY <1>0, <1>1, <1>3, LockKept
<1>7. Types'
  BY <1>0, <1>1, <1>3, <1>5, <1>6, TypesKept DEF Types
<1>8. meant' = meant /\ Silent(c)' /\ Waits(c)' /\ served'[c] = NoTask
  BY <1>1, <1>2 DEF Asking, Silent, Waits, Gone, client, conn, shared
<1>9. Serving(c)'
  BY <1>2, <1>3, <1>4, <1>8 DEF Serving
<1> QED BY <1>2, <1>7, <1>8, <1>9 DEF Conversation

LEMMA AddInsertsKeeps ==
  ASSUME IInv, NEW c \in Clients, NEW i \in Ids, AddInserts(c, i)
  PROVE  Types' /\ Conversation(c)'
<1>0. Types
  BY DEF IInv
<1>1. /\ alive /\ tpc[c] = "serve" /\ served[c].cnt = 1
      /\ table' = [table EXCEPT ![i] = [path |-> served[c].path, complete |-> FALSE,
                                        by |-> c]]
      /\ mine' = [mine EXCEPT ![c] = i]
      /\ tpc' = [tpc EXCEPT ![c] = "fork"]
      /\ Stirred
      /\ UNCHANGED <<served, at, out, alive, cnt, lock, said, noMemory>>
      /\ UNCHANGED client /\ UNCHANGED conn
  BY DEF AddInserts, Serves, Goto
<1>2. /\ Serving(c) /\ ~noMemory[c] /\ meant[c] \in Meant /\ meant[c] # NoTask
      /\ served[c] = Carried(meant[c]) /\ meant[c].cnt = 1 /\ served[c].path \in Paths
  BY <1>1, ThreadServes
<1>3. SharedTypes'
  BY <1>0, <1>1, <1>2, TableType DEF Types, SharedTypes
<1>4. /\ ThreadTypes' /\ tpc'[c] = "fork" /\ mine'[c] = i
      /\ \A d \in Clients \ {c} : tpc'[d] = tpc[d]
  BY <1>0, <1>1 DEF Types, ThreadTypes
<1>5. GhostTypes' /\ ~quiet[c] /\ ~quiet'[c]
  <2>1. quiet' \in [Clients -> BOOLEAN]
    BY <1>0, <1>1, QuietType DEF Types, GhostTypes
  <2>2. ~quiet[c]
    BY <1>2 DEF Serving, Silent
  <2>3. ~quiet'[c]
    BY <2>2, <1>1, Zenon DEF Stirred
  <2> QED BY <2>1, <2>2, <2>3, <1>0, <1>1 DEF Types, GhostTypes
<1>6. LockSends'
  BY <1>0, <1>1, <1>4, LockKept
<1>7. Types'
  BY <1>0, <1>1, <1>3, <1>4, <1>5, <1>6, TypesKept DEF Types
<1>8. meant' = meant /\ Silent(c)' /\ Waits(c)' /\ served'[c] = served[c] /\ ~noMemory'[c]
  BY <1>1, <1>2, <1>5 DEF Serving, Silent, Waits, Gone, client, conn
<1>9. Serving(c)'
  BY <1>2, <1>4, <1>8 DEF Serving
<1> QED BY <1>2, <1>7, <1>8, <1>9 DEF Conversation

LEMMA CopyHangsKeeps ==
  ASSUME IInv, NEW c \in Clients, CopyHangs(c)
  PROVE  Types' /\ Conversation(c)'
<1>0. Types
  BY DEF IInv
<1>1. /\ alive /\ tpc[c] = "serve"
      /\ tpc' = [tpc EXCEPT ![c] = "hung"]
      /\ UNCHANGED <<served, mine, at, out, lock>>
      /\ UNCHANGED client /\ UNCHANGED conn /\ UNCHANGED shared /\ UNCHANGED ghost
  BY DEF CopyHangs, Serves, Goto, shared
<1>2. /\ Serving(c) /\ ~noMemory[c] /\ meant[c] \in Meant /\ meant[c] # NoTask
      /\ served[c] = Carried(meant[c]) /\ meant[c].cnt \in 1 .. 7
  BY <1>1, ThreadServes
<1>3. /\ ThreadTypes' /\ tpc'[c] = "hung" /\ \A d \in Clients \ {c} : tpc'[d] = tpc[d]
  BY <1>0, <1>1 DEF Types, ThreadTypes
<1>4. LockSends'
  BY <1>0, <1>1, <1>3, LockKept
<1>5. Types'
  BY <1>0, <1>1, <1>3, <1>4, TypesKept DEF Types
<1>6. meant' = meant /\ Silent(c)' /\ Waits(c)' /\ served'[c] = served[c] /\ ~noMemory'[c]
  BY <1>1, <1>2 DEF Serving, Silent, Waits, Gone, client, conn, shared, ghost
<1>7. Serving(c)'
  BY <1>2, <1>3, <1>6 DEF Serving
<1> QED BY <1>2, <1>5, <1>6, <1>7 DEF Conversation

\* A reply that leaves the tables alone.
LEMMA PlainReplyKeeps ==
  ASSUME IInv, NEW c \in Clients, AddRefused(c) \/ Status(c) \/ Change(c) \/ Result(c)
  PROVE  Types' /\ Conversation(c)'
<1>0. Types
  BY DEF IInv
<1>1. /\ tpc[c] = "serve" /\ alive' = alive /\ table' = table /\ cnt' = cnt
      /\ UNCHANGED <<client, conn, served, mine, at, noMemory>> /\ quiet' = quiet
      /\ lock' = lock \/ lock' = c
      /\ served[c].cnt \in {1, 2, 3, 5, 7}
      /\ served[c].cnt # 7 => ~Result(c)
      /\ Result(c) => served[c].cnt = 7
  BY DEF AddRefused, Status, Change, Result, Serves, shared
<1>2. served[c].cnt = meant[c].cnt /\ served[c].id \in Int
  BY <1>1, ThreadServes
<1>3. \A i \in Int : /\ Refused \in Texts /\ About(i) \in Texts /\ Unknown(i) \in Texts
                     /\ ReportOf(i) \in Texts /\ NotDone(i) \in Texts
                     /\ StateOf(i) \in Texts
  BY TextTypes DEF StateOf
<1>4. \E text \in Texts, first \in {<<>>, <<Sol("0")>>, <<Sol("1")>>} :
        /\ IF meant[c].cnt = 7 THEN first # <<>> ELSE first = <<>> /\ meant[c].cnt # 6
        /\ Reply(c, first, text)
  <2>1. CASE Result(c)
    <3>1. meant[c].cnt = 7
      BY <2>1, <1>1, <1>2
    <3>2. <<Sol("0")>> # <<>> /\ <<Sol("1")>> # <<>>
      OBVIOUS
    <3>3. \/ Reply(c, <<Sol("1")>>, ReportOf(served[c].id))
          \/ Reply(c, <<Sol("0")>>, NotDone(served[c].id))
          \/ Reply(c, <<Sol("0")>>, Unknown(served[c].id))
      BY <2>1, Zenon DEF Result
    <3> QED BY <3>1, <3>2, <3>3, <1>2, <1>3, Zenon
  <2>2. CASE AddRefused(c) \/ Status(c) \/ Change(c)
    <3>1. meant[c].cnt # 7 /\ meant[c].cnt # 6
      BY <2>2, <1>2 DEF AddRefused, Status, Change, Serves
    <3>2. \/ Reply(c, <<>>, Refused)
          \/ Reply(c, <<>>, StateOf(served[c].id))
      BY <2>2, Zenon DEF AddRefused, Status, Change
    <3> QED BY <3>1, <3>2, <1>2, <1>3, Zenon
  <2> QED BY <2>1, <2>2
<1>5. /\ Conversation(c)' /\ ClientTypes' /\ ConnTypes' /\ ThreadTypes'
      /\ said' \in [Clients -> Seq(Texts)] /\ noMemory' = noMemory
      /\ tpc'[c] = "send" /\ \A d \in Clients \ {c} : tpc'[d] = tpc[d]
  BY <1>1, <1>4, ReplyKeeps
<1>6. SharedTypes' /\ GhostTypes'
  BY <1>0, <1>1, <1>5 DEF Types, SharedTypes, GhostTypes
<1>7. LockSends'
  BY <1>0, <1>1, <1>5, LockKept DEF LockSends
<1> QED BY <1>5, <1>6, <1>7 DEF Types

LEMMA AddEndsKeep ==
  ASSUME IInv, NEW c \in Clients, AddForkFails(c) \/ AddFinish(c)
  PROVE  Types' /\ Conversation(c)'
<1>0. Types
  BY DEF IInv
<1>1. /\ tpc[c] = "fork" /\ alive' = alive /\ cnt' \in {cnt, cnt + 1}
      /\ UNCHANGED <<client, conn, served, mine, at, noMemory>>
      /\ lock' = lock \/ lock' = c
      /\ Stirred
      /\ \/ table' = table
         \/ table' = [table EXCEPT ![mine[c]] = None]
         \/ table' = [table EXCEPT ![mine[c]].complete = FALSE]
      /\ Reply(c, <<>>, Refused) \/ Reply(c, <<>>, About(mine[c]))
  BY DEF AddForkFails, AddFinish
<1>2. meant[c].cnt = 1 /\ mine[c] \in Ids /\ mine[c] \in Int
  BY <1>1, ThreadServes
<1>3. Refused \in Texts /\ About(mine[c]) \in Texts
  BY <1>2, TextTypes
<1>4. /\ Conversation(c)' /\ ClientTypes' /\ ConnTypes' /\ ThreadTypes'
      /\ said' \in [Clients -> Seq(Texts)] /\ noMemory' = noMemory
      /\ tpc'[c] = "send" /\ \A d \in Clients \ {c} : tpc'[d] = tpc[d]
  <2>1. PICK text \in Texts : Reply(c, <<>>, text)
    BY <1>1, <1>3
  <2>2. IF meant[c].cnt = 7 THEN <<>> # <<>> ELSE <<>> = <<>> /\ meant[c].cnt # 6
    BY <1>2
  <2> QED BY <2>1, <2>2, <1>1, ReplyKeeps
<1>5. table' \in [Ids -> Entry]
  BY <1>0, <1>1, <1>2, TableType DEF Types, SharedTypes
<1>6. SharedTypes'
  BY <1>0, <1>1, <1>5 DEF Types, SharedTypes
<1>7. GhostTypes'
  BY <1>0, <1>1, <1>4, QuietType DEF Types, GhostTypes
<1>8. LockSends'
  BY <1>0, <1>1, <1>4, LockKept DEF LockSends
<1> QED BY <1>4, <1>6, <1>7, <1>8 DEF Types

LEMMA RemoveKeeps ==
  ASSUME IInv, NEW c \in Clients, Remove(c)
  PROVE  Types' /\ Conversation(c)'
<1>0. Types
  BY DEF IInv
<1>1. /\ tpc[c] = "serve" /\ served[c].cnt = 4 /\ alive' = alive
      /\ UNCHANGED <<client, conn, served, mine, at, noMemory>> /\ lock' = lock
      /\ Reply(c, <<>>, StateOf(served[c].id))
      /\ \/ UNCHANGED <<table, cnt, quiet>>
         \/ /\ served[c].id \in Existing
            /\ table' = [table EXCEPT ![served[c].id] = None]
            /\ cnt' = cnt - 1 /\ Stirred
  BY DEF Remove, Serves
<1>2. meant[c].cnt = 4 /\ served[c].id \in Int
  BY <1>1, ThreadServes
<1>3. StateOf(served[c].id) \in Texts
  BY <1>2, TextTypes DEF StateOf
<1>4. /\ Conversation(c)' /\ ClientTypes' /\ ConnTypes' /\ ThreadTypes'
      /\ said' \in [Clients -> Seq(Texts)] /\ noMemory' = noMemory
      /\ tpc'[c] = "send" /\ \A d \in Clients \ {c} : tpc'[d] = tpc[d]
  <2>1. IF meant[c].cnt = 7 THEN <<>> # <<>> ELSE <<>> = <<>> /\ meant[c].cnt # 6
    BY <1>2
  <2> QED BY <2>1, <1>1, <1>3, ReplyKeeps
<1>5. table' \in [Ids -> Entry]
  BY <1>0, <1>1, TableType DEF Types, SharedTypes, Existing
<1>6. SharedTypes'
  BY <1>0, <1>1, <1>5 DEF Types, SharedTypes
<1>7. quiet' \in [Clients -> BOOLEAN]
  BY <1>0, <1>1, QuietType DEF Types, GhostTypes
<1>8. GhostTypes'
  BY <1>0, <1>4, <1>7 DEF Types, GhostTypes
<1>9. LockSends'
  BY <1>0, <1>1, <1>4, LockKept DEF LockSends
<1> QED BY <1>4, <1>6, <1>8, <1>9 DEF Types

LEMMA IdNumbers == NoId \in Int /\ \A j \in Ids : j \in Int
<1>1. Ids \subseteq Nat \ {0}
  BY ClientAssumption
<1>2. \A j \in Ids : j \in Nat
  BY <1>1, Zenon
<1>3. NoId \in Int
  BY DEF NoId
<1> QED BY <1>2, <1>3

\* The count of a quiet list is that of the analyses to come.
LEMMA ListKeeps ==
  ASSUME IInv, NEW c \in Clients, List(c)
  PROVE  Types' /\ Conversation(c)'
<1>0. Types
  BY DEF IInv
<1>4. PICK h \in Seq(Cell) :
        /\ h = <<Field(cnt)>> /\ Len(h) = 1 /\ h[1] = Field(cnt)
        /\ h \in Seq(Cell) \ {<<>>} /\ cnt \in Int
  <2>1. cnt \in Int
    BY <1>0 DEF Types, SharedTypes
  <2>2. Field(cnt) \in Cell
    BY <2>1 DEF Field, Cell
  <2>3. \A f \in Cell : /\ <<f>> \in Seq(Cell) /\ Len(<<f>>) = 1 /\ <<f>>[1] = f
                       /\ <<f>> \in Seq(Cell) \ {<<>>}
    OBVIOUS
  <2> QED BY <2>1, <2>2, <2>3, Zenon
<1>1. /\ alive /\ tpc[c] = "serve" /\ served[c].cnt = 6
      /\ out' = [out EXCEPT ![c] = <<h>>]
      /\ quiet' = [quiet EXCEPT ![c] = cnt = Cardinality(Existing)]
      /\ tpc' = [tpc EXCEPT ![c] = "list"]
      /\ UNCHANGED <<served, mine, at, lock, said, noMemory>>
      /\ UNCHANGED client /\ UNCHANGED conn /\ UNCHANGED shared
  BY <1>4 DEF List, Serves, Goto, shared
<1>2. /\ Serving(c) /\ ~noMemory[c] /\ meant[c] \in Meant /\ meant[c] # NoTask
      /\ served[c] = Carried(meant[c]) /\ meant[c].cnt = 6
  BY <1>1, ThreadServes
<1>3. /\ down[c] = <<>> /\ said[c] = <<>> /\ printed[c] = <<>> /\ flag[c] = NoFlag
      /\ at[c] = NoId /\ Waits(c)
  BY <1>2 DEF Serving, Silent
<1>5. IsHeader(6, h) /\ h[1].num = cnt
  BY <1>4 DEF IsHeader, Field
<1>6. <<h>> \in Seq(Seq(Cell) \ {<<>>}) /\ Len(<<h>>) = 1 /\ <<h>>[1] = h
  BY <1>4
<1>7. /\ ThreadTypes' /\ tpc'[c] = "list" /\ out'[c] = <<h>>
      /\ \A d \in Clients \ {c} : tpc'[d] = tpc[d]
  BY <1>0, <1>1, <1>6 DEF Types, ThreadTypes
<1>8. (cnt = Cardinality(Existing)) \in BOOLEAN
  BY Zenon
<1>9. /\ quiet' \in [Clients -> BOOLEAN]
      /\ quiet'[c] <=> (cnt = Cardinality(Existing))
  <2>1. quiet \in [Clients -> BOOLEAN]
    BY <1>0 DEF Types, GhostTypes
  <2> QED BY <2>1, <1>1, <1>8, Zenon
<1>10. GhostTypes'
  BY <1>0, <1>1, <1>9 DEF Types, GhostTypes
<1>11. LockSends'
  BY <1>0, <1>1, <1>7, LockKept
<1>12. Types'
  BY <1>0, <1>1, <1>7, <1>10, <1>11, TypesKept DEF Types
<1>13. /\ meant' = meant /\ cpc' = cpc /\ todo' = todo /\ printed' = printed /\ flag' = flag
       /\ down' = down /\ alive' = alive /\ table' = table
  BY <1>1 DEF client, conn, shared
<1>14. Coming(c)' = Cardinality(Existing)
  <2>1. \A i \in Existing : i > 0
    BY ClientAssumption DEF Existing
  <2>2. Existing' = Existing /\ at'[c] = 0
    BY <1>1, <1>3, <1>13 DEF Existing, NoId
  <2>3. Later(c)' = Existing
    BY <2>1, <2>2 DEF Later
  <2> QED BY <2>3, <1>7 DEF Coming
<1>15. Follows(Rest(c)', h, <<>>, 0)
  <2>1. Flat(out'[c]) = h
    <3>1. 1 # 0
      OBVIOUS
    <3> QED BY <1>6, <1>7, <3>1, Zenon DEF Flat
  <2>2. Rest(c)' = h
    BY <2>1, <1>3, <1>4, <1>13, ConcatEmptySeq DEF Rest
  <2> QED BY <2>2, <1>4, FollowsHeader
<1>16. Shape(c)'
  <2>1. said'[c] = <<>> /\ Len(said'[c]) = 0 /\ Len(out'[c]) = 1
    BY <1>1, <1>3, <1>6, <1>7
  <2> QED BY <2>1, <1>2, <1>3, <1>7, <1>13 DEF Shape
<1>17. ASSUME cpc[c] = ReadsAfter(meant[c].cnt), todo[c] = 1
       PROVE  Running(c)' /\ Reads(c)'
  <2>1. cpc'[c] = "count"
    BY <1>2, <1>13, <1>17 DEF ReadsAfter
  <2>2. ReadSoFar(c, h)' = 0
    BY <2>1 DEF ReadSoFar
  <2>3. quiet'[c] => h[1].num = Len(said'[c]) + Coming(c)'
    <3>1. Len(said'[c]) = 0
      BY <1>1, <1>3
    <3> QED BY <3>1, <1>4, <1>5, <1>9, <1>14
  <2>4. said'[c] = <<>> /\ meant'[c].cnt = 6
    BY <1>1, <1>2, <1>3, <1>13
  <2>5. \E x \in Seq(Cell) :
          /\ IsHeader(meant'[c].cnt, x)
          /\ Follows(Rest(c)', x, said'[c], ReadSoFar(c, x)')
          /\ meant'[c].cnt = 6 =>
               /\ cpc'[c] # "count" =>
                    todo'[c] # 0 /\ x[1].num = todo'[c] + Len(printed'[c])
               /\ quiet'[c] => x[1].num = Len(said'[c]) + Coming(c)'
    <3>1. IsHeader(meant'[c].cnt, h)
      BY <2>4, <1>5, Zenon
    <3>2. Follows(Rest(c)', h, said'[c], ReadSoFar(c, h)')
      BY <2>2, <2>4, <1>15, Zenon
    <3>3. cpc'[c] = "count"
      BY <2>1
    <3>4. meant'[c].cnt = 6 =>
            /\ cpc'[c] # "count" =>
                 todo'[c] # 0 /\ h[1].num = todo'[c] + Len(printed'[c])
            /\ quiet'[c] => h[1].num = Len(said'[c]) + Coming(c)'
      BY <3>3, <2>3, Zenon
    <3> QED BY <3>1, <3>2, <3>4, Zenon
  <2>6. printed'[c] = <<>>
    BY <1>3, <1>13
  <2> QED BY <2>1, <2>4, <2>5, <2>6 DEF Reads, Running
<1>18. /\ tpc'[c] \in {"list", "send", "closed"} /\ ~noMemory'[c]
       /\ meant'[c] # NoTask /\ served'[c] = Carried(meant'[c])
       /\ Len(printed'[c]) <= Len(said'[c])
       /\ \A k \in 1 .. Len(printed'[c]) : printed'[c][k] = said'[c][k]
  BY <1>1, <1>2, <1>3, <1>7, <1>13
<1>19. Gone(c) => Gone(c)'
  BY <1>13 DEF Gone
<1>20. Replying(c)'
  BY <1>3, <1>16, <1>17, <1>18, <1>19 DEF Replying, Waits, Gone
<1> QED BY <1>2, <1>12, <1>13, <1>20 DEF Conversation

\* The walk over the ids ends, or lists one of them.
LEMMA ListEndKeeps ==
  ASSUME IInv, NEW c \in Clients, ListNext(c), Later(c) = {}
  PROVE  Types' /\ Conversation(c)'
<1>0. Types
  BY DEF IInv
<1>1. /\ alive /\ tpc[c] = "list" /\ out[c] = <<>>
      /\ tpc' = [tpc EXCEPT ![c] = "send"] /\ UNCHANGED <<out, at, said>>
      /\ UNCHANGED <<served, mine, quiet, noMemory>> /\ lock' = lock
      /\ UNCHANGED client /\ UNCHANGED conn /\ UNCHANGED shared
  BY DEF ListNext, Goto, shared
<1>2. Replying(c) /\ meant[c] \in Meant
  BY <1>1 DEF IInv, Conversation, Before, Asking, Serving
<1>3. /\ ThreadTypes' /\ tpc'[c] = "send" /\ \A d \in Clients \ {c} : tpc'[d] = tpc[d]
  BY <1>0, <1>1 DEF Types, ThreadTypes
<1>4. GhostTypes'
  BY <1>0, <1>1 DEF Types, GhostTypes
<1>5. LockSends'
  BY <1>0, <1>1, <1>3, LockKept
<1>6. Types'
  BY <1>0, <1>1, <1>3, <1>4, <1>5, TypesKept DEF Types
<1>7. Coming(c) = 0 /\ Coming(c)' = 0
  BY <1>1, <1>3, FS_EmptySet DEF Coming
<1>8. Shape(c)'
  BY <1>1, <1>2, <1>3 DEF Replying, Shape, client
<1>9. /\ cpc' = cpc /\ meant' = meant /\ todo' = todo /\ size' = size /\ flag' = flag
      /\ printed' = printed /\ down' = down /\ alive' = alive
  BY <1>1 DEF client, conn, shared
<1>10. Reads(c) => Reads(c)'
  <2>1. Rest(c)' = Rest(c) /\ \A h : ReadSoFar(c, h)' = ReadSoFar(c, h)
    BY <1>1, <1>9 DEF Rest, ReadSoFar
  <2> QED BY <2>1, <1>1, <1>7, <1>9 DEF Reads
<1>11. Through(c) => Through(c)'
  BY <1>1, <1>7, <1>9 DEF Through
<1>12. Replying(c)'
  BY <1>1, <1>2, <1>3, <1>8, <1>9, <1>10, <1>11 DEF Replying, Running
<1> QED BY <1>2, <1>6, <1>9, <1>12 DEF Conversation

LEMMA ListGoesOnKeeps ==
  ASSUME IInv, NEW c \in Clients, ListNext(c), Later(c) # {}
  PROVE  Types' /\ Conversation(c)'
<1>0. Types
  BY DEF IInv
<1>1. /\ alive /\ tpc[c] = "list" /\ out[c] = <<>>
      /\ UNCHANGED <<tpc, served, mine, quiet, noMemory>> /\ lock' = lock
      /\ UNCHANGED client /\ UNCHANGED conn /\ UNCHANGED shared
  BY DEF ListNext, shared
<1>2. PICK i \in Later(c) :
        /\ \A j \in Later(c) : i <= j
        /\ at' = [at EXCEPT ![c] = i]
        /\ out' = [out EXCEPT ![c] = <<Message(Listed(i))>>]
        /\ said' = [said EXCEPT ![c] = Append(said[c], Listed(i))]
  BY <1>0, Zenon DEF ListNext, Types, GhostTypes
<1>3. Replying(c) /\ meant[c] \in Meant
  BY <1>1 DEF IInv, Conversation, Before, Asking, Serving
<1>4. meant[c].cnt = 6 /\ \A k \in 1 .. Len(said[c]) : Len(said[c][k]) = 2
  BY <1>1, <1>3 DEF Replying, Shape
<1>5. i \in Ids /\ i \in Int
  BY ClientAssumption DEF Later, Existing
<1>6. Listed(i) \in Texts /\ Len(Listed(i)) = 2
  BY <1>5, TextTypes
<1>7. PICK m \in Seq(Cell) \ {<<>>} : m = Message(Listed(i))
  BY <1>6, MessageType
<1>8. <<m>> \in Seq(Seq(Cell) \ {<<>>}) /\ Len(<<m>>) = 1 /\ <<m>>[1] = m
  OBVIOUS
<1>9. out' = [out EXCEPT ![c] = <<m>>]
  BY <1>2, <1>7
<1>10. ThreadTypes' /\ out'[c] = <<m>> /\ at'[c] = i
  BY <1>0, <1>1, <1>2, <1>5, <1>8, <1>9 DEF Types, ThreadTypes
<1>11. PICK n \in Nat : n = Len(said[c])
  BY <1>0 DEF Types, GhostTypes
<1>12. /\ said[c] \in Seq(Texts) /\ said' \in [Clients -> Seq(Texts)]
       /\ said'[c] = Append(said[c], Listed(i))
       /\ Len(said'[c]) = n + 1 /\ said'[c][n + 1] = Listed(i)
       /\ \A k \in 1 .. n : said'[c][k] = said[c][k]
  <2>1. said \in [Clients -> Seq(Texts)] /\ said[c] \in Seq(Texts)
    BY <1>0 DEF Types, GhostTypes
  <2>2. /\ Append(said[c], Listed(i)) \in Seq(Texts)
        /\ Len(Append(said[c], Listed(i))) = n + 1
        /\ Append(said[c], Listed(i))[n + 1] = Listed(i)
        /\ \A k \in 1 .. n : Append(said[c], Listed(i))[k] = said[c][k]
    BY <2>1, <1>6, <1>11, AppendProperties
  <2> QED BY <2>1, <2>2, <1>2
<1>13. GhostTypes'
  BY <1>0, <1>1, <1>12 DEF Types, GhostTypes
<1>14. LockSends'
  BY <1>0, <1>1, LockKept
<1>15. Types'
  BY <1>0, <1>1, <1>10, <1>13, <1>14, TypesKept DEF Types
<1>16. /\ cpc' = cpc /\ meant' = meant /\ todo' = todo /\ size' = size /\ flag' = flag
       /\ printed' = printed /\ down' = down /\ alive' = alive /\ table' = table
  BY <1>1 DEF client, conn, shared
<1>17. PICK k \in Nat : k = Len(printed[c])
  BY <1>0 DEF Types, ClientTypes
<1>18. k <= n /\ \A j \in 1 .. k : printed[c][j] = said[c][j]
  BY <1>3, <1>11, <1>17, Zenon DEF Replying
<1>19. Coming(c)' = Coming(c) - 1 /\ Coming(c) \in Nat /\ Coming(c) # 0
  <2>1. Later(c)' = Later(c) \ {i}
    <3>1. Existing' = Existing
      BY <1>16 DEF Existing
    <3>5. NoId \in Int /\ \A j \in Ids : j \in Int
      BY IdNumbers
    <3>2. \A j \in Existing : j \in Int
      BY <3>5 DEF Existing
    <3>3. at[c] \in Int
      <4>1. at[c] \in Ids \cup {NoId}
        BY <1>0 DEF Types, ThreadTypes
      <4> QED BY <4>1, <3>5
    <3>4. \A j \in Existing : j > i <=> (j > at[c] /\ j # i)
      <4>1. i > at[c] /\ i \in Int
        BY <1>5 DEF Later
      <4>2. \A j \in Existing : j > at[c] => i <= j
        BY <1>2 DEF Later
      <4> QED BY <4>1, <4>2, <3>2, <3>3
    <3> QED BY <3>1, <3>4, <1>10 DEF Later
  <2>2. IsFiniteSet(Later(c)) /\ Coming(c) \in Nat
    BY <1>0, ComingType DEF Types, SharedTypes
  <2>3. Cardinality(Later(c) \ {i}) = Cardinality(Later(c)) - 1
    BY <2>2, FS_RemoveElement
  <2>4. Cardinality(Later(c)) # 0
    BY <2>2, FS_EmptySet
  <2> QED BY <2>1, <2>2, <2>3, <2>4, <1>1 DEF Coming
<1>20. Shape(c)'
  <2>1. \A j \in 1 .. n + 1 : Len(said'[c][j]) = 2
    <3>1. \A j \in 1 .. n + 1 : j \in 1 .. n \/ j = n + 1
      OBVIOUS
    <3> QED BY <3>1, <1>4, <1>6, <1>11, <1>12, Zenon
  <2>2. Len(out'[c]) <= 1 /\ Len(out'[c]) <= 2
    BY <1>8, <1>10
  <2>3. tpc'[c] # "closed" /\ meant'[c].cnt = 6
    BY <1>1, <1>4, <1>16
  <2>4. flag'[c] = NoFlag
    BY <1>3, <1>4, <1>16 DEF Replying, Shape
  <2> QED BY <2>1, <2>2, <2>3, <2>4, <1>12 DEF Shape
<1>21. ASSUME Reads(c) PROVE Reads(c)'
  <2>1. PICK h \in Seq(Cell) :
          /\ IsHeader(6, h) /\ Follows(Rest(c), h, said[c], ReadSoFar(c, h))
          /\ cpc[c] # "count" =>
               todo[c] # 0 /\ h[1].num = todo[c] + Len(printed[c])
          /\ quiet[c] => h[1].num = Len(said[c]) + Coming(c)
    BY <1>4, <1>21 DEF Reads
  <2>2. /\ down[c] \in Seq(Cell) /\ Rest(c) = down[c] /\ Rest(c)' = down[c] \o m
    <3>1. down[c] \in Seq(Cell)
      BY <1>0 DEF Types, ConnTypes
    <3>2. Flat(out[c]) = <<>>
      BY <1>1, FlatOfFirst
    <3>3. Flat(out'[c]) = m
      <4>1. 1 # 0
        OBVIOUS
      <4> QED BY <4>1, <1>8, <1>10, Zenon DEF Flat
    <3>4. down[c] \o <<>> = down[c]
      BY <3>1, ConcatEmptySeq
    <3> QED BY <3>1, <3>2, <3>3, <3>4, <1>16, Zenon DEF Rest
  <2>3. ReadSoFar(c, h) \in Nat /\ ReadSoFar(c, h)' = ReadSoFar(c, h)
    <3>1. Len(h) \in Nat
      OBVIOUS
    <3>2. \/ ReadSoFar(c, h) = 0
          \/ ReadSoFar(c, h) = Len(h) + 3 * k + 0
          \/ ReadSoFar(c, h) = Len(h) + 3 * k + 1
      BY <1>17 DEF ReadSoFar
    <3>3. ReadSoFar(c, h) \in Nat
      BY <3>1, <3>2
    <3>4. ReadSoFar(c, h)' = ReadSoFar(c, h)
      BY <1>16 DEF ReadSoFar
    <3> QED BY <3>3, <3>4
  <2>4. Follows(Rest(c)', h, said'[c], ReadSoFar(c, h)')
    <3>1. Follows(down[c] \o Message(Listed(i)), h, Append(said[c], Listed(i)), ReadSoFar(c, h))
      BY <2>1, <2>2, <2>3, <1>4, <1>6, <1>12, FollowsGrow
    <3> QED BY <3>1, <2>2, <2>3, <1>7, <1>12, Zenon
  <2>5. quiet'[c] => h[1].num = Len(said'[c]) + Coming(c)'
    <3>1. n + Coming(c) = (n + 1) + (Coming(c) - 1)
      BY <1>19
    <3> QED BY <3>1, <2>1, <1>1, <1>11, <1>12, <1>19, Zenon
  <2>6. \E x \in Seq(Cell) :
          /\ IsHeader(meant'[c].cnt, x)
          /\ Follows(Rest(c)', x, said'[c], ReadSoFar(c, x)')
          /\ meant'[c].cnt = 6 =>
               /\ cpc'[c] # "count" =>
                    todo'[c] # 0 /\ x[1].num = todo'[c] + Len(printed'[c])
               /\ quiet'[c] => x[1].num = Len(said'[c]) + Coming(c)'
    <3>1. /\ IsHeader(meant'[c].cnt, h)
          /\ cpc'[c] # "count" =>
               todo'[c] # 0 /\ h[1].num = todo'[c] + Len(printed'[c])
      BY <2>1, <1>4, <1>16
    <3> QED BY <3>1, <2>4, <2>5, Zenon
  <2>7. cpc'[c] = "text" => /\ Len(printed'[c]) < Len(said'[c])
                            /\ size'[c] = Len(said'[c][Len(printed'[c]) + 1])
    <3>1. cpc[c] = "text" => k < n /\ size[c] = Len(said[c][k + 1])
      BY <1>11, <1>17, <1>21 DEF Reads
    <3>2. k < n => k < n + 1 /\ k + 1 \in 1 .. n
      OBVIOUS
    <3> QED BY <3>1, <3>2, <1>12, <1>16, <1>17, Zenon
  <2> QED BY <2>6, <2>7, <1>4, <1>16, <1>21 DEF Reads
<1>22. Through(c) => Through(c)'
  <2>1. Through(c) => ~quiet[c]
    BY <1>4, <1>19 DEF Through
  <2> QED BY <2>1, <1>1, <1>4, <1>16 DEF Through
<1>23. /\ Len(printed'[c]) <= Len(said'[c])
       /\ \A j \in 1 .. Len(printed'[c]) : printed'[c][j] = said'[c][j]
  <2>1. k <= n + 1 /\ \A j \in 1 .. k : j \in 1 .. n
    BY <1>18
  <2> QED BY <2>1, <1>12, <1>16, <1>17, <1>18, Zenon
<1>24. Replying(c)'
  BY <1>1, <1>3, <1>16, <1>20, <1>21, <1>22, <1>23 DEF Replying, Running
<1> QED BY <1>3, <1>15, <1>16, <1>24 DEF Conversation

\* Who has something to send, or to close, replies.
LEMMA SenderReplies ==
  ASSUME IInv, NEW c \in Clients, tpc[c] \in {"send", "list"}
  PROVE  Replying(c) /\ meant[c] \in Meant /\ Len(out[c]) <= 2
BY DEF IInv, Conversation, Before, Asking, Serving, Replying, Shape

LEMMA SendKeeps ==
  ASSUME IInv, NEW c \in Clients, Send(c)
  PROVE  Types' /\ Conversation(c)'
<1>0. Types
  BY DEF IInv
<1>1. /\ alive /\ tpc[c] \in {"send", "list"} /\ out[c] # <<>> /\ Running(c)
      /\ down' = [down EXCEPT ![c] = down[c] \o Head(out[c])]
      /\ out' = [out EXCEPT ![c] = Tail(out[c])]
      /\ UNCHANGED <<up, tpc, served, mine, at, lock>>
      /\ UNCHANGED client /\ UNCHANGED shared /\ UNCHANGED ghost
  BY <1>0 DEF Send, Types, ConnTypes, ThreadTypes, shared
<1>2. Replying(c) /\ meant[c] \in Meant /\ Len(out[c]) <= 2
  BY <1>1, SenderReplies
<1>3. /\ out[c] \in Seq(Seq(Cell) \ {<<>>}) /\ down[c] \in Seq(Cell)
  BY <1>0 DEF Types, ConnTypes, ThreadTypes
<1>4. /\ Head(out[c]) \in Seq(Cell) /\ Tail(out[c]) \in Seq(Seq(Cell) \ {<<>>})
      /\ Len(Tail(out[c])) = Len(out[c]) - 1
  BY <1>1, <1>2, <1>3, FlatFacts
<1>5. down[c] \o Head(out[c]) \in Seq(Cell)
  BY <1>3, <1>4, ConcatProperties
<1>6. ConnTypes' /\ down'[c] = down[c] \o Head(out[c])
  BY <1>0, <1>1, <1>5 DEF Types, ConnTypes
<1>7. ThreadTypes' /\ out'[c] = Tail(out[c])
  BY <1>0, <1>1, <1>4 DEF Types, ThreadTypes
<1>8. LockSends'
  BY <1>0, <1>1, LockKept
<1>9. Types'
  BY <1>0, <1>1, <1>6, <1>7, <1>8, TypesKept DEF Types
<1>10. Rest(c)' = Rest(c)
  BY <1>1, <1>2, <1>3, <1>6, <1>7, SendKeepsRest, Zenon DEF Rest
<1>11. /\ cpc' = cpc /\ meant' = meant /\ todo' = todo /\ size' = size /\ flag' = flag
       /\ printed' = printed /\ said' = said /\ quiet' = quiet /\ noMemory' = noMemory
  BY <1>1 DEF client, ghost
<1>12. Shape(c)'
  <2>1. PICK n \in Nat : n = Len(out[c])
    BY <1>3
  <2>2. Len(out'[c]) = n - 1
    BY <2>1, <1>4, <1>7
  <2>3. /\ n <= 2 => n - 1 <= 2
        /\ n <= 1 => n - 1 <= 1
    OBVIOUS
  <2>4. /\ Len(out'[c]) <= 2
        /\ meant[c].cnt = 6 => Len(out'[c]) <= 1
    BY <2>1, <2>2, <2>3, <1>2, Zenon DEF Replying, Shape
  <2>5. meant[c].cnt # 8 /\ tpc'[c] # "closed"
    BY <1>1, <1>2 DEF Replying, Shape
  <2> QED BY <2>4, <2>5, <1>1, <1>2, <1>11 DEF Replying, Shape
<1>13. Reads(c)
  BY <1>1, <1>2 DEF Replying, Running
<1>14. Reads(c)'
  <2>1. Coming(c)' = Coming(c)
    BY <1>1 DEF Coming, Later, Existing, shared
  <2>2. \A h : ReadSoFar(c, h)' = ReadSoFar(c, h)
    BY <1>11 DEF ReadSoFar
  <2> QED BY <2>1, <2>2, <1>10, <1>11, <1>13 DEF Reads
<1>15. Replying(c)'
  BY <1>1, <1>2, <1>11, <1>12, <1>14 DEF Replying, Running
<1> QED BY <1>2, <1>9, <1>11, <1>15 DEF Conversation

\* To a client that is through nothing is left to send, unless it read a list
\* that was not quiet.
LEMMA SendGoneKeeps ==
  ASSUME IInv, NEW c \in Clients, SendGone(c)
  PROVE  /\ Types' /\ Conversation(c)'
         /\ cpc[c] = "left" \/ (cpc[c] = "ended" /\ meant[c].cnt = 6 /\ ~quiet[c])
<1>0. Types
  BY DEF IInv
<1>1. /\ alive /\ tpc[c] \in {"send", "list"} /\ out[c] # <<>> /\ ~Running(c)
      /\ UNCHANGED <<served, mine, at, table, cnt, lock>>
      /\ UNCHANGED client /\ UNCHANGED conn /\ UNCHANGED ghost
  BY DEF SendGone
<1>2. \/ out' = [out EXCEPT ![c] = Tail(out[c])] /\ tpc' = tpc /\ alive' = alive
      \/ out' = [out EXCEPT ![c] = <<>>] /\ tpc' = [tpc EXCEPT ![c] = "send"] /\ alive' = alive
      \/ alive' = FALSE /\ out' = out /\ tpc' = tpc
  BY <1>0 DEF SendGone, Goto, Types, ThreadTypes
<1>3. Replying(c) /\ meant[c] \in Meant /\ Len(out[c]) <= 2
  BY <1>1, SenderReplies
<1>4. out[c] \in Seq(Seq(Cell) \ {<<>>})
  BY <1>0 DEF Types, ThreadTypes
<1>5. /\ Tail(out[c]) \in Seq(Seq(Cell) \ {<<>>})
      /\ Len(Tail(out[c])) = Len(out[c]) - 1
  BY <1>1, <1>3, <1>4, FlatFacts
<1>6. out' \in [Clients -> Seq(Seq(Cell) \ {<<>>})]
  <2>1. <<>> \in Seq(Seq(Cell) \ {<<>>})
    BY EmptySeq
  <2>2. out \in [Clients -> Seq(Seq(Cell) \ {<<>>})]
    BY <1>0 DEF Types, ThreadTypes
  <2>3. \/ out' = out
        \/ out' = [out EXCEPT ![c] = Tail(out[c])]
        \/ out' = [out EXCEPT ![c] = <<>>]
    BY <1>2
  <2> QED BY <2>1, <2>2, <2>3, <1>5
<1>7. /\ tpc' \in [Clients -> {"none", "read", "serve", "fork", "list", "send",
                               "hung", "closed"}]
      /\ tpc'[c] = tpc[c] \/ tpc'[c] = "send"
      /\ \A d \in Clients \ {c} : tpc'[d] = tpc[d]
  <2>1. tpc' = tpc \/ tpc' = [tpc EXCEPT ![c] = "send"]
    BY <1>2
  <2> QED BY <2>1, <1>0 DEF Types, ThreadTypes
<1>8. ThreadTypes'
  BY <1>0, <1>1, <1>6, <1>7 DEF Types, ThreadTypes
<1>9. SharedTypes'
  BY <1>0, <1>1, <1>2, Zenon DEF Types, SharedTypes
<1>10. LockSends'
  BY <1>0, <1>1, <1>7, LockKept
<1>11. Types'
  BY <1>0, <1>1, <1>8, <1>9, <1>10, TypesKept DEF Types
<1>12. /\ cpc' = cpc /\ meant' = meant /\ flag' = flag
       /\ printed' = printed /\ said' = said /\ quiet' = quiet /\ noMemory' = noMemory
  BY <1>1 DEF client, ghost
<1>13. meant[c].cnt # 8
  BY <1>1, <1>3 DEF Replying, Shape
<1>14. cpc[c] = "left" \/ (cpc[c] = "ended" /\ meant[c].cnt = 6 /\ ~quiet[c])
  BY <1>1, <1>3, <1>13 DEF Replying, Through
<1>15. Shape(c)'
  <2>1. PICK n \in Nat : n = Len(out[c])
    BY <1>4
  <2>2. Len(out'[c]) = n - 1 \/ Len(out'[c]) = n \/ Len(out'[c]) = 0
    <3>1. Len(<<>>) = 0
      BY EmptySeq
    <3>2. out'[c] = Tail(out[c]) \/ out'[c] = <<>> \/ out'[c] = out[c]
      BY <1>0, <1>2 DEF Types, ThreadTypes
    <3> QED BY <2>1, <3>1, <3>2, <1>5
  <2>3. /\ n <= 2 => n - 1 <= 2 /\ 0 <= 2
        /\ n <= 1 => n - 1 <= 1 /\ 0 <= 1
    OBVIOUS
  <2>4. /\ Len(out'[c]) <= 2
        /\ meant[c].cnt = 6 => Len(out'[c]) <= 1
    BY <2>1, <2>2, <2>3, <1>3, Zenon DEF Replying, Shape
  <2>5. /\ tpc'[c] # "closed"
        /\ tpc'[c] = "list" => tpc[c] = "list"
    BY <1>1, <1>7
  <2> QED BY <2>4, <2>5, <1>3, <1>12, <1>13 DEF Replying, Shape
<1>16. cpc'[c] = "left" \/ (cpc'[c] = "ended" /\ Through(c)')
  BY <1>12, <1>14 DEF Through
<1>17. Replying(c)'
  BY <1>1, <1>3, <1>7, <1>12, <1>15, <1>16 DEF Replying
<1> QED BY <1>3, <1>11, <1>12, <1>14, <1>17 DEF Conversation

LEMMA CloseKeeps ==
  ASSUME IInv, NEW c \in Clients, Close(c)
  PROVE  Types' /\ Conversation(c)'
<1>0. Types
  BY DEF IInv
<1>1. /\ alive /\ tpc[c] = "send" /\ out[c] = <<>>
      /\ lock' = IF lock = c THEN Nobody ELSE lock
      /\ tpc' = [tpc EXCEPT ![c] = "closed"]
      /\ UNCHANGED <<served, mine, at, out, alive, table, cnt>>
      /\ UNCHANGED client /\ UNCHANGED conn /\ UNCHANGED ghost
  BY DEF Close, Goto
<1>2. Replying(c) /\ meant[c] \in Meant
  BY <1>1, SenderReplies
<1>3. /\ ThreadTypes' /\ tpc'[c] = "closed" /\ \A d \in Clients \ {c} : tpc'[d] = tpc[d]
  BY <1>0, <1>1 DEF Types, ThreadTypes
<1>4. SharedTypes'
  BY <1>0, <1>1 DEF Types, SharedTypes
<1>5. LockSends'
  BY <1>0, <1>1, <1>3 DEF Types, SharedTypes, LockSends
<1>6. Types'
  BY <1>0, <1>1, <1>3, <1>4, <1>5, TypesKept DEF Types
<1>7. /\ cpc' = cpc /\ meant' = meant /\ todo' = todo /\ size' = size /\ flag' = flag
      /\ printed' = printed /\ down' = down /\ said' = said /\ quiet' = quiet
      /\ noMemory' = noMemory
  BY <1>1 DEF client, conn, ghost
<1>8. Coming(c) = 0 /\ Coming(c)' = 0
  BY <1>1, <1>3 DEF Coming
<1>9. Shape(c)'
  BY <1>1, <1>2, <1>3, <1>7 DEF Replying, Shape
<1>10. Reads(c) => Reads(c)'
  <2>1. Rest(c)' = Rest(c) /\ \A h : ReadSoFar(c, h)' = ReadSoFar(c, h)
    BY <1>1, <1>7 DEF Rest, ReadSoFar
  <2> QED BY <2>1, <1>7, <1>8 DEF Reads
<1>11. Through(c) => Through(c)'
  BY <1>1, <1>7, <1>8 DEF Through
<1>12. Replying(c)'
  BY <1>1, <1>2, <1>3, <1>7, <1>9, <1>10, <1>11 DEF Replying, Running
<1> QED BY <1>2, <1>6, <1>7, <1>12 DEF Conversation

LEMMA CompletesKeeps ==
  ASSUME IInv, NEW i \in Ids, Completes(i)
  PROVE  IInv'
<1>0. Types
  BY DEF IInv
<1>1. /\ i \in Existing /\ ~table[i].complete /\ alive
      /\ table' = [table EXCEPT ![i].complete = TRUE]
      /\ UNCHANGED <<alive, cnt, lock, tpc>>
      /\ UNCHANGED client /\ UNCHANGED conn /\ UNCHANGED thread /\ UNCHANGED ghost
  BY DEF Completes, thread
<1>2. table \in [Ids -> Entry] /\ table[i] \in Entry
  BY <1>0 DEF Types, SharedTypes
<1>3. table' \in [Ids -> Entry]
  <2>1. [table[i] EXCEPT !.complete = TRUE] \in Entry
    BY <1>2 DEF Entry
  <2> QED BY <2>1, <1>1, <1>2
<1>4. SharedTypes' /\ LockSends'
  BY <1>0, <1>1, <1>3 DEF Types, SharedTypes, LockSends
<1>5. Types'
  BY <1>0, <1>1, <1>4, TypesKept DEF Types
<1>6. Existing' = Existing
  <2>1. table'[i] = [table[i] EXCEPT !.complete = TRUE]
    BY <1>1, <1>2
  <2>2. table'[i].complete
    BY <2>1, <1>2 DEF Entry
  <2>3. ~None.complete
    BY DEF None
  <2>4. table'[i] # None
    BY <2>2, <2>3
  <2>5. \A j \in Ids \ {i} : table'[j] = table[j]
    BY <1>1, <1>2
  <2> QED BY <2>4, <2>5, <1>1 DEF Existing
<1>7. \A d \in Clients : Conversation(d)'
  <2> SUFFICES ASSUME NEW d \in Clients PROVE Conversation(d)'
    OBVIOUS
  <2>1. Same(d) /\ Noticed(d)
    BY <1>1, <1>6 DEF Same, Noticed, client, conn, thread, ghost
  <2> QED BY <2>1, <1>1, OtherKept DEF IInv
<1>8. DeathHasCause'
  BY <1>1 DEF IInv, DeathHasCause
<1> QED BY <1>5, <1>7, <1>8 DEF IInv

LEMMA AskStep ==
  ASSUME IInv, NEW c \in Clients, NEW line \in Lines, NEW junk \in Junk,
         Ask(c, line, junk)
  PROVE  /\ Types' /\ Conversation(c)' /\ cpc[c] = "idle"
         /\ \A d \in Clients \ {c} : Same(d) /\ UNCHANGED shared
<1>1. cpc[c] = "idle"
  BY DEF Ask
<1> QED BY <1>1, TypesOfAsk, AskKeeps, OthersSame DEF IInv

LEMMA ClientTakesStep ==
  ASSUME IInv, NEW c \in Clients, ClientStep(c) \/ ConnectionReset(c) \/ Leave(c)
  PROVE  /\ Types' /\ Conversation(c)' /\ Running(c)
         /\ \A d \in Clients \ {c} : Same(d) /\ UNCHANGED shared
<1>0. Types
  BY DEF IInv
<1>1. Types' /\ Conversation(c)'
  BY <1>0, SendRequestTypes, SendRequestKeeps, ReadFlagTypes, ReadFlagKeeps,
     ReadCountTypes, ReadCountKeeps, ReadSizeKeeps, ReadTextTypes, ReadTextKeeps,
     StoppedTypes, StoppedKeeps DEF ClientStep
<1>2. Running(c)
  BY DEF ClientStep, SendRequest, ReadFlag, ReadCount, ReadSize, ReadText,
         ConnectionReset, Leave, Running
<1>3. \A d \in Clients \ {c} : Same(d) /\ UNCHANGED shared
  BY <1>0, OthersSame
<1> QED BY <1>1, <1>2, <1>3

LEMMA ThreadTakesStep ==
  ASSUME IInv, NEW c \in Clients, ThreadStep(c) \/ ThreadNoMemory(c)
  PROVE  /\ Types' /\ Conversation(c)' /\ alive
         /\ \A d \in Clients \ {c} : Same(d) /\ Noticed(d) /\ (alive' => alive)
         /\ ~alive' => SendGone(c)
<1>0. Types
  BY DEF IInv
<1>1. Types' /\ Conversation(c)'
  BY ReadTaskKeeps, PlainReplyKeeps, AddInsertsKeeps, AddEndsKeep, RemoveKeeps,
     CopyHangsKeeps, ListKeeps, ListEndKeeps, ListGoesOnKeeps, SendKeeps,
     SendGoneKeeps, CloseKeeps, ThreadNoMemoryKeeps, Zenon DEF ThreadStep
<1>2. alive
  BY Zenon DEF ThreadStep, ThreadNoMemory, ReadTask, AddRefused, AddInserts,
         AddForkFails, AddFinish, Change, Remove, CopyHangs, Status, Result, List,
         ListNext, Send, SendGone, Close, Serves
<1>3. \A d \in Clients \ {c} : Same(d) /\ Noticed(d) /\ (alive' => alive)
  BY <1>0, OthersSame
<1>4. ~SendGone(c) => alive' = alive
  BY DEF ThreadStep, ThreadNoMemory, ReadTask, AddRefused, AddInserts,
         AddForkFails, AddFinish, Change, Remove, CopyHangs, Status, Result, List,
         ListNext, Send, Close, Serves, shared
<1> QED BY <1>1, <1>2, <1>3, <1>4

LEMMA Others ==
  ASSUME IInv, NEW c \in Clients, NEW d \in Clients \ {c}
  PROVE  /\ Same(d) /\ UNCHANGED shared => Conversation(d)'
         /\ Same(d) /\ Noticed(d) /\ (alive' => alive) => Conversation(d)'
<1>1. UNCHANGED shared => (alive' => alive) /\ Existing' = Existing
  BY DEF shared, Existing
<1>2. UNCHANGED shared => Noticed(d)
  BY <1>1 DEF Noticed
<1> QED BY <1>1, <1>2, OtherKept DEF IInv

LEMMA InitIInv == Init => IInv
<1> SUFFICES ASSUME Init PROVE IInv
  OBVIOUS
<1>1. /\ NoTask \in TaskType /\ NoTask \in Meant
      /\ \A S : <<>> \in Seq(S)
  BY DEF NoTask, Task, TaskType, Meant, NoId
<1>2. ClientTypes /\ ConnTypes /\ ThreadTypes /\ GhostTypes
  BY <1>1 DEF Init, ClientTypes, ConnTypes, ThreadTypes, GhostTypes
<1>3. table \in [Ids -> Entry]
  BY ClientAssumption DEF Init, Entry, NoPath
<1>4. cnt \in Int
  <2>1. IsFiniteSet(Existing)
    <3>1. Existing \in SUBSET Ids /\ IsFiniteSet(Ids)
      BY ClientAssumption DEF Existing
    <3> QED BY <3>1, FS_Subset
  <2>2. Cardinality(Existing) \in Nat
    BY <2>1, FS_CardinalityType
  <2> QED BY <2>2 DEF Init
<1>5. SharedTypes /\ LockSends
  BY <1>3, <1>4 DEF Init, SharedTypes, LockSends
<1>6. \A c \in Clients : Conversation(c)
  BY <1>1 DEF Init, Conversation, Before, Silent
<1>7. DeathHasCause
  BY DEF Init, DeathHasCause
<1> QED BY <1>2, <1>5, <1>6, <1>7 DEF IInv, Types

\* Every step keeps the invariant.
LEMMA NextIInv == IInv /\ [Next]_vars => IInv'
<1> SUFFICES ASSUME IInv, [Next]_vars PROVE IInv'
  OBVIOUS
<1>1. ASSUME NEW c \in Clients, NEW line \in Lines, NEW junk \in Junk,
             Ask(c, line, junk)
      PROVE  IInv'
  <2>1. /\ Types' /\ Conversation(c)' /\ cpc[c] = "idle"
        /\ \A d \in Clients \ {c} : Same(d) /\ UNCHANGED shared
    BY <1>1, AskStep
  <2>2. \A d \in Clients : Conversation(d)'
    BY <2>1, Others
  <2>3. DeathHasCause'
    <3>1. UNCHANGED alive
      BY <1>1 DEF Ask, shared
    <3> QED BY <2>1, <3>1 DEF IInv, DeathHasCause, Same
  <2> QED BY <2>1, <2>2, <2>3 DEF IInv
<1>2. ASSUME NEW c \in Clients, ClientStep(c) \/ ConnectionReset(c) \/ Leave(c)
      PROVE  IInv'
  <2>1. /\ Types' /\ Conversation(c)' /\ Running(c)
        /\ \A d \in Clients \ {c} : Same(d) /\ UNCHANGED shared
    BY <1>2, ClientTakesStep
  <2>2. \A d \in Clients : Conversation(d)'
    BY <2>1, Others
  <2>3. DeathHasCause'
    <3>1. UNCHANGED alive
      BY <1>2 DEF ClientStep, SendRequest, ReadFlag, ReadCount, ReadSize, ReadText,
                  ConnectionReset, Leave, shared
    <3> QED BY <2>1, <3>1 DEF IInv, DeathHasCause, Same, Running
  <2> QED BY <2>1, <2>2, <2>3 DEF IInv
<1>3. ASSUME NEW c \in Clients, ThreadStep(c) \/ ThreadNoMemory(c)
      PROVE  IInv'
  <2>1. /\ Types' /\ Conversation(c)' /\ alive
        /\ \A d \in Clients \ {c} : Same(d) /\ Noticed(d) /\ (alive' => alive)
        /\ ~alive' => SendGone(c)
    BY <1>3, ThreadTakesStep
  <2>2. \A d \in Clients : Conversation(d)'
    BY <2>1, Others
  <2>3. DeathHasCause'
    <3>1. SUFFICES ASSUME ~alive' PROVE DeathHasCause'
      BY DEF DeathHasCause
    <3>2. cpc[c] = "left" \/ (cpc[c] = "ended" /\ meant[c].cnt = 6 /\ ~quiet[c])
      BY <2>1, <3>1, SendGoneKeeps
    <3>3. UNCHANGED client /\ UNCHANGED ghost
      BY <2>1, <3>1 DEF SendGone
    <3> QED BY <3>2, <3>3 DEF DeathHasCause, client, ghost
  <2> QED BY <2>1, <2>2, <2>3 DEF IInv
<1>4. ASSUME NEW i \in Ids, Completes(i)
      PROVE  IInv'
  BY <1>4, CompletesKeeps
<1>5. CASE UNCHANGED vars
  <2>1. /\ UNCHANGED client /\ UNCHANGED conn /\ UNCHANGED thread /\ UNCHANGED shared
        /\ UNCHANGED ghost
    BY <1>5 DEF vars
  <2>2. Types'
    BY <2>1, TypesKept DEF IInv, Types, LockSends, thread, shared
  <2>3. \A d \in Clients : Conversation(d)'
    <3> SUFFICES ASSUME NEW d \in Clients PROVE Conversation(d)'
      OBVIOUS
    <3>1. Same(d) /\ Noticed(d) /\ (alive' => alive)
      BY <2>1 DEF Same, Noticed, client, conn, thread, shared, ghost, Existing
    <3> QED BY <3>1, OtherKept DEF IInv
  <2>4. DeathHasCause'
    BY <2>1 DEF IInv, DeathHasCause, client, shared, ghost
  <2> QED BY <2>2, <2>3, <2>4 DEF IInv
<1> QED BY <1>1, <1>2, <1>3, <1>4, <1>5, Zenon DEF Next
-----------------------------------------------------------------------------
(* The theorems *)

\* The inductive invariant holds: whatever clients ask, in whatever order
\* steps are taken, and whoever leaves, each conversation is in one of its
\* four phases, and what a client has not read is the rest of its reply.
THEOREM Conversations == Spec => []IInv
<1>1. Init => IInv
  BY InitIInv
<1>2. IInv /\ [Next]_vars => IInv'
  BY NextIInv
<1> QED BY <1>1, <1>2, PTL DEF Spec

\* The variables stay in their types, and the holder of analyses_mutex is a
\* thread that is about to send its reply.
THEOREM TypeCorrect == Spec => []TypeOK
<1>1. IInv => TypeOK
  BY TypesTypeOK DEF IInv
<1> QED BY <1>1, Conversations, PTL

\* The task that readTask returns is the one that get_task made of the
\* command line, but for numbers that taskToString has cut.
THEOREM TasksArrive == Spec => []TaskArrives
<1>1. IInv => TaskArrives
  <2> SUFFICES ASSUME IInv, NEW c \in Clients, served[c] # NoTask
               PROVE  /\ served[c].cnt = meant[c].cnt
                      /\ Fits(meant[c]) /\ meant[c].cnt # 6 => served[c] = meant[c]
                      /\ served[c].cnt = 1 => served[c].path = meant[c].path
    BY DEF TaskArrives
  <2>1. meant[c] \in Meant /\ Conversation(c)
    BY DEF IInv, Conversation
  <2>2. meant[c] # NoTask /\ served[c] = Carried(meant[c])
    BY <2>1, Zenon DEF Conversation, Before, Asking, Serving, Replying
  <2> QED BY <2>1, <2>2, CarriedTask, MeantType
<1> QED BY <1>1, Conversations, PTL

\* A client never takes a reply apart at another place than the thread has
\* put it together: what it has printed are the first texts of the reply.
THEOREM RepliesKeepFrame == Spec => []Framing
<1>1. IInv => Framing
  <2> SUFFICES ASSUME IInv, NEW c \in Clients
               PROVE  IsPrefixOf(printed[c], said[c])
    BY DEF Framing
  <2>1. Conversation(c) /\ printed[c] \in Seq(Seq(Cell)) /\ said[c] \in Seq(Texts)
    BY DEF IInv, Types, ClientTypes, GhostTypes
  <2>2. /\ Len(printed[c]) <= Len(said[c])
        /\ \A k \in 1 .. Len(printed[c]) : printed[c][k] = said[c][k]
    <3>1. CASE Silent(c)
      BY <3>1 DEF Silent
    <3>2. CASE Replying(c)
      BY <3>2 DEF Replying
    <3> QED BY <2>1, <3>1, <3>2 DEF Conversation, Before, Asking, Serving
  <2>3. SubSeq(said[c], 1, Len(printed[c])) = printed[c]
    BY <2>1, <2>2 DEF Texts
  <2> QED BY <2>2, <2>3 DEF IsPrefixOf
<1> QED BY <1>1, Conversations, PTL

\* A client that is through while the manager lives has printed all of the
\* reply, but for a report that is not written yet and for a list that was
\* made while the table changed.
THEOREM RepliesAreWhole == Spec => []WholeReply
<1>1. IInv => WholeReply
  <2> SUFFICES ASSUME IInv, NEW c \in Clients,
                      cpc[c] = "ended", meant[c].cnt \in 1 .. 7, alive
               PROVE  \/ printed[c] = said[c] /\ (said[c] # <<>> \/ meant[c].cnt = 6)
                      \/ flag[c] = "1" /\ printed[c] = <<>>
                      \/ meant[c].cnt = 6 /\ ~quiet[c]
    BY DEF WholeReply
  <2>1. Conversation(c)
    BY DEF IInv
  <2>2. ~Before(c)
    BY DEF Before, NoTask, Task
  <2>3. ~Waits(c)
    BY DEF Waits, Gone, ReadsAfter
  <2>4. Through(c) /\ Shape(c)
    <3>1. Replying(c)
      BY <2>1, <2>2, <2>3 DEF Conversation, Asking, Serving
    <3>2. ~Running(c)
      BY DEF Running
    <3> QED BY <3>1, <3>2 DEF Replying
  <2>5. meant[c].cnt # 6 => said[c] # <<>>
    BY <2>4 DEF Shape
  <2> QED BY <2>4, <2>5 DEF Through
<1> QED BY <1>1, Conversations, PTL

\* The manager dies of a SIGPIPE for a client that left, or for one that
\* stopped reading a list that was made while the table changed.
THEOREM DeathsHaveCause == Spec => []DeathHasCause
<1>1. IInv => DeathHasCause
  BY DEF IInv
<1> QED BY <1>1, Conversations, PTL
=============================================================================

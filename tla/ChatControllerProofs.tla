------------------------ MODULE ChatControllerProofs ------------------------
(***************************************************************************)
(* Facts of the desktop chat that hold for any number of conversations,    *)
(* messages, chunks and clicks.                                            *)
(***************************************************************************)
EXTENDS ChatController, TLAPS

-----------------------------------------------------------------------------
(* Type correctness.  What a statement or a handler takes from a job or a   *)
(* signal is there: the conversation worked on, the row to insert, the copy *)
(* that was created, the generation that signalled.                         *)
GoodJob ==
    {j \in Job : /\ j.op \in {"load", "archive", "delete", "duplicate"} => j.conv \in Convs
                 /\ j.op = "add" => j.rows # <<>>
                 /\ j.op = "duplicate" /\ j.step > 3 => j.copy \in Convs}

GoodSignal ==
    {s \in Signal : /\ s.kind \in {"text", "done"} => s.gen \in Gens
                    /\ s.kind = "text" => s.index \in 1 .. MaxChunks}

Queues == jobs \in Seq(GoodJob) /\ signals \in Seq(GoodSignal)

Types == TypeOK /\ Queues

LEMMA Constants ==
  /\ MaxConvs \in Nat /\ MaxGens \in Nat /\ MaxChunks \in Nat
  /\ 0 \in 0 .. MaxConvs /\ 0 \in 0 .. MaxGens /\ 0 \in 0 .. MaxChunks
  /\ Convs \subseteq 0 .. MaxConvs /\ Gens \subseteq 0 .. MaxGens
BY ChatConstants DEF Convs, Gens

LEMMA Subsequences ==
  /\ Seq(GoodJob) \subseteq Seq(Job)
  /\ Seq(GoodSignal) \subseteq Seq(Signal)
BY DEF GoodJob, GoodSignal

LEMMA Concatenation ==
  ASSUME NEW S, NEW s \in Seq(S), NEW t \in Seq(S)
  PROVE  s \o t \in Seq(S)
OBVIOUS

(* Jobs and signals as they are made. *)
LEMMA NewJobGood ==
  ASSUME NEW op \in Ops \ {"add"}, NEW c \in 0 .. MaxConvs,
         op \in {"load", "archive", "delete", "duplicate"} => c \in Convs
  PROVE  NewJob(op, c) \in GoodJob
<1>1. <<>> \in Seq(Message)
  OBVIOUS
<1>2. NewJob(op, c) \in Job
  BY <1>1, Constants DEF NewJob, Job
<1> QED BY <1>2 DEF NewJob, GoodJob

LEMMA AddJobGood ==
  ASSUME NEW c \in 0 .. MaxConvs, NEW m \in Message
  PROVE  AddJob(c, m) \in GoodJob
<1> DEFINE j == NewJob("add", c)
<1>1. <<m>> \in Seq(Message) /\ <<>> \in Seq(Message) /\ <<m>> # <<>>
  OBVIOUS
<1>2. j \in Job /\ j.op = "add"
  BY <1>1, Constants DEF NewJob, Job, Ops
<1>3. AddJob(c, m) = [j EXCEPT !.rows = <<m>>]
  BY DEF AddJob
<1> HIDE DEF j
<1>4. [j EXCEPT !.rows = <<m>>] \in GoodJob
  BY <1>1, <1>2 DEF GoodJob, Job
<1> QED BY <1>3, <1>4

LEMMA NewSignalGood ==
  ASSUME NEW kind \in {"create", "createSend", "load", "refresh", "list"},
         NEW c \in 0 .. MaxConvs, NEW rows \in Seq(Message), NEW shown \in SUBSET Convs
  PROVE  /\ NewSignal(kind) \in GoodSignal
         /\ [NewSignal(kind) EXCEPT !.conv = c] \in GoodSignal
         /\ [NewSignal(kind) EXCEPT !.rows = rows] \in GoodSignal
         /\ [NewSignal(kind) EXCEPT !.shown = shown] \in GoodSignal
<1>1. <<>> \in Seq(Message)
  OBVIOUS
<1>2. /\ NewSignal(kind) \in Signal
      /\ [NewSignal(kind) EXCEPT !.conv = c] \in Signal
      /\ [NewSignal(kind) EXCEPT !.rows = rows] \in Signal
      /\ [NewSignal(kind) EXCEPT !.shown = shown] \in Signal
  BY <1>1, Constants DEF NewSignal, Signal
<1> QED BY <1>2 DEF NewSignal, GoodSignal

LEMMA StreamSignalGood ==
  ASSUME NEW g \in Gens, NEW i \in 1 .. MaxChunks
  PROVE  /\ [NewSignal("text") EXCEPT !.gen = g, !.index = i] \in GoodSignal
         /\ [NewSignal("done") EXCEPT !.gen = g] \in GoodSignal
<1>1. <<>> \in Seq(Message)
  OBVIOUS
<1>2. i \in 0 .. MaxChunks
  BY Constants
<1>3. /\ [NewSignal("text") EXCEPT !.gen = g, !.index = i] \in Signal
      /\ [NewSignal("done") EXCEPT !.gen = g] \in Signal
  BY <1>1, <1>2, Constants DEF NewSignal, Signal
<1> QED BY <1>3 DEF NewSignal, GoodSignal

(* Statements keep the database a database. *)
LEMMA Statements ==
  ASSUME NEW d \in Database, NEW c \in Convs, NEW n \in Nat
  PROVE  /\ InsertConversation(d, c) \in Database
         /\ CountMessage(d, c) \in Database
         /\ SetTotal(d, c, n) \in Database
         /\ Archive(d, c) \in Database
         /\ DeleteConversation(d, c) \in Database
         /\ Listed(d) \in SUBSET Convs
<1>1. <<>> \in Seq(Message)
  OBVIOUS
<1>2. InsertConversation(d, c) \in Database
  BY DEF Database, InsertConversation
<1>3. CountMessage(d, c) \in Database /\ SetTotal(d, c, n) \in Database
  <2>1. d.total[c] + 1 \in Nat
    BY DEF Database
  <2>2. [d.total EXCEPT ![c] = d.total[c] + 1] \in [Convs -> Nat]
    BY <2>1 DEF Database
  <2>3. [d.total EXCEPT ![c] = n] \in [Convs -> Nat]
    BY DEF Database
  <2> QED BY <2>2, <2>3 DEF Database, CountMessage, SetTotal
<1>4. Archive(d, c) \in Database /\ Listed(d) \in SUBSET Convs
  BY DEF Database, Archive, Listed
<1>5. DeleteConversation(d, c) \in Database
  <2>1. [d.total EXCEPT ![c] = 0] \in [Convs -> Nat]
    BY DEF Database
  <2>2. [d.msgs EXCEPT ![c] = <<>>] \in [Convs -> Seq(Message)]
    BY <1>1 DEF Database
  <2> QED BY <2>1, <2>2 DEF Database, DeleteConversation
<1> QED BY <1>2, <1>3, <1>4, <1>5

LEMMA Insertion ==
  ASSUME NEW d \in Database, NEW c, NEW m \in Message, MayInsertMessage(d, c)
  PROVE  c \in Convs /\ InsertMessage(d, c, m) \in Database
<1>1. c \in Convs
  BY DEF Database, MayInsertMessage
<1>2. Append(d.msgs[c], m) \in Seq(Message)
  BY <1>1 DEF Database
<1>3. [d.msgs EXCEPT ![c] = Append(d.msgs[c], m)] \in [Convs -> Seq(Message)]
  BY <1>1, <1>2 DEF Database
<1> QED BY <1>1, <1>3 DEF Database, InsertMessage

-----------------------------------------------------------------------------
(* The queues: every operation has been taken from one and put into one.     *)
LEMMA HeadJob ==
  ASSUME Queues, jobs # <<>>
  PROVE  Head(jobs) \in GoodJob /\ Tail(jobs) \in Seq(GoodJob)
BY DEF Queues

LEMMA HeadSignal ==
  ASSUME Queues, signals # <<>>
  PROVE  Head(signals) \in GoodSignal /\ Tail(signals) \in Seq(GoodSignal)
BY DEF Queues

LEMMA Continues ==
  ASSUME Queues, jobs # <<>>, NEW j \in GoodJob, Continue(j)
  PROVE  Queues'
BY HeadJob DEF Queues, Continue

LEMMA Completes ==
  ASSUME Queues, jobs # <<>>, NEW s \in GoodSignal, Complete(s) \/ CompleteQuietly
  PROVE  Queues'
<1>1. jobs' \in Seq(GoodJob)
  BY HeadJob DEF Complete, CompleteQuietly
<1>2. Append(signals, s) \in Seq(GoodSignal)
  BY DEF Queues
<1>3. signals' = Append(signals, s) \/ signals' = signals
  BY DEF Complete, CompleteQuietly
<1> QED BY <1>1, <1>2, <1>3 DEF Queues

(* One statement further, with what it returned. *)
LEMMA NextFields ==
  ASSUME NEW j \in Job
  PROVE  Next1(j) \in Job /\ Next1(j) = [op |-> j.op, conv |-> j.conv, copy |-> j.copy,
                       step |-> j.step + 1, rows |-> j.rows, count |-> j.count, shown |-> j.shown]
<1>1. Next1(j) = [op |-> j.op, conv |-> j.conv, copy |-> j.copy,
                  step |-> j.step + 1, rows |-> j.rows, count |-> j.count, shown |-> j.shown]
  BY DEF Next1, Job
<1> QED BY <1>1 DEF Job

LEMMA NextGood ==
  ASSUME NEW j \in GoodJob, j.op = "duplicate" => j.copy \in Convs \/ j.step < 3
  PROVE  Next1(j) \in GoodJob
<1>1. j \in Job
  BY DEF GoodJob
<1>2. j.step \in Nat
  BY <1>1 DEF Job
<1> QED BY <1>1, <1>2, NextFields DEF GoodJob

LEMMA NextWith ==
  ASSUME NEW j \in GoodJob, NEW c \in Convs
  PROVE  /\ j.op \in {"create", "createSend"} => [Next1(j) EXCEPT !.conv = c] \in GoodJob
         /\ j.op = "duplicate" => [Next1(j) EXCEPT !.copy = c] \in GoodJob
<1> DEFINE k == Next1(j)
<1>1. j \in Job /\ k \in Job /\ k.op = j.op /\ k.conv = j.conv /\ k.copy = j.copy
  BY NextFields DEF GoodJob
<1>2. c \in 0 .. MaxConvs
  BY Constants
<1> HIDE DEF k
<1>3. [k EXCEPT !.conv = c] \in Job /\ [k EXCEPT !.copy = c] \in Job
  BY <1>1, <1>2 DEF Job
<1>4. j.op \in {"create", "createSend"} => [k EXCEPT !.conv = c] \in GoodJob
  BY <1>1, <1>3 DEF GoodJob, Job
<1>5. j.op = "duplicate" => [k EXCEPT !.copy = c] \in GoodJob
  BY <1>1, <1>3 DEF GoodJob, Job
<1> QED BY <1>4, <1>5 DEF k

LEMMA NextReading ==
  ASSUME NEW j \in GoodJob, j.op = "duplicate" => j.copy \in Convs \/ j.step < 3, j.op # "add",
         NEW rows \in Seq(Message), NEW n \in Nat, NEW shown \in SUBSET Convs
  PROVE  /\ [Next1(j) EXCEPT !.rows = rows] \in GoodJob
         /\ [Next1(j) EXCEPT !.count = n] \in GoodJob
         /\ [Next1(j) EXCEPT !.shown = shown] \in GoodJob
         /\ [j EXCEPT !.rows = rows] \in GoodJob
<1> DEFINE k == Next1(j)
<1>1. /\ j \in Job /\ k \in Job /\ k.op = j.op /\ k.conv = j.conv /\ k.copy = j.copy
      /\ k \in GoodJob
  BY NextFields, NextGood DEF GoodJob
<1> HIDE DEF k
<1>2. /\ [k EXCEPT !.rows = rows] \in Job /\ [k EXCEPT !.count = n] \in Job
      /\ [k EXCEPT !.shown = shown] \in Job /\ [j EXCEPT !.rows = rows] \in Job
  BY <1>1 DEF Job
<1>3. [k EXCEPT !.rows = rows] \in GoodJob /\ [k EXCEPT !.count = n] \in GoodJob
  BY <1>1, <1>2 DEF GoodJob, Job
<1>4. [k EXCEPT !.shown = shown] \in GoodJob /\ [j EXCEPT !.rows = rows] \in GoodJob
  BY <1>1, <1>2 DEF GoodJob, Job
<1> QED BY <1>3, <1>4 DEF k

(* What a SELECT and its fetch return of messages. *)
LEMMA RowsRead ==
  ASSUME NEW ms \in Seq(Message), NEW first \in Seq(Message)
  PROVE  First(ms) \in Seq(Message) /\ Fetched(first, ms) \in Seq(Message)
<1>1. ms # <<>> => Head(ms) \in Message
  OBVIOUS
<1> QED BY <1>1 DEF First, Fetched

(* What the statements work on: the missed messages are noted by JobStep.    *)
Tables == db \in Database /\ durable \in Database /\ ids \in 0 .. MaxConvs

LEMMA CreateTypes ==
  ASSUME Tables, Queues, NEW op \in {"create", "createSend"}, Create(op)
  PROVE  Tables' /\ Queues'
<1> DEFINE j == Head(jobs)
<1>1. jobs # <<>> /\ j \in GoodJob /\ j.op = op
  BY HeadJob DEF Create, At
<1>2. CASE At(op, 1) /\ ids < MaxConvs
  <2>1. ids + 1 \in Convs
    BY <1>2, Constants DEF Tables, Convs
  <2>2. ids' \in 0 .. MaxConvs /\ db' \in Database /\ durable' = durable
    BY <1>2, <2>1, Statements, Constants, 0 \in Nat DEF Create, At, Tables
  <2>3. [Next1(j) EXCEPT !.conv = ids + 1] \in GoodJob
    BY <1>1, <2>1, NextWith
  <2>4. Continue([Next1(j) EXCEPT !.conv = ids + 1])
    BY <1>2 DEF Create, At
  <2> QED BY <1>1, <2>2, <2>3, <2>4, Continues DEF Tables
<1>3. CASE At(op, 2)
  <2>1. Tables'
    BY <1>3 DEF Create, At, Tables, Commit
  <2>2. j.conv \in 0 .. MaxConvs
    BY <1>1 DEF GoodJob, Job
  <2>3. [NewSignal(op) EXCEPT !.conv = j.conv] \in GoodSignal
    BY <2>2, NewSignalGood, <<>> \in Seq(Message), {} \in SUBSET Convs
  <2>4. Complete([NewSignal(op) EXCEPT !.conv = j.conv])
    BY <1>3 DEF Create, At
  <2> QED BY <1>1, <2>1, <2>3, <2>4, Completes
<1> QED BY <1>2, <1>3 DEF Create

LEMMA AddTypes ==
  ASSUME Tables, Queues, Add
  PROVE  Tables' /\ Queues'
<1> DEFINE j == Head(jobs)
<1>1. jobs # <<>> /\ j \in GoodJob /\ j.op = "add"
  BY HeadJob DEF Add, At
<1>2. Next1(j) \in GoodJob
  BY <1>1, NextGood
<1>3. NewSignal("list") \in GoodSignal
  BY NewSignalGood, Constants, <<>> \in Seq(Message), {} \in SUBSET Convs
<1>4. CASE At("add", 1) /\ MayInsertMessage(db, j.conv)
  <2>1. Head(j.rows) \in Message
    BY <1>1 DEF GoodJob, Job
  <2>2. db' = InsertMessage(db, j.conv, Head(j.rows)) /\ Continue(Next1(j)) /\ UNCHANGED <<durable, ids>>
    BY <1>4 DEF Add, At
  <2> QED BY <1>1, <1>2, <1>4, <2>1, <2>2, Insertion, Continues DEF Tables
<1>5. CASE At("add", 1) /\ ~MayInsertMessage(db, j.conv)
  <2>1. CompleteQuietly /\ UNCHANGED dbVars
    BY <1>5 DEF Add, At
  <2> QED BY <1>1, <1>3, <2>1, Completes DEF Tables, dbVars
<1>6. CASE At("add", 2)
  <2>1. db' = CountMessage(db, j.conv) /\ Continue(Next1(j)) /\ UNCHANGED <<durable, ids>>
    BY <1>6 DEF Add, At
  <2>2. CountMessage(db, j.conv) \in Database
    <3>1. CASE j.conv \in db.convs
      <4>1. j.conv \in Convs
        BY <3>1 DEF Tables, Database
      <4> QED BY <4>1, Statements, 0 \in Nat DEF Tables
    <3>2. CASE j.conv \notin db.convs
      BY <3>2 DEF CountMessage, Tables
    <3> QED BY <3>1, <3>2
  <2> QED BY <1>1, <1>2, <2>1, <2>2, Continues DEF Tables
<1>7. CASE At("add", 3)
  <2>1. Commit /\ CompleteQuietly /\ UNCHANGED <<db, ids>>
    BY <1>7 DEF Add, At
  <2> QED BY <1>1, <1>3, <2>1, Completes DEF Tables, Commit
<1> QED BY <1>4, <1>5, <1>6, <1>7 DEF Add

LEMMA ReadTypes ==
  ASSUME Tables, Queues, Load \/ List
  PROVE  Tables' /\ Queues'
<1> DEFINE j == Head(jobs)
<1>1. jobs # <<>> /\ j \in GoodJob /\ UNCHANGED dbVars
  BY HeadJob DEF Load, List, At
<1>2. Tables'
  BY <1>1 DEF Tables, dbVars
<1>3. CASE Load
  <2> DEFINE ms == db.msgs[j.conv]
  <2>1. /\ j.op = "load"
        /\ \/ Continue([Next1(j) EXCEPT !.rows = First(ms)])
           \/ Complete([NewSignal("load") EXCEPT !.rows = Fetched(j.rows, ms)])
    BY <1>3 DEF Load, At
  <2>2. ms \in Seq(Message) /\ j.rows \in Seq(Message)
    BY <1>1, <2>1 DEF GoodJob, Tables, Database, Job
  <2> HIDE DEF ms
  <2>3. First(ms) \in Seq(Message) /\ Fetched(j.rows, ms) \in Seq(Message)
    BY <2>2, RowsRead
  <2>4. [NewSignal("load") EXCEPT !.rows = Fetched(j.rows, ms)] \in GoodSignal
    BY <2>3, NewSignalGood, Constants, {} \in SUBSET Convs
  <2>5. [Next1(j) EXCEPT !.rows = First(ms)] \in GoodJob
    BY <1>1, <2>1, <2>3, NextReading, 0 \in Nat, {} \in SUBSET Convs
  <2> QED BY <1>1, <1>2, <2>1, <2>4, <2>5, Continues, Completes
<1>4. CASE List
  <2>1. /\ j.op = "list"
        /\ \/ Continue([Next1(j) EXCEPT !.shown = Listed(db)])
           \/ Complete([NewSignal("list") EXCEPT !.shown = j.shown])
    BY <1>4 DEF List, At
  <2>2. Listed(db) \in SUBSET Convs /\ j.shown \in SUBSET Convs
    BY <1>1 DEF Listed, Tables, Database, GoodJob, Job
  <2>3. [NewSignal("list") EXCEPT !.shown = j.shown] \in GoodSignal
    BY <2>2, NewSignalGood, Constants, <<>> \in Seq(Message)
  <2>4. [Next1(j) EXCEPT !.shown = Listed(db)] \in GoodJob
    BY <1>1, <2>1, <2>2, NextReading, 0 \in Nat, <<>> \in Seq(Message)
  <2> QED BY <1>1, <1>2, <2>1, <2>3, <2>4, Continues, Completes
<1> QED BY <1>3, <1>4

LEMMA ChangeTypes ==
  ASSUME Tables, Queues, NEW op \in {"archive", "delete"}, NEW d,
         jobs # <<>> /\ Head(jobs).conv \in Convs => d \in Database,
         Change(op, d)
  PROVE  Tables' /\ Queues'
<1> DEFINE j == Head(jobs)
<1>1. jobs # <<>> /\ j \in GoodJob /\ j.op = op
  BY HeadJob DEF Change, At
<1>2. j.conv \in Convs
  BY <1>1 DEF GoodJob
<1>3. CASE At(op, 1)
  <2>1. db' = d /\ Continue(Next1(j)) /\ UNCHANGED <<durable, ids>>
    BY <1>3 DEF Change, At
  <2>2. Next1(j) \in GoodJob
    BY <1>1, NextGood
  <2> QED BY <1>1, <1>2, <2>1, <2>2, Continues DEF Tables
<1>4. CASE At(op, 2)
  <2>1. Commit /\ Complete(NewSignal("refresh")) /\ UNCHANGED <<db, ids>>
    BY <1>4 DEF Change, At
  <2>2. NewSignal("refresh") \in GoodSignal
    BY NewSignalGood, Constants, <<>> \in Seq(Message), {} \in SUBSET Convs
  <2> QED BY <1>1, <2>1, <2>2, Completes DEF Tables, Commit
<1> QED BY <1>3, <1>4 DEF Change

LEMMA DuplicateTypes ==
  ASSUME Tables, Queues, DuplicateBegins \/ DuplicateRow \/ DuplicateEnds
  PROVE  Tables' /\ Queues'
<1> DEFINE j == Head(jobs)
<1>1. jobs # <<>> /\ j \in GoodJob /\ j \in Job /\ j.op = "duplicate"
  BY HeadJob DEF DuplicateBegins, DuplicateRow, DuplicateEnds, At, GoodJob
<1>2. /\ j.conv \in Convs /\ j.step \in Nat /\ j.rows \in Seq(Message) /\ j.count \in Nat
  BY <1>1 DEF GoodJob, Job
<1>3. j.step > 3 => j.copy \in Convs
  BY <1>1 DEF GoodJob
<1>4. NewSignal("refresh") \in GoodSignal
  BY NewSignalGood, Constants, <<>> \in Seq(Message), {} \in SUBSET Convs
<1>5. j.step < 3 \/ j.step > 3 => Next1(j) \in GoodJob
  BY <1>1, <1>3, NextGood
<1>6. \A c \in Convs : db.msgs[c] \in Seq(Message) /\ Len(db.msgs[c]) \in Nat
  BY DEF Tables, Database
<1> HIDE DEF j
<1>7. CASE At("duplicate", 1)
  <2> DEFINE n == IF j.conv \in db.convs THEN 1 ELSE 0
  <2>1. UNCHANGED dbVars /\ j.step = 1 /\ Continue([Next1(j) EXCEPT !.count = n])
    BY <1>7 DEF DuplicateBegins, DuplicateRow, DuplicateEnds, At, j
  <2>2. n \in Nat
    OBVIOUS
  <2> HIDE DEF n
  <2>3. [Next1(j) EXCEPT !.count = n] \in GoodJob
    <3>1. (j.op = "duplicate" => j.copy \in Convs \/ j.step < 3) /\ j.op # "add"
      BY <1>1, <2>1
    <3>2. <<>> \in Seq(Message) /\ {} \in SUBSET Convs
      OBVIOUS
    <3> QED BY Zenon, <1>1, <2>2, <3>1, <3>2, NextReading
  <2> QED BY <1>1, <2>1, <2>3, Continues DEF Tables, dbVars
<1>8. CASE At("duplicate", 2)
  <2>1. UNCHANGED dbVars /\ (Continue(Next1(j)) \/ Complete(NewSignal("refresh"))) /\ j.step = 2
    BY <1>8 DEF DuplicateBegins, DuplicateRow, DuplicateEnds, At, j
  <2> QED BY <1>1, <1>4, <1>5, <2>1, Continues, Completes DEF Tables, dbVars
<1>9. CASE At("duplicate", 3)
  <2>1. /\ ids < MaxConvs /\ ids' = ids + 1 /\ db' = InsertConversation(db, ids + 1)
        /\ Continue([Next1(j) EXCEPT !.copy = ids + 1]) /\ UNCHANGED durable
    BY <1>9 DEF DuplicateBegins, DuplicateRow, DuplicateEnds, At, j
  <2>2. ids + 1 \in Convs
    BY <2>1, Constants DEF Tables, Convs
  <2>3. Tables'
    BY <2>1, <2>2, Statements, Constants, 0 \in Nat DEF Tables
  <2>4. [Next1(j) EXCEPT !.copy = ids + 1] \in GoodJob
    BY <1>1, <2>2, NextWith
  <2> QED BY <1>1, <2>1, <2>3, <2>4, Continues
<1>10. CASE At("duplicate", 4) \/ At("duplicate", 10)
  <2>1. Commit /\ Continue(Next1(j)) /\ UNCHANGED <<db, ids>> /\ j.step > 3
    BY <1>10 DEF DuplicateBegins, DuplicateRow, DuplicateEnds, At, j
  <2> QED BY <1>1, <1>5, <2>1, Continues DEF Tables, Commit
<1>11. CASE At("duplicate", 5) \/ At("duplicate", 6)
  <2> DEFINE ms == db.msgs[j.conv]
  <2>1. /\ UNCHANGED dbVars /\ j.step > 3
        /\ \/ Continue([Next1(j) EXCEPT !.rows = First(ms)])
           \/ Continue([Next1(j) EXCEPT !.rows = Fetched(j.rows, ms)])
    BY <1>11 DEF DuplicateBegins, DuplicateRow, DuplicateEnds, At, j
  <2>2. First(ms) \in Seq(Message) /\ Fetched(j.rows, ms) \in Seq(Message)
    BY <1>2, <1>6, RowsRead
  <2>3. \A rows \in Seq(Message) : [Next1(j) EXCEPT !.rows = rows] \in GoodJob
    BY <1>1, <1>3, <2>1, NextReading, 0 \in Nat, {} \in SUBSET Convs
  <2> QED BY <1>1, <2>1, <2>2, <2>3, Continues DEF Tables, dbVars
<1>12. CASE DuplicateRow
  <2>1. j.rows # <<>> /\ j.step = 7 /\ UNCHANGED <<durable, ids>>
    BY <1>12 DEF DuplicateRow, At, j
  <2>2. Head(j.rows) \in Message /\ Tail(j.rows) \in Seq(Message)
    BY <1>2, <2>1
  <2>3. CASE MayInsertMessage(db, j.copy)
    <3>1. db' = InsertMessage(db, j.copy, Head(j.rows)) /\ Continue([j EXCEPT !.rows = Tail(j.rows)])
      BY <1>12, <2>3 DEF DuplicateRow, j
    <3>2. [j EXCEPT !.rows = Tail(j.rows)] \in GoodJob
      <4>1. j.copy \in Convs
        BY <1>3, <2>1
      <4> QED BY <1>1, <2>2, <4>1, NextReading, 0 \in Nat, {} \in SUBSET Convs
    <3> QED BY <1>1, <2>1, <2>2, <2>3, <3>1, <3>2, Insertion, Continues DEF Tables
  <2>4. CASE ~MayInsertMessage(db, j.copy)
    <3>1. CompleteQuietly /\ UNCHANGED db
      BY <1>12, <2>4 DEF DuplicateRow, j
    <3> QED BY <1>1, <1>4, <2>1, <3>1, Completes DEF Tables
  <2> QED BY <2>3, <2>4
<1>13. CASE DuplicateEnds
  <2>1. CASE At("duplicate", 7)
    <3>1. /\ Continue([Next1(j) EXCEPT !.count = Len(db.msgs[j.copy])]) /\ UNCHANGED dbVars
          /\ j.step = 7
      BY <1>13, <2>1 DEF DuplicateEnds, At, j
    <3>2. [Next1(j) EXCEPT !.count = Len(db.msgs[j.copy])] \in GoodJob
      <4>1. j.copy \in Convs /\ Len(db.msgs[j.copy]) \in Nat
        BY <1>3, <1>6, <3>1
      <4> QED BY <1>1, <4>1, NextReading, <<>> \in Seq(Message), {} \in SUBSET Convs
    <3> QED BY <1>1, <3>1, <3>2, Continues DEF Tables, dbVars
  <2>2. CASE At("duplicate", 9)
    <3>1. /\ db' = SetTotal(db, j.copy, j.count) /\ Continue(Next1(j))
          /\ UNCHANGED <<durable, ids>> /\ j.step = 9
      BY <1>13, <2>2 DEF DuplicateEnds, At, j
    <3>2. SetTotal(db, j.copy, j.count) \in Database
      BY <1>2, <1>3, <3>1, Statements DEF Tables
    <3> QED BY <1>1, <1>5, <3>1, <3>2, Continues DEF Tables
  <2>3. CASE At("duplicate", 8) \/ At("duplicate", 11) \/ At("duplicate", 12)
    <3>1. /\ Continue(Next1(j)) \/ Complete(NewSignal("refresh"))
          /\ UNCHANGED dbVars /\ j.step > 3
      BY <1>13, <2>3 DEF DuplicateEnds, At, j
    <3> QED BY <1>1, <1>4, <1>5, <3>1, Continues, Completes DEF Tables, dbVars
  <2> QED BY <1>10, <1>13, <2>1, <2>2, <2>3 DEF DuplicateEnds
<1> QED BY <1>7, <1>8, <1>9, <1>10, <1>11, <1>12, <1>13 DEF DuplicateBegins

LEMMA StatementTypes ==
  ASSUME Tables, Queues, JobStep
  PROVE  Tables' /\ Queues'
<1>1. CASE \E op \in {"create", "createSend"} : Create(op)
  BY <1>1, CreateTypes
<1>2. CASE Add \/ Load \/ List
  BY <1>2, AddTypes, ReadTypes
<1>3. jobs # <<>> /\ Head(jobs).conv \in Convs =>
        /\ Archive(db, Head(jobs).conv) \in Database
        /\ DeleteConversation(db, Head(jobs).conv) \in Database
  BY Statements, 0 \in Nat DEF Tables
<1>4. CASE Change("archive", Archive(db, Head(jobs).conv))
  BY <1>3, <1>4, ChangeTypes
<1>5. CASE Change("delete", DeleteConversation(db, Head(jobs).conv))
  BY <1>3, <1>5, ChangeTypes
<1>6. CASE DuplicateBegins \/ DuplicateRow \/ DuplicateEnds
  BY <1>6, DuplicateTypes
<1> QED BY <1>1, <1>2, <1>4, <1>5, <1>6 DEF JobStep

LEMMA JobTypes ==
  ASSUME DbTypeOK, Queues, JobStep
  PROVE  DbTypeOK' /\ Queues'
<1>1. Tables' /\ Queues'
  BY StatementTypes DEF DbTypeOK, Tables
<1>2. Misses => Head(jobs).conv \in Convs
  BY DEF Misses, MayInsertMessage, DbTypeOK, Database
<1>3. missed' \subseteq Convs
  BY <1>2 DEF JobStep, DbTypeOK
<1> QED BY <1>1, <1>3 DEF DbTypeOK, Tables

(* Streams. *)
LEMMA StreamTypes ==
  ASSUME streams \in [Gens -> Stream], Queues, StreamStep
  PROVE  streams' \in [Gens -> Stream] /\ Queues'
<1>1. PICK g \in Gens : EmitChunk(g) \/ StreamEnds(g) \/ CancelLands(g)
  BY DEF StreamStep
<1>2. jobs' = jobs
  BY DEF StreamStep
<1>3. CASE EmitChunk(g)
  <2>1. /\ streams[g].sent + 1 \in 1 .. MaxChunks
        /\ streams[g] \in Stream
    BY <1>3, Constants DEF EmitChunk, Stream
  <2>2. streams' \in [Gens -> Stream]
    BY <1>3, <2>1, Constants DEF EmitChunk, Stream
  <2>3. [NewSignal("text") EXCEPT !.gen = g, !.index = streams[g].sent + 1] \in GoodSignal
    BY <2>1, StreamSignalGood
  <2> QED BY <1>2, <1>3, <2>2, <2>3 DEF EmitChunk, Queues
<1>4. CASE StreamEnds(g) \/ CancelLands(g)
  <2>1. streams' \in [Gens -> Stream]
    BY <1>4 DEF StreamEnds, CancelLands, Stream
  <2>2. [NewSignal("done") EXCEPT !.gen = g] \in GoodSignal
    <3>1. 1 \in 1 .. MaxChunks
      BY ChatConstants
    <3> QED BY <3>1, StreamSignalGood
  <2>3. signals' = Append(signals, [NewSignal("done") EXCEPT !.gen = g]) \/ signals' = signals
    BY <1>4 DEF StreamEnds, CancelLands
  <2>4. signals' \in Seq(GoodSignal)
    BY <2>2, <2>3 DEF Queues
  <2> QED BY <1>2, <2>1, <2>4 DEF Queues
<1> QED BY <1>1, <1>3, <1>4

-----------------------------------------------------------------------------
(* The main thread. *)
LEMMA QueuedTypes ==
  ASSUME Queues, streams' \in [Gens -> Stream], Queues'
  PROVE  RunnerTypeOK'
BY Subsequences DEF Queues, RunnerTypeOK

LEMMA SubmittedTypes ==
  ASSUME Queues, NEW op \in Ops \ {"add"}, NEW c \in 0 .. MaxConvs,
         op \in {"load", "archive", "delete", "duplicate"} => c \in Convs,
         Submitted(<<NewJob(op, c)>>)
  PROVE  jobs' \in Seq(GoodJob)
<1>1. <<NewJob(op, c)>> \in Seq(GoodJob)
  BY NewJobGood
<1> QED BY <1>1 DEF Queues, Submitted

LEMMA ConsumedTypes ==
  ASSUME Queues, NEW kind, Received(kind), Consumed
  PROVE  /\ signals' \in Seq(GoodSignal)
         /\ Head(signals) \in GoodSignal /\ Head(signals).kind = kind
         /\ Head(signals).conv \in 0 .. MaxConvs
         /\ Head(signals).rows \in Seq(Message)
         /\ Head(signals).shown \subseteq Convs
<1>1. Head(signals) \in GoodSignal /\ Tail(signals) \in Seq(GoodSignal)
  BY HeadSignal DEF Received
<1>2. Head(signals) \in Signal
  BY <1>1 DEF GoodSignal
<1> QED BY <1>1, <1>2 DEF Received, Consumed, Signal

LEMMA Messages ==
  ASSUME NEW g \in Gens, NEW text \in Seq(Chunk)
  PROVE  Question(g) \in Message /\ Reply(g, text) \in Message
<1>1. <<>> \in Seq(Chunk)
  OBVIOUS
<1> QED BY <1>1 DEF Question, Reply, Message, Chunk

(* What sending leaves of the types, whichever handler sends. *)
Sendable == /\ jobs \in Seq(GoodJob) /\ history \in Seq(Message) /\ genText \in Seq(Chunk)
            /\ home \in [Gens -> 0 .. MaxConvs] /\ streams \in [Gens -> Stream]
            /\ token \in 0 .. MaxGens /\ generating \in BOOLEAN /\ cut \subseteq Gens

LEMMA DoSendTypes ==
  ASSUME Sendable, NEW c \in 0 .. MaxConvs, NEW g \in Gens,
         NEW before \in Seq(GoodJob), NEW now \in Seq(Message), NEW after \in Seq(GoodJob),
         DoSend(c, g, before, now, after)
  PROVE  Sendable'
<1>1. Question(g) \in Message
  BY Messages, <<>> \in Seq(Chunk)
<1>2. jobs' \in Seq(GoodJob)
  <2>1. AddJob(c, Question(g)) \in GoodJob
    BY <1>1, AddJobGood
  <2>2. <<AddJob(c, Question(g))>> \in Seq(GoodJob)
    BY <2>1
  <2>3. jobs' = before \o <<AddJob(c, Question(g))>> \o after
    BY DEF DoSend
  <2>4. before \o <<AddJob(c, Question(g))>> \in Seq(GoodJob)
    BY <2>2
  <2> QED BY <2>3, <2>4
<1>3. history' \in Seq(Message) /\ genText' \in Seq(Chunk)
  BY <1>1 DEF DoSend
<1>4. home' \in [Gens -> 0 .. MaxConvs]
  BY DEF DoSend, Sendable
<1>5. CASE SubmitStreaming(g) /\ token' = g /\ generating' = TRUE /\ UNCHANGED cut
  <2>1. streams' \in [Gens -> Stream]
    BY <1>5 DEF SubmitStreaming, Sendable, Stream
  <2>2. g \in 0 .. MaxGens
    BY Constants
  <2> QED BY <1>2, <1>3, <1>4, <1>5, <2>1, <2>2 DEF Sendable
<1>6. CASE ProviderUnavailable
  <2>1. cut' \subseteq Gens
    BY <1>6 DEF ProviderUnavailable, Sendable, Gens
  <2> QED BY <1>2, <1>3, <1>4, <1>6, <2>1 DEF Sendable, ProviderUnavailable
<1> QED BY <1>5, <1>6 DEF DoSend

LEMMA FinishTypes ==
  ASSUME TypeOK, Queues, NEW g \in Gens, FinishGeneration(g)
  PROVE  /\ jobs' \in Seq(GoodJob) /\ history' \in Seq(Message) /\ answers' \in Seq(Answer)
         /\ token' = 0 /\ generating' = FALSE
<1>1. Reply(g, genText) \in Message
  BY Messages DEF TypeOK
<1>2. history' \in Seq(Message)
  BY <1>1 DEF FinishGeneration, TypeOK
<1>3. answers' \in Seq(Answer)
  <2>1. [stream |-> g, conv |-> active, text |-> genText] \in Answer
    BY DEF Answer, TypeOK
  <2> QED BY <2>1 DEF FinishGeneration, TypeOK
<1>4. jobs' \in Seq(GoodJob)
  <2> DEFINE new == <<AddJob(active, Reply(g, genText)), NewJob("list", 0)>>
  <2>1. AddJob(active, Reply(g, genText)) \in GoodJob
    BY <1>1, AddJobGood DEF TypeOK
  <2>2. NewJob("list", 0) \in GoodJob
    BY NewJobGood, Constants DEF Ops
  <2>3. new \in Seq(GoodJob)
    BY <2>1, <2>2
  <2>4. jobs' = jobs \/ jobs' = jobs \o new
    BY DEF FinishGeneration
  <2> HIDE DEF new
  <2>5. jobs \in Seq(GoodJob)
    BY DEF Queues
  <2> QED BY <2>3, <2>4, <2>5, Concatenation
<1> QED BY <1>2, <1>3, <1>4 DEF FinishGeneration

(* The parts of TypeOK that an action leaves alone, each under its name.     *)
UiTypes ==
    /\ active \in 0 .. MaxConvs /\ token \in 0 .. MaxGens
    /\ genText \in Seq(Chunk) /\ history \in Seq(Message)
    /\ pendingText \in 0 .. MaxGens /\ generating \in BOOLEAN
    /\ sidebar \subseteq Convs
CountTypes ==
    /\ sent \in 0 .. MaxGens /\ clicks \in Nat /\ created \in 0 .. MaxConvs /\ restarts \in Nat
GhostTypes ==
    /\ home \in [Gens -> 0 .. MaxConvs]
    /\ moved \subseteq Gens /\ cut \subseteq Gens
    /\ answers \in Seq(Answer) /\ careful \in BOOLEAN
StreamTypeOK == streams \in [Gens -> Stream]

LEMMA TypesSplit ==
  Types <=> DbTypeOK /\ Queues /\ StreamTypeOK /\ UiTypes /\ CountTypes /\ GhostTypes
BY Subsequences DEF Types, TypeOK, RunnerTypeOK, Queues, StreamTypeOK, UiTypes, CountTypes, GhostTypes

LEMMA TypesSplitNext ==
  Types' <=> DbTypeOK' /\ Queues' /\ StreamTypeOK' /\ UiTypes' /\ CountTypes' /\ GhostTypes'
BY TypesSplit, PTL

LEMMA TypesInit == Init => Types
<1> SUFFICES ASSUME Init PROVE Types
  OBVIOUS
<1>1. EmptyDatabase \in Database
  BY <<>> \in Seq(Message) DEF EmptyDatabase, Database
<1>2. DbTypeOK
  BY <1>1, Constants DEF Init, DbInit, DbTypeOK
<1>3. RunnerTypeOK /\ Queues
  <2>1. streams \in [Gens -> Stream]
    BY Constants DEF Init, RunnerInit, NoStreams, Stream
  <2>2. jobs = <<>> /\ signals = <<>>
    BY DEF Init, RunnerInit
  <2> QED BY <2>1, <2>2 DEF RunnerTypeOK, Queues
<1>4. UiTypes
  BY Constants, <<>> \in Seq(Chunk), <<>> \in Seq(Message) DEF Init, UiInit, UiTypes
<1>5. CountTypes /\ GhostTypes
  BY Constants DEF Init, CountTypes, GhostTypes
<1> QED BY <1>2, <1>3, <1>4, <1>5, TypesSplit DEF RunnerTypeOK, StreamTypeOK

LEMMA SendMessageTypes ==
  ASSUME Types, SendMessage
  PROVE  Types'
<1>1. DbTypeOK' /\ CountTypes' /\ sent + 1 \in Gens
  BY TypesSplit, Constants DEF SendMessage, CountTypes, DbTypeOK, dbVars, Gens
<1>2. careful' \in BOOLEAN
  BY DEF SendMessage, Heed
<1>3. CASE active # 0 /\ DoSend(active, sent + 1, jobs, history, <<>>)
                     /\ UNCHANGED <<pendingText, created, moved>>
  <2>1. Sendable
    BY TypesSplit DEF Sendable, Queues, StreamTypeOK, UiTypes, GhostTypes
  <2>2. active \in 0 .. MaxConvs /\ jobs \in Seq(GoodJob) /\ history \in Seq(Message)
    BY TypesSplit DEF UiTypes, Queues
  <2>3. Sendable'
    BY <1>1, <1>3, <2>1, <2>2, DoSendTypes, <<>> \in Seq(GoodJob)
  <2>4. UiTypes' /\ GhostTypes' /\ Queues'
    BY <1>2, <1>3, <2>3, TypesSplit DEF SendMessage, Sendable, UiTypes, GhostTypes, Queues
  <2> QED BY <1>1, <2>3, <2>4, TypesSplitNext DEF Sendable, StreamTypeOK
<1>4. CASE UNCHANGED <<streams, token, genText, history, generating, home, moved, cut>>
           /\ pendingText' = sent + 1 /\ Submitted(<<NewJob("createSend", 0)>>)
  <2>1. Queues'
    BY <1>4, TypesSplit, SubmittedTypes, Constants DEF SendMessage, Queues, Ops
  <2>2. UiTypes' /\ GhostTypes' /\ StreamTypeOK'
    BY <1>1, <1>2, <1>4, TypesSplit, Constants DEF SendMessage, UiTypes, GhostTypes, StreamTypeOK
  <2> QED BY <1>1, <2>1, <2>2, TypesSplitNext
<1> QED BY <1>3, <1>4 DEF SendMessage

LEMMA ResendTypes ==
  ASSUME Types, Resend
  PROVE  Types'
<1>1. DbTypeOK' /\ CountTypes' /\ sent + 1 \in Gens
  BY TypesSplit, Constants DEF Resend, CountTypes, DbTypeOK, dbVars, Gens
<1>2. careful' \in BOOLEAN
  BY DEF Resend, Heed
<1>3. Sendable
  BY TypesSplit DEF Sendable, Queues, StreamTypeOK, UiTypes, GhostTypes
<1>4. active \in 0 .. MaxConvs /\ jobs \in Seq(GoodJob) /\ history \in Seq(Message)
  BY TypesSplit DEF UiTypes, Queues
<1>5. Sendable'
  BY <1>1, <1>3, <1>4, DoSendTypes, <<>> \in Seq(GoodJob) DEF Resend
<1>6. UiTypes' /\ GhostTypes' /\ Queues'
  BY <1>2, <1>5, TypesSplit DEF Resend, Sendable, UiTypes, GhostTypes, Queues
<1> QED BY <1>1, <1>5, <1>6, TypesSplitNext DEF Sendable, StreamTypeOK

LEMMA StopTypes ==
  ASSUME Types, Stop
  PROVE  Types'
<1>1. DbTypeOK' /\ CountTypes'
  BY TypesSplit DEF Stop, Click, CountTypes, DbTypeOK, dbVars
<1>2. token \in Gens
  BY TypesSplit DEF Stop, UiTypes, Gens
<1>3. /\ jobs' \in Seq(GoodJob) /\ history' \in Seq(Message) /\ answers' \in Seq(Answer)
      /\ token' = 0 /\ generating' = FALSE
  BY <1>2, FinishTypes DEF Types, Stop
<1>4. StreamTypeOK'
  BY TypesSplit DEF Stop, CancelStream, StreamTypeOK, Stream
<1>5. UiTypes' /\ GhostTypes' /\ Queues'
  BY <1>3, TypesSplit, Constants DEF Stop, UiTypes, GhostTypes, Queues
<1> QED BY <1>1, <1>4, <1>5, TypesSplitNext

LEMMA ClickTypes ==
  ASSUME Types,
         \/ NewConversation
         \/ \E c \in Convs : Select(c) \/ Duplicate(c)
         \/ \E c \in Convs : \E op \in {"archive", "delete"} : Change1(op, c)
  PROVE  Types'
<1>1. CASE NewConversation
  <2>1. DbTypeOK' /\ StreamTypeOK' /\ UiTypes'
    BY <1>1, TypesSplit DEF NewConversation, DbTypeOK, dbVars, StreamTypeOK, UiTypes, uiVars
  <2>2. CountTypes' /\ GhostTypes'
    BY SMTT(30), <1>1, TypesSplit, Constants DEF NewConversation, Click, Heed, CountTypes, GhostTypes
  <2>3. Queues'
    BY <1>1, TypesSplit, SubmittedTypes, Constants DEF NewConversation, Queues, Ops
  <2> QED BY <2>1, <2>2, <2>3, TypesSplitNext
<1>2. ASSUME NEW c \in Convs, Select(c) PROVE Types'
  <2>1. c \in 0 .. MaxConvs
    BY Constants
  <2>2. DbTypeOK' /\ CountTypes' /\ StreamTypeOK' /\ UiTypes'
    BY SMTT(30), <1>2, <2>1, TypesSplit DEF Select, Click, CountTypes, DbTypeOK, dbVars, StreamTypeOK, UiTypes
  <2>3. GhostTypes'
    BY <1>2, TypesSplit DEF Select, Heed, Moves, GhostTypes, UiTypes, Gens
  <2>4. Queues'
    BY <1>2, <2>1, TypesSplit, SubmittedTypes DEF Select, Queues, Ops
  <2> QED BY <2>2, <2>3, <2>4, TypesSplitNext
<1>3. ASSUME NEW c \in Convs, Duplicate(c) PROVE Types'
  <2>1. c \in 0 .. MaxConvs
    BY Constants
  <2>2. DbTypeOK' /\ StreamTypeOK' /\ UiTypes' /\ GhostTypes'
    BY <1>3, TypesSplit DEF Duplicate, DbTypeOK, dbVars, StreamTypeOK, UiTypes, uiVars,
       GhostTypes, ghostVars
  <2>3. CountTypes'
    BY <1>3, TypesSplit, Constants DEF Duplicate, Click, CountTypes
  <2>4. Queues'
    BY <1>3, <2>1, TypesSplit, SubmittedTypes DEF Duplicate, Queues, Ops
  <2> QED BY <2>2, <2>3, <2>4, TypesSplitNext
<1>4. ASSUME NEW c \in Convs, NEW op \in {"archive", "delete"}, Change1(op, c) PROVE Types'
  <2>1. c \in 0 .. MaxConvs
    BY Constants
  <2>2. DbTypeOK' /\ CountTypes' /\ StreamTypeOK' /\ UiTypes' /\ GhostTypes'
    BY SMTT(30), <1>4, TypesSplit DEF Change1, Click, CountTypes, DbTypeOK, dbVars,
       StreamTypeOK, UiTypes, uiVars, GhostTypes, ghostVars
  <2>3. Queues'
    BY <1>4, <2>1, TypesSplit, SubmittedTypes DEF Change1, Queues, Ops
  <2> QED BY <2>2, <2>3, TypesSplitNext
<1> QED BY <1>1, <1>2, <1>3, <1>4

(* What every handler of a signal takes from it. *)
LEMMA TextTypes ==
  ASSUME Types, OnText
  PROVE  Types'
<1>1. /\ signals' \in Seq(GoodSignal) /\ Head(signals) \in GoodSignal
      /\ Head(signals).kind = "text" /\ jobs' = jobs
  BY TypesSplit, ConsumedTypes DEF OnText
<1>2. Head(signals).gen \in Gens /\ Head(signals).index \in 1 .. MaxChunks
  BY <1>1 DEF GoodSignal
<1>3. genText' \in Seq(Chunk)
  <2>1. CASE Head(signals).gen = token
    <3>1. <<token, Head(signals).index>> \in Chunk
      BY <1>2, <2>1 DEF Chunk
    <3>2. genText' = Append(genText, <<token, Head(signals).index>>)
      BY <2>1 DEF OnText
    <3> HIDE DEF Chunk
    <3> QED BY <3>1, <3>2, TypesSplit DEF UiTypes
  <2>2. CASE Head(signals).gen # token
    BY <2>2, TypesSplit DEF OnText, UiTypes
  <2> QED BY <2>1, <2>2
<1>4. DbTypeOK' /\ StreamTypeOK' /\ CountTypes' /\ GhostTypes'
  BY TypesSplit DEF OnText, DbTypeOK, dbVars, StreamTypeOK, CountTypes, countVars, GhostTypes, ghostVars
<1>5. UiTypes' /\ Queues'
  BY <1>1, <1>3, TypesSplit DEF OnText, UiTypes, Queues
<1> QED BY <1>4, <1>5, TypesSplitNext

LEMMA DoneTypes ==
  ASSUME Types, OnStreamDone
  PROVE  Types'
<1>1. /\ signals' \in Seq(GoodSignal) /\ Head(signals) \in GoodSignal
      /\ Head(signals).kind = "done"
  BY TypesSplit, ConsumedTypes DEF OnStreamDone
<1>2. Head(signals).gen \in Gens
  BY <1>1 DEF GoodSignal
<1>3. DbTypeOK' /\ StreamTypeOK' /\ CountTypes'
  BY TypesSplit DEF OnStreamDone, DbTypeOK, dbVars, StreamTypeOK, CountTypes, countVars
<1>4. CASE Head(signals).gen = token
  <2>1. /\ jobs' \in Seq(GoodJob) /\ history' \in Seq(Message) /\ answers' \in Seq(Answer)
        /\ token' = 0 /\ generating' = FALSE
    BY <1>2, <1>4, FinishTypes DEF Types, OnStreamDone
  <2>2. UiTypes' /\ GhostTypes' /\ Queues'
    BY <1>1, <2>1, TypesSplit, Constants DEF OnStreamDone, UiTypes, GhostTypes, Queues
  <2> QED BY <1>3, <2>2, TypesSplitNext
<1>5. CASE Head(signals).gen # token
  <2>1. UiTypes' /\ GhostTypes' /\ Queues'
    BY <1>1, <1>5, TypesSplit DEF OnStreamDone, UiTypes, GhostTypes, Queues
  <2> QED BY <1>3, <2>1, TypesSplitNext
<1> QED BY <1>4, <1>5

LEMMA MovesTypes ==
  ASSUME Types, Moves
  PROVE  moved' \subseteq Gens
BY TypesSplit DEF Moves, GhostTypes, UiTypes, Gens

LEMMA CreatedTypes ==
  ASSUME Types, OnCreated
  PROVE  Types'
<1>1. signals' \in Seq(GoodSignal) /\ Head(signals).conv \in 0 .. MaxConvs
  BY TypesSplit, ConsumedTypes DEF OnCreated
<1>2. jobs' \in Seq(GoodJob)
  BY TypesSplit, SubmittedTypes, Constants DEF OnCreated, Ops
<1>3. UiTypes' /\ Queues'
  BY <1>1, <1>2, TypesSplit, <<>> \in Seq(Message) DEF OnCreated, UiTypes, Queues
<1>4. GhostTypes'
  BY MovesTypes, TypesSplit DEF OnCreated, GhostTypes
<1>5. DbTypeOK' /\ StreamTypeOK' /\ CountTypes'
  BY TypesSplit DEF OnCreated, DbTypeOK, dbVars, StreamTypeOK, CountTypes, countVars
<1> QED BY <1>3, <1>4, <1>5, TypesSplitNext

LEMMA CreatedToSendTypes ==
  ASSUME Types, OnCreatedToSend
  PROVE  Types'
<1>1. signals' \in Seq(GoodSignal) /\ Head(signals).conv \in 0 .. MaxConvs
  BY TypesSplit, ConsumedTypes DEF OnCreatedToSend
<1>2. moved' \subseteq Gens
  BY MovesTypes DEF OnCreatedToSend
<1>3. DbTypeOK' /\ CountTypes'
  BY TypesSplit DEF OnCreatedToSend, DbTypeOK, dbVars, CountTypes, countVars
<1>4. CASE pendingText # 0 /\ pendingText' = 0
           /\ DoSend(Head(signals).conv, pendingText, jobs, <<>>, <<NewJob("list", 0)>>)
  <2>1. Sendable
    BY TypesSplit DEF Sendable, Queues, StreamTypeOK, UiTypes, GhostTypes
  <2>2. pendingText \in Gens /\ jobs \in Seq(GoodJob)
    BY <1>4, TypesSplit DEF UiTypes, Queues, Gens
  <2>3. <<NewJob("list", 0)>> \in Seq(GoodJob)
    BY NewJobGood, Constants DEF Ops
  <2>4. Sendable'
    BY <1>1, <1>4, <2>1, <2>2, <2>3, DoSendTypes, <<>> \in Seq(Message)
  <2>5. UiTypes' /\ GhostTypes' /\ Queues' /\ StreamTypeOK'
    BY <1>1, <1>2, <1>4, <2>4, TypesSplit, Constants
       DEF OnCreatedToSend, Sendable, UiTypes, GhostTypes, Queues, StreamTypeOK
  <2> QED BY <1>3, <2>5, TypesSplitNext
<1>5. CASE pendingText = 0 /\ history' = <<>> /\ Submitted(<<NewJob("list", 0)>>)
           /\ UNCHANGED <<streams, token, genText, pendingText, generating, home, cut>>
  <2>1. jobs' \in Seq(GoodJob)
    BY <1>5, TypesSplit, SubmittedTypes, Constants DEF Ops
  <2>2. UiTypes' /\ GhostTypes' /\ Queues' /\ StreamTypeOK'
    BY <1>1, <1>2, <1>5, <2>1, TypesSplit, <<>> \in Seq(Message)
       DEF OnCreatedToSend, UiTypes, GhostTypes, Queues, StreamTypeOK
  <2> QED BY <1>3, <2>2, TypesSplitNext
<1> QED BY <1>4, <1>5 DEF OnCreatedToSend

LEMMA ResultTypes ==
  ASSUME Types, OnLoaded \/ OnRefresh \/ OnListed
  PROVE  Types'
<1>1. DbTypeOK' /\ StreamTypeOK' /\ CountTypes' /\ GhostTypes'
  BY TypesSplit DEF OnLoaded, OnRefresh, OnListed, DbTypeOK, dbVars, StreamTypeOK,
     CountTypes, countVars, GhostTypes, ghostVars
<1>2. CASE OnLoaded
  <2>1. signals' \in Seq(GoodSignal) /\ Head(signals).rows \in Seq(Message)
    BY <1>2, TypesSplit, ConsumedTypes DEF OnLoaded
  <2>2. UiTypes' /\ Queues'
    BY <1>2, <2>1, TypesSplit DEF OnLoaded, UiTypes, Queues
  <2> QED BY <1>1, <2>2, TypesSplitNext
<1>3. CASE OnRefresh
  <2>1. signals' \in Seq(GoodSignal)
    BY <1>3, TypesSplit, ConsumedTypes DEF OnRefresh
  <2>2. jobs' \in Seq(GoodJob)
    BY <1>3, TypesSplit, SubmittedTypes, Constants DEF OnRefresh, Ops
  <2>3. UiTypes' /\ Queues'
    BY <1>3, <2>1, <2>2, TypesSplit DEF OnRefresh, UiTypes, uiVars, Queues
  <2> QED BY <1>1, <2>3, TypesSplitNext
<1>4. CASE OnListed
  <2>1. signals' \in Seq(GoodSignal) /\ Head(signals).shown \subseteq Convs
    BY <1>4, TypesSplit, ConsumedTypes DEF OnListed
  <2>2. UiTypes' /\ Queues'
    BY <1>4, <2>1, TypesSplit DEF OnListed, UiTypes, Queues
  <2> QED BY <1>1, <2>2, TypesSplitNext
<1> QED BY <1>2, <1>3, <1>4

LEMMA BackgroundTypes ==
  ASSUME Types, Background
  PROVE  Types'
<1>1. UiTypes' /\ CountTypes' /\ GhostTypes'
  BY TypesSplit DEF Background, UiTypes, uiVars, CountTypes, countVars, GhostTypes, ghostVars
<1>2. CASE JobStep
  <2>1. DbTypeOK' /\ Queues' /\ StreamTypeOK'
    BY <1>2, TypesSplit, JobTypes DEF JobStep, StreamTypeOK
  <2> QED BY <1>1, <2>1, TypesSplitNext
<1>3. CASE StreamStep
  <2>1. DbTypeOK' /\ Queues' /\ StreamTypeOK'
    BY <1>3, TypesSplit, StreamTypes DEF StreamStep, StreamTypeOK, DbTypeOK, dbVars
  <2> QED BY <1>1, <2>1, TypesSplitNext
<1> QED BY <1>2, <1>3 DEF Background

LEMMA RestartTypes ==
  ASSUME Types, Restart
  PROVE  Types'
<1>1. DbTypeOK'
  BY TypesSplit DEF Restart, DbRestart, DbTypeOK
<1>2. Queues' /\ StreamTypeOK'
  <2>1. <<NewJob("list", 0)>> \in Seq(GoodJob)
    BY NewJobGood, Constants DEF Ops
  <2>2. NoStreams \in [Gens -> Stream]
    BY Constants DEF NoStreams, Stream
  <2> QED BY <2>1, <2>2, <<>> \in Seq(GoodSignal) DEF Restart, RunnerRestart, Queues, StreamTypeOK
<1>3. UiTypes'
  BY Constants, <<>> \in Seq(Chunk), <<>> \in Seq(Message) DEF Restart, UiTypes
<1>4. CountTypes'
  BY TypesSplit DEF Restart, CountTypes
<1>5. GhostTypes'
  BY TypesSplit, Constants, <<>> \in Seq(Answer) DEF Restart, GhostTypes
<1> QED BY <1>1, <1>2, <1>3, <1>4, <1>5, TypesSplitNext

LEMMA TypesNext == Types /\ [Next]_vars => Types'
<1> SUFFICES ASSUME Types, [Next]_vars PROVE Types'
  OBVIOUS
<1>1. CASE User
  BY <1>1, SendMessageTypes, ResendTypes, StopTypes, ClickTypes DEF User
<1>2. CASE OnSignal
  BY <1>2, TextTypes, DoneTypes, CreatedTypes, CreatedToSendTypes, ResultTypes DEF OnSignal
<1>3. CASE UNCHANGED vars
  BY <1>3, TypesSplit, TypesSplitNext DEF vars, DbTypeOK, dbVars, Queues, runnerVars, StreamTypeOK,
     UiTypes, uiVars, CountTypes, countVars, GhostTypes, ghostVars
<1> QED BY <1>1, <1>2, <1>3, BackgroundTypes, RestartTypes DEF Next

LEMMA TypesInvariant == Spec => []Types
BY TypesInit, TypesNext, PTL DEF Spec

(* Jobs, signals, tables, streams and the window's state stay what they are *)
(* declared to be, for any number of conversations, messages and chunks.    *)
THEOREM TypeCorrect == Spec => []TypeOK
<1>1. Types => TypeOK
  BY DEF Types
<1> QED BY <1>1, TypesInvariant, PTL

-----------------------------------------------------------------------------
(* The input panel.  LockedMeansStreaming is inductive: the end of a stream  *)
(* is queued in the step that ends it, only Stop cancels the stream of the  *)
(* token, and whatever takes the token or its signal away unlocks.          *)
LEMMA LockInit == Init => LockedMeansStreaming
BY DEF Init, UiInit, LockedMeansStreaming

(* Nothing is taken from the signals, and the stream of the token goes on.   *)
LEMMA LockKept ==
  ASSUME Types, LockedMeansStreaming, UNCHANGED <<token, generating>>,
         \A i \in DOMAIN signals : i \in DOMAIN signals' /\ signals'[i] = signals[i],
         generating /\ streams[token].status = "running" =>
             \/ streams'[token].status = "running"
             \/ \E i \in DOMAIN signals' : signals'[i].kind = "done" /\ signals'[i].gen = token
  PROVE  LockedMeansStreaming'
BY DEF LockedMeansStreaming

LEMMA LockSend ==
  ASSUME Types, LockedMeansStreaming, NEW c, NEW g \in Gens, NEW before, NEW now, NEW after,
         DoSend(c, g, before, now, after)
  PROVE  LockedMeansStreaming'
<1>1. CASE SubmitStreaming(g) /\ token' = g
  <2>1. streams'[g].status = "running" /\ g # 0
    BY <1>1, TypesSplit DEF SubmitStreaming, StreamTypeOK, Stream, Gens
  <2> QED BY <1>1, <2>1 DEF LockedMeansStreaming
<1>2. CASE ~generating'
  BY <1>2 DEF LockedMeansStreaming
<1> QED BY <1>1, <1>2 DEF DoSend, ProviderUnavailable

LEMMA LockUser ==
  ASSUME Types, LockedMeansStreaming, User
  PROVE  LockedMeansStreaming'
<1>1. sent < MaxGens => sent + 1 \in Gens
  BY TypesSplit, Constants DEF CountTypes, Gens
<1>2. CASE SendMessage
  <2>1. CASE active # 0
    BY <1>1, <1>2, <2>1, LockSend DEF SendMessage
  <2>2. CASE active = 0
    BY <1>2, <2>2 DEF SendMessage, LockedMeansStreaming
  <2> QED BY <2>1, <2>2
<1>3. CASE Resend
  BY <1>1, <1>3, LockSend DEF Resend
<1>4. CASE Stop
  BY <1>4 DEF Stop, FinishGeneration, LockedMeansStreaming
<1>5. CASE NewConversation \/ \E c \in Convs : \/ Select(c) \/ Duplicate(c)
                            \/ \E op \in {"archive", "delete"} : Change1(op, c)
  <2>1. UNCHANGED <<token, generating, signals, streams>>
    BY <1>5 DEF NewConversation, Select, Duplicate, Change1, uiVars
  <2> QED BY <2>1 DEF LockedMeansStreaming
<1> QED BY <1>2, <1>3, <1>4, <1>5 DEF User

(* A signal that is consumed was the end of the token's stream, and unlocks, *)
(* or it was another one, and the rest of the queue is what counts.         *)
LEMMA LockConsumed ==
  ASSUME Types, LockedMeansStreaming, signals # <<>>, Consumed,
         UNCHANGED <<token, generating, streams>>,
         ~(Head(signals).kind = "done" /\ Head(signals).gen = token)
  PROVE  LockedMeansStreaming'
<1> SUFFICES ASSUME generating PROVE LockedMeansStreaming'
  BY DEF LockedMeansStreaming
<1>1. CASE streams[token].status = "running"
  BY <1>1 DEF LockedMeansStreaming
<1>2. ASSUME NEW i \in DOMAIN signals, signals[i].kind = "done", signals[i].gen = token
      PROVE  LockedMeansStreaming'
  <2>1. signals \in Seq(GoodSignal)
    BY TypesSplit DEF Queues
  <2>2. i # 1 /\ i \in 1 .. Len(signals)
    BY <1>2, <2>1
  <2>3. i - 1 \in DOMAIN Tail(signals) /\ Tail(signals)[i - 1] = signals[i]
    BY <2>1, <2>2
  <2> QED BY <1>2, <2>3 DEF LockedMeansStreaming, Consumed
<1> QED BY <1>1, <1>2 DEF LockedMeansStreaming

LEMMA LockSignal ==
  ASSUME Types, LockedMeansStreaming, OnSignal
  PROVE  LockedMeansStreaming'
<1>1. CASE OnText \/ OnCreated \/ OnLoaded \/ OnRefresh \/ OnListed
  <2>1. signals # <<>> /\ Consumed /\ Head(signals).kind # "done"
    BY <1>1 DEF OnText, OnCreated, OnLoaded, OnRefresh, OnListed, Received
  <2>2. UNCHANGED <<token, generating, streams>>
    BY <1>1 DEF OnText, OnCreated, OnLoaded, OnRefresh, OnListed, uiVars
  <2> QED BY <2>1, <2>2, LockConsumed
<1>2. CASE OnStreamDone
  <2>1. CASE Head(signals).gen = token
    BY <1>2, <2>1 DEF OnStreamDone, FinishGeneration, LockedMeansStreaming
  <2>2. CASE Head(signals).gen # token
    BY <1>2, <2>2, LockConsumed DEF OnStreamDone, Received
  <2> QED BY <2>1, <2>2
<1>3. CASE OnCreatedToSend
  <2>1. CASE pendingText # 0
    <3>1. pendingText \in Gens
      BY <2>1, TypesSplit DEF UiTypes, Gens
    <3> QED BY <1>3, <2>1, <3>1, LockSend DEF OnCreatedToSend
  <2>2. CASE pendingText = 0
    BY <1>3, <2>2, LockConsumed DEF OnCreatedToSend, Received
  <2> QED BY <2>1, <2>2
<1> QED BY <1>1, <1>2, <1>3 DEF OnSignal

(* Streams end by signalling or, cancelled, without; operations only add     *)
(* results to the signals.                                                  *)
LEMMA LockBackground ==
  ASSUME Types, LockedMeansStreaming, Background
  PROVE  LockedMeansStreaming'
<1>1. UNCHANGED <<token, generating>>
  BY DEF Background, uiVars
<1>2. signals \in Seq(GoodSignal) /\ streams \in [Gens -> Stream]
  BY TypesSplit DEF Queues, StreamTypeOK
<1>3. ASSUME NEW s, signals' = Append(signals, s) \/ signals' = signals
      PROVE  \A i \in DOMAIN signals : i \in DOMAIN signals' /\ signals'[i] = signals[i]
  BY <1>2, <1>3
<1>4. CASE JobStep
  <2>1. UNCHANGED streams
    BY <1>4 DEF JobStep
  <2>2. \E s : signals' = Append(signals, s) \/ signals' = signals
    BY <1>4 DEF JobStep, Create, Add, Load, List, Change, DuplicateBegins, DuplicateRow,
                DuplicateEnds, Continue, Complete, CompleteQuietly
  <2> QED BY <1>1, <1>3, <2>1, <2>2, LockKept
<1>5. CASE StreamStep
  <2>1. PICK g \in Gens : EmitChunk(g) \/ StreamEnds(g) \/ CancelLands(g)
    BY <1>5 DEF StreamStep
  <2>2. \E s : signals' = Append(signals, s) \/ signals' = signals
    BY <2>1 DEF EmitChunk, StreamEnds, CancelLands
  <2>3. generating /\ streams[token].status = "running" =>
             \/ streams'[token].status = "running"
             \/ \E i \in DOMAIN signals' : signals'[i].kind = "done" /\ signals'[i].gen = token
    <3> SUFFICES ASSUME generating, streams[token].status = "running"
                 PROVE  \/ streams'[token].status = "running"
                        \/ \E i \in DOMAIN signals' :
                              signals'[i].kind = "done" /\ signals'[i].gen = token
      OBVIOUS
    <3>1. token \in Gens
      BY TypesSplit DEF LockedMeansStreaming, UiTypes, Gens
    <3>2. CASE g # token \/ EmitChunk(g) \/ CancelLands(g)
      BY <1>2, <2>1, <3>1, <3>2 DEF EmitChunk, StreamEnds, CancelLands, Stream
    <3>3. CASE g = token /\ StreamEnds(g)
      <4> DEFINE end == [NewSignal("done") EXCEPT !.gen = g]
      <4>1. end.kind = "done" /\ end.gen = token
        BY <3>3 DEF NewSignal
      <4>2. signals' = Append(signals, end)
        BY <3>3 DEF StreamEnds
      <4> HIDE DEF end
      <4>3. Len(signals) + 1 \in DOMAIN signals' /\ signals'[Len(signals) + 1] = end
        BY <1>2, <4>2
      <4> QED BY <4>1, <4>3
    <3> QED BY <2>1, <3>2, <3>3
  <2> QED BY <1>1, <1>3, <2>2, <2>3, LockKept
<1> QED BY <1>4, <1>5 DEF Background

LEMMA LockNext == Types /\ LockedMeansStreaming /\ [Next]_vars => LockedMeansStreaming'
<1>1. ASSUME Restart PROVE LockedMeansStreaming'
  BY <1>1 DEF Restart, LockedMeansStreaming
<1>2. ASSUME UNCHANGED vars, LockedMeansStreaming PROVE LockedMeansStreaming'
  BY <1>2 DEF vars, runnerVars, uiVars, LockedMeansStreaming
<1> QED BY <1>1, <1>2, LockUser, LockSignal, LockBackground DEF Next

(* While the input panel is locked, a stream runs that will unlock it or its *)
(* end is queued, whatever the user does and however streams and operations *)
(* interleave.                                                              *)
THEOREM LockIsHeld == Spec => []LockedMeansStreaming
BY LockInit, LockNext, TypesInvariant, PTL DEF Spec

-----------------------------------------------------------------------------
(* The answers.  AnsweredOnce and AnswersStayHome need to know of the        *)
(* generations under way that they have no answer yet, that the message     *)
(* waiting for its conversation is not the one being answered, and that the *)
(* conversation of the token's message is still the active one, unless the  *)
(* active one changed.                                                      *)
Unanswered(g) == \A i \in DOMAIN answers : answers[i].stream # g

Asked1 ==
    /\ token <= sent /\ pendingText <= sent
    /\ \A i \in DOMAIN answers : answers[i].stream <= sent
    /\ token # 0 => Unanswered(token) /\ (token \in moved \/ active = home[token])
    /\ pendingText # 0 => Unanswered(pendingText) /\ pendingText # token

Answering == AnsweredOnce /\ AnswersStayHome /\ Asked1

LEMMA AnswerTypes ==
  ASSUME Types
  PROVE  /\ answers \in Seq(Answer)
         /\ \A i \in DOMAIN answers : answers[i].stream \in Gens /\ answers[i].stream \in Nat
<1>1. answers \in Seq(Answer)
  BY TypesSplit DEF GhostTypes
<1>2. \A a \in Answer : a.stream \in Gens /\ a.stream \in Nat
  BY DEF Answer, Gens
<1>3. \A i \in DOMAIN answers : answers[i] \in Answer
  BY <1>1
<1> QED BY <1>1, <1>2, <1>3

LEMMA AnsweringInit == Init => Answering
BY DEF Init, UiInit, Answering, AnsweredOnce, AnswersStayHome, Asked1

(* What a step leaves alone that is no sending and finishes nothing.         *)
LEMMA AnsweringKept ==
  ASSUME Types, Answering, UNCHANGED <<token, pendingText, sent, home, answers>>,
         UNCHANGED <<active, moved>> \/ Moves
  PROVE  Answering'
<1>1. moved \subseteq moved' /\ (token # 0 => token \in moved' \/ UNCHANGED <<active, moved>>)
  BY DEF Moves
<1> QED BY <1>1 DEF Answering, AnsweredOnce, AnswersStayHome, Asked1, Unanswered

(* Sending takes a generation that has no answer yet for one that is new. *)
LEMMA AnsweringSend ==
  ASSUME Types, Answering, NEW c, NEW g \in Gens, NEW before, NEW now, NEW after,
         DoSend(c, g, before, now, after), active' = c,
         Unanswered(g), g # token, g <= sent', sent <= sent', UNCHANGED answers,
         UNCHANGED <<active, moved>> \/ Moves,
         pendingText' = 0 \/ (pendingText' = pendingText /\ g > sent),
         sent \in Nat, sent' \in Nat
  PROVE  Answering'
<1>1. home' = [home EXCEPT ![g] = c] /\ home \in [Gens -> 0 .. MaxConvs]
  BY TypesSplit DEF DoSend, GhostTypes
<1>2. token' = g \/ token' = token
  BY DEF DoSend, ProviderUnavailable
<1>3. moved \subseteq moved' /\ (token # 0 => token \in moved' \/ UNCHANGED <<active, moved>>)
  BY DEF Moves
<1>4. token \in Nat /\ pendingText \in Nat /\ g \in Nat /\ g # 0
  BY TypesSplit, Constants DEF UiTypes, Gens
<1>5. \A i \in DOMAIN answers : answers[i].stream \in Gens
  BY AnswerTypes
<1>6. \A i \in DOMAIN answers : answers[i].stream \in Nat
  BY AnswerTypes
<1>7. AnsweredOnce'
  BY DEF Answering, AnsweredOnce
<1>8. AnswersStayHome'
  <2>1. \A i \in DOMAIN answers : home'[answers[i].stream] = home[answers[i].stream]
    BY <1>1, <1>5 DEF Unanswered
  <2> QED BY <1>3, <2>1 DEF Answering, AnswersStayHome
<1>9. token' # 0 => token' \in moved' \/ active' = home'[token']
  <2>1. CASE token' = g
    BY <1>1, <2>1
  <2>2. CASE token' = token /\ token # 0
    <3>1. token \in Gens
      BY <1>4, <2>2, TypesSplit DEF UiTypes, Gens
    <3> QED BY <1>1, <1>3, <2>2, <3>1 DEF Answering, Asked1
  <2> QED BY <1>2, <2>1, <2>2
<1>10. Asked1'
  <2>1. token' <= sent' /\ pendingText' <= sent'
        /\ \A i \in DOMAIN answers' : answers'[i].stream <= sent'
    BY <1>2, <1>4, <1>6 DEF Answering, Asked1
  <2>2. token' # 0 => \A i \in DOMAIN answers' : answers'[i].stream # token'
    BY <1>2 DEF Answering, Asked1, Unanswered
  <2>3. pendingText' # 0 => (\A i \in DOMAIN answers' : answers'[i].stream # pendingText')
                            /\ pendingText' # token'
    BY <1>2, <1>4 DEF Answering, Asked1, Unanswered
  <2> QED BY <1>9, <2>1, <2>2, <2>3 DEF Asked1, Unanswered
<1> QED BY <1>7, <1>8, <1>10 DEF Answering

(* The answer that is finished is the only one of its stream. *)
LEMMA AnsweringFinish ==
  ASSUME Types, Answering, token # 0, FinishGeneration(token),
         UNCHANGED <<active, pendingText, sent, home, moved>>
  PROVE  Answering'
<1> DEFINE a == [stream |-> token, conv |-> active, text |-> genText]
           n == Len(answers)
<1>1. answers \in Seq(Answer) /\ n \in Nat
  BY TypesSplit DEF GhostTypes
<1>2. answers' = Append(answers, a) /\ token' = 0
  BY DEF FinishGeneration
<1>3. a.stream = token /\ a.conv = active
  OBVIOUS
<1> HIDE DEF a
<1>4. /\ DOMAIN answers = 1 .. n /\ DOMAIN answers' = 1 .. n + 1
      /\ answers'[n + 1] = a
      /\ \A i \in 1 .. n : answers'[i] = answers[i]
  BY <1>1, <1>2
<1>5. \A i \in 1 .. n + 1 : i \in 1 .. n \/ i = n + 1
  BY <1>1
<1> HIDE DEF n
<1>6. AnsweredOnce'
  BY <1>3, <1>4, <1>5 DEF Answering, AnsweredOnce, Asked1, Unanswered
<1>7. AnswersStayHome'
  BY <1>3, <1>4, <1>5 DEF Answering, AnswersStayHome, Asked1
<1>8. Asked1'
  <2>1. 0 <= sent
    BY TypesSplit DEF CountTypes
  <2> QED BY <1>2, <1>3, <1>4, <1>5, <2>1 DEF Answering, Asked1, Unanswered
<1> QED BY <1>6, <1>7, <1>8 DEF Answering

LEMMA AnsweringUser ==
  ASSUME Types, Answering, User
  PROVE  Answering'
<1>1. sent \in Nat /\ (sent < MaxGens => sent + 1 \in Gens)
  BY TypesSplit, Constants DEF CountTypes, Gens
<1>2. token \in Nat /\ \A i \in DOMAIN answers : answers[i].stream \in Nat
  BY AnswerTypes, TypesSplit, Constants DEF UiTypes
<1>3. Unanswered(sent + 1) /\ sent + 1 # token
  BY <1>1, <1>2 DEF Answering, Asked1, Unanswered
<1>4. CASE SendMessage /\ active # 0
  BY <1>1, <1>3, <1>4, AnsweringSend DEF SendMessage
<1>5. CASE SendMessage /\ active = 0
  <2>1. pendingText' = sent + 1 /\ sent' = sent + 1
        /\ UNCHANGED <<active, token, home, moved, answers>>
    BY <1>5 DEF SendMessage
  <2> QED BY <1>1, <1>2, <1>3, <2>1
          DEF Answering, AnsweredOnce, AnswersStayHome, Asked1, Unanswered
<1>6. CASE Resend
  BY <1>1, <1>3, <1>6, AnsweringSend DEF Resend
<1>7. CASE Stop
  BY <1>7, AnsweringFinish DEF Stop, Click
<1>8. CASE NewConversation \/ \E c \in Convs : \/ Select(c) \/ Duplicate(c)
                            \/ \E op \in {"archive", "delete"} : Change1(op, c)
  <2>1. /\ UNCHANGED <<token, pendingText, sent, home, answers>>
        /\ UNCHANGED <<active, moved>> \/ Moves
    BY <1>8 DEF NewConversation, Select, Duplicate, Change1, Click, uiVars, ghostVars
  <2> QED BY <2>1, AnsweringKept
<1> QED BY <1>4, <1>5, <1>6, <1>7, <1>8 DEF User

LEMMA AnsweringSignal ==
  ASSUME Types, Answering, OnSignal
  PROVE  Answering'
<1>1. CASE OnText \/ OnCreated \/ OnLoaded \/ OnRefresh \/ OnListed
  <2>1. /\ UNCHANGED <<token, pendingText, sent, home, answers>>
        /\ UNCHANGED <<active, moved>> \/ Moves
    BY <1>1 DEF OnText, OnCreated, OnLoaded, OnRefresh, OnListed, countVars, uiVars, ghostVars
  <2> QED BY <2>1, AnsweringKept
<1>2. CASE OnStreamDone
  <2>1. Head(signals).gen # 0
    <3>1. Head(signals) \in GoodSignal /\ Head(signals).kind = "done"
      BY <1>2, TypesSplit, ConsumedTypes DEF OnStreamDone
    <3> QED BY <3>1 DEF GoodSignal, Gens
  <2>2. CASE Head(signals).gen = token
    BY <1>2, <2>1, <2>2, AnsweringFinish DEF OnStreamDone, countVars
  <2>3. CASE Head(signals).gen # token
    BY <1>2, <2>3, AnsweringKept DEF OnStreamDone, countVars
  <2> QED BY <2>2, <2>3
<1>3. CASE OnCreatedToSend
  <2>1. CASE pendingText # 0
    <3>1. pendingText \in Gens /\ sent \in Nat
      BY <2>1, TypesSplit DEF UiTypes, CountTypes, Gens
    <3>2. Unanswered(pendingText) /\ pendingText # token /\ pendingText <= sent
      BY <2>1 DEF Answering, Asked1
    <3>3. sent <= sent' /\ sent' = sent
      BY <1>3, <3>1 DEF OnCreatedToSend, countVars
    <3> QED BY <1>3, <2>1, <3>1, <3>2, <3>3, AnsweringSend DEF OnCreatedToSend
  <2>2. CASE pendingText = 0
    BY <1>3, <2>2, AnsweringKept DEF OnCreatedToSend, countVars
  <2> QED BY <2>1, <2>2
<1> QED BY <1>1, <1>2, <1>3 DEF OnSignal

LEMMA AnsweringNext == Types /\ Answering /\ [Next]_vars => Answering'
<1>1. ASSUME Types, Answering, Background \/ UNCHANGED vars PROVE Answering'
  BY <1>1, AnsweringKept DEF Background, vars, uiVars, countVars, ghostVars
<1>2. ASSUME Types, Restart PROVE Answering'
  <2>1. sent' \in Nat
    BY <1>2, TypesSplit DEF Restart, CountTypes
  <2>2. token' = 0 /\ pendingText' = 0 /\ answers' = <<>>
    BY <1>2 DEF Restart
  <2>3. token' <= sent' /\ pendingText' <= sent' /\ DOMAIN answers' = {}
    BY <2>1, <2>2
  <2> QED BY <2>2, <2>3 DEF Answering, AnsweredOnce, AnswersStayHome, Asked1
<1> QED BY <1>1, <1>2, AnsweringUser, AnsweringSignal DEF Next

LEMMA AnsweringInvariant == Spec => []Answering
BY AnsweringInit, AnsweringNext, TypesInvariant, PTL DEF Spec

(* No generation is finished twice, however the stop button and the end of   *)
(* its stream race and whatever streams were left behind.                   *)
THEOREM FinishedOnce == Spec => []AnsweredOnce
<1>1. Answering => AnsweredOnce
  BY DEF Answering
<1> QED BY <1>1, AnsweringInvariant, PTL

(* An answer is stored where it was asked for, unless the active conversation *)
(* changed while it came, although neither the creation of a conversation   *)
(* nor the refusal of a provider waits for the stream that goes on.         *)
THEOREM StoredAtHome == Spec => []AnswersStayHome
<1>1. Answering => AnswersStayHome
  BY DEF Answering
<1> QED BY <1>1, AnsweringInvariant, PTL

-----------------------------------------------------------------------------
(* What is in the file.  Filed is inductive: numbers in use have been drawn, *)
(* the connection sees what the file holds and perhaps more, and an          *)
(* insertion that is past its first statement is in the table.               *)
Numbered == db.convs \cup durable.convs \subseteq 1 .. ids
Additive == \A c \in durable.convs \cap db.convs : Grown(durable.msgs[c], db.msgs[c])
InTable(d, n, j) == /\ j.conv \in 1 .. n
                    /\ j.conv \in d.convs => Holds(d.msgs[j.conv], Head(j.rows))
Recorded == \A i \in DOMAIN jobs :
                jobs[i].op = "add" /\ jobs[i].step > 1 => InTable(db, ids, jobs[i])
Filed == Numbered /\ Additive /\ Recorded

(* One database develops into another: no conversation is new but those of  *)
(* S, and no message is taken from one that stays.                          *)
Develops(d, e, S) ==
    /\ e.convs \subseteq d.convs \cup S
    /\ \A c \in d.convs \cap e.convs : Grown(d.msgs[c], e.msgs[c])

LEMMA StatementsDevelop ==
  ASSUME NEW d \in Database, NEW c, NEW n
  PROVE  /\ Develops(d, InsertConversation(d, c), {c})
         /\ Develops(d, CountMessage(d, c), {})
         /\ Develops(d, SetTotal(d, c, n), {})
         /\ Develops(d, Archive(d, c), {})
         /\ Develops(d, DeleteConversation(d, c), {})
<1>1. \A s : Grown(s, s)
  BY DEF Grown
<1>2. Develops(d, InsertConversation(d, c), {c})
  BY <1>1 DEF Database, InsertConversation, Develops
<1>3. Develops(d, CountMessage(d, c), {}) /\ Develops(d, SetTotal(d, c, n), {})
  BY <1>1 DEF Database, CountMessage, SetTotal, Develops
<1>4. Develops(d, Archive(d, c), {})
  BY <1>1 DEF Database, Archive, Develops
<1>5. Develops(d, DeleteConversation(d, c), {})
  <2> DEFINE e == DeleteConversation(d, c)
  <2>1. e.convs = d.convs \ {c} /\ e.msgs = [d.msgs EXCEPT ![c] = <<>>]
    BY DEF Database, DeleteConversation
  <2>2. \A x \in e.convs : x # c /\ x \in Convs
    BY <2>1 DEF Database
  <2>3. \A x \in e.convs : e.msgs[x] = d.msgs[x]
    BY <2>1, <2>2 DEF Database
  <2> QED BY <1>1, <2>1, <2>3 DEF Develops
<1> QED BY <1>2, <1>3, <1>4, <1>5

LEMMA InsertionDevelops ==
  ASSUME NEW d \in Database, NEW c, NEW m \in Message, MayInsertMessage(d, c)
  PROVE  /\ Develops(d, InsertMessage(d, c, m), {})
         /\ Holds(InsertMessage(d, c, m).msgs[c], m)
<1> DEFINE e == InsertMessage(d, c, m)
<1>1. c \in Convs /\ d.msgs[c] \in Seq(Message)
  BY DEF Database, MayInsertMessage
<1>2. e.convs = d.convs /\ e.msgs = [d.msgs EXCEPT ![c] = Append(d.msgs[c], m)]
  BY DEF Database, InsertMessage
<1>3. e.msgs[c] = Append(d.msgs[c], m) /\ \A x \in Convs \ {c} : e.msgs[x] = d.msgs[x]
  BY <1>1, <1>2 DEF Database
<1>4. Grown(d.msgs[c], e.msgs[c]) /\ Holds(e.msgs[c], m)
  <2>1. /\ Len(d.msgs[c]) \in Nat
        /\ DOMAIN e.msgs[c] = 1 .. Len(d.msgs[c]) + 1
        /\ DOMAIN d.msgs[c] = 1 .. Len(d.msgs[c])
        /\ e.msgs[c][Len(d.msgs[c]) + 1] = m
        /\ \A i \in 1 .. Len(d.msgs[c]) : e.msgs[c][i] = d.msgs[c][i]
    BY <1>1, <1>3
  <2>2. Len(d.msgs[c]) + 1 \in DOMAIN e.msgs[c]
    BY <2>1
  <2> QED BY <2>1, <2>2 DEF Grown, Holds
<1>5. \A x \in Convs : Grown(d.msgs[x], e.msgs[x])
  BY <1>3, <1>4 DEF Grown
<1>6. d.convs \subseteq Convs
  BY DEF Database
<1> QED BY <1>2, <1>4, <1>5, <1>6 DEF Develops

LEMMA GrownTrans ==
  ASSUME NEW s, NEW t, NEW u, Grown(s, t), Grown(t, u)
  PROVE  Grown(s, u)
BY DEF Grown

(* What one statement of an operation, whichever it is, does to table and    *)
(* file: it writes to the one or makes it the other.                        *)
Writes == /\ Develops(db, db', {ids + 1} \cap 1 .. ids')
          /\ ids' \in {ids, ids + 1}
          /\ UNCHANGED durable \/ (durable' = db /\ UNCHANGED db)

LEMMA NothingDevelops == ASSUME NEW d PROVE Develops(d, d, {})
BY DEF Develops, Grown

LEMMA DevelopsMore ==
  ASSUME NEW d, NEW e, NEW S, Develops(d, e, {})
  PROVE  Develops(d, e, S)
BY DEF Develops

LEMMA CreationWrites ==
  ASSUME Types, db' = InsertConversation(db, ids + 1), ids' = ids + 1, UNCHANGED durable
  PROVE  Writes
<1>1. db \in Database /\ ids \in Nat
  BY TypesSplit, Constants DEF DbTypeOK
<1>2. {ids + 1} \cap 1 .. ids' = {ids + 1}
  BY <1>1
<1> QED BY <1>1, <1>2, StatementsDevelop DEF Writes

LEMMA ChangeWrites ==
  ASSUME Types, Develops(db, db', {}), UNCHANGED <<durable, ids>>
  PROVE  Writes
BY DevelopsMore DEF Writes

LEMMA CommitWrites ==
  ASSUME Types, Commit, UNCHANGED <<db, ids>>
  PROVE  Writes
BY DevelopsMore, NothingDevelops DEF Writes, Commit

LEMMA ReadingWrites ==
  ASSUME Types, UNCHANGED dbVars
  PROVE  Writes
BY DevelopsMore, NothingDevelops DEF Writes, dbVars

LEMMA JobWrites ==
  ASSUME Types, JobStep
  PROVE  Writes
<1> DEFINE j == Head(jobs)
<1>1. db \in Database
  BY TypesSplit DEF DbTypeOK
<1>2. jobs # <<>> => j \in GoodJob
  BY TypesSplit, HeadJob
<1>3. CASE \E op \in {"create", "createSend"} : Create(op)
  BY <1>3, CreationWrites, CommitWrites DEF Create
<1>4. CASE Add
  <2>1. jobs # <<>> /\ j.op = "add" /\ Head(j.rows) \in Message
    <3>1. jobs # <<>> /\ j.op = "add"
      BY <1>4 DEF Add, At
    <3> QED BY <1>2, <3>1 DEF GoodJob, Job
  <2>2. CASE At("add", 1) /\ MayInsertMessage(db, j.conv)
    BY <1>1, <1>4, <2>1, <2>2, InsertionDevelops, ChangeWrites DEF Add, At
  <2> QED BY <1>1, <1>4, <2>2, StatementsDevelop, ChangeWrites, CommitWrites, ReadingWrites DEF Add
<1>5. CASE Load \/ List
  BY <1>5, ReadingWrites DEF Load, List
<1>6. CASE Change("archive", Archive(db, j.conv)) \/ Change("delete", DeleteConversation(db, j.conv))
  BY <1>1, <1>6, StatementsDevelop, ChangeWrites, CommitWrites DEF Change
<1>7. CASE DuplicateBegins
  BY <1>7, CreationWrites, CommitWrites, ReadingWrites DEF DuplicateBegins
<1>8. CASE DuplicateRow
  <2>1. jobs # <<>> /\ j.rows # <<>> /\ Head(j.rows) \in Message
    <3>1. jobs # <<>> /\ j.rows # <<>>
      BY <1>8 DEF DuplicateRow, At
    <3> QED BY <1>2, <3>1 DEF GoodJob, Job
  <2>2. CASE MayInsertMessage(db, j.copy)
    BY <1>1, <1>8, <2>1, <2>2, InsertionDevelops, ChangeWrites DEF DuplicateRow
  <2>3. CASE ~MayInsertMessage(db, j.copy)
    BY <1>8, <2>3, NothingDevelops, ChangeWrites DEF DuplicateRow
  <2> QED BY <2>2, <2>3
<1>9. CASE DuplicateEnds
  BY <1>1, <1>9, StatementsDevelop, ChangeWrites, CommitWrites, ReadingWrites DEF DuplicateEnds
<1> QED BY <1>3, <1>4, <1>5, <1>6, <1>7, <1>8, <1>9 DEF JobStep

(* What is written stays numbered, behind the file and in the table. *)
LEMMA WritesNumbered ==
  ASSUME Types, Numbered, Writes
  PROVE  Numbered'
<1>1. ids \in Nat
  BY TypesSplit, Constants DEF DbTypeOK
<1>2. 1 .. ids \subseteq 1 .. ids'
  BY <1>1 DEF Writes
<1>3. db'.convs \subseteq 1 .. ids' /\ durable'.convs \subseteq 1 .. ids'
  BY <1>2 DEF Numbered, Writes, Develops
<1> QED BY <1>3 DEF Numbered

LEMMA WritesAdditive ==
  ASSUME Types, Numbered, Additive, Writes
  PROVE  Additive'
<1>1. ids \in Nat
  BY TypesSplit, Constants DEF DbTypeOK
<1>2. ids + 1 \notin durable.convs
  BY <1>1 DEF Numbered
<1>3. CASE UNCHANGED durable
  <2> SUFFICES ASSUME NEW c \in durable.convs, c \in db'.convs
               PROVE  Grown(durable.msgs[c], db'.msgs[c])
    BY <1>3 DEF Additive
  <2>1. c \in db.convs
    BY <1>2 DEF Writes, Develops
  <2>2. Grown(durable.msgs[c], db.msgs[c]) /\ Grown(db.msgs[c], db'.msgs[c])
    BY <2>1 DEF Additive, Writes, Develops
  <2> QED BY <2>2, GrownTrans
<1>4. CASE durable' = db /\ UNCHANGED db
  BY <1>4 DEF Additive, Grown
<1> QED BY <1>3, <1>4 DEF Writes

LEMMA WritesInTable ==
  ASSUME Types, Writes, NEW j, InTable(db, ids, j)
  PROVE  InTable(db', ids', j)
<1>1. ids \in Nat
  BY TypesSplit, Constants DEF DbTypeOK
<1>2. 1 .. ids \subseteq 1 .. ids' /\ ids + 1 \notin 1 .. ids
  BY <1>1 DEF Writes
<1>3. ASSUME j.conv \in db'.convs PROVE Holds(db'.msgs[j.conv], Head(j.rows))
  <2>1. j.conv \in db.convs
    BY <1>2, <1>3 DEF InTable, Writes, Develops
  <2>2. Holds(db.msgs[j.conv], Head(j.rows)) /\ Grown(db.msgs[j.conv], db'.msgs[j.conv])
    BY <1>3, <2>1 DEF InTable, Writes, Develops
  <2> QED BY <2>2 DEF Holds, Grown
<1> QED BY <1>2, <1>3 DEF InTable

(* Operations of queue q that are not in jobs have yet to begin. *)
OldOrNew(q) == \A i \in DOMAIN q : q[i].step = 1 \/ \E k \in DOMAIN jobs : q[i] = jobs[k]

LEMMA Joined ==
  ASSUME NEW p \in Seq(GoodJob), NEW q \in Seq(GoodJob), OldOrNew(p), OldOrNew(q)
  PROVE  OldOrNew(p \o q)
<1>1. \A i \in DOMAIN (p \o q) : \/ i \in DOMAIN p /\ (p \o q)[i] = p[i]
                                 \/ i - Len(p) \in DOMAIN q /\ (p \o q)[i] = q[i - Len(p)]
  OBVIOUS
<1> QED BY <1>1 DEF OldOrNew

LEMMA NewOnes ==
  /\ OldOrNew(jobs) /\ OldOrNew(<<>>)
  /\ \A op, c : OldOrNew(<<NewJob(op, c)>>)
  /\ \A c, m : OldOrNew(<<AddJob(c, m)>>)
  /\ \A c, m, op, d : OldOrNew(<<AddJob(c, m), NewJob(op, d)>>)
<1>1. \A op, c : NewJob(op, c).step = 1
  BY DEF NewJob
<1>2. \A c, m : AddJob(c, m).step = 1
  BY DEF NewJob, AddJob
<1>3. OldOrNew(jobs) /\ OldOrNew(<<>>)
  BY DEF OldOrNew
<1>4. \A op, c : OldOrNew(<<NewJob(op, c)>>)
  BY <1>1 DEF OldOrNew
<1>5. \A c, m : OldOrNew(<<AddJob(c, m)>>)
  BY <1>2 DEF OldOrNew
<1>6. ASSUME NEW c, NEW m, NEW op, NEW d PROVE OldOrNew(<<AddJob(c, m), NewJob(op, d)>>)
  <2> DEFINE q == <<AddJob(c, m), NewJob(op, d)>>
  <2>1. DOMAIN q = {1, 2} /\ q[1].step = 1 /\ q[2].step = 1
    BY <1>1, <1>2
  <2> QED BY <2>1 DEF OldOrNew
<1> QED BY <1>3, <1>4, <1>5, <1>6

LEMMA SubmittedIsNew ==
  ASSUME Types, NEW js \in Seq(GoodJob), OldOrNew(js), jobs' = jobs \o js
  PROVE  OldOrNew(jobs')
BY TypesSplit, Joined, NewOnes DEF Queues

LEMMA SendIsNew ==
  ASSUME Types, NEW c \in 0 .. MaxConvs, NEW g \in Gens, NEW now,
         NEW after \in Seq(GoodJob), OldOrNew(after), DoSend(c, g, jobs, now, after)
  PROVE  OldOrNew(jobs')
<1>1. <<AddJob(c, Question(g))>> \in Seq(GoodJob)
  <2>1. Question(g) \in Message
    BY Messages, <<>> \in Seq(Chunk)
  <2> QED BY <2>1, AddJobGood
<1>2. jobs \o <<AddJob(c, Question(g))>> \in Seq(GoodJob) /\ jobs \in Seq(GoodJob)
  BY <1>1, TypesSplit DEF Queues
<1>3. OldOrNew(jobs \o <<AddJob(c, Question(g))>>)
  BY <1>1, <1>2, Joined, NewOnes
<1>4. jobs' = (jobs \o <<AddJob(c, Question(g))>>) \o after
  BY DEF DoSend
<1> QED BY <1>2, <1>3, <1>4, Joined

LEMMA FinishIsNew ==
  ASSUME Types, NEW g \in Gens, FinishGeneration(g)
  PROVE  OldOrNew(jobs')
<1>1. CASE active = 0
  BY <1>1, NewOnes DEF FinishGeneration
<1>2. CASE active # 0
  <2>1. active \in 0 .. MaxConvs /\ genText \in Seq(Chunk)
    BY TypesSplit DEF UiTypes
  <2>2. AddJob(active, Reply(g, genText)) \in GoodJob /\ NewJob("list", 0) \in GoodJob
    BY <2>1, Messages, AddJobGood, NewJobGood, Constants DEF Ops
  <2>3. <<AddJob(active, Reply(g, genText)), NewJob("list", 0)>> \in Seq(GoodJob)
    BY <2>2
  <2> QED BY <1>2, <2>3, NewOnes, SubmittedIsNew DEF FinishGeneration
<1> QED BY <1>1, <1>2

LEMMA HandlersSubmit ==
  ASSUME Types, User \/ OnSignal
  PROVE  OldOrNew(jobs') /\ UNCHANGED dbVars
<1>1. sent < MaxGens => sent + 1 \in Gens
  BY TypesSplit, Constants DEF CountTypes, Gens
<1>2. active \in 0 .. MaxConvs /\ <<>> \in Seq(GoodJob)
  BY TypesSplit DEF UiTypes
<1>3. /\ <<NewJob("createSend", 0)>> \in Seq(GoodJob) /\ <<NewJob("create", 0)>> \in Seq(GoodJob)
      /\ <<NewJob("list", 0)>> \in Seq(GoodJob)
      /\ \A c \in Convs : \A op \in {"load", "archive", "delete", "duplicate"} :
            <<NewJob(op, c)>> \in Seq(GoodJob)
  BY NewJobGood, Constants DEF Ops
<1>4. token # 0 => token \in Gens
  BY TypesSplit, Constants DEF UiTypes, Gens
<1>5. CASE SendMessage
  <2>1. CASE active # 0
    BY <1>1, <1>2, <1>5, <2>1, NewOnes, SendIsNew DEF SendMessage
  <2>2. CASE active = 0
    BY <1>3, <1>5, <2>2, NewOnes, SubmittedIsNew DEF SendMessage, Submitted
  <2> QED BY <1>5, <2>1, <2>2 DEF SendMessage
<1>6. CASE Resend
  BY <1>1, <1>2, <1>6, NewOnes, SendIsNew DEF Resend
<1>7. CASE Stop
  BY <1>4, <1>7, FinishIsNew DEF Stop
<1>8. CASE NewConversation \/ \E c \in Convs : \/ Select(c) \/ Duplicate(c)
                            \/ \E op \in {"archive", "delete"} : Change1(op, c)
  BY <1>3, <1>8, NewOnes, SubmittedIsNew
  DEF NewConversation, Select, Duplicate, Change1, Submitted
<1>9. CASE OnText \/ OnLoaded \/ OnListed
  BY <1>9, NewOnes DEF OnText, OnLoaded, OnListed
<1>10. CASE OnStreamDone
  <2>1. Head(signals).gen \in Gens
    <3>1. Head(signals) \in GoodSignal /\ Head(signals).kind = "done"
      BY <1>10, TypesSplit, ConsumedTypes DEF OnStreamDone
    <3> QED BY <3>1 DEF GoodSignal
  <2> QED BY <1>10, <2>1, FinishIsNew, NewOnes DEF OnStreamDone
<1>11. CASE OnCreated \/ OnRefresh
  BY <1>3, <1>11, NewOnes, SubmittedIsNew DEF OnCreated, OnRefresh, Submitted
<1>12. CASE OnCreatedToSend
  <2>1. Head(signals).conv \in 0 .. MaxConvs
    BY <1>12, TypesSplit, ConsumedTypes DEF OnCreatedToSend
  <2>2. pendingText # 0 => pendingText \in Gens
    BY TypesSplit, Constants DEF UiTypes, Gens
  <2> QED BY <1>3, <1>12, <2>1, <2>2, NewOnes, SendIsNew, SubmittedIsNew
          DEF OnCreatedToSend, Submitted
<1> QED BY <1>5, <1>6, <1>7, <1>8, <1>9, <1>10, <1>11, <1>12 DEF User, OnSignal

LEMMA SubmitsFiled ==
  ASSUME Types, Filed, OldOrNew(jobs'), UNCHANGED dbVars
  PROVE  Filed'
<1>1. Numbered' /\ Additive'
  BY DEF Filed, Numbered, Additive, dbVars
<1>2. \A i \in DOMAIN jobs' :
         jobs'[i].op = "add" /\ jobs'[i].step > 1 => InTable(db, ids, jobs'[i])
  BY DEF Filed, Recorded, OldOrNew
<1>3. db' = db /\ ids' = ids
  BY DEF dbVars
<1> QED BY <1>1, <1>2, <1>3 DEF Filed, Recorded

(* One statement later: the head of the queue is done or goes to its end,    *)
(* and an insertion does so with its message in the table.                  *)
Advanced(k) == jobs' = Tail(jobs) \/ jobs' = Append(Tail(jobs), k)

LEMMA TurnsFiled ==
  ASSUME Types, Filed, Writes, jobs # <<>>, NEW k, Advanced(k),
         k.op = "add" /\ k.step > 1 => InTable(db', ids', k)
  PROVE  Filed'
<1>1. Numbered' /\ Additive'
  BY WritesNumbered, WritesAdditive DEF Filed
<1>2. jobs \in Seq(GoodJob) /\ Tail(jobs) \in Seq(GoodJob)
  BY TypesSplit, HeadJob DEF Queues
<1>3. ASSUME NEW i \in DOMAIN jobs'
      PROVE  jobs'[i] = k \/ \E l \in DOMAIN jobs : jobs'[i] = jobs[l]
  <2>1. \A l \in DOMAIN Tail(jobs) : l + 1 \in DOMAIN jobs /\ Tail(jobs)[l] = jobs[l + 1]
    BY <1>2
  <2>2. \A l \in DOMAIN Append(Tail(jobs), k) :
           \/ Append(Tail(jobs), k)[l] = k
           \/ l \in DOMAIN Tail(jobs) /\ Append(Tail(jobs), k)[l] = Tail(jobs)[l]
    BY <1>2
  <2> QED BY <2>1, <2>2 DEF Advanced
<1>4. \A l \in DOMAIN jobs :
         jobs[l].op = "add" /\ jobs[l].step > 1 => InTable(db', ids', jobs[l])
  BY WritesInTable DEF Filed, Recorded
<1> QED BY <1>1, <1>3, <1>4 DEF Filed, Recorded

(* Operations other than insertions stay what they are. *)
LEMMA OthersTurn ==
  ASSUME Types, JobStep, ~Add
  PROVE  jobs # <<>> /\ \E k : Advanced(k) /\ k.op # "add"
<1> DEFINE j == Head(jobs)
           n == Next1(j)
<1>1. jobs # <<>> => j \in Job /\ n \in Job /\ n.op = j.op
  BY TypesSplit, HeadJob, NextFields DEF GoodJob
<1> HIDE DEF n
<1>2. \A c : n \in Job => /\ [n EXCEPT !.conv = c].op = n.op /\ [n EXCEPT !.copy = c].op = n.op
                         /\ [n EXCEPT !.rows = c].op = n.op /\ [n EXCEPT !.count = c].op = n.op
                         /\ [n EXCEPT !.shown = c].op = n.op
  BY DEF Job
<1>3. \A c : j \in Job => [j EXCEPT !.rows = c].op = j.op
  BY DEF Job
<1>4. \A k : Continue(k) => Advanced(k)
  BY DEF Continue, Advanced
<1>5. \A x, s : Complete(s) \/ CompleteQuietly => Advanced(x)
  BY DEF Complete, CompleteQuietly, Advanced
<1>6. ASSUME jobs # <<>>, j.op # "add", NEW k, Continue(k), k.op = j.op
      PROVE  \E x : Advanced(x) /\ x.op # "add"
  BY <1>4, <1>6
<1>7. ASSUME jobs # <<>>, j.op # "add", NEW s, Complete(s) \/ CompleteQuietly
      PROVE  \E x : Advanced(x) /\ x.op # "add"
  BY <1>5, <1>7
<1>8. CASE \E op \in {"create", "createSend"} : Create(op)
  <2>1. jobs # <<>> /\ j.op # "add"
    BY <1>8 DEF Create, At
  <2>2. CASE Continue([n EXCEPT !.conv = ids + 1])
    BY <1>1, <1>2, <1>6, <2>1, <2>2
  <2>3. CASE \E s : Complete(s)
    BY <1>7, <2>1, <2>3
  <2> QED BY <1>8, <2>1, <2>2, <2>3 DEF Create, n
<1>9. CASE Load \/ List
  <2>1. jobs # <<>> /\ j.op # "add"
    BY <1>9 DEF Load, List, At
  <2>2. \/ \E s : Complete(s)
        \/ \E c : Continue([n EXCEPT !.rows = c]) \/ Continue([n EXCEPT !.shown = c])
    BY <1>9 DEF Load, List, n
  <2> QED BY <1>1, <1>2, <1>6, <1>7, <2>1, <2>2
<1>10. CASE \E op \in {"archive", "delete"} : \E d : Change(op, d)
  <2>1. jobs # <<>> /\ j.op # "add"
    BY <1>10 DEF Change, At
  <2>2. Continue(n) \/ \E s : Complete(s)
    BY <1>10 DEF Change, n
  <2> QED BY <1>1, <1>6, <1>7, <2>1, <2>2
<1>11. CASE DuplicateBegins
  <2>1. jobs # <<>> /\ j.op # "add"
    BY <1>11 DEF DuplicateBegins, At
  <2>2. \/ Continue(n) \/ \E s : Complete(s)
        \/ \E c : \/ Continue([n EXCEPT !.copy = c]) \/ Continue([n EXCEPT !.rows = c])
                  \/ Continue([n EXCEPT !.count = c])
    BY <1>11 DEF DuplicateBegins, n
  <2> QED BY <1>1, <1>2, <1>6, <1>7, <2>1, <2>2
<1>12. CASE DuplicateRow
  <2>1. jobs # <<>> /\ j.op # "add"
    BY <1>12 DEF DuplicateRow, At
  <2>2. CompleteQuietly \/ \E c : Continue([j EXCEPT !.rows = c])
    BY <1>12 DEF DuplicateRow
  <2> QED BY <1>1, <1>3, <1>6, <1>7, <2>1, <2>2
<1>13. CASE DuplicateEnds
  <2>1. jobs # <<>> /\ j.op # "add"
    BY <1>13 DEF DuplicateEnds, At
  <2>2. \/ Continue(n) \/ \E s : Complete(s)
        \/ \E c : Continue([n EXCEPT !.count = c])
    BY <1>13 DEF DuplicateEnds, n
  <2> QED BY <1>1, <1>2, <1>6, <1>7, <2>1, <2>2
<1>14. jobs # <<>>
  BY DEF JobStep, Create, Add, Load, List, Change, DuplicateBegins, DuplicateRow, DuplicateEnds, At
<1> QED BY <1>8, <1>9, <1>10, <1>11, <1>12, <1>13, <1>14 DEF JobStep

(* What an insertion that is past its first statement says it has inserted.  *)
LEMMA AddTurns ==
  ASSUME Types, Filed, Add, Writes
  PROVE  /\ jobs # <<>>
         /\ \E k : Advanced(k) /\ (k.op = "add" /\ k.step > 1 => InTable(db', ids', k))
<1> DEFINE j == Head(jobs)
           n == Next1(j)
<1>1. jobs # <<>> /\ j \in GoodJob /\ j.op = "add"
  BY TypesSplit, HeadJob DEF Add, At
<1>2. j \in Job /\ n.conv = j.conv /\ n.rows = j.rows /\ Head(j.rows) \in Message
  <2>1. j \in Job /\ j.rows \in Seq(Message) /\ j.rows # <<>>
    BY <1>1 DEF GoodJob, Job
  <2> QED BY <2>1, NextFields
<1>3. 1 \in DOMAIN jobs /\ jobs[1] = j
  BY <1>1, TypesSplit DEF Queues
<1>4. db \in Database /\ ids \in Nat
  BY TypesSplit, Constants DEF DbTypeOK
<1> HIDE DEF n
<1>5. CASE At("add", 1) /\ MayInsertMessage(db, j.conv)
  <2>1. db' = InsertMessage(db, j.conv, Head(j.rows)) /\ ids' = ids /\ Advanced(n)
    BY <1>5 DEF Add, At, Continue, Advanced, n
  <2>2. Holds(db'.msgs[j.conv], Head(j.rows))
    BY <1>2, <1>4, <1>5, <2>1, InsertionDevelops
  <2>3. j.conv \in 1 .. ids
    BY <1>5 DEF Filed, Numbered, MayInsertMessage
  <2> QED BY <1>1, <1>2, <2>1, <2>2, <2>3 DEF InTable
<1>6. CASE At("add", 1) /\ ~MayInsertMessage(db, j.conv)
  <2>1. CompleteQuietly
    BY <1>6 DEF Add, At
  <2>2. Advanced([op |-> "none"])
    BY <2>1 DEF CompleteQuietly, Advanced
  <2> QED BY <1>1, <2>2
<1>7. CASE At("add", 2)
  <2>1. Advanced(n) /\ j.step > 1
    BY <1>7 DEF Add, At, Continue, Advanced, n
  <2>2. InTable(db', ids', j)
    BY <1>1, <1>3, <2>1, WritesInTable DEF Filed, Recorded
  <2> QED BY <1>1, <1>2, <2>1, <2>2 DEF InTable
<1>8. CASE At("add", 3)
  <2>1. CompleteQuietly
    BY <1>8 DEF Add, At
  <2>2. Advanced([op |-> "none"])
    BY <2>1 DEF CompleteQuietly, Advanced
  <2> QED BY <1>1, <2>2
<1> QED BY <1>5, <1>6, <1>7, <1>8 DEF Add

LEMMA FiledNext == Types /\ Filed /\ [Next]_vars => Filed'
<1> SUFFICES ASSUME Types, Filed, [Next]_vars PROVE Filed'
  OBVIOUS
<1>1. CASE User \/ OnSignal
  BY <1>1, HandlersSubmit, SubmitsFiled
<1>2. CASE JobStep
  <2>1. Writes
    BY <1>2, JobWrites
  <2>2. CASE Add
    BY <2>1, <2>2, AddTurns, TurnsFiled
  <2>3. CASE ~Add
    <3>1. PICK k : Advanced(k) /\ k.op # "add"
      BY <1>2, <2>3, OthersTurn
    <3>2. jobs # <<>>
      BY <1>2, <2>3, OthersTurn
    <3> QED BY <2>1, <3>1, <3>2, TurnsFiled
  <2> QED BY <2>2, <2>3
<1>3. CASE StreamStep \/ UNCHANGED vars
  <2>1. jobs' = jobs /\ UNCHANGED dbVars
    BY <1>3 DEF StreamStep, vars, runnerVars
  <2> QED BY <2>1, NewOnes, SubmitsFiled
<1>4. CASE Restart
  <2>1. db' = durable /\ durable' = durable /\ ids' = ids /\ jobs' = <<NewJob("list", 0)>>
    BY <1>4 DEF Restart, DbRestart, RunnerRestart
  <2>2. Numbered' /\ Additive'
    BY <2>1 DEF Filed, Numbered, Additive, Grown
  <2>3. \A i \in DOMAIN jobs' : jobs'[i].op # "add"
    BY <2>1 DEF NewJob
  <2> QED BY <2>2, <2>3 DEF Filed, Recorded
<1> QED BY <1>1, <1>2, <1>3, <1>4 DEF Next, Background

LEMMA FiledInit == Init => Filed
BY DEF Init, DbInit, RunnerInit, EmptyDatabase, Filed, Numbered, Additive, Recorded

LEMMA FiledInvariant == Spec => []Filed
BY FiledInit, FiledNext, TypesInvariant, PTL DEF Spec

(* The statement with which an insertion returns is its COMMIT, or the one   *)
(* that was refused because the conversation is deleted.                    *)
LEMMA ReturnedIsStored ==
  ASSUME Types, Filed, Returns("add"), Head(jobs).conv \in db'.convs
  PROVE  Holds(durable'.msgs[Head(jobs).conv], Head(Head(jobs).rows))
<1> DEFINE j == Head(jobs)
<1>1. jobs \in Seq(GoodJob) /\ jobs # <<>> /\ j.op = "add" /\ jobs' = Tail(jobs)
  BY TypesSplit DEF Returns, Queues
<1>2. \A k : ~Continue(k)
  <2>1. ASSUME NEW k, jobs' = Append(Tail(jobs), k) PROVE FALSE
    <3>1. Tail(jobs) \in Seq(GoodJob) /\ Len(Tail(jobs)) \in Nat
      BY <1>1
    <3>2. Len(Append(Tail(jobs), k)) = Len(Tail(jobs)) + 1
      BY <3>1
    <3> QED BY <1>1, <2>1, <3>1, <3>2
  <2> QED BY <2>1 DEF Continue
<1>3. Add
  BY <1>1 DEF Returns, JobStep, Create, Load, List, Change, DuplicateBegins, DuplicateRow,
              DuplicateEnds, At
<1>4. At("add", 3) /\ Commit /\ db' = db
  BY <1>2, <1>3 DEF Add, At, MayInsertMessage, dbVars
<1>5. 1 \in DOMAIN jobs /\ jobs[1] = j /\ j.step = 3
  BY <1>1, <1>4 DEF At
<1>6. InTable(db, ids, j)
  BY <1>1, <1>5 DEF Filed, Recorded
<1> QED BY <1>4, <1>6 DEF InTable, Commit

LEMMA StepsKeep == Types /\ Filed /\ [Next]_vars => [CommitKeeps]_vars
<1> SUFFICES ASSUME Types, Filed, [Next]_vars PROVE CommitKeeps
  OBVIOUS
<1>1. UNCHANGED durable \/ durable' = db
  <2>1. CASE User \/ OnSignal
    BY <2>1, HandlersSubmit DEF dbVars
  <2>2. CASE JobStep
    BY <2>2, JobWrites DEF Writes
  <2>3. CASE StreamStep \/ UNCHANGED vars \/ Restart
    BY <2>3 DEF StreamStep, vars, dbVars, Restart, DbRestart
  <2> QED BY <2>1, <2>2, <2>3 DEF Next, Background
<1>2. \A c \in durable.convs \cap durable'.convs : Grown(durable.msgs[c], durable'.msgs[c])
  BY <1>1 DEF Filed, Additive, Grown
<1>3. \A c \in 1 .. ids : c \notin db.convs \cup durable.convs => c \notin durable'.convs
  BY <1>1
<1> QED BY <1>2, <1>3, ReturnedIsStored DEF CommitKeeps

(* Whatever mixes on the connection and whenever the program ends, the file  *)
(* keeps what reached it until the conversation is deleted, and an insertion *)
(* returns when its message is there.                                        *)
THEOREM CommittedForGood == Spec => CommittedStays
<1>1. Types /\ Filed /\ [Next]_vars => [CommitKeeps]_vars
  BY StepsKeep
<1> QED BY <1>1, TypesInvariant, FiledInvariant, PTL DEF Spec, CommittedStays
=============================================================================

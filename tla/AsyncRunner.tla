----------------------------- MODULE AsyncRunner -----------------------------
(***************************************************************************)
(* emily_chat/ui/async_bridge.py, class AsyncRunner: the background thread *)
(* with the event loop in which database operations and answer streams run,*)
(* and the queue of Qt signals through which their results reach the main  *)
(* thread.                                                                 *)
(*                                                                         *)
(* A database operation is a job.  Its statements wait in the connection's *)
(* queue one at a time: jobs[1] is the next to be executed, and an         *)
(* operation with statements left goes to the end of the queue, behind     *)
(* those submitted meanwhile.  So operations advance in turns, in the order*)
(* in which they were submitted.                                           *)
(***************************************************************************)
EXTENDS ConversationDatabase

VARIABLES
    jobs,       \* operations in progress, in the order of their next statements
    streams,    \* per generation: its streaming task and the chunks it has emitted
    signals     \* Qt events queued for the main thread

runnerVars == <<jobs, streams, signals>>

Ops == {"create", "createSend", "add", "load", "list", "archive", "delete", "duplicate"}

(* conv is the conversation worked on, copy the one a duplicate creates,    *)
(* rows, count and shown what its SELECTs have read.                        *)
Job == [op : Ops, conv : 0 .. MaxConvs, copy : 0 .. MaxConvs, step : Nat,
        rows : Seq(Message), count : Nat, shown : SUBSET Convs]

NewJob(op, c) == [op |-> op, conv |-> c, copy |-> 0, step |-> 1, rows |-> <<>>, count |-> 0,
                  shown |-> {}]

(* add_message: the message to insert is kept where other jobs keep rows. *)
AddJob(c, m) == [NewJob("add", c) EXCEPT !.rows = <<m>>]

Stream == [status : {"none", "running", "cancelled", "ended"}, sent : 0 .. MaxChunks]

(* result_ready of an operation, chunk_received of a text chunk, stream_done. *)
Signal == [kind : {"create", "createSend", "load", "refresh", "list", "text", "done"},
           conv : 0 .. MaxConvs, rows : Seq(Message), shown : SUBSET Convs,
           gen : 0 .. MaxGens, index : 0 .. MaxChunks]

NewSignal(kind) == [kind |-> kind, conv |-> 0, rows |-> <<>>, shown |-> {},
                    gen |-> 0, index |-> 0]

RunnerTypeOK ==
    /\ jobs \in Seq(Job)
    /\ streams \in [Gens -> Stream]
    /\ signals \in Seq(Signal)

NoStreams == [g \in Gens |-> [status |-> "none", sent |-> 0]]

(* Emily Chat has opened its database and asked for the list. *)
RunnerInit == jobs = <<>> /\ streams = NoStreams /\ signals = <<>>

-----------------------------------------------------------------------------
(* One statement of the operation at the head of the queue.                 *)

At(op, step) == jobs # <<>> /\ Head(jobs).op = op /\ Head(jobs).step = step
Next1(j) == [j EXCEPT !.step = @ + 1]
Continue(j) == jobs' = Append(Tail(jobs), j) /\ UNCHANGED signals
Complete(signal) == jobs' = Tail(jobs) /\ signals' = Append(signals, signal)

(* add_message returns to nobody: its token is not in _pending, so that its  *)
(* result is dropped and its error only logged.                             *)
CompleteQuietly == jobs' = Tail(jobs) /\ UNCHANGED signals

Create(op) ==
    \/ /\ At(op, 1) /\ ids < MaxConvs
       /\ ids' = ids + 1
       /\ db' = InsertConversation(db, ids + 1)
       /\ Continue([Next1(Head(jobs)) EXCEPT !.conv = ids + 1])
       /\ UNCHANGED durable
    \/ /\ At(op, 2)
       /\ Commit
       /\ Complete([NewSignal(op) EXCEPT !.conv = Head(jobs).conv])
       /\ UNCHANGED <<db, ids>>

(* Wrong variant: the message is not counted. *)
AddUncounted ==
    LET j == Head(jobs) IN
    \/ /\ At("add", 1)
       /\ db' = IF MayInsertMessage(db, j.conv)
                THEN InsertMessage(db, j.conv, Head(j.rows)) ELSE db
       /\ Continue([j EXCEPT !.step = 3])
       /\ UNCHANGED <<durable, ids>>
    \/ /\ At("add", 3)
       /\ Commit
       /\ CompleteQuietly
       /\ UNCHANGED <<db, ids>>

(* Wrong variant: the message is inserted and counted, but not committed. *)
AddUncommitted ==
    LET j == Head(jobs) IN
    \/ /\ At("add", 1) /\ MayInsertMessage(db, j.conv)
       /\ db' = InsertMessage(db, j.conv, Head(j.rows))
       /\ Continue(Next1(j))
       /\ UNCHANGED <<durable, ids>>
    \/ /\ At("add", 1) /\ ~MayInsertMessage(db, j.conv)
       /\ CompleteQuietly
       /\ UNCHANGED dbVars
    \/ /\ At("add", 2)
       /\ db' = CountMessage(db, j.conv)
       /\ CompleteQuietly
       /\ UNCHANGED <<durable, ids>>

Add ==
    LET j == Head(jobs) IN
    \/ /\ At("add", 1) /\ MayInsertMessage(db, j.conv)
       /\ db' = InsertMessage(db, j.conv, Head(j.rows))
       /\ Continue(Next1(j))
       /\ UNCHANGED <<durable, ids>>
    \/ /\ At("add", 1) /\ ~MayInsertMessage(db, j.conv)
       /\ CompleteQuietly
       /\ UNCHANGED dbVars
    \/ /\ At("add", 2)
       /\ db' = CountMessage(db, j.conv)
       /\ Continue(Next1(j))
       /\ UNCHANGED <<durable, ids>>
    \/ /\ At("add", 3)
       /\ Commit
       /\ CompleteQuietly
       /\ UNCHANGED <<db, ids>>

(* A SELECT and the fetch of its rows are two items of the connection's       *)
(* queue.  Messages are read from an index in the order asked for: the first *)
(* one when the SELECT is executed, the others when they are fetched.        *)
First(ms) == IF ms = <<>> THEN <<>> ELSE <<Head(ms)>>
Fetched(first, ms) == IF first = <<>> \/ ms = <<>> THEN first ELSE ms

Load ==
    LET j == Head(jobs) IN
    /\ \/ /\ At("load", 1)
          /\ Continue([Next1(j) EXCEPT !.rows = First(db.msgs[j.conv])])
       \/ /\ At("load", 2)
          /\ Complete([NewSignal("load") EXCEPT !.rows = Fetched(j.rows, db.msgs[j.conv])])
    /\ UNCHANGED dbVars

(* The list is sorted, and so read, when the SELECT is executed. *)
List ==
    LET j == Head(jobs) IN
    /\ \/ /\ At("list", 1)
          /\ Continue([Next1(j) EXCEPT !.shown = Listed(db)])
       \/ /\ At("list", 2)
          /\ Complete([NewSignal("list") EXCEPT !.shown = j.shown])
    /\ UNCHANGED dbVars

(* An operation of one statement, after which the database is d. *)
Change(op, d) ==
    \/ /\ At(op, 1)
       /\ db' = d
       /\ Continue(Next1(Head(jobs)))
       /\ UNCHANGED <<durable, ids>>
    \/ /\ At(op, 2)
       /\ Commit
       /\ Complete(NewSignal("refresh"))
       /\ UNCHANGED <<db, ids>>

(* duplicate_conversation(): get_conversation(), create_conversation(), which  *)
(* commits the copy before it has its messages, and the SELECT of these.    *)
DuplicateBegins ==
    LET j == Head(jobs) IN
    \/ /\ At("duplicate", 1)
       /\ Continue([Next1(j) EXCEPT !.count = IF j.conv \in db.convs THEN 1 ELSE 0])
       /\ UNCHANGED dbVars
    \/ /\ At("duplicate", 2)
       /\ IF j.count = 1 THEN Continue(Next1(j)) ELSE Complete(NewSignal("refresh"))
       /\ UNCHANGED dbVars
    \/ /\ At("duplicate", 3) /\ ids < MaxConvs
       /\ ids' = ids + 1
       /\ db' = InsertConversation(db, ids + 1)
       /\ Continue([Next1(j) EXCEPT !.copy = ids + 1])
       /\ UNCHANGED durable
    \/ /\ At("duplicate", 4)
       /\ Commit
       /\ Continue(Next1(j))
       /\ UNCHANGED <<db, ids>>
    \/ /\ At("duplicate", 5)
       /\ Continue([Next1(j) EXCEPT !.rows = First(db.msgs[j.conv])])
       /\ UNCHANGED dbVars
    \/ /\ At("duplicate", 6)
       /\ Continue([Next1(j) EXCEPT !.rows = Fetched(j.rows, db.msgs[j.conv])])
       /\ UNCHANGED dbVars

(* One INSERT per row; the insertion fails when the copy was deleted. *)
DuplicateRow ==
    LET j == Head(jobs) IN
    /\ At("duplicate", 7) /\ j.rows # <<>>
    /\ IF MayInsertMessage(db, j.copy)
       THEN /\ db' = InsertMessage(db, j.copy, Head(j.rows))
            /\ Continue([j EXCEPT !.rows = Tail(@)])
       ELSE CompleteQuietly /\ UNCHANGED db
    /\ UNCHANGED <<durable, ids>>

(* _recount_conversation(): the messages are counted, the count is fetched    *)
(* and set; then get_conversation() reads the copy.                         *)
DuplicateEnds ==
    LET j == Head(jobs) IN
    \/ /\ At("duplicate", 7) /\ j.rows = <<>>
       /\ Continue([Next1(j) EXCEPT !.count = Len(db.msgs[j.copy])])
       /\ UNCHANGED dbVars
    \/ /\ At("duplicate", 9)
       /\ db' = SetTotal(db, j.copy, j.count)
       /\ Continue(Next1(j))
       /\ UNCHANGED <<durable, ids>>
    \/ /\ At("duplicate", 10)
       /\ Commit
       /\ Continue(Next1(j))
       /\ UNCHANGED <<db, ids>>
    \/ /\ At("duplicate", 8) \/ At("duplicate", 11)
       /\ Continue(Next1(j))
       /\ UNCHANGED dbVars
    \/ /\ At("duplicate", 12)
       /\ Complete(NewSignal("refresh"))
       /\ UNCHANGED dbVars

(* add_message() inserts into a copy whose count is executed, not fetched:    *)
(* the total will be set after the message has been counted.                *)
Counted(c) == \E i \in DOMAIN jobs :
                  jobs[i].op = "duplicate" /\ jobs[i].copy = c /\ jobs[i].step = 8
Misses == At("add", 1) /\ MayInsertMessage(db, Head(jobs).conv) /\ Counted(Head(jobs).conv)

JobStep ==
    /\ \/ \E op \in {"create", "createSend"} : Create(op)
       \/ Add
       \/ Load
       \/ List
       \/ Change("archive", Archive(db, Head(jobs).conv))
       \/ Change("delete", DeleteConversation(db, Head(jobs).conv))
       \/ DuplicateBegins \/ DuplicateRow \/ DuplicateEnds
    /\ missed' = IF Misses THEN missed \cup {Head(jobs).conv} ELSE missed
    /\ UNCHANGED streams

-----------------------------------------------------------------------------
(* A streaming task signals the engine's chunks as they come.  The engine    *)
(* turns an exception of the provider into an error chunk, which the        *)
(* controller ignores, and ends: failing is ending early.  A cancellation is *)
(* posted to the loop, so that the stream may run on until it arrives.      *)

SubmitStreaming(g) == streams' = [streams EXCEPT ![g].status = "running"]
CancelStream(g) ==
    streams' = [streams EXCEPT ![g].status = IF @ = "running" THEN "cancelled" ELSE @]

Alive(g) == streams[g].status \in {"running", "cancelled"}

EmitChunk(g) ==
    /\ Alive(g) /\ streams[g].sent < MaxChunks
    /\ streams' = [streams EXCEPT ![g].sent = @ + 1]
    /\ signals' = Append(signals, [NewSignal("text") EXCEPT !.gen = g,
                                                            !.index = streams[g].sent + 1])

(* Wrong variant: the end of a stream is not signalled. *)
StreamEndsSilently(g) ==
    /\ Alive(g)
    /\ streams' = [streams EXCEPT ![g].status = "ended"]
    /\ UNCHANGED signals

StreamEnds(g) ==
    /\ Alive(g)
    /\ streams' = [streams EXCEPT ![g].status = "ended"]
    /\ signals' = Append(signals, [NewSignal("done") EXCEPT !.gen = g])

(* CancelledError is not an Exception: neither stream_done nor an error. *)
CancelLands(g) ==
    /\ streams[g].status = "cancelled"
    /\ streams' = [streams EXCEPT ![g].status = "ended"]
    /\ UNCHANGED signals

StreamStep ==
    /\ \E g \in Gens : EmitChunk(g) \/ StreamEnds(g) \/ CancelLands(g)
    /\ UNCHANGED <<jobs, dbVars>>

(* shutdown(): the loop stops before what was just submitted (closing the    *)
(* providers and the database) has begun; a crash leaves no more than that.  *)
RunnerRestart == jobs' = <<NewJob("list", 0)>> /\ streams' = NoStreams /\ signals' = <<>>
=============================================================================

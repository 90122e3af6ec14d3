----------------------------- MODULE AudioOutput -----------------------------
(***************************************************************************)
(* voice/output_stream.py, class AudioOutputStream, as core/bootstrap.py   *)
(* uses it: one playback queue and one interrupt event shared by every     *)
(* call of play_stream().  A call feeds the queue while a drain task of    *)
(* its own plays it.  Call 0 is the startup greeting, a background task;   *)
(* calls 1, 2, ... are the bridge's answers, each awaited before the next. *)
(* A chunk is numbered within its call; number 0 is the None that ends it. *)
(***************************************************************************)
EXTENDS Naturals, Sequences, FiniteSets

CONSTANTS QueueSize,   \* maxsize of _playback_queue
          Answers,     \* bound: answers the bridge plays
          MaxChunks    \* bound: chunks of one call

ASSUME OutputConstants == QueueSize \in Nat \ {0} /\ Answers \in Nat /\ MaxChunks \in Nat

VARIABLES
    interrupt,   \* _interrupt_event
    queue,       \* _playback_queue
    feeder,      \* per call: where play_stream is suspended
    fed,         \* history: chunks each call has decoded
    drain,       \* per call: where its drain task is suspended
    played,      \* history: chunks handed to the device, in order
    trouble      \* history: what went wrong so far

vars == <<interrupt, queue, feeder, fed, drain, played, trouble>>

Calls == 0 .. Answers
Active(c) == feeder[c] \notin {"idle", "returned"}
Full == Len(queue) >= QueueSize

Init ==
    /\ interrupt = FALSE
    /\ queue = <<>>
    /\ feeder = [c \in Calls |-> "idle"]
    /\ fed = [c \in Calls |-> 0]
    /\ drain = [c \in Calls |-> "none"]
    /\ played = <<>>
    /\ trouble = {}

-----------------------------------------------------------------------------
(* play_stream(). *)

(* The bridge awaits one answer before it starts the next. *)
Start(c) ==
    /\ feeder[c] = "idle"
    /\ c > 1 => feeder[c - 1] = "returned"
    /\ interrupt' = FALSE
    /\ feeder' = [feeder EXCEPT ![c] = "feeding"]
    /\ drain' = [drain EXCEPT ![c] = "created"]
    /\ UNCHANGED <<queue, fed, played, trouble>>

(* The interrupt is looked at for each chunk, before it is queued. *)
Feed(c) ==
    /\ feeder[c] = "feeding" /\ ~interrupt
    /\ fed[c] < MaxChunks
    /\ fed' = [fed EXCEPT ![c] = @ + 1]
    /\ \/ /\ ~Full
          /\ queue' = Append(queue, [call |-> c, index |-> fed[c] + 1])
          /\ UNCHANGED feeder
       \/ /\ Full
          /\ feeder' = [feeder EXCEPT ![c] = "putting"]
          /\ UNCHANGED queue
    /\ UNCHANGED <<interrupt, drain, played, trouble>>

(* Wrong variants: no look at the room; the chunk overtakes those before it; *)
(* the chunk is dropped.                                                     *)
PutResumesUnbounded(c) ==
    /\ feeder[c] = "putting"
    /\ queue' = Append(queue, [call |-> c, index |-> fed[c]])
    /\ feeder' = [feeder EXCEPT ![c] = "feeding"]
    /\ UNCHANGED <<interrupt, fed, drain, played, trouble>>

PutResumesFirst(c) ==
    /\ feeder[c] = "putting" /\ ~Full
    /\ queue' = <<[call |-> c, index |-> fed[c]]>> \o queue
    /\ feeder' = [feeder EXCEPT ![c] = "feeding"]
    /\ UNCHANGED <<interrupt, fed, drain, played, trouble>>

PutGivesUp(c) ==
    /\ feeder[c] = "putting"
    /\ feeder' = [feeder EXCEPT ![c] = "feeding"]
    /\ UNCHANGED <<interrupt, queue, fed, drain, played, trouble>>

(* The blocked put() of a chunk finds room. *)
PutResumes(c) ==
    /\ feeder[c] = "putting" /\ ~Full
    /\ queue' = Append(queue, [call |-> c, index |-> fed[c]])
    /\ feeder' = [feeder EXCEPT ![c] = "feeding"]
    /\ UNCHANGED <<interrupt, fed, drain, played, trouble>>

(* Wrong variant: an end mark that finds the queue full is given up. *)
MarkOrDrop(c) ==
    /\ queue' = IF Full THEN queue ELSE Append(queue, [call |-> c, index |-> 0])
    /\ feeder' = [feeder EXCEPT ![c] = IF interrupt THEN "returned" ELSE "waiting"]
    /\ drain' = IF interrupt THEN [drain EXCEPT ![c] = "ended"] ELSE drain

(* The end mark is queued; then the drain task is awaited, or cancelled     *)
(* when the interrupt is set.                                               *)
Mark(c) ==
    /\ ~Full
    /\ queue' = Append(queue, [call |-> c, index |-> 0])
    /\ \/ /\ ~interrupt
          /\ feeder' = [feeder EXCEPT ![c] = "waiting"]
          /\ UNCHANGED drain
       \/ /\ interrupt
          /\ feeder' = [feeder EXCEPT ![c] = "returned"]
          /\ drain' = [drain EXCEPT ![c] = "ended"]

(* The chunks are over, or the interrupt was seen. *)
FeedEnds(c) ==
    /\ feeder[c] = "feeding"
    /\ \/ Mark(c)
       \/ /\ Full
          /\ feeder' = [feeder EXCEPT ![c] = "marking"]
          /\ UNCHANGED <<queue, drain>>
    /\ UNCHANGED <<interrupt, fed, played, trouble>>

MarkResumes(c) ==
    /\ feeder[c] = "marking"
    /\ Mark(c)
    /\ UNCHANGED <<interrupt, fed, played, trouble>>

Join(c) ==
    /\ feeder[c] = "waiting" /\ drain[c] = "ended"
    /\ feeder' = [feeder EXCEPT ![c] = "returned"]
    /\ UNCHANGED <<interrupt, queue, fed, drain, played, trouble>>

(* The source of the chunks raises: the error is logged, no end mark is     *)
(* queued and the drain task is left alone.                                 *)
SourceFails(c) ==
    /\ feeder[c] = "feeding"
    /\ feeder' = [feeder EXCEPT ![c] = "returned"]
    /\ trouble' = trouble \cup {"source"}
    /\ UNCHANGED <<interrupt, queue, fed, drain, played>>

-----------------------------------------------------------------------------
(* _drain_playback_queue(). *)

(* Wrong variant: the drain task gives up when it finds nothing. *)
DrainGetImpatient(c) ==
    /\ drain[c] \in {"created", "get"}
    /\ \/ /\ queue = <<>>
          /\ drain' = [drain EXCEPT ![c] = "ended"]
          /\ UNCHANGED <<queue, played>>
       \/ /\ queue # <<>>
          /\ queue' = Tail(queue)
          /\ \/ /\ Head(queue).index = 0 \/ interrupt
                /\ drain' = [drain EXCEPT ![c] = "ended"]
                /\ UNCHANGED played
             \/ /\ Head(queue).index # 0 /\ ~interrupt
                /\ drain' = [drain EXCEPT ![c] = "playing"]
                /\ played' = Append(played, Head(queue))
    /\ UNCHANGED <<interrupt, feeder, fed, trouble>>

(* Whose chunk or end mark it is, is not looked at. *)
DrainGet(c) ==
    /\ drain[c] \in {"created", "get"} /\ queue # <<>>
    /\ queue' = Tail(queue)
    /\ \/ /\ Head(queue).index = 0 \/ interrupt
          /\ drain' = [drain EXCEPT ![c] = "ended"]
          /\ UNCHANGED played
       \/ /\ Head(queue).index # 0 /\ ~interrupt
          /\ drain' = [drain EXCEPT ![c] = "playing"]
          /\ played' = Append(played, Head(queue))
    /\ UNCHANGED <<interrupt, feeder, fed, trouble>>

DrainPlayed(c) ==
    /\ drain[c] = "playing"
    /\ drain' = [drain EXCEPT ![c] = "get"]
    /\ UNCHANGED <<interrupt, queue, feeder, fed, played, trouble>>

(* The device cannot be opened or raises while it plays: the drain task     *)
(* ends, the queue keeps what is in it.                                     *)
DeviceFails(c) ==
    /\ drain[c] \in {"created", "playing"}
    /\ drain' = [drain EXCEPT ![c] = "ended"]
    /\ trouble' = trouble \cup {"device"}
    /\ UNCHANGED <<interrupt, queue, feeder, fed, played>>

(* interrupt() *)
Interrupt ==
    /\ ~interrupt /\ \E c \in Calls : Active(c)
    /\ interrupt' = TRUE
    /\ trouble' = trouble \cup {"interrupt"}
    /\ UNCHANGED <<queue, feeder, fed, drain, played>>

-----------------------------------------------------------------------------
Feeding(c) == PutResumes(c) \/ FeedEnds(c) \/ MarkResumes(c) \/ Join(c)
Draining(c) == DrainGet(c) \/ DrainPlayed(c)

Next ==
    \/ \E c \in Calls : \/ Start(c) \/ Feed(c) \/ Feeding(c) \/ SourceFails(c)
                        \/ Draining(c) \/ DeviceFails(c)
    \/ Interrupt

Spec == Init /\ [][Next]_vars

(* Both tasks of a call are scheduled, sources are finite, playing a chunk  *)
(* takes a finite time.                                                     *)
FairSpec == Spec /\ \A c \in Calls : WF_vars(Feeding(c)) /\ WF_vars(Draining(c))

-----------------------------------------------------------------------------
(* Type invariant; the queue never grows past its size. *)
TypeOK ==
    /\ interrupt \in BOOLEAN
    /\ queue \in Seq([call : Calls, index : 0 .. MaxChunks]) /\ Len(queue) <= QueueSize
    /\ feeder \in [Calls -> {"idle", "feeding", "putting", "marking", "waiting", "returned"}]
    /\ fed \in [Calls -> 0 .. MaxChunks]
    /\ drain \in [Calls -> {"none", "created", "get", "playing", "ended"}]
    /\ played \in Seq([call : Calls, index : 1 .. MaxChunks])
    /\ trouble \subseteq {"interrupt", "device", "source"}

(* Whatever goes wrong and whichever drain task takes them, the chunks of a *)
(* call reach the device in order and at most once.                         *)
InOrder ==
    \A i, j \in 1 .. Len(played) :
        i < j /\ played[i].call = played[j].call => played[i].index < played[j].index

(* Drain tasks that still have an end mark to take, calls that still have   *)
(* one to queue, and the end marks of a queue.                              *)
Drains == {c \in Calls : drain[c] \in {"created", "get", "playing"}}
Feeders == {c \in Calls : feeder[c] \in {"feeding", "putting", "marking"}}
MarksOf(q) == {k \in 1 .. Len(q) : q[k].index = 0}

(* While nothing has gone wrong, the queue has as many end marks in it or   *)
(* to come as there are drain tasks to take one: the greeting and an answer *)
(* share the queue without starving each other's drain task.                *)
MarksMatchDrains ==
    trouble = {} =>
      Cardinality(Drains) = Cardinality(Feeders) + Cardinality(MarksOf(queue))

(* While nothing has gone wrong, silence means that all was said: with no   *)
(* call active the queue is empty and every chunk decoded was played.       *)
AllIsSaid ==
    trouble = {} /\ (\A c \in Calls : ~Active(c)) =>
      /\ queue = <<>>
      /\ \A c \in Calls : \A k \in 1 .. fed[c] :
            [call |-> c, index |-> k] \in {played[i] : i \in 1 .. Len(played)}

(* Chunks each call has handed to the queue so far. *)
Handed == [c \in Calls |-> IF feeder[c] = "putting" THEN fed[c] - 1 ELSE fed[c]]

(* What InOrder needs besides: the chunks of a call still queued are in     *)
(* order too, they come after those played, and none was handed over twice. *)
QueueOrder ==
    /\ \A i, j \in 1 .. Len(queue) :
          i < j /\ queue[i].call = queue[j].call /\ queue[j].index # 0
            => queue[i].index < queue[j].index
    /\ \A i \in 1 .. Len(played), j \in 1 .. Len(queue) :
          played[i].call = queue[j].call /\ queue[j].index # 0
            => played[i].index < queue[j].index
    /\ \A i \in 1 .. Len(played) : played[i].index <= Handed[played[i].call]
    /\ \A j \in 1 .. Len(queue) : queue[j].index <= Handed[queue[j].call]

(* What MarksMatchDrains needs besides: without trouble no interrupt is     *)
(* set, a call and its drain task start together, and a chunk that waits    *)
(* for room is no end mark.                                                 *)
Undisturbed ==
    trouble = {} => /\ ~interrupt
                    /\ \A c \in Calls : /\ drain[c] = "none" <=> feeder[c] = "idle"
                                        /\ feeder[c] = "putting" => fed[c] # 0

(* While nothing goes wrong, every call of play_stream returns. *)
CallsReturn == [](trouble = {}) => \A c \in Calls : Active(c) ~> feeder[c] = "returned"

(* "non-critical, degrades gracefully if no engines installed"              *)
(* (bootstrap.py, of the singing engine): when at most sources of chunks    *)
(* failed, every call still returns.                                        *)
CallsReturnAfterSourceFailed ==
    [](trouble \subseteq {"source"}) => \A c \in Calls : Active(c) ~> feeder[c] = "returned"
=============================================================================

--------------------------- MODULE SentencePipeline ---------------------------
(***************************************************************************)
(* conversation/fsm.py, _response_via_orchestrator: one response of the    *)
(* local model.  A producer task puts sentences in a bounded queue while   *)
(* the response loop speaks them; the end of the response cancels the      *)
(* producer and waits for it.  Sentences are numbered as they are          *)
(* generated; 0 is the None that ends the queue.                           *)
(*                                                                         *)
(* The producer drives llm/orchestrator.py, generate_streaming, which looks*)
(* at the interrupt once per chunk of the model.  A chunk completes any    *)
(* number of sentences, and text it leaves incomplete is yielded when the  *)
(* chunks are over, after an interrupt too.                                *)
(***************************************************************************)
EXTENDS Naturals, Sequences

CONSTANTS QueueSize,     \* maxsize of sentence_queue
          MaxSentences   \* bound: sentences of one generated response

ASSUME PipelineConstants == QueueSize \in Nat \ {0} /\ MaxSentences \in Nat

VARIABLES
    state,       \* _state of the FSM
    interrupt,   \* _interrupt_event
    queue,       \* sentence_queue
    producer,    \* where the producer task is suspended, or "done"
    model,       \* the model's stream: "fresh", "open" once a chunk was used, "over"
    left,        \* sentences at hand that the generator has not yielded
    produced,    \* history: sentences the generator yielded
    consumer,    \* where the response is suspended, or "returned"
    sentence,    \* the sentence being spoken
    spoken,      \* history: sentences spoken to the end
    outcome      \* history: how the sentence loop was left

generator == <<model, left>>
vars == <<state, interrupt, queue, producer, generator, produced, consumer, sentence,
          spoken, outcome>>

Full == Len(queue) >= QueueSize

Init ==
    /\ state = "SPEAKING"
    /\ interrupt \in BOOLEAN   \* it may have been set while the filler played
    /\ queue = <<>>
    /\ producer = "generating" /\ model = "fresh" /\ left = 0 /\ produced = 0
    /\ consumer = "get" /\ sentence = 0
    /\ spoken = <<>>
    /\ outcome = "none"

-----------------------------------------------------------------------------
(* Wrong variants: put() drops a sentence when the queue is full; the end   *)
(* mark is not waited for; put() does not wait for room; the response       *)
(* returns without waiting for its producer; a sentence being spoken is not *)
(* stopped by an interrupt.                                                 *)
YieldDropsWhenFull ==
    /\ producer = "generating" /\ left > 0
    /\ left' = left - 1 /\ produced' = produced + 1
    /\ queue' = IF Full THEN queue ELSE Append(queue, produced + 1)
    /\ UNCHANGED <<state, interrupt, producer, model, consumer, sentence,
                   spoken, outcome>>

EndMarkLost ==
    /\ producer = "ending"
    /\ producer' = "done"
    /\ queue' = IF Full THEN queue ELSE Append(queue, 0)
    /\ UNCHANGED <<state, interrupt, generator, produced, consumer, sentence,
                   spoken, outcome>>

PutResumesUnbounded ==
    /\ producer = "putting"
    /\ queue' = Append(queue, produced)
    /\ producer' = "generating"
    /\ UNCHANGED <<state, interrupt, generator, produced, consumer, sentence,
                   spoken, outcome>>

SpeakDoneDeaf ==
    /\ consumer = "speak"
    /\ spoken' = Append(spoken, sentence)
    /\ sentence' = 0
    /\ consumer' = "get"
    /\ UNCHANGED <<state, interrupt, queue, producer, generator, produced, outcome>>

ReturnNoWait ==
    /\ consumer = "joining"
    /\ consumer' = "returned"
    /\ state' = IF outcome = "interrupted" THEN "LISTENING" ELSE "IDLE"
    /\ UNCHANGED <<interrupt, queue, producer, generator, produced, sentence,
                   spoken, outcome>>

-----------------------------------------------------------------------------
(* The producer task. *)

(* A chunk comes and the interrupt is not set: it is used, and completes     *)
(* some number of sentences.                                               *)
Chunk ==
    /\ producer = "generating" /\ model # "over" /\ left = 0
    /\ ~interrupt
    /\ model' = "open"
    /\ left' \in 0 .. MaxSentences - produced
    /\ UNCHANGED <<state, interrupt, queue, producer, produced, consumer,
                   sentence, spoken,
                   outcome>>

(* The model is done, it has failed, or a chunk comes with the interrupt     *)
(* set.  What the chunks used have left in the buffer is one more sentence; *)
(* an exception loses it.                                                  *)
ChunksOver ==
    /\ producer = "generating" /\ model # "over" /\ left = 0
    /\ model' = "over"
    /\ \/ left' = 0
       \/ model = "open" /\ produced < MaxSentences /\ left' = 1
    /\ UNCHANGED <<state, interrupt, queue, producer, produced, consumer,
                   sentence, spoken,
                   outcome>>

(* The generator yields a sentence at hand, without looking at the interrupt *)
(* again.                                                                   *)
Yield ==
    /\ producer = "generating" /\ left > 0
    /\ left' = left - 1 /\ produced' = produced + 1
    /\ \/ ~Full /\ queue' = Append(queue, produced') /\ UNCHANGED producer
       \/ Full /\ producer' = "putting" /\ UNCHANGED queue
    /\ UNCHANGED <<state, interrupt, model, consumer, sentence, spoken, outcome>>

(* The blocked put() finds room. *)
PutResumes ==
    /\ producer = "putting" /\ ~Full
    /\ queue' = Append(queue, produced)
    /\ producer' = "generating"
    /\ UNCHANGED <<state, interrupt, generator, produced, consumer, sentence,
                   spoken, outcome>>

(* The generator returns. *)
GenerationEnds ==
    /\ producer = "generating" /\ model = "over" /\ left = 0
    /\ producer' = "ending"
    /\ UNCHANGED <<state, interrupt, queue, generator, produced, consumer,
                   sentence, spoken,
                   outcome>>

(* finally: await sentence_queue.put(None) *)
EndMark ==
    /\ producer = "ending" /\ ~Full
    /\ queue' = Append(queue, 0)
    /\ producer' = "done"
    /\ UNCHANGED <<state, interrupt, generator, produced, consumer, sentence,
                   spoken, outcome>>

-----------------------------------------------------------------------------
(* The response. *)

(* The effect of producer.cancel() at the producer's suspension point: the  *)
(* generator or the blocked sentence gives way to the finally clause, a     *)
(* blocked end mark is given up.                                            *)
Cancelled == CASE producer \in {"generating", "putting"} -> "ending"
               [] producer \in {"ending", "done"} -> "done"

(* The loop is left: the finally clause cancels the producer and waits.     *)
Leave(how) ==
    /\ consumer' = "joining"
    /\ producer' = Cancelled
    /\ left' = 0 /\ UNCHANGED model
    /\ sentence' = 0
    /\ outcome' = how

Get ==
    /\ consumer = "get" /\ queue # <<>>
    /\ queue' = Tail(queue)
    /\ \/ Head(queue) = 0 /\ Leave("complete")
       \/ /\ Head(queue) # 0
          /\ sentence' = Head(queue)
          /\ consumer' = IF interrupt THEN "trail" ELSE "speak"
          /\ UNCHANGED <<producer, generator, outcome>>
    /\ UNCHANGED <<state, interrupt, produced, spoken>>

SpeakDone ==
    /\ consumer = "speak"
    /\ \/ /\ ~interrupt
          /\ spoken' = Append(spoken, sentence)
          /\ sentence' = 0
          /\ consumer' = "get"
       \/ /\ interrupt
          /\ consumer' = "trail"
          /\ UNCHANGED <<spoken, sentence>>
    /\ UNCHANGED <<state, interrupt, queue, producer, generator, produced, outcome>>

(* The acknowledgment is out. *)
TrailDone ==
    /\ consumer = "trail"
    /\ state' = "INTERRUPTED"
    /\ Leave("interrupted")
    /\ UNCHANGED <<interrupt, queue, produced, spoken>>

(* Synthesis raises. *)
SpeakFails ==
    /\ consumer \in {"speak", "trail"}
    /\ Leave("failed")
    /\ UNCHANGED <<state, interrupt, queue, produced, spoken>>

(* The producer is over; the response loop ends the turn. *)
Return ==
    /\ consumer = "joining" /\ producer = "done"
    /\ consumer' = "returned"
    /\ state' = IF outcome = "interrupted" THEN "LISTENING" ELSE "IDLE"
    /\ UNCHANGED <<interrupt, queue, producer, generator, produced, sentence,
                   spoken, outcome>>

(* _interrupt_monitor_loop *)
BargeIn ==
    /\ state = "SPEAKING" /\ ~interrupt
    /\ interrupt' = TRUE
    /\ UNCHANGED <<state, queue, producer, generator, produced, consumer, sentence,
                   spoken, outcome>>

Producing == Chunk \/ ChunksOver \/ Yield \/ PutResumes \/ GenerationEnds \/ EndMark

(* Tasks of one event loop: while the generator has sentences at hand and    *)
(* the queue has room, its task does not suspend and no other runs.         *)
Suspended == producer = "generating" => model # "over" /\ left = 0

Responding == Suspended /\ (Get \/ SpeakDone \/ TrailDone \/ Return)

Next == Producing \/ Responding \/ (Suspended /\ (SpeakFails \/ BargeIn))

Spec == Init /\ [][Next]_vars

(* Both tasks are scheduled and the model's stream is finite. *)
FairSpec == Spec /\ WF_vars(ChunksOver) /\ WF_vars(Yield) /\ WF_vars(PutResumes)
                 /\ WF_vars(GenerationEnds) /\ WF_vars(EndMark) /\ WF_vars(Responding)

-----------------------------------------------------------------------------
(* Type invariant; the queue never grows past its size. *)
TypeOK ==
    /\ state \in {"SPEAKING", "INTERRUPTED", "IDLE", "LISTENING"}
    /\ interrupt \in BOOLEAN
    /\ queue \in Seq(0 .. MaxSentences) /\ Len(queue) <= QueueSize
    /\ producer \in {"generating", "putting", "ending", "done"}
    /\ produced \in 0 .. MaxSentences
    /\ model \in {"fresh", "open", "over"} /\ left \in 0 .. MaxSentences - produced
    /\ consumer \in {"get", "speak", "trail", "joining", "returned"}
    /\ sentence \in 0 .. MaxSentences
    /\ spoken \in Seq(1 .. MaxSentences)
    /\ outcome \in {"none", "complete", "interrupted", "failed"}

(* Sentences taken off the queue, and sentences still in it. *)
Taken == Len(spoken) + (IF sentence = 0 THEN 0 ELSE 1)
Marked == queue # <<>> /\ queue[Len(queue)] = 0
Queued == Len(queue) - (IF Marked THEN 1 ELSE 0)

(* Until the response is cut short, what was spoken, the sentence at hand,  *)
(* the queue and a sentence waiting for room are together exactly what was  *)
(* generated, in order: pre-fetching neither loses nor reorders a sentence. *)
NoSentenceLost ==
    outcome \in {"none", "complete"} =>
      /\ \A k \in 1 .. Len(spoken) : spoken[k] = k
      /\ sentence \in {0, Len(spoken) + 1}
      /\ \A k \in 1 .. Queued : queue[k] = Taken + k
      /\ produced = Taken + Queued + (IF producer = "putting" THEN 1 ELSE 0)

(* A turn only ends when its producer has: no generator of an old turn is   *)
(* left running next to the one of a new turn.                              *)
NoOrphanProducer == state \in {"IDLE", "LISTENING"} => producer = "done"

(* A response nobody interrupts ends: producer and consumer never wait for  *)
(* each other, however much longer speaking takes than generating.          *)
UninterruptedEnds == [](~interrupt /\ outcome # "failed") => <>(consumer = "returned")

(* The queue and the two tasks implement what a spoken answer is: sentences *)
(* are said in order and not after an interrupt, an answer is complete with *)
(* all of them and cut short with one unsaid, and the FSM goes on to the    *)
(* next turn only when nothing of this one is generated any more.           *)
Answer == INSTANCE SpokenAnswer WITH
            generated <- produced,    generating <- (producer # "done"),
            said <- spoken,           interrupted <- interrupt,
            ending <- outcome,        released <- (consumer = "returned")
ImplementsAnswer == Answer!Spec

(* What the invariants need besides: how the control states of producer and *)
(* consumer, the end mark and the outcome go together.                      *)
ControlState ==
    /\ sentence # 0 <=> consumer \in {"speak", "trail"}
    /\ outcome = "none" <=> consumer \in {"get", "speak", "trail"}
    /\ consumer = "trail" => interrupt
    /\ state \in {"IDLE", "LISTENING"} <=> consumer = "returned"
    /\ consumer = "returned" => producer = "done"
    /\ outcome = "none" => (Marked <=> producer = "done")
    /\ outcome # "none" => producer \in {"ending", "done"}
    /\ outcome = "complete" => producer = "done" /\ queue = <<>>

(* "Exceeded budgets trigger graceful fallbacks, never pipeline freezes"    *)
(* (VOICE_ARCHITECTURE.md): an interrupted response comes to an end.        *)
NeverFreezes == state = "INTERRUPTED" ~> state = "LISTENING"
=============================================================================

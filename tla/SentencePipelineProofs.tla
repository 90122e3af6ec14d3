------------------------ MODULE SentencePipelineProofs ------------------------
(***************************************************************************)
(* The safety properties of SentencePipeline hold for every queue size and *)
(* every length of the answer.                                             *)
(***************************************************************************)
EXTENDS SentencePipeline, SequenceTheorems, TLAPS

(* ControlState and NoSentenceLost are inductive only together: that the    *)
(* end mark is the last entry rests on what a done producer left behind.    *)
IInv == TypeOK /\ ControlState /\ NoSentenceLost

Item == 0 .. MaxSentences

-----------------------------------------------------------------------------
(* What Append and Tail do to a queue, as far as the invariants look. *)
LEMMA Appended ==
  ASSUME NEW q \in Seq(Item), NEW e \in Item
  PROVE  /\ Append(q, e) \in Seq(Item)
         /\ Len(Append(q, e)) = Len(q) + 1
         /\ Len(q) \in Nat
         /\ Append(q, e) # <<>>
         /\ Append(q, e)[Len(q) + 1] = e
         /\ \A k \in 1 .. Len(q) : Append(q, e)[k] = q[k]
  BY AppendProperties

LEMMA Dequeued ==
  ASSUME NEW q \in Seq(Item), q # <<>>
  PROVE  /\ Tail(q) \in Seq(Item)
         /\ Len(q) \in Nat \ {0}
         /\ Len(Tail(q)) = Len(q) - 1
         /\ Head(q) = q[1] /\ Head(q) \in Item
         /\ \A k \in 1 .. Len(q) - 1 : Tail(q)[k] = q[k + 1]
         /\ Tail(q) = <<>> <=> Len(q) = 1
<1>1. /\ Tail(q) \in Seq(Item)
      /\ Len(Tail(q)) = Len(q) - 1
      /\ Head(q) \in Item
      /\ \A k \in 1 .. Len(Tail(q)) : Tail(q)[k] = q[k + 1]
  BY HeadTailProperties
<1>2. Len(q) \in Nat \ {0}
  BY EmptySeq
<1>3. Head(q) = q[1]
  OBVIOUS
<1>4. Tail(q) = <<>> <=> Len(Tail(q)) = 0
  BY <1>1, EmptySeq
<1> QED BY <1>1, <1>2, <1>3, <1>4

-----------------------------------------------------------------------------
LEMMA InitInv == Init => IInv
<1> SUFFICES ASSUME Init PROVE IInv
  OBVIOUS
<1>1. TypeOK
  BY PipelineConstants DEF Init, TypeOK
<1>2. ~Marked /\ Queued = 0 /\ Taken = 0
  BY DEF Init, Marked, Queued, Taken
<1>3. ControlState
  BY <1>2 DEF Init, ControlState
<1>4. NoSentenceLost
  BY <1>2 DEF Init, NoSentenceLost
<1> QED BY <1>1, <1>3, <1>4 DEF IInv

LEMMA GeneratorSteps == IInv /\ (Chunk \/ ChunksOver) => IInv'
<1> SUFFICES ASSUME IInv, Chunk \/ ChunksOver PROVE IInv'
  OBVIOUS
<1>1. Marked' = Marked /\ Queued' = Queued /\ Taken' = Taken
  BY DEF Chunk, ChunksOver, Marked, Queued, Taken
<1>2. TypeOK'
  <2>1. left' \in 0 .. MaxSentences - produced /\ model' \in {"open", "over"}
    BY PipelineConstants DEF IInv, TypeOK, Chunk, ChunksOver
  <2> QED BY <2>1 DEF IInv, TypeOK, Chunk, ChunksOver
<1>3. ControlState'
  BY <1>1 DEF IInv, ControlState, Chunk, ChunksOver
<1>4. NoSentenceLost'
  BY <1>1 DEF IInv, NoSentenceLost, Chunk, ChunksOver
<1> QED BY <1>2, <1>3, <1>4 DEF IInv

LEMMA YieldStep == IInv /\ Yield => IInv'
<1> SUFFICES ASSUME IInv, Yield PROVE IInv'
  OBVIOUS
<1> USE PipelineConstants
<1>1. produced \in Nat /\ produced + 1 \in Item /\ Len(queue) \in Nat /\ Len(spoken) \in Nat
  BY LenProperties DEF IInv, TypeOK, Yield, Item
<1>2. ~Marked /\ Queued = Len(queue)
  <2>1. outcome = "none" /\ producer # "done"
    BY DEF IInv, ControlState, Yield
  <2>2. ~Marked
    BY <2>1 DEF IInv, ControlState
  <2> QED BY <1>1, <2>2 DEF Queued
<1>5. left' \in 0 .. MaxSentences - produced' /\ model' = model
  BY <1>1 DEF IInv, TypeOK, Yield
<1>3. CASE ~Full /\ queue' = Append(queue, produced') /\ UNCHANGED producer
  <2>1. queue \in Seq(Item) /\ produced' \in Item /\ produced' # 0
    BY <1>1 DEF IInv, TypeOK, Item, Yield
  <2>2. /\ queue' \in Seq(Item) /\ Len(queue') = Len(queue) + 1
        /\ queue' # <<>> /\ queue'[Len(queue) + 1] = produced'
        /\ \A k \in 1 .. Len(queue) : queue'[k] = queue[k]
    BY <1>3, <2>1, Appended
  <2>3. Marked' = FALSE /\ Queued' = Len(queue) + 1 /\ Taken' = Taken
    BY <1>1, <2>1, <2>2 DEF Marked, Queued, Taken, Yield
  <2>4. TypeOK'
    BY <1>1, <1>3, <2>2, <1>5 DEF IInv, TypeOK, Yield, Full, Item
  <2>5. ControlState'
    BY <1>3, <2>3 DEF IInv, ControlState, Yield
  <2>6. NoSentenceLost'
    <3> SUFFICES ASSUME outcome \in {"none", "complete"} PROVE NoSentenceLost'
      BY DEF NoSentenceLost, Yield
    <3>1. /\ \A k \in 1 .. Len(spoken) : spoken[k] = k
          /\ sentence \in {0, Len(spoken) + 1}
          /\ \A k \in 1 .. Len(queue) : queue[k] = Taken + k
          /\ produced = Taken + Len(queue)
          /\ Taken \in Nat
      BY <1>1, <1>2 DEF IInv, NoSentenceLost, Yield, Taken
    <3>3. produced' = Taken + (Len(queue) + 1)
      BY <1>1, <3>1 DEF Yield
    <3>2. ASSUME NEW k \in 1 .. Len(queue) + 1 PROVE queue'[k] = Taken + k
      <4>1. CASE k = Len(queue) + 1
        BY <2>2, <3>3, <4>1
      <4>2. CASE k \in 1 .. Len(queue)
        BY <2>2, <3>1, <4>2
      <4> QED BY <1>1, <4>1, <4>2
    <3> QED BY <1>3, <2>3, <3>1, <3>2, <3>3 DEF NoSentenceLost, Yield
  <2> QED BY <2>4, <2>5, <2>6 DEF IInv
<1>4. CASE Full /\ producer' = "putting" /\ UNCHANGED queue
  <2>1. Marked' = FALSE /\ Queued' = Queued /\ Taken' = Taken
    BY <1>2, <1>4 DEF Marked, Queued, Taken, Yield
  <2>2. TypeOK'
    BY <1>1, <1>4, <1>5 DEF IInv, TypeOK, Yield, Item
  <2>3. ControlState'
    BY <1>4, <2>1 DEF IInv, ControlState, Yield
  <2>4. NoSentenceLost'
    <3> SUFFICES ASSUME outcome \in {"none", "complete"} PROVE NoSentenceLost'
      BY DEF NoSentenceLost, Yield
    <3>1. /\ \A k \in 1 .. Len(spoken) : spoken[k] = k
          /\ sentence \in {0, Len(spoken) + 1}
          /\ \A k \in 1 .. Queued : queue[k] = Taken + k
          /\ produced = Taken + Queued
          /\ Taken \in Nat
      BY <1>1, <1>2 DEF IInv, NoSentenceLost, Yield, Taken
    <3> QED BY <1>1, <1>2, <1>4, <2>1, <3>1 DEF NoSentenceLost, Yield
  <2> QED BY <2>2, <2>3, <2>4 DEF IInv
<1> QED BY <1>3, <1>4 DEF Yield

LEMMA PutResumesStep == IInv /\ PutResumes => IInv'
<1> SUFFICES ASSUME IInv, PutResumes PROVE IInv'
  OBVIOUS
<1> USE PipelineConstants
<1>1. /\ queue \in Seq(Item) /\ Len(queue) \in Nat /\ Len(spoken) \in Nat
      /\ produced \in Item /\ produced \in Nat
  BY LenProperties DEF IInv, TypeOK, Item
<1>2. outcome = "none" /\ producer = "putting"
  BY DEF IInv, ControlState, PutResumes
<1>3. ~Marked /\ Queued = Len(queue)
  <2>1. ~Marked
    BY <1>2 DEF IInv, ControlState
  <2> QED BY <1>1, <2>1 DEF Queued
<1>4. /\ \A k \in 1 .. Len(spoken) : spoken[k] = k
      /\ sentence \in {0, Len(spoken) + 1}
      /\ \A k \in 1 .. Len(queue) : queue[k] = Taken + k
      /\ produced = Taken + Len(queue) + 1
      /\ Taken \in Nat
  BY <1>1, <1>2, <1>3 DEF IInv, NoSentenceLost, Taken
<1>5. /\ queue' \in Seq(Item) /\ Len(queue') = Len(queue) + 1
      /\ queue' # <<>> /\ queue'[Len(queue) + 1] = produced
      /\ \A k \in 1 .. Len(queue) : queue'[k] = queue[k]
  BY <1>1, Appended DEF PutResumes
<1>6. Marked' = FALSE /\ Queued' = Len(queue) + 1 /\ Taken' = Taken
  BY <1>1, <1>4, <1>5 DEF Marked, Queued, Taken, PutResumes
<1>7. TypeOK'
  BY <1>1, <1>5 DEF IInv, TypeOK, generator, PutResumes, Full, Item
<1>8. ControlState'
  BY <1>2, <1>6 DEF IInv, ControlState, PutResumes
<1>9. NoSentenceLost'
  <2>1. ASSUME NEW k \in 1 .. Len(queue) + 1 PROVE queue'[k] = Taken + k
    <3>1. CASE k = Len(queue) + 1
      BY <1>1, <1>4, <1>5, <3>1
    <3>2. CASE k \in 1 .. Len(queue)
      BY <1>4, <1>5, <3>2
    <3> QED BY <1>1, <3>1, <3>2
  <2>2. produced' = Taken + (Len(queue) + 1) /\ producer' = "generating"
    BY <1>1, <1>4 DEF PutResumes
  <2> QED BY <1>4, <1>6, <2>1, <2>2 DEF NoSentenceLost, PutResumes
<1> QED BY <1>7, <1>8, <1>9 DEF IInv

LEMMA GenerationEndsStep == IInv /\ GenerationEnds => IInv'
<1> SUFFICES ASSUME IInv, GenerationEnds PROVE IInv'
  OBVIOUS
<1>1. Marked' = Marked /\ Queued' = Queued /\ Taken' = Taken
  BY DEF GenerationEnds, Marked, Queued, Taken
<1>2. TypeOK'
  BY DEF IInv, TypeOK, generator, GenerationEnds
<1>3. ControlState'
  BY <1>1 DEF IInv, ControlState, GenerationEnds
<1>4. NoSentenceLost'
  BY <1>1 DEF IInv, NoSentenceLost, GenerationEnds
<1> QED BY <1>2, <1>3, <1>4 DEF IInv

(* The end mark is not a sentence: Queued stays what it was. *)
LEMMA EndMarkStep == IInv /\ EndMark => IInv'
<1> SUFFICES ASSUME IInv, EndMark PROVE IInv'
  OBVIOUS
<1> USE PipelineConstants
<1>1. queue \in Seq(Item) /\ Len(queue) \in Nat /\ 0 \in Item
  BY LenProperties DEF IInv, TypeOK, Item
<1>2. /\ queue' \in Seq(Item) /\ Len(queue') = Len(queue) + 1
      /\ queue' # <<>> /\ queue'[Len(queue) + 1] = 0
      /\ \A k \in 1 .. Len(queue) : queue'[k] = queue[k]
  BY <1>1, Appended DEF EndMark
<1>3. Marked' = TRUE /\ Queued' = Len(queue) /\ Taken' = Taken
  BY <1>1, <1>2 DEF Marked, Queued, Taken, EndMark
<1>4. TypeOK'
  BY <1>1, <1>2 DEF IInv, TypeOK, generator, EndMark, Full, Item
<1>5. outcome # "complete"
  BY DEF IInv, ControlState, EndMark
<1>6. ControlState'
  BY <1>3, <1>5 DEF IInv, ControlState, EndMark
<1>7. NoSentenceLost'
  <2> SUFFICES ASSUME outcome = "none" PROVE NoSentenceLost'
    BY <1>5 DEF NoSentenceLost, EndMark
  <2>1. ~Marked
    BY DEF IInv, ControlState, EndMark
  <2>2. Queued = Len(queue)
    BY <1>1, <2>1 DEF Queued
  <2> QED BY <1>2, <1>3, <2>2 DEF IInv, NoSentenceLost, EndMark
<1> QED BY <1>4, <1>6, <1>7 DEF IInv

LEMMA GetStep == IInv /\ Get => IInv'
<1> SUFFICES ASSUME IInv, Get PROVE IInv'
  OBVIOUS
<1> USE PipelineConstants
<1>1. /\ queue \in Seq(Item) /\ queue # <<>> /\ Len(spoken) \in Nat
      /\ queue' = Tail(queue) /\ consumer = "get"
  BY LenProperties DEF IInv, TypeOK, Item, Get
<1>2. /\ queue' \in Seq(Item) /\ Len(queue) \in Nat \ {0}
      /\ Len(queue') = Len(queue) - 1
      /\ Head(queue) = queue[1] /\ Head(queue) \in Item
      /\ \A k \in 1 .. Len(queue) - 1 : queue'[k] = queue[k + 1]
      /\ queue' = <<>> <=> Len(queue) = 1
  BY <1>1, Dequeued
<1>3. outcome = "none" /\ sentence = 0 /\ (Marked <=> producer = "done")
  BY <1>1 DEF IInv, ControlState
<1>4. /\ \A k \in 1 .. Len(spoken) : spoken[k] = k
      /\ \A k \in 1 .. Queued : queue[k] = Len(spoken) + k
      /\ produced = Len(spoken) + Queued + (IF producer = "putting" THEN 1 ELSE 0)
  BY <1>1, <1>3 DEF IInv, NoSentenceLost, Taken
<1>5. /\ Marked <=> queue[Len(queue)] = 0
      /\ Queued = Len(queue) - (IF Marked THEN 1 ELSE 0)
      /\ Queued \in Nat
  BY <1>1, <1>2 DEF Marked, Queued
<1>6. CASE Head(queue) = 0 /\ Leave("complete")
  <2>1. Queued = 0
    <3> SUFFICES ASSUME 1 \in 1 .. Queued PROVE FALSE
      BY <1>5
    <3> QED BY <1>1, <1>2, <1>4, <1>6
  <2>2. Marked /\ Len(queue) = 1
    BY <1>2, <1>5, <2>1
  <2>3. queue' = <<>> /\ producer' = "done" /\ producer = "done"
    BY <1>2, <1>3, <1>6, <2>2 DEF Leave, Cancelled
  <2>4. Marked' = FALSE /\ Queued' = 0 /\ Taken' = Len(spoken)
    BY <1>1, <1>2, <1>6, <2>3 DEF Marked, Queued, Taken, Leave, Get
  <2>5. TypeOK'
    BY <1>2, <1>6, <2>3 DEF IInv, TypeOK, generator, Get, Leave, Item
  <2>6. ControlState'
    BY <1>1, <1>6, <2>3, <2>4 DEF IInv, ControlState, Get, Leave
  <2>7. NoSentenceLost'
    BY <1>1, <1>4, <1>6, <2>1, <2>3, <2>4 DEF NoSentenceLost, Get, Leave
  <2> QED BY <2>5, <2>6, <2>7 DEF IInv
<1>7. CASE /\ Head(queue) # 0
           /\ sentence' = Head(queue)
           /\ consumer' = IF interrupt THEN "trail" ELSE "speak"
           /\ UNCHANGED <<producer, outcome>>
  <2>1. Queued >= 1
    BY <1>2, <1>5, <1>7
  <2>2. sentence' = Len(spoken) + 1 /\ sentence' # 0
    <3>1. 1 \in 1 .. Queued
      BY <1>5, <2>1
    <3>2. queue[1] = Len(spoken) + 1
      BY <1>4, <3>1
    <3> QED BY <1>2, <1>7, <3>2
  <2>3. Taken' = Len(spoken) + 1
    BY <1>1, <2>2 DEF Taken, Get
  <2>4. Marked' = Marked
    <3>1. CASE Len(queue) = 1
      BY <1>2, <1>5, <1>7, <3>1 DEF Marked
    <3>2. CASE Len(queue) # 1
      <4>1. queue' # <<>> /\ Len(queue') \in 1 .. Len(queue) - 1
        BY <1>2, <3>2
      <4>2. queue'[Len(queue')] = queue[Len(queue)]
        BY <1>2, <4>1
      <4> QED BY <1>5, <4>1, <4>2 DEF Marked
    <3> QED BY <3>1, <3>2
  <2>5. Queued' = Queued - 1
    BY <1>2, <1>5, <2>4 DEF Queued
  <2>6. TypeOK'
    <3>1. UNCHANGED <<model, left, produced, state, interrupt, spoken, producer, outcome>>
      BY <1>7 DEF Get, generator
    <3>2. consumer' \in {"speak", "trail"} /\ sentence' \in Item
      BY <1>2, <1>7
    <3>3. Len(queue') <= QueueSize
      BY <1>2 DEF IInv, TypeOK
    <3> QED BY <1>2, <3>1, <3>2, <3>3 DEF IInv, TypeOK, Item
  <2>7. ControlState'
    BY <1>1, <1>3, <1>7, <2>2, <2>4 DEF IInv, ControlState, Get
  <2>8. NoSentenceLost'
    <3>1. ASSUME NEW k \in 1 .. Queued - 1 PROVE queue'[k] = (Len(spoken) + 1) + k
      <4>1. k \in 1 .. Len(queue) - 1 /\ k + 1 \in 1 .. Queued
        BY <1>2, <1>5
      <4> QED BY <1>1, <1>2, <1>4, <4>1
    <3>2. produced' = (Len(spoken) + 1) + (Queued - 1)
                        + (IF producer' = "putting" THEN 1 ELSE 0)
      BY <1>1, <1>4, <1>5, <1>7 DEF Get
    <3> QED BY <1>4, <2>2, <2>3, <2>5, <3>1, <3>2 DEF NoSentenceLost, Get
  <2> QED BY <2>6, <2>7, <2>8 DEF IInv
<1> QED BY <1>6, <1>7 DEF Get

(* The spoken sentence moves from "at hand" to "spoken": Taken is the same. *)
LEMMA SpeakDoneStep == IInv /\ SpeakDone => IInv'
<1> SUFFICES ASSUME IInv, SpeakDone PROVE IInv'
  OBVIOUS
<1>1. consumer = "speak" /\ outcome = "none" /\ sentence # 0
  BY DEF IInv, ControlState, SpeakDone
<1>2. /\ spoken \in Seq(1 .. MaxSentences) /\ Len(spoken) \in Nat
      /\ sentence \in 1 .. MaxSentences
  BY <1>1, LenProperties, PipelineConstants DEF IInv, TypeOK
<1>3. Marked' = Marked /\ Queued' = Queued
  BY DEF SpeakDone, Marked, Queued
<1>4. CASE /\ ~interrupt
           /\ spoken' = Append(spoken, sentence)
           /\ sentence' = 0
           /\ consumer' = "get"
  <2>1. /\ spoken' \in Seq(1 .. MaxSentences) /\ Len(spoken') = Len(spoken) + 1
        /\ spoken'[Len(spoken) + 1] = sentence
        /\ \A k \in 1 .. Len(spoken) : spoken'[k] = spoken[k]
    BY <1>2, <1>4, AppendProperties
  <2>2. /\ \A k \in 1 .. Len(spoken) : spoken[k] = k
        /\ sentence = Len(spoken) + 1
    BY <1>1 DEF IInv, NoSentenceLost
  <2>3. Taken' = Taken
    BY <1>1, <1>2, <1>4, <2>1 DEF Taken
  <2>4. TypeOK'
    BY <1>4, <2>1, PipelineConstants DEF IInv, TypeOK, generator, SpeakDone
  <2>5. ControlState'
    BY <1>1, <1>3, <1>4 DEF IInv, ControlState, SpeakDone
  <2>6. NoSentenceLost'
    <3>1. ASSUME NEW k \in 1 .. Len(spoken) + 1 PROVE spoken'[k] = k
      BY <1>2, <2>1, <2>2
    <3> QED BY <1>1, <1>3, <1>4, <2>1, <2>3, <3>1 DEF IInv, NoSentenceLost, SpeakDone
  <2> QED BY <2>4, <2>5, <2>6 DEF IInv
<1>5. CASE interrupt /\ consumer' = "trail" /\ UNCHANGED <<spoken, sentence>>
  <2>1. Taken' = Taken
    BY <1>5 DEF Taken
  <2>2. TypeOK'
    BY <1>5 DEF IInv, TypeOK, generator, SpeakDone
  <2>3. ControlState'
    BY <1>1, <1>3, <1>5 DEF IInv, ControlState, SpeakDone
  <2>4. NoSentenceLost'
    BY <1>3, <1>5, <2>1 DEF IInv, NoSentenceLost, SpeakDone
  <2> QED BY <2>2, <2>3, <2>4 DEF IInv
<1> QED BY <1>4, <1>5 DEF SpeakDone

(* Steps that cut the response short, and steps that move no sentence. *)
LEMMA OtherSteps ==
  IInv /\ (TrailDone \/ SpeakFails \/ Return \/ BargeIn \/ UNCHANGED vars) => IInv'
<1>1. ASSUME IInv, TrailDone \/ SpeakFails PROVE IInv'
  <2>1. TypeOK'
    BY <1>1, PipelineConstants DEF IInv, TypeOK, generator, TrailDone, SpeakFails, Leave, Cancelled
  <2>2. producer' \in {"ending", "done"}
    BY <1>1 DEF IInv, TypeOK, generator, TrailDone, SpeakFails, Leave, Cancelled
  <2>3. ControlState'
    BY <1>1, <2>2 DEF IInv, ControlState, TrailDone, SpeakFails, Leave
  <2>4. NoSentenceLost'
    BY <1>1 DEF NoSentenceLost, TrailDone, SpeakFails, Leave
  <2> QED BY <2>1, <2>3, <2>4 DEF IInv
<1>2. ASSUME IInv, Return \/ BargeIn \/ UNCHANGED vars PROVE IInv'
  <2>1. Marked' = Marked /\ Queued' = Queued /\ Taken' = Taken
    BY <1>2 DEF Return, BargeIn, vars, Marked, Queued, Taken
  <2>2. TypeOK'
    BY <1>2 DEF IInv, TypeOK, generator, Return, BargeIn, vars
  <2>3. ControlState'
    BY <1>2, <2>1 DEF IInv, ControlState, Return, BargeIn, vars
  <2>4. NoSentenceLost'
    BY <1>2, <2>1 DEF IInv, NoSentenceLost, Return, BargeIn, vars
  <2> QED BY <2>2, <2>3, <2>4 DEF IInv
<1> QED BY <1>1, <1>2

-----------------------------------------------------------------------------
(* The inductive invariant holds throughout. *)
THEOREM Inductive == Spec => []IInv
<1>1. IInv /\ [Next]_vars => IInv'
  BY GeneratorSteps, YieldStep, PutResumesStep, GenerationEndsStep, EndMarkStep, GetStep,
     SpeakDoneStep, OtherSteps
  DEF Next, Producing, Responding
<1> QED BY InitInv, <1>1, PTL DEF Spec

(* The queue is bounded by QueueSize and every variable keeps its type. *)
THEOREM TypeCorrect == Spec => []TypeOK
<1>1. IInv => TypeOK
  BY DEF IInv
<1> QED BY Inductive, <1>1, PTL

(* Pre-fetching neither loses nor reorders a sentence of a response that is *)
(* not cut short, whatever the size of the queue.                           *)
THEOREM SentencesKept == Spec => []NoSentenceLost
<1>1. IInv => NoSentenceLost
  BY DEF IInv
<1> QED BY Inductive, <1>1, PTL

(* The FSM leaves SPEAKING or INTERRUPTED only when the producer is over. *)
THEOREM ProducerJoined == Spec => []NoOrphanProducer
<1>1. IInv => NoOrphanProducer
  BY DEF IInv, ControlState, NoOrphanProducer
<1> QED BY Inductive, <1>1, PTL

-----------------------------------------------------------------------------
(* A step of the producer while the response goes on is a sentence more, no *)
(* visible change, or the end of the generation.                            *)
LEMMA ProducingMaps == IInv /\ Producing => [Answer!Next]_Answer!vars
<1>1. ASSUME IInv, Yield PROVE Answer!Generate
  <2>1. produced < MaxSentences
    BY <1>1, PipelineConstants DEF IInv, TypeOK, Yield
  <2> QED BY <1>1, <2>1 DEF IInv, ControlState, Yield, Answer!Generate
<1>2. ASSUME Chunk \/ ChunksOver \/ PutResumes \/ GenerationEnds PROVE UNCHANGED Answer!vars
  BY <1>2 DEF Chunk, ChunksOver, PutResumes, GenerationEnds, Answer!vars
<1>3. ASSUME EndMark PROVE Answer!StopGenerating
  BY <1>3 DEF EndMark, Answer!StopGenerating
<1> QED BY <1>1, <1>2, <1>3 DEF Producing, Answer!Next

(* The number of sentences generated, as far as the response can tell: one  *)
(* it holds is not said yet, and at the end mark all are.                   *)
LEMMA Unsaid == ASSUME IInv, consumer \in {"speak", "trail"}
                PROVE  /\ Len(spoken) < produced
                       /\ sentence = Len(spoken) + 1
<1>1. outcome = "none" /\ sentence # 0
  BY DEF IInv, ControlState
<1>2. /\ Len(spoken) \in Nat /\ Len(queue) \in Nat /\ produced \in Nat
      /\ Queued \in Nat
  <2>1. Len(spoken) \in Nat /\ Len(queue) \in Nat /\ produced \in Nat
    BY LenProperties, PipelineConstants DEF IInv, TypeOK
  <2>2. Marked => Len(queue) # 0
    BY EmptySeq DEF Marked, IInv, TypeOK
  <2> QED BY <2>1, <2>2 DEF Queued
<1> QED BY <1>1, <1>2 DEF IInv, NoSentenceLost, Taken

LEMMA AllSaid == ASSUME IInv, Get, Head(queue) = 0
                 PROVE  Len(spoken) = produced /\ producer = "done"
<1>1. outcome = "none" /\ sentence = 0 /\ queue \in Seq(Item)
  BY DEF IInv, ControlState, TypeOK, Get, Item
<1>2. /\ Len(spoken) \in Nat /\ produced \in Nat
      /\ Len(queue) \in Nat \ {0} /\ Head(queue) = queue[1]
  BY <1>1, Dequeued, LenProperties, PipelineConstants DEF IInv, TypeOK, generator, Get
<1>3. Taken = Len(spoken)
  BY <1>1 DEF Taken
<1>4. Queued = 0
  <2>1. Queued \in 0 .. Len(queue)
    BY <1>2 DEF Queued
  <2>2. 1 \in 1 .. Queued => queue[1] = Taken + 1
    BY <1>1 DEF IInv, NoSentenceLost
  <2> QED BY <1>2, <1>3, <2>1, <2>2
<1>5. Marked /\ producer = "done"
  <2>1. Marked
    BY <1>2, <1>4 DEF Queued
  <2> QED BY <1>1, <2>1 DEF IInv, ControlState
<1> QED BY <1>1, <1>2, <1>3, <1>4, <1>5 DEF IInv, NoSentenceLost

LEMMA RespondingMaps == IInv /\ (Responding \/ SpeakFails) => [Answer!Next]_Answer!vars
<1>1. ASSUME IInv, Get PROVE Answer!Complete \/ UNCHANGED Answer!vars
  <2>1. CASE Head(queue) = 0
    <3>1. producer' = producer
      BY <1>1, <2>1, AllSaid DEF Get, Leave, Cancelled
    <3> QED BY <1>1, <2>1, <3>1, AllSaid DEF Get, Leave, IInv, ControlState, Answer!Complete
  <2>2. CASE Head(queue) # 0
    BY <1>1, <2>2 DEF Get, Answer!vars
  <2> QED BY <2>1, <2>2
<1>2. ASSUME IInv, SpeakDone PROVE Answer!Say \/ UNCHANGED Answer!vars
  <2>1. outcome = "none" /\ sentence = Len(spoken) + 1 /\ Len(spoken) < produced
    BY <1>2, Unsaid DEF SpeakDone, IInv, ControlState
  <2> QED BY <1>2, <2>1 DEF SpeakDone, Answer!Say, Answer!vars
<1>3. ASSUME IInv, TrailDone PROVE Answer!CutShort("interrupted")
  <2>1. interrupt
    BY <1>3 DEF TrailDone, IInv, ControlState
  <2>2. outcome = "none" /\ Len(spoken) < produced
    BY <1>3, Unsaid DEF TrailDone, IInv, ControlState
  <2> QED BY <1>3, <2>1, <2>2 DEF TrailDone, Leave, Cancelled, IInv, TypeOK, Answer!CutShort
<1>4. ASSUME IInv, SpeakFails PROVE Answer!CutShort("failed")
  <2>1. outcome = "none" /\ Len(spoken) < produced
    BY <1>4, Unsaid DEF SpeakFails, IInv, ControlState
  <2> QED BY <1>4, <2>1 DEF SpeakFails, Leave, Cancelled, IInv, TypeOK, Answer!CutShort
<1>5. ASSUME IInv, Return PROVE Answer!Release
  BY <1>5 DEF Return, IInv, ControlState, Answer!Release
<1> QED BY <1>1, <1>2, <1>3, <1>4, <1>5 DEF Responding, Answer!Next

(* Every step of the pipeline maps to a step of a spoken answer or leaves   *)
(* it alone: to the outside the queue, its end mark and the cancellation of *)
(* the producer are not there.                                              *)
THEOREM PipelineImplementsAnswer == Spec => ImplementsAnswer
<1>1. Init => Answer!Init
  BY DEF Init, Answer!Init
<1>2. IInv /\ [Next]_vars => [Answer!Next]_Answer!vars
  <2>1. ASSUME IInv, BargeIn PROVE Answer!Interrupt
    BY <2>1 DEF BargeIn, IInv, ControlState, Answer!Interrupt
  <2>2. UNCHANGED vars => UNCHANGED Answer!vars
    BY DEF vars, Answer!vars
  <2> QED BY <2>1, <2>2, ProducingMaps, RespondingMaps DEF Next, Answer!Next
<1> QED BY <1>1, <1>2, Inductive, PTL DEF Spec, ImplementsAnswer, Answer!Spec

-----------------------------------------------------------------------------
(* The response waits for a producer that waits for room in the queue. *)
Frozen == consumer = "joining" /\ producer = "ending" /\ Full

(* The freeze of run pipeline_freeze is for good: no step of producer,      *)
(* response or user leaves it, so the FSM never listens again.              *)
THEOREM FreezeIsForever == Spec => [](Frozen => []Frozen)
<1>1. Frozen /\ [Next]_vars => Frozen'
  <2> SUFFICES ASSUME Frozen, [Next]_vars PROVE Frozen'
    OBVIOUS
  <2>1. ~(Chunk \/ ChunksOver \/ Yield \/ PutResumes \/ GenerationEnds \/ EndMark)
    BY DEF Frozen, Chunk, ChunksOver, Yield, PutResumes, GenerationEnds, EndMark
  <2>2. ~(Get \/ SpeakDone \/ TrailDone \/ SpeakFails \/ Return)
    BY DEF Frozen, Get, SpeakDone, TrailDone, SpeakFails, Return
  <2>3. BargeIn \/ UNCHANGED vars
    BY <2>1, <2>2 DEF Next, Producing, Responding
  <2> QED BY <2>3 DEF BargeIn, vars, Frozen, Full
<1> QED BY <1>1, PTL DEF Spec
=============================================================================

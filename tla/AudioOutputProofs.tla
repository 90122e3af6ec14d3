-------------------------- MODULE AudioOutputProofs --------------------------
(***************************************************************************)
(* The safety properties of AudioOutput hold for every queue size, every   *)
(* number of answers and every number of chunks.                           *)
(***************************************************************************)
EXTENDS AudioOutput, SequenceTheorems, FiniteSetTheorems, TLAPS

Item == [call : Calls, index : 0 .. MaxChunks]
Chunk == [call : Calls, index : 1 .. MaxChunks]

(* InOrder rests on QueueOrder, MarksMatchDrains on Undisturbed. *)
IInv == TypeOK /\ InOrder /\ QueueOrder /\ MarksMatchDrains /\ Undisturbed

-----------------------------------------------------------------------------
(* What Append and Tail do to a sequence, as far as the invariants look. *)
LEMMA Appended ==
  ASSUME NEW S, NEW q \in Seq(S), NEW e \in S
  PROVE  /\ Append(q, e) \in Seq(S)
         /\ Len(q) \in Nat
         /\ Len(Append(q, e)) = Len(q) + 1
         /\ Append(q, e)[Len(q) + 1] = e
         /\ \A k \in 1 .. Len(q) : Append(q, e)[k] = q[k]
  BY AppendProperties

LEMMA Dequeued ==
  ASSUME NEW S, NEW q \in Seq(S), q # <<>>
  PROVE  /\ Tail(q) \in Seq(S)
         /\ Len(q) \in Nat \ {0}
         /\ Len(Tail(q)) = Len(q) - 1
         /\ Head(q) = q[1] /\ Head(q) \in S
         /\ \A k \in 1 .. Len(q) - 1 : Tail(q)[k] = q[k + 1]
<1>1. /\ Tail(q) \in Seq(S)
      /\ Len(Tail(q)) = Len(q) - 1
      /\ Head(q) \in S
      /\ \A k \in 1 .. Len(Tail(q)) : Tail(q)[k] = q[k + 1]
  BY HeadTailProperties
<1>2. Len(q) \in Nat \ {0}
  BY EmptySeq
<1>3. Head(q) = q[1]
  OBVIOUS
<1> QED BY <1>1, <1>2, <1>3

-----------------------------------------------------------------------------
(* How many end marks a queue holds after Append and after Tail. *)
LEMMA MarksFinite ==
  ASSUME NEW q \in Seq(Item)
  PROVE  IsFiniteSet(MarksOf(q)) /\ Cardinality(MarksOf(q)) \in Nat
<1>1. Len(q) \in Nat /\ IsFiniteSet(1 .. Len(q))
  BY FS_Interval, LenProperties
<1>2. MarksOf(q) \in SUBSET (1 .. Len(q))
  BY DEF MarksOf
<1> QED BY <1>1, <1>2, FS_Subset, FS_CardinalityType

LEMMA MarksAppended ==
  ASSUME NEW q \in Seq(Item), NEW e \in Item
  PROVE  Cardinality(MarksOf(Append(q, e)))
           = Cardinality(MarksOf(q)) + (IF e.index = 0 THEN 1 ELSE 0)
<1>1. /\ Len(q) \in Nat
      /\ Len(Append(q, e)) = Len(q) + 1
      /\ Append(q, e)[Len(q) + 1] = e
      /\ \A k \in 1 .. Len(q) : Append(q, e)[k] = q[k]
  BY Appended
<1>2. IsFiniteSet(MarksOf(q)) /\ Cardinality(MarksOf(q)) \in Nat
  BY MarksFinite
<1>3. CASE e.index = 0
  <2>1. MarksOf(Append(q, e)) = MarksOf(q) \cup {Len(q) + 1}
    BY <1>1, <1>3 DEF MarksOf
  <2>2. Len(q) + 1 \notin MarksOf(q)
    BY <1>1 DEF MarksOf
  <2>3. Cardinality(MarksOf(q) \cup {Len(q) + 1})
          = IF Len(q) + 1 \in MarksOf(q) THEN Cardinality(MarksOf(q))
                                         ELSE Cardinality(MarksOf(q)) + 1
    BY <1>2, FS_AddElement, Zenon
  <2> QED BY <1>2, <1>3, <2>1, <2>2, <2>3
<1>4. CASE e.index # 0
  <2>1. MarksOf(Append(q, e)) = MarksOf(q)
    BY <1>1, <1>4 DEF MarksOf
  <2> QED BY <1>2, <1>4, <2>1
<1> QED BY <1>3, <1>4

LEMMA MarksDequeued ==
  ASSUME NEW q \in Seq(Item), q # <<>>
  PROVE  Cardinality(MarksOf(Tail(q)))
           = Cardinality(MarksOf(q)) - (IF Head(q).index = 0 THEN 1 ELSE 0)
<1>1. /\ Tail(q) \in Seq(Item)
      /\ Len(q) \in Nat \ {0}
      /\ Len(Tail(q)) = Len(q) - 1
      /\ Head(q) = q[1]
      /\ \A k \in 1 .. Len(q) - 1 : Tail(q)[k] = q[k + 1]
  BY Dequeued
<1> DEFINE Old == MarksOf(q) \ {1}
           New == MarksOf(Tail(q))
           shift == [k \in New |-> k + 1]
<1>2. IsFiniteSet(MarksOf(q)) /\ IsFiniteSet(New) /\ Cardinality(MarksOf(q)) \in Nat
  BY <1>1, MarksFinite
<1>3. New \subseteq 1 .. Len(q) - 1 /\ \A k \in New : q[k + 1].index = 0
  BY <1>1 DEF MarksOf
<1>4. \A k \in New : k + 1 \in Old
  BY <1>1, <1>3 DEF MarksOf
<1>5. \A j \in Old : j - 1 \in New /\ (j - 1) + 1 = j
  <2> SUFFICES ASSUME NEW j \in Old PROVE j - 1 \in New /\ (j - 1) + 1 = j
    OBVIOUS
  <2>1. j \in 2 .. Len(q) /\ q[j].index = 0
    BY <1>1 DEF MarksOf
  <2>2. j - 1 \in 1 .. Len(q) - 1 /\ (j - 1) + 1 = j
    BY <1>1, <2>1
  <2>3. Tail(q)[j - 1] = q[j]
    BY <1>1, <2>2
  <2> QED BY <1>1, <2>1, <2>2, <2>3 DEF MarksOf
<1>6. shift \in Bijection(New, Old)
  <2>1. shift \in [New -> Old]
    BY <1>4
  <2>2. \A a, b \in New : shift[a] = shift[b] => a = b
    BY <1>3
  <2>3. \A j \in Old : \E k \in New : shift[k] = j
    BY <1>5
  <2> QED BY <2>1, <2>2, <2>3 DEF Bijection, Injection, Surjection, IsInjective
<1>7. Cardinality(Old) = Cardinality(New)
  BY <1>2, <1>6, FS_Bijection DEF ExistsBijection
<1>8. Cardinality(Old) = IF 1 \in MarksOf(q) THEN Cardinality(MarksOf(q)) - 1
                                             ELSE Cardinality(MarksOf(q))
  BY <1>2, FS_RemoveElement
<1>9. 1 \in MarksOf(q) <=> Head(q).index = 0
  BY <1>1 DEF MarksOf
<1> QED BY <1>2, <1>7, <1>8, <1>9

-----------------------------------------------------------------------------
(* How the order of the chunks survives a step: one that moves none, one    *)
(* that queues an item, one that takes an item off.                         *)
LEMMA Elements ==
  ASSUME TypeOK
  PROVE  /\ \A i \in 1 .. Len(played) : played[i] \in Chunk
         /\ \A j \in 1 .. Len(queue) : queue[j] \in Item
<1>1. played \in Seq(Chunk) /\ queue \in Seq(Item)
  BY DEF TypeOK, Chunk, Item
<1> QED BY <1>1, ElementOfSeq

LEMMA OrderQuiet ==
  ASSUME TypeOK, InOrder, QueueOrder, UNCHANGED <<queue, played>>,
         \A c \in Calls : Handed[c] \in Int /\ Handed'[c] \in Int /\ Handed[c] <= Handed'[c]
  PROVE  InOrder' /\ QueueOrder'
<1>1. InOrder'
  BY DEF InOrder
<1>2. /\ \A i \in 1 .. Len(played) : played[i].call \in Calls /\ played[i].index \in Int
      /\ \A j \in 1 .. Len(queue) : queue[j].call \in Calls /\ queue[j].index \in Int
  BY Elements DEF Item, Chunk
<1>3. ASSUME NEW i \in 1 .. Len(played)
      PROVE  played[i].index <= Handed'[played[i].call]
  <2>1. played[i].index <= Handed[played[i].call]
    BY DEF QueueOrder
  <2> DEFINE c == played[i].call
  <2>2. Handed[c] \in Int /\ Handed'[c] \in Int /\ Handed[c] <= Handed'[c]
    BY <1>2
  <2> QED BY <1>2, <2>1, <2>2
<1>4. ASSUME NEW j \in 1 .. Len(queue)
      PROVE  queue[j].index <= Handed'[queue[j].call]
  <2>1. queue[j].index <= Handed[queue[j].call]
    BY DEF QueueOrder
  <2> DEFINE c == queue[j].call
  <2>2. Handed[c] \in Int /\ Handed'[c] \in Int /\ Handed[c] <= Handed'[c]
    BY <1>2
  <2> QED BY <1>2, <2>1, <2>2
<1> QED BY <1>1, <1>3, <1>4 DEF QueueOrder

LEMMA OrderEnqueue ==
  ASSUME TypeOK, InOrder, QueueOrder,
         NEW c \in Calls, NEW n \in 0 .. MaxChunks,
         queue' = Append(queue, [call |-> c, index |-> n]), played' = played,
         \A d \in Calls : Handed[d] \in Int /\ Handed'[d] \in Int /\ Handed[d] <= Handed'[d],
         n # 0 => Handed[c] < n, n <= Handed'[c]
  PROVE  InOrder' /\ QueueOrder'
<1> DEFINE e == [call |-> c, index |-> n]
<1>1. InOrder'
  BY DEF InOrder
<1>2. e \in Item /\ e.call = c /\ e.index = n
  BY DEF Item
<1>3. /\ Len(queue) \in Nat /\ Len(queue') = Len(queue) + 1
      /\ queue'[Len(queue) + 1] = e
      /\ \A k \in 1 .. Len(queue) : queue'[k] = queue[k]
  <2>1. queue \in Seq(Item)
    BY DEF TypeOK, Item
  <2> QED BY <1>2, <2>1, Appended
<1>4. /\ \A i \in 1 .. Len(played) : played[i].call \in Calls /\ played[i].index \in Int
      /\ \A j \in 1 .. Len(queue) : queue[j].call \in Calls /\ queue[j].index \in Int
  BY Elements DEF Item, Chunk
<1>5. /\ \A i \in 1 .. Len(played) : played[i].index <= Handed[played[i].call]
      /\ \A j \in 1 .. Len(queue) : queue[j].index <= Handed[queue[j].call]
  BY DEF QueueOrder
<1> HIDE DEF e
<1>6. ASSUME NEW i \in 1 .. Len(queue'), NEW j \in 1 .. Len(queue'),
             i < j, queue'[i].call = queue'[j].call, queue'[j].index # 0
      PROVE  queue'[i].index < queue'[j].index
  <2>1. i \in 1 .. Len(queue) /\ queue'[i] = queue[i]
    BY <1>3, <1>6
  <2>2. CASE j \in 1 .. Len(queue)
    <3>1. queue'[j] = queue[j]
      BY <1>3, <2>2
    <3> QED BY <1>6, <2>1, <2>2, <3>1 DEF QueueOrder
  <2>3. CASE j = Len(queue) + 1
    <3>1. queue'[j] = e
      BY <1>3, <2>3
    <3>2. queue[i].call = c /\ n # 0
      BY <1>2, <1>6, <2>1, <3>1
    <3>3. queue[i].index <= Handed[c] /\ queue[i].index \in Int
      BY <1>4, <1>5, <2>1, <3>2
    <3>4. Handed[c] \in Int /\ Handed[c] < n
      BY <3>2
    <3>5. queue[i].index < n
      BY <3>3, <3>4
    <3> QED BY <1>2, <2>1, <3>1, <3>5
  <2> QED BY <1>3, <2>2, <2>3
<1>7. ASSUME NEW i \in 1 .. Len(played), NEW j \in 1 .. Len(queue'),
             played[i].call = queue'[j].call, queue'[j].index # 0
      PROVE  played[i].index < queue'[j].index
  <2>1. CASE j \in 1 .. Len(queue)
    <3>1. queue'[j] = queue[j]
      BY <1>3, <2>1
    <3> QED BY <1>7, <2>1, <3>1 DEF QueueOrder
  <2>2. CASE j = Len(queue) + 1
    <3>1. queue'[j] = e
      BY <1>3, <2>2
    <3>2. played[i].call = c /\ n # 0
      BY <1>2, <1>7, <3>1
    <3>3. played[i].index <= Handed[c] /\ played[i].index \in Int
      BY <1>4, <1>5, <3>2
    <3>4. Handed[c] \in Int /\ Handed[c] < n
      BY <3>2
    <3> QED BY <1>2, <3>1, <3>3, <3>4
  <2> QED BY <1>3, <2>1, <2>2
<1>8. ASSUME NEW i \in 1 .. Len(played)
      PROVE  played[i].index <= Handed'[played[i].call]
  <2> DEFINE d == played[i].call
  <2>1. Handed[d] \in Int /\ Handed'[d] \in Int /\ Handed[d] <= Handed'[d]
    BY <1>4
  <2> QED BY <1>4, <1>5, <2>1
<1>9. ASSUME NEW j \in 1 .. Len(queue')
      PROVE  queue'[j].index <= Handed'[queue'[j].call]
  <2>1. CASE j \in 1 .. Len(queue)
    <3> DEFINE d == queue[j].call
    <3>1. Handed[d] \in Int /\ Handed'[d] \in Int /\ Handed[d] <= Handed'[d]
      BY <1>4, <2>1
    <3>2. queue[j].index <= Handed[d] /\ queue[j].index \in Int
      BY <1>4, <1>5, <2>1
    <3>3. queue'[j] = queue[j]
      BY <1>3, <2>1
    <3>4. queue[j].index <= Handed'[d]
      BY <3>1, <3>2
    <3> QED BY <3>3, <3>4
  <2>2. CASE j = Len(queue) + 1
    <3>1. queue'[j] = e
      BY <1>3, <2>2
    <3>2. queue'[j].call = c /\ queue'[j].index = n
      BY <1>2, <3>1
    <3> QED BY <3>2
  <2> QED BY <1>3, <2>1, <2>2
<1> QED BY <1>1, <1>6, <1>7, <1>8, <1>9 DEF QueueOrder

LEMMA OrderDequeue ==
  ASSUME TypeOK, InOrder, QueueOrder, queue # <<>>, queue' = Tail(queue),
         \/ played' = played
         \/ Head(queue).index # 0 /\ played' = Append(played, Head(queue)),
         \A d \in Calls : Handed'[d] = Handed[d]
  PROVE  InOrder' /\ QueueOrder'
<1> DEFINE e == Head(queue)
<1>1. /\ Len(queue) \in Nat \ {0} /\ Len(queue') = Len(queue) - 1
      /\ e = queue[1] /\ e \in Item
      /\ \A k \in 1 .. Len(queue) - 1 : queue'[k] = queue[k + 1]
  <2>1. queue \in Seq(Item)
    BY DEF TypeOK, Item
  <2> QED BY <2>1, Dequeued
<1> HIDE DEF e
<1>2. /\ \A i \in 1 .. Len(played) : played[i].call \in Calls /\ played[i].index \in Int
      /\ \A j \in 1 .. Len(queue) : queue[j].call \in Calls /\ queue[j].index \in Int
  BY Elements DEF Item, Chunk
<1>3. \A j \in 1 .. Len(queue') : j + 1 \in 1 .. Len(queue) /\ queue'[j] = queue[j + 1]
  BY <1>1
<1>4. \A i, j \in 1 .. Len(queue') :
         i < j /\ queue'[i].call = queue'[j].call /\ queue'[j].index # 0
           => queue'[i].index < queue'[j].index
  <2> SUFFICES ASSUME NEW i \in 1 .. Len(queue'), NEW j \in 1 .. Len(queue'),
                      i < j, queue'[i].call = queue'[j].call, queue'[j].index # 0
               PROVE  queue'[i].index < queue'[j].index
    OBVIOUS
  <2>1. i + 1 < j + 1
    BY <1>1
  <2> QED BY <1>3, <2>1 DEF QueueOrder
<1>5. \A j \in 1 .. Len(queue') : queue'[j].index <= Handed'[queue'[j].call]
  <2> SUFFICES ASSUME NEW j \in 1 .. Len(queue')
               PROVE  queue'[j].index <= Handed'[queue'[j].call]
    OBVIOUS
  <2> DEFINE d == queue[j + 1].call
  <2>1. queue[j + 1].index <= Handed[d] /\ Handed'[d] = Handed[d] /\ queue'[j] = queue[j + 1]
    BY <1>2, <1>3 DEF QueueOrder
  <2> QED BY <2>1
<1>6. /\ \A i \in 1 .. Len(played), j \in 1 .. Len(queue') :
            played[i].call = queue'[j].call /\ queue'[j].index # 0
              => played[i].index < queue'[j].index
      /\ \A i \in 1 .. Len(played) : played[i].index <= Handed'[played[i].call]
  <2>1. ASSUME NEW i \in 1 .. Len(played)
        PROVE  played[i].index <= Handed'[played[i].call]
    <3> DEFINE d == played[i].call
    <3>1. played[i].index <= Handed[d] /\ Handed'[d] = Handed[d]
      BY <1>2 DEF QueueOrder
    <3> QED BY <3>1
  <2> QED BY <1>3, <2>1 DEF QueueOrder
<1>7. CASE played' = played
  BY <1>4, <1>5, <1>6, <1>7 DEF InOrder, QueueOrder
<1>8. CASE e.index # 0 /\ played' = Append(played, e)
  <2>1. e \in Chunk
    BY <1>1, <1>8 DEF Item, Chunk
  <2>2. /\ Len(played) \in Nat /\ Len(played') = Len(played) + 1
        /\ played'[Len(played) + 1] = e
        /\ \A k \in 1 .. Len(played) : played'[k] = played[k]
    <3>1. played \in Seq(Chunk)
      BY DEF TypeOK, Chunk
    <3> QED BY <1>8, <2>1, <3>1, Appended
  <2>3. ASSUME NEW i \in 1 .. Len(played'), NEW j \in 1 .. Len(played'),
               i < j, played'[i].call = played'[j].call
        PROVE  played'[i].index < played'[j].index
    <3>1. i \in 1 .. Len(played) /\ played'[i] = played[i]
      BY <2>2, <2>3
    <3>2. CASE j \in 1 .. Len(played)
      BY <2>2, <2>3, <3>1, <3>2 DEF InOrder
    <3>3. CASE j = Len(played) + 1
      <4>1. played[i].call = queue[1].call /\ queue[1].index # 0
        BY <1>1, <1>8, <2>2, <2>3, <3>1, <3>3
      <4>2. played[i].index < queue[1].index
        BY <1>1, <3>1, <4>1 DEF QueueOrder
      <4> QED BY <1>1, <2>2, <3>1, <3>3, <4>2
    <3> QED BY <2>2, <3>2, <3>3
  <2>4. ASSUME NEW i \in 1 .. Len(played'), NEW j \in 1 .. Len(queue'),
               played'[i].call = queue'[j].call, queue'[j].index # 0
        PROVE  played'[i].index < queue'[j].index
    <3>1. CASE i \in 1 .. Len(played)
      BY <1>6, <2>2, <2>4, <3>1
    <3>2. CASE i = Len(played) + 1
      <4>1. played'[i] = queue[1]
        BY <1>1, <2>2, <3>2
      <4>2. 1 < j + 1 /\ 1 \in 1 .. Len(queue)
        BY <1>1
      <4> QED BY <1>3, <2>4, <4>1, <4>2 DEF QueueOrder
    <3> QED BY <2>2, <3>1, <3>2
  <2>5. ASSUME NEW i \in 1 .. Len(played')
        PROVE  played'[i].index <= Handed'[played'[i].call]
    <3>1. CASE i \in 1 .. Len(played)
      BY <1>6, <2>2, <3>1
    <3>2. CASE i = Len(played) + 1
      <4> DEFINE d == queue[1].call
      <4>1. queue[1].index <= Handed[d] /\ Handed'[d] = Handed[d]
        BY <1>1, <1>2 DEF QueueOrder
      <4>2. played'[i] = queue[1]
        BY <1>1, <2>2, <3>2
      <4> QED BY <4>1, <4>2
    <3> QED BY <2>2, <3>1, <3>2
  <2> QED BY <1>4, <1>5, <2>3, <2>4, <2>5 DEF InOrder, QueueOrder
<1> QED BY <1>7, <1>8 DEF e

-----------------------------------------------------------------------------
(* Type correctness. *)
LEMMA TypeInit == Init => TypeOK
<1> SUFFICES ASSUME Init PROVE TypeOK
  OBVIOUS
<1>1. /\ queue \in Seq([call : Calls, index : 0 .. MaxChunks]) /\ Len(queue) <= QueueSize
      /\ played \in Seq([call : Calls, index : 1 .. MaxChunks])
  BY OutputConstants DEF Init
<1>2. fed \in [Calls -> 0 .. MaxChunks]
  BY OutputConstants DEF Init
<1> QED BY <1>1, <1>2 DEF Init, TypeOK

LEMMA TypeEnqueue ==
  ASSUME TypeOK, ~Full, NEW c \in Calls, NEW n \in 0 .. MaxChunks
  PROVE  LET q == Append(queue, [call |-> c, index |-> n])
         IN  q \in Seq([call : Calls, index : 0 .. MaxChunks]) /\ Len(q) <= QueueSize
<1>1. queue \in Seq(Item) /\ [call |-> c, index |-> n] \in Item
  BY DEF TypeOK, Item
<1>2. /\ Append(queue, [call |-> c, index |-> n]) \in Seq(Item)
      /\ Len(queue) \in Nat
      /\ Len(Append(queue, [call |-> c, index |-> n])) = Len(queue) + 1
  BY <1>1, Appended
<1> QED BY <1>2, OutputConstants DEF Item, Full

LEMMA TypeFeed ==
  ASSUME TypeOK, NEW c \in Calls, Feed(c)
  PROVE  TypeOK'
<1>1. fed[c] + 1 \in 0 .. MaxChunks
  BY OutputConstants DEF TypeOK, Feed
<1>2. CASE ~Full /\ queue' = Append(queue, [call |-> c, index |-> fed[c] + 1])
  BY <1>1, <1>2, TypeEnqueue DEF TypeOK, Feed
<1>3. CASE queue' = queue
  BY <1>1, <1>3 DEF TypeOK, Feed
<1> QED BY <1>2, <1>3 DEF Feed

LEMMA TypeFeeding ==
  ASSUME TypeOK, NEW c \in Calls, Feeding(c)
  PROVE  TypeOK'
<1>1. fed[c] \in 0 .. MaxChunks /\ 0 \in 0 .. MaxChunks
  BY OutputConstants DEF TypeOK
<1>2. CASE PutResumes(c)
  BY <1>1, <1>2, TypeEnqueue DEF TypeOK, PutResumes
<1>3. CASE Mark(c) /\ UNCHANGED <<interrupt, fed, played, trouble>>
  BY <1>1, <1>3, TypeEnqueue DEF TypeOK, Mark
<1>4. CASE FeedEnds(c) /\ ~Mark(c)
  BY <1>4 DEF TypeOK, FeedEnds
<1>5. CASE Join(c)
  BY <1>5 DEF TypeOK, Join
<1> QED BY <1>2, <1>3, <1>4, <1>5 DEF Feeding, FeedEnds, MarkResumes

LEMMA TypeDraining ==
  ASSUME TypeOK, NEW c \in Calls, Draining(c)
  PROVE  TypeOK'
<1>1. CASE DrainGet(c)
  <2>1. queue \in Seq(Item) /\ played \in Seq(Chunk)
    BY DEF TypeOK, Item, Chunk
  <2>2. /\ queue' \in Seq(Item) /\ Len(queue') <= QueueSize /\ Head(queue) \in Item
    <3>1. /\ queue' \in Seq(Item) /\ Len(queue) \in Nat /\ Len(queue') = Len(queue) - 1
          /\ Head(queue) \in Item
      BY <1>1, <2>1, Dequeued DEF DrainGet
    <3> QED BY <3>1, OutputConstants DEF TypeOK
  <2>3. played' \in Seq(Chunk)
    <3>1. CASE played' = played
      BY <2>1, <3>1
    <3>2. CASE Head(queue).index # 0 /\ played' = Append(played, Head(queue))
      <4>1. Head(queue) \in Chunk
        BY <2>2, <3>2 DEF Item, Chunk
      <4> QED BY <2>1, <3>2, <4>1, Appended
    <3> QED BY <1>1, <3>1, <3>2 DEF DrainGet
  <2>4. drain' \in [Calls -> {"none", "created", "get", "playing", "ended"}]
    BY <1>1 DEF TypeOK, DrainGet
  <2> QED BY <1>1, <2>2, <2>3, <2>4 DEF TypeOK, DrainGet, Item, Chunk
<1>2. CASE DrainPlayed(c)
  BY <1>2 DEF TypeOK, DrainPlayed
<1> QED BY <1>1, <1>2 DEF Draining

LEMMA TypeStep == TypeOK /\ [Next]_vars => TypeOK'
<1> SUFFICES ASSUME TypeOK, [Next]_vars PROVE TypeOK'
  OBVIOUS
<1>1. ASSUME NEW c \in Calls, Start(c) PROVE TypeOK'
  BY <1>1 DEF TypeOK, Start
<1>2. ASSUME NEW c \in Calls, SourceFails(c) PROVE TypeOK'
  BY <1>2 DEF TypeOK, SourceFails
<1>3. ASSUME NEW c \in Calls, DeviceFails(c) PROVE TypeOK'
  BY <1>3 DEF TypeOK, DeviceFails
<1>4. CASE Interrupt
  BY <1>4 DEF TypeOK, Interrupt
<1>5. CASE UNCHANGED vars
  BY <1>5 DEF TypeOK, vars
<1> QED BY <1>1, <1>2, <1>3, <1>4, <1>5, TypeFeed, TypeFeeding, TypeDraining DEF Next

-----------------------------------------------------------------------------
(* The order of the chunks. *)
LEMMA OrderInit == Init => InOrder /\ QueueOrder
  BY DEF Init, InOrder, QueueOrder

LEMMA HandedType ==
  ASSUME TypeOK
  PROVE  \A c \in Calls : fed[c] \in Nat /\ Handed[c] \in Int
  BY DEF TypeOK, Handed

(* A step that leaves the puts alone leaves what was handed over alone. *)
LEMMA HandedSame ==
  ASSUME TypeOK, TypeOK', fed' = fed,
         \A c \in Calls : feeder[c] = "putting" <=> feeder'[c] = "putting"
  PROVE  \A c \in Calls : /\ Handed[c] \in Int /\ Handed'[c] \in Int
                          /\ Handed'[c] = Handed[c] /\ Handed[c] <= Handed'[c]
  BY DEF TypeOK, Handed

LEMMA OrderFeed ==
  ASSUME TypeOK, TypeOK', InOrder, QueueOrder, NEW c \in Calls, Feed(c)
  PROVE  InOrder' /\ QueueOrder'
<1>1. fed[c] + 1 \in 0 .. MaxChunks /\ fed[c] \in Nat /\ Handed[c] = fed[c]
  BY OutputConstants DEF TypeOK, Feed, Handed
<1>2. \A d \in Calls : fed[d] \in Int /\ fed'[d] = IF d = c THEN fed[c] + 1 ELSE fed[d]
  BY DEF TypeOK, Feed
<1>3. CASE ~Full /\ queue' = Append(queue, [call |-> c, index |-> fed[c] + 1]) /\ UNCHANGED feeder
  <2>1. \A d \in Calls : Handed'[d] = IF d = c THEN fed[c] + 1 ELSE Handed[d]
    BY <1>2, <1>3 DEF Feed, Handed
  <2>2. \A d \in Calls : Handed[d] \in Int /\ Handed'[d] \in Int /\ Handed[d] <= Handed'[d]
    BY <1>1, <2>1, HandedType
  <2>3. played' = played /\ Handed'[c] = fed[c] + 1 /\ Handed[c] < fed[c] + 1
    BY <1>1, <2>1 DEF Feed
  <2> QED BY <1>1, <1>3, <2>2, <2>3, OrderEnqueue
<1>4. CASE feeder' = [feeder EXCEPT ![c] = "putting"] /\ UNCHANGED queue
  <2>1. \A d \in Calls : Handed'[d] = Handed[d]
    <3> SUFFICES ASSUME NEW d \in Calls PROVE Handed'[d] = Handed[d]
      OBVIOUS
    <3>1. feeder'[d] = IF d = c THEN "putting" ELSE feeder[d]
      BY <1>4 DEF TypeOK
    <3> QED BY <1>1, <1>2, <3>1 DEF Handed, Feed
  <2>2. \A d \in Calls : Handed[d] \in Int /\ Handed'[d] \in Int /\ Handed[d] <= Handed'[d]
    BY <2>1, HandedType
  <2> QED BY <1>4, <2>2, OrderQuiet DEF Feed
<1> QED BY <1>3, <1>4 DEF Feed

LEMMA OrderFeeding ==
  ASSUME TypeOK, TypeOK', InOrder, QueueOrder, NEW c \in Calls, Feeding(c)
  PROVE  InOrder' /\ QueueOrder'
<1>1. fed[c] \in 0 .. MaxChunks /\ fed[c] \in Nat /\ 0 \in 0 .. MaxChunks
  BY OutputConstants DEF TypeOK
<1>2. CASE PutResumes(c)
  <2>1. \A d \in Calls : feeder'[d] = IF d = c THEN "feeding" ELSE feeder[d]
    BY <1>2 DEF TypeOK, PutResumes
  <2>2. \A d \in Calls : Handed'[d] = IF d = c THEN fed[c] ELSE Handed[d]
    BY <1>2, <2>1 DEF PutResumes, Handed
  <2>3. Handed[c] = fed[c] - 1
    BY <1>2 DEF PutResumes, Handed
  <2>4. \A d \in Calls : Handed[d] \in Int /\ Handed'[d] \in Int /\ Handed[d] <= Handed'[d]
    BY <1>1, <2>2, <2>3, HandedType
  <2>5. played' = played /\ Handed[c] < fed[c] /\ fed[c] <= Handed'[c]
    BY <1>1, <1>2, <2>2, <2>3 DEF PutResumes
  <2> QED BY <1>1, <1>2, <2>4, <2>5, OrderEnqueue DEF PutResumes
<1>3. CASE /\ feeder[c] \in {"feeding", "marking"} /\ Mark(c)
           /\ UNCHANGED <<interrupt, fed, played, trouble>>
  <2>1. \A d \in Calls : feeder[d] = "putting" <=> feeder'[d] = "putting"
    BY <1>3 DEF TypeOK, Mark
  <2>2. \A d \in Calls : Handed[d] \in Int /\ Handed'[d] \in Int /\ Handed[d] <= Handed'[d]
    BY <1>3, <2>1, HandedSame
  <2>3. 0 <= Handed'[c]
    <3>1. Handed'[c] = Handed[c] /\ Handed[c] = fed[c]
      BY <1>3, <2>1, HandedSame DEF Handed
    <3> QED BY <1>1, <3>1
  <2> QED BY <1>1, <1>3, <2>2, <2>3, OrderEnqueue DEF Mark
<1>4. CASE (FeedEnds(c) /\ ~Mark(c)) \/ Join(c)
  <2>1. \A d \in Calls : feeder[d] = "putting" <=> feeder'[d] = "putting"
    BY <1>4 DEF TypeOK, FeedEnds, Join
  <2>2. fed' = fed /\ queue' = queue /\ played' = played
    BY <1>4 DEF FeedEnds, Join
  <2>3. \A d \in Calls : Handed[d] \in Int /\ Handed'[d] \in Int /\ Handed[d] <= Handed'[d]
    BY <2>1, <2>2, HandedSame
  <2> QED BY <2>2, <2>3, OrderQuiet
<1> QED BY <1>2, <1>3, <1>4 DEF Feeding, FeedEnds, MarkResumes

LEMMA OrderDraining ==
  ASSUME TypeOK, TypeOK', InOrder, QueueOrder, NEW c \in Calls, Draining(c)
  PROVE  InOrder' /\ QueueOrder'
<1>1. fed' = fed /\ feeder' = feeder
  BY DEF Draining, DrainGet, DrainPlayed
<1>2. \A d \in Calls : /\ Handed[d] \in Int /\ Handed'[d] \in Int
                       /\ Handed'[d] = Handed[d] /\ Handed[d] <= Handed'[d]
  BY <1>1, HandedSame
<1>3. CASE DrainGet(c)
  <2>1. /\ queue # <<>> /\ queue' = Tail(queue)
        /\ \/ played' = played
           \/ Head(queue).index # 0 /\ played' = Append(played, Head(queue))
    BY <1>3 DEF DrainGet
  <2> QED BY <1>2, <2>1, OrderDequeue
<1>4. CASE DrainPlayed(c)
  BY <1>2, <1>4, OrderQuiet DEF DrainPlayed
<1> QED BY <1>3, <1>4 DEF Draining

LEMMA OrderStep ==
  TypeOK /\ TypeOK' /\ InOrder /\ QueueOrder /\ [Next]_vars => InOrder' /\ QueueOrder'
<1> SUFFICES ASSUME TypeOK, TypeOK', InOrder, QueueOrder, [Next]_vars
             PROVE  InOrder' /\ QueueOrder'
  OBVIOUS
<1> DEFINE Others == /\ fed' = fed /\ queue' = queue /\ played' = played
                     /\ \A d \in Calls : feeder[d] = "putting" <=> feeder'[d] = "putting"
<1>1. ASSUME Others PROVE InOrder' /\ QueueOrder'
  BY <1>1, HandedSame, OrderQuiet
<1>2. ASSUME NEW c \in Calls, Start(c) PROVE Others
  BY <1>2 DEF TypeOK, Start
<1>3. ASSUME NEW c \in Calls, SourceFails(c) PROVE Others
  BY <1>3 DEF TypeOK, SourceFails
<1>4. ASSUME NEW c \in Calls, DeviceFails(c) PROVE Others
  BY <1>4 DEF DeviceFails
<1>5. CASE Interrupt \/ UNCHANGED vars
  BY <1>1, <1>5 DEF Interrupt, vars
<1> HIDE DEF Others
<1> QED BY <1>1, <1>2, <1>3, <1>4, <1>5, OrderFeed, OrderFeeding, OrderDraining DEF Next

-----------------------------------------------------------------------------
(* Drain tasks and end marks.  Without trouble each step adds or takes one  *)
(* of both sides, or moves one between a call and the queue.                *)
LEMMA CallsFinite ==
  /\ IsFiniteSet(Drains) /\ Cardinality(Drains) \in Nat
  /\ IsFiniteSet(Feeders) /\ Cardinality(Feeders) \in Nat
<1>1. IsFiniteSet(Calls)
  BY OutputConstants, FS_Interval DEF Calls
<1>2. Drains \in SUBSET Calls /\ Feeders \in SUBSET Calls
  BY DEF Drains, Feeders
<1> QED BY <1>1, <1>2, FS_Subset, FS_CardinalityType

LEMMA Added ==
  ASSUME NEW S, IsFiniteSet(S), NEW x, x \notin S
  PROVE  Cardinality(S \cup {x}) = Cardinality(S) + 1
  BY FS_AddElement

LEMMA Removed ==
  ASSUME NEW S, IsFiniteSet(S), NEW x, x \in S
  PROVE  Cardinality(S \ {x}) = Cardinality(S) - 1
  BY FS_RemoveElement

LEMMA BalanceInit == Init => MarksMatchDrains /\ Undisturbed
<1> SUFFICES ASSUME Init PROVE MarksMatchDrains /\ Undisturbed
  OBVIOUS
<1>1. Drains = {} /\ Feeders = {} /\ MarksOf(queue) = {}
  BY DEF Init, Drains, Feeders, MarksOf
<1>2. Cardinality({}) = 0
  BY FS_EmptySet
<1>3. MarksMatchDrains
  BY <1>1, <1>2 DEF MarksMatchDrains
<1>4. Undisturbed
  BY DEF Init, Undisturbed
<1> QED BY <1>3, <1>4

LEMMA BalanceStart ==
  ASSUME TypeOK, MarksMatchDrains, Undisturbed, NEW c \in Calls, Start(c)
  PROVE  MarksMatchDrains' /\ Undisturbed'
<1> SUFFICES ASSUME trouble = {} PROVE MarksMatchDrains' /\ Undisturbed'
  BY DEF MarksMatchDrains, Undisturbed, Start
<1>1. c \notin Drains /\ c \notin Feeders
  BY DEF Undisturbed, Start, Drains, Feeders
<1>2. Drains' = Drains \cup {c} /\ Feeders' = Feeders \cup {c}
  BY DEF TypeOK, Start, Drains, Feeders
<1>3. /\ Cardinality(Drains') = Cardinality(Drains) + 1
      /\ Cardinality(Feeders') = Cardinality(Feeders) + 1
  BY <1>1, <1>2, Added, CallsFinite
<1>4. Cardinality(MarksOf(queue)) \in Nat /\ queue' = queue
  BY MarksFinite DEF TypeOK, Start, Item
<1>5. MarksMatchDrains'
  BY <1>3, <1>4, CallsFinite DEF MarksMatchDrains
<1>6. Undisturbed'
  BY DEF TypeOK, Undisturbed, Start
<1> QED BY <1>5, <1>6

LEMMA BalanceFeed ==
  ASSUME TypeOK, MarksMatchDrains, Undisturbed, NEW c \in Calls, Feed(c)
  PROVE  MarksMatchDrains' /\ Undisturbed'
<1> SUFFICES ASSUME trouble = {} PROVE MarksMatchDrains' /\ Undisturbed'
  BY DEF MarksMatchDrains, Undisturbed, Feed
<1>1. Drains' = Drains /\ Feeders' = Feeders
  BY DEF TypeOK, Feed, Drains, Feeders
<1>2. Cardinality(MarksOf(queue')) = Cardinality(MarksOf(queue))
  <2>1. CASE queue' = queue
    BY <2>1
  <2>2. CASE queue' = Append(queue, [call |-> c, index |-> fed[c] + 1])
    <3>1. fed[c] \in Nat /\ fed[c] + 1 \in 0 .. MaxChunks
      BY OutputConstants DEF TypeOK, Feed
    <3>2. [call |-> c, index |-> fed[c] + 1] \in Item /\ queue \in Seq(Item)
      BY <3>1 DEF TypeOK, Item
    <3>3. Cardinality(MarksOf(queue)) \in Nat
      BY <3>2, MarksFinite
    <3> QED BY <2>2, <3>1, <3>2, <3>3, MarksAppended
  <2> QED BY <2>1, <2>2 DEF Feed
<1>3. MarksMatchDrains'
  BY <1>1, <1>2 DEF MarksMatchDrains
<1>4. Undisturbed'
  <2>1. ~interrupt' /\ drain' = drain
    BY DEF Undisturbed, Feed
  <2>2. ASSUME NEW d \in Calls
        PROVE  (feeder'[d] = "idle" <=> feeder[d] = "idle")
               /\ (feeder'[d] = "putting" => fed'[d] # 0)
    <3>1. CASE d = c
      BY <3>1 DEF TypeOK, Undisturbed, Feed
    <3>2. CASE d # c
      BY <3>2 DEF TypeOK, Undisturbed, Feed
    <3> QED BY <3>1, <3>2
  <2> QED BY <2>1, <2>2 DEF Undisturbed
<1> QED BY <1>3, <1>4

LEMMA BalanceFeeding ==
  ASSUME TypeOK, MarksMatchDrains, Undisturbed, NEW c \in Calls, Feeding(c)
  PROVE  MarksMatchDrains' /\ Undisturbed'
<1> SUFFICES ASSUME trouble = {} PROVE MarksMatchDrains' /\ Undisturbed'
  BY DEF MarksMatchDrains, Undisturbed, Feeding, PutResumes, FeedEnds, MarkResumes, Join
<1>1. queue \in Seq(Item) /\ fed[c] \in Nat /\ fed[c] \in 0 .. MaxChunks /\ 0 \in 0 .. MaxChunks
  BY OutputConstants DEF TypeOK, Item
<1>2. Cardinality(MarksOf(queue)) \in Nat
  BY <1>1, MarksFinite
<1>3. CASE PutResumes(c)
  <2>1. Drains' = Drains /\ Feeders' = Feeders
    BY <1>3 DEF TypeOK, PutResumes, Drains, Feeders
  <2>2. fed[c] # 0
    BY <1>3 DEF Undisturbed, PutResumes
  <2>3. [call |-> c, index |-> fed[c]] \in Item
    BY <1>1 DEF Item
  <2>4. Cardinality(MarksOf(queue')) = Cardinality(MarksOf(queue))
    BY <1>1, <1>2, <1>3, <2>2, <2>3, MarksAppended DEF PutResumes
  <2>5. MarksMatchDrains'
    BY <2>1, <2>4 DEF MarksMatchDrains
  <2>6. Undisturbed'
    BY <1>3 DEF TypeOK, Undisturbed, PutResumes
  <2> QED BY <2>5, <2>6
<1>4. CASE /\ feeder[c] \in {"feeding", "marking"} /\ Mark(c)
           /\ UNCHANGED <<interrupt, fed, played, trouble>>
  <2>1. ~interrupt /\ drain' = drain /\ feeder' = [feeder EXCEPT ![c] = "waiting"]
    BY <1>4 DEF Undisturbed, Mark
  <2>2. Drains' = Drains /\ Feeders' = Feeders \ {c} /\ c \in Feeders
    BY <1>4, <2>1 DEF TypeOK, Drains, Feeders
  <2>3. Cardinality(Feeders') = Cardinality(Feeders) - 1
    BY <2>2, Removed, CallsFinite
  <2>4. [call |-> c, index |-> 0] \in Item
    BY <1>1 DEF Item
  <2>5. Cardinality(MarksOf(queue')) = Cardinality(MarksOf(queue)) + 1
    BY <1>1, <1>4, <2>4, MarksAppended DEF Mark
  <2>6. MarksMatchDrains'
    BY <1>2, <2>2, <2>3, <2>5, CallsFinite DEF MarksMatchDrains
  <2>7. Undisturbed'
    BY <1>4, <2>1 DEF TypeOK, Undisturbed
  <2> QED BY <2>6, <2>7
<1>5. CASE (FeedEnds(c) /\ ~Mark(c)) \/ Join(c)
  <2>1. queue' = queue /\ Drains' = Drains /\ Feeders' = Feeders
    BY <1>5 DEF TypeOK, FeedEnds, Join, Drains, Feeders
  <2>2. MarksMatchDrains'
    BY <2>1 DEF MarksMatchDrains
  <2>3. Undisturbed'
    BY <1>5 DEF TypeOK, Undisturbed, FeedEnds, Join
  <2> QED BY <2>2, <2>3
<1> QED BY <1>3, <1>4, <1>5 DEF Feeding, FeedEnds, MarkResumes

LEMMA BalanceDraining ==
  ASSUME TypeOK, MarksMatchDrains, Undisturbed, NEW c \in Calls, Draining(c)
  PROVE  MarksMatchDrains' /\ Undisturbed'
<1> SUFFICES ASSUME trouble = {} PROVE MarksMatchDrains' /\ Undisturbed'
  BY DEF MarksMatchDrains, Undisturbed, Draining, DrainGet, DrainPlayed
<1>1. queue \in Seq(Item)
  BY DEF TypeOK, Item
<1>2. Cardinality(MarksOf(queue)) \in Nat
  BY <1>1, MarksFinite
<1>3. Feeders' = Feeders /\ Undisturbed'
  BY DEF TypeOK, Undisturbed, Draining, DrainGet, DrainPlayed, Feeders
<1>4. CASE DrainGet(c) /\ Head(queue).index = 0
  <2>1. drain' = [drain EXCEPT ![c] = "ended"]
    BY <1>4 DEF DrainGet
  <2>2. Drains' = Drains \ {c} /\ c \in Drains
    BY <1>4, <2>1 DEF TypeOK, DrainGet, Drains
  <2>3. Cardinality(Drains') = Cardinality(Drains) - 1
    BY <2>2, Removed, CallsFinite
  <2>4. Cardinality(MarksOf(queue')) = Cardinality(MarksOf(queue)) - 1
    BY <1>1, <1>4, MarksDequeued DEF DrainGet
  <2> QED BY <1>2, <1>3, <2>3, <2>4, CallsFinite DEF MarksMatchDrains
<1>5. CASE DrainGet(c) /\ Head(queue).index # 0
  <2>1. drain' = [drain EXCEPT ![c] = "playing"]
    BY <1>5 DEF DrainGet, Undisturbed
  <2>2. Drains' = Drains
    BY <1>5, <2>1 DEF TypeOK, DrainGet, Drains
  <2>3. Cardinality(MarksOf(queue')) = Cardinality(MarksOf(queue))
    BY <1>1, <1>2, <1>5, MarksDequeued DEF DrainGet
  <2> QED BY <1>3, <2>2, <2>3 DEF MarksMatchDrains
<1>6. CASE DrainPlayed(c)
  <2>1. Drains' = Drains /\ queue' = queue
    BY <1>6 DEF TypeOK, DrainPlayed, Drains
  <2> QED BY <1>3, <2>1 DEF MarksMatchDrains
<1> QED BY <1>4, <1>5, <1>6 DEF Draining

LEMMA BalanceStep ==
  TypeOK /\ MarksMatchDrains /\ Undisturbed /\ [Next]_vars => MarksMatchDrains' /\ Undisturbed'
<1> SUFFICES ASSUME TypeOK, MarksMatchDrains, Undisturbed, [Next]_vars
             PROVE  MarksMatchDrains' /\ Undisturbed'
  OBVIOUS
<1>1. ASSUME trouble' # {} PROVE MarksMatchDrains' /\ Undisturbed'
  BY <1>1 DEF MarksMatchDrains, Undisturbed
<1>2. ASSUME NEW c \in Calls, SourceFails(c) PROVE trouble' # {}
  BY <1>2 DEF SourceFails
<1>3. ASSUME NEW c \in Calls, DeviceFails(c) PROVE trouble' # {}
  BY <1>3 DEF DeviceFails
<1>4. ASSUME Interrupt PROVE trouble' # {}
  BY <1>4 DEF Interrupt
<1>5. CASE UNCHANGED vars
  BY <1>5 DEF MarksMatchDrains, Undisturbed, Drains, Feeders, vars
<1> QED BY <1>1, <1>2, <1>3, <1>4, <1>5, BalanceStart, BalanceFeed, BalanceFeeding,
           BalanceDraining DEF Next

-----------------------------------------------------------------------------
(* The conjunction is inductive, so it holds in every reachable state. *)
THEOREM Inductive == Spec => []IInv
<1>1. Init => IInv
  BY TypeInit, OrderInit, BalanceInit DEF IInv
<1>2. IInv /\ [Next]_vars => IInv'
  BY TypeStep, OrderStep, BalanceStep DEF IInv
<1> QED BY <1>1, <1>2, PTL DEF Spec

(* The playback queue keeps its bound, and the tasks of every call stay at  *)
(* known suspension points (AudioOutputStream.play_stream).                 *)
THEOREM TypeCorrect == Spec => []TypeOK
<1>1. IInv => TypeOK
  BY DEF IInv
<1> QED BY <1>1, Inductive, PTL

(* The chunks of a call reach the device in order and at most once, with    *)
(* interrupts, device errors, failed sources and tasks they leave behind.   *)
THEOREM ChunksInOrder == Spec => []InOrder
<1>1. IInv => InOrder
  BY DEF IInv
<1> QED BY <1>1, Inductive, PTL

(* While nothing goes wrong, every drain task finds an end mark, however    *)
(* the calls share the queue.                                               *)
THEOREM MarksAndDrains == Spec => []MarksMatchDrains
<1>1. IInv => MarksMatchDrains
  BY DEF IInv
<1> QED BY <1>1, Inductive, PTL

-----------------------------------------------------------------------------
(* Silence.  While nothing has gone wrong, a chunk handed over was played or  *)
(* is in the queue p, q; a chunk in the queue is followed by an end mark or  *)
(* its call, one of those in fs, has still to queue one; and a call returns *)
(* when its drain task has ended.                                           *)
There(c, k, p, q) ==
    \/ \E i \in 1 .. Len(p) : p[i] = [call |-> c, index |-> k]
    \/ \E j \in 1 .. Len(q) : q[j] = [call |-> c, index |-> k]
Marked(q, fs) ==
    \A j \in 1 .. Len(q) : q[j].call \in fs \/ \E m \in j .. Len(q) : q[m].index = 0

Delivered == \A c \in Calls : \A k \in 1 .. Handed[c] : There(c, k, played, queue)
Joined == \A c \in Calls : feeder[c] = "returned" => drain[c] = "ended"
Said == trouble = {} => Delivered /\ Marked(queue, Feeders) /\ Joined

LEMMA QueuedThere ==
  ASSUME NEW p, NEW q \in Seq(Item), NEW e \in Item
  PROVE  /\ \A c, k : There(c, k, p, q) => There(c, k, p, Append(q, e))
         /\ There(e.call, e.index, p, Append(q, e))
         /\ \A fs, gs : Marked(q, fs) /\ e.index = 0 => Marked(Append(q, e), gs)
         /\ \A fs, gs : Marked(q, fs) /\ fs \subseteq gs /\ e.call \in gs => Marked(Append(q, e), gs)
<1> DEFINE r == Append(q, e)
<1>1. /\ Len(q) \in Nat /\ Len(r) = Len(q) + 1 /\ r[Len(q) + 1] = e
      /\ \A k \in 1 .. Len(q) : r[k] = q[k]
  BY Appended
<1> HIDE DEF r
<1>2. /\ \A k \in 1 .. Len(q) : k \in 1 .. Len(r) /\ Len(r) \in k .. Len(r) /\ k .. Len(q) \subseteq k .. Len(r)
      /\ \A k \in 1 .. Len(q) : \A m \in k .. Len(q) : m \in 1 .. Len(q)
      /\ \A k \in 1 .. Len(r) : k \in 1 .. Len(q) \/ k = Len(r)
      /\ Len(r) \in 1 .. Len(r) /\ Len(r) \in Len(r) .. Len(r)
  BY <1>1
<1>3. \A c, k : There(c, k, p, q) => There(c, k, p, r)
  BY <1>1, <1>2 DEF There
<1>4. There(e.call, e.index, p, r)
  <2>1. e = [call |-> e.call, index |-> e.index]
    BY DEF Item
  <2> QED BY <1>1, <1>2, <2>1 DEF There
<1>5. ASSUME NEW fs, NEW gs, Marked(q, fs), e.index = 0 PROVE Marked(r, gs)
  <2>1. \A k \in 1 .. Len(r) : Len(r) \in k .. Len(r)
    BY <1>1
  <2> QED BY <1>1, <1>5, <2>1 DEF Marked
<1>6. ASSUME NEW fs, NEW gs, Marked(q, fs), fs \subseteq gs, e.call \in gs PROVE Marked(r, gs)
  <2> SUFFICES ASSUME NEW j \in 1 .. Len(r)
               PROVE  r[j].call \in gs \/ \E m \in j .. Len(r) : r[m].index = 0
    BY DEF Marked
  <2>1. CASE j \in 1 .. Len(q)
    <3>1. r[j] = q[j] /\ (q[j].call \in fs \/ \E m \in j .. Len(q) : q[m].index = 0)
      BY <1>1, <1>6, <2>1 DEF Marked
    <3>2. \A m \in j .. Len(q) : m \in j .. Len(r) /\ r[m] = q[m]
      BY <1>1, <1>2, <2>1
    <3> QED BY <1>6, <3>1, <3>2
  <2>2. CASE j = Len(r)
    BY <1>1, <1>6, <2>2
  <2> QED BY <1>2, <2>1, <2>2
<1> QED BY <1>3, <1>4, <1>5, <1>6 DEF r

LEMMA TakenThere ==
  ASSUME NEW p \in Seq(Chunk), NEW q \in Seq(Item), q # <<>>
  PROVE  /\ Head(q) \in Item
         /\ Head(q).index # 0 => \A c, k : There(c, k, p, q) => There(c, k, Append(p, Head(q)), Tail(q))
         /\ Head(q).index = 0 => \A c, k : k # 0 /\ There(c, k, p, q) => There(c, k, p, Tail(q))
         /\ \A fs : Marked(q, fs) => Marked(Tail(q), fs)
<1> DEFINE t == Tail(q)
<1>1. /\ Len(q) \in Nat \ {0} /\ Len(t) = Len(q) - 1 /\ Head(q) = q[1] /\ Head(q) \in Item
      /\ \A k \in 1 .. Len(q) - 1 : t[k] = q[k + 1]
  BY Dequeued
<1> HIDE DEF t
<1>2. \A j \in 1 .. Len(q) : j = 1 \/ (j - 1 \in 1 .. Len(t) /\ t[j - 1] = q[j])
  <2> SUFFICES ASSUME NEW j \in 1 .. Len(q), j # 1
               PROVE  j - 1 \in 1 .. Len(t) /\ t[j - 1] = q[j]
    OBVIOUS
  <2>1. j - 1 \in 1 .. Len(q) - 1 /\ (j - 1) + 1 = j
    BY <1>1
  <2> QED BY <1>1, <2>1
<1>3. ASSUME NEW fs, Marked(q, fs) PROVE Marked(t, fs)
  <2> SUFFICES ASSUME NEW j \in 1 .. Len(t)
               PROVE  t[j].call \in fs \/ \E m \in j .. Len(t) : t[m].index = 0
    BY DEF Marked
  <2>1. j + 1 \in 1 .. Len(q) /\ t[j] = q[j + 1] /\ j \in Nat /\ j # 0
    BY <1>1
  <2>2. \A m \in j + 1 .. Len(q) : m \in 1 .. Len(q) /\ m # 1 /\ m - 1 \in j .. Len(t)
    BY <1>1, <2>1
  <2> QED BY SMTT(30), <1>2, <1>3, <2>1, <2>2 DEF Marked
<1>4. ASSUME Head(q).index = 0, NEW c, NEW k, k # 0, There(c, k, p, q) PROVE There(c, k, p, t)
  <2>1. q[1] # [call |-> c, index |-> k]
    BY <1>1, <1>4
  <2> QED BY <1>2, <1>4, <2>1 DEF There
<1>5. ASSUME Head(q).index # 0, NEW c, NEW k, There(c, k, p, q) PROVE There(c, k, Append(p, Head(q)), t)
  <2> DEFINE r == Append(p, Head(q))
  <2>1. Head(q) \in Chunk
    BY <1>1, <1>5 DEF Item, Chunk
  <2>2. /\ Len(p) \in Nat /\ Len(r) = Len(p) + 1 /\ r[Len(p) + 1] = Head(q)
        /\ \A i \in 1 .. Len(p) : r[i] = p[i]
    BY <2>1, Appended
  <2> HIDE DEF r
  <2>3. Len(p) + 1 \in 1 .. Len(r) /\ \A i \in 1 .. Len(p) : i \in 1 .. Len(r)
    BY <2>2
  <2>4. There(c, k, r, t)
    BY <1>1, <1>2, <1>5, <2>2, <2>3 DEF There
  <2> QED BY <2>4 DEF r
<1> QED BY <1>1, <1>3, <1>4, <1>5 DEF t

LEMMA SaidStart ==
  ASSUME TypeOK, TypeOK', Said, trouble = {}, NEW c \in Calls, Start(c)
  PROVE  Said'
<1>1. \A d \in Calls : feeder'[d] = IF d = c THEN "feeding" ELSE feeder[d]
  BY DEF TypeOK, Start
<1>2. \A d \in Calls : Handed'[d] = Handed[d]
  BY <1>1, HandedSame DEF Start
<1>3. Feeders \subseteq Feeders' /\ queue' = queue /\ played' = played
  BY <1>1 DEF Feeders, Start
<1>4. Joined'
  BY <1>1 DEF TypeOK, Said, Joined, Start
<1>5. Delivered'
  BY <1>2, <1>3 DEF Said, Delivered
<1>6. Marked(queue', Feeders')
  BY <1>3 DEF Said, Marked
<1> QED BY <1>4, <1>5, <1>6 DEF Said

(* A call that is still at it hands over the chunk n, or none. *)
LEMMA SaidMore ==
  ASSUME TypeOK, Said, trouble = {}, NEW c \in Feeders, NEW n,
         \/ /\ queue' = queue
            /\ \A d \in Calls : Handed'[d] = Handed[d]
         \/ /\ n \in 0 .. MaxChunks /\ queue' = Append(queue, [call |-> c, index |-> n])
            /\ Handed[c] \in Int /\ Handed'[c] = n /\ n <= Handed[c] + 1
            /\ \A d \in Calls \ {c} : Handed'[d] = Handed[d],
         Feeders' = Feeders, played' = played, Joined'
  PROVE  Said'
<1>1. CASE queue' = queue /\ \A d \in Calls : Handed'[d] = Handed[d]
  <2>1. Delivered' /\ Marked(queue', Feeders')
    BY <1>1 DEF Said, Delivered
  <2> QED BY <2>1 DEF Said
<1>2. CASE /\ n \in 0 .. MaxChunks /\ queue' = Append(queue, [call |-> c, index |-> n])
           /\ Handed[c] \in Int /\ Handed'[c] = n /\ n <= Handed[c] + 1
           /\ \A d \in Calls \ {c} : Handed'[d] = Handed[d]
  <2> DEFINE e == [call |-> c, index |-> n]
  <2>1. e \in Item /\ queue \in Seq(Item) /\ queue' = Append(queue, e) /\ e.call = c /\ e.index = n
    BY <1>2 DEF TypeOK, Item, Feeders
  <2> HIDE DEF e
  <2>2. /\ \A d, k : There(d, k, played, queue) => There(d, k, played, queue')
        /\ There(c, n, played, queue')
        /\ Marked(queue', Feeders)
    BY <2>1, QueuedThere DEF Said
  <2>3. Marked(queue', Feeders')
    BY <2>2
  <2>4. \A k \in 1 .. n : k \in 1 .. Handed[c] \/ k = n
    BY <1>2, OutputConstants
  <2>5. Delivered'
    <3> SUFFICES ASSUME NEW d \in Calls, NEW k \in 1 .. Handed'[d]
                 PROVE  There(d, k, played, queue')
      BY DEF Delivered
    <3>1. CASE d = c
      BY <1>2, <2>2, <2>4, <3>1 DEF Said, Delivered
    <3>2. CASE d # c
      BY <1>2, <2>2, <3>2 DEF Said, Delivered
    <3> QED BY <3>1, <3>2
  <2> QED BY <2>3, <2>5 DEF Said
<1> QED BY <1>1, <1>2

LEMMA SaidFeed ==
  ASSUME TypeOK, TypeOK', Said, trouble = {}, NEW c \in Calls, Feed(c)
  PROVE  Said'
<1>1. fed[c] + 1 \in 0 .. MaxChunks /\ fed[c] \in Nat /\ Handed[c] = fed[c]
  BY OutputConstants DEF TypeOK, Feed, Handed
<1>2. \A d \in Calls : fed[d] \in Int /\ fed'[d] = IF d = c THEN fed[c] + 1 ELSE fed[d]
  BY DEF TypeOK, Feed
<1>3. c \in Feeders /\ Feeders' = Feeders /\ played' = played /\ Joined'
  BY DEF TypeOK, Feed, Feeders, Said, Joined
<1>4. CASE ~Full /\ queue' = Append(queue, [call |-> c, index |-> fed[c] + 1]) /\ UNCHANGED feeder
  <2>1. \A d \in Calls : Handed'[d] = IF d = c THEN fed[c] + 1 ELSE Handed[d]
    BY <1>2, <1>4 DEF Feed, Handed
  <2>2. Handed[c] \in Int /\ Handed'[c] = fed[c] + 1 /\ fed[c] + 1 <= Handed[c] + 1
    BY <1>1, <2>1
  <2>3. \A d \in Calls \ {c} : Handed'[d] = Handed[d]
    BY <2>1
  <2> QED BY <1>1, <1>3, <1>4, <2>2, <2>3, SaidMore
<1>5. CASE feeder' = [feeder EXCEPT ![c] = "putting"] /\ UNCHANGED queue
  <2>1. \A d \in Calls : Handed'[d] = Handed[d]
    <3> SUFFICES ASSUME NEW d \in Calls PROVE Handed'[d] = Handed[d]
      OBVIOUS
    <3>1. feeder'[d] = IF d = c THEN "putting" ELSE feeder[d]
      BY <1>5 DEF TypeOK
    <3> QED BY <1>1, <1>2, <3>1 DEF Handed, Feed
  <2> QED BY <1>3, <1>5, <2>1, SaidMore
<1> QED BY <1>4, <1>5 DEF Feed

LEMMA SaidFeeding ==
  ASSUME TypeOK, TypeOK', Undisturbed, Said, trouble = {}, NEW c \in Calls, Feeding(c)
  PROVE  Said'
<1>1. fed[c] \in 0 .. MaxChunks /\ fed[c] \in Nat /\ 0 \in 0 .. MaxChunks
  BY OutputConstants DEF TypeOK
<1>2. CASE PutResumes(c)
  <2>1. \A d \in Calls : feeder'[d] = IF d = c THEN "feeding" ELSE feeder[d]
    BY <1>2 DEF TypeOK, PutResumes
  <2>2. \A d \in Calls : Handed'[d] = IF d = c THEN fed[c] ELSE Handed[d]
    BY <1>2, <2>1 DEF PutResumes, Handed
  <2>3. Handed[c] = fed[c] - 1
    BY <1>2 DEF PutResumes, Handed
  <2>4. /\ Handed[c] \in Int /\ Handed'[c] = fed[c] /\ fed[c] <= Handed[c] + 1
        /\ \A d \in Calls \ {c} : Handed'[d] = Handed[d]
    BY <1>1, <2>2, <2>3
  <2>5. c \in Feeders /\ Feeders' = Feeders /\ played' = played /\ Joined'
    BY <1>2, <2>1 DEF PutResumes, Feeders, Said, Joined
  <2> QED BY <1>1, <1>2, <2>4, <2>5, SaidMore DEF PutResumes
<1>3. CASE /\ feeder[c] \in {"feeding", "marking"} /\ Mark(c)
           /\ UNCHANGED <<interrupt, fed, played, trouble>>
  <2>1. drain' = drain /\ feeder' = [feeder EXCEPT ![c] = "waiting"]
    BY <1>3 DEF Undisturbed, Mark
  <2>2. \A d \in Calls : feeder'[d] = IF d = c THEN "waiting" ELSE feeder[d]
    BY <2>1 DEF TypeOK
  <2>3. \A d \in Calls : Handed'[d] = Handed[d]
    BY <1>3, <2>2, HandedSame
  <2> DEFINE e == [call |-> c, index |-> 0]
  <2>4. e \in Item /\ queue \in Seq(Item) /\ queue' = Append(queue, e) /\ e.index = 0
    BY <1>1, <1>3 DEF TypeOK, Item, Mark
  <2> HIDE DEF e
  <2>5. /\ \A d, k : There(d, k, played, queue) => There(d, k, played, queue')
        /\ Marked(queue', Feeders')
    BY <2>4, QueuedThere DEF Said
  <2>6. Delivered'
    BY <1>3, <2>3, <2>5 DEF Said, Delivered
  <2>7. Joined'
    BY <2>1, <2>2 DEF Said, Joined
  <2> QED BY <2>5, <2>6, <2>7 DEF Said
<1>4. CASE (FeedEnds(c) /\ ~Mark(c)) \/ Join(c)
  <2>1. \A d \in Calls : feeder[d] = "putting" <=> feeder'[d] = "putting"
    BY <1>4 DEF TypeOK, FeedEnds, Join
  <2>2. fed' = fed /\ queue' = queue /\ played' = played /\ Feeders' = Feeders /\ Joined'
    BY <1>4 DEF TypeOK, FeedEnds, Join, Feeders, Said, Joined
  <2>3. \A d \in Calls : Handed'[d] = Handed[d]
    BY <2>1, <2>2, HandedSame
  <2>4. Delivered' /\ Marked(queue', Feeders')
    BY <2>2, <2>3 DEF Said, Delivered
  <2> QED BY <2>2, <2>4 DEF Said
<1> QED BY <1>2, <1>3, <1>4 DEF Feeding, FeedEnds, MarkResumes

LEMMA SaidDraining ==
  ASSUME TypeOK, TypeOK', Undisturbed, Said, trouble = {}, NEW c \in Calls, Draining(c)
  PROVE  Said'
<1>1. fed' = fed /\ feeder' = feeder /\ Feeders' = Feeders
  BY DEF Draining, DrainGet, DrainPlayed, Feeders
<1>2. \A d \in Calls : Handed'[d] = Handed[d] /\ Handed[d] \in Int
  BY <1>1, HandedSame
<1>3. Joined'
  BY <1>1 DEF TypeOK, Said, Joined, Draining, DrainGet, DrainPlayed
<1>4. CASE DrainGet(c)
  <2>1. played \in Seq(Chunk) /\ queue \in Seq(Item) /\ queue # <<>> /\ queue' = Tail(queue)
    BY <1>4 DEF TypeOK, Item, Chunk, DrainGet
  <2>2. IF Head(queue).index = 0 THEN played' = played ELSE played' = Append(played, Head(queue))
    BY <1>4 DEF DrainGet, Undisturbed
  <2>3. \A d, k : k # 0 /\ There(d, k, played, queue) => There(d, k, played', queue')
    <3>1. CASE Head(queue).index = 0
      <4>1. \A d, k : k # 0 /\ There(d, k, played, queue) => There(d, k, played, Tail(queue))
        BY <2>1, <3>1, TakenThere
      <4>2. played' = played
        BY <2>2, <3>1
      <4> QED BY <2>1, <4>1, <4>2
    <3>2. CASE Head(queue).index # 0
      <4>1. \A d, k : There(d, k, played, queue)
                      => There(d, k, Append(played, Head(queue)), Tail(queue))
        BY <2>1, <3>2, TakenThere
      <4>2. played' = Append(played, Head(queue))
        BY <2>2, <3>2
      <4> QED BY <2>1, <4>1, <4>2
    <3> QED BY <3>1, <3>2
  <2>4. Marked(queue', Feeders')
    BY <1>1, <2>1, TakenThere DEF Said
  <2>5. \A d \in Calls : \A k \in 1 .. Handed[d] : k # 0
    BY <1>2
  <2>6. Delivered'
    <3> SUFFICES ASSUME NEW d \in Calls, NEW k \in 1 .. Handed'[d]
                 PROVE  There(d, k, played', queue')
      BY DEF Delivered
    <3>1. k \in 1 .. Handed[d] /\ k # 0
      BY <1>2, <2>5
    <3>2. There(d, k, played, queue)
      BY <3>1 DEF Said, Delivered
    <3> QED BY <2>3, <3>1, <3>2
  <2> QED BY <1>3, <2>4, <2>6 DEF Said
<1>5. CASE DrainPlayed(c)
  <2>1. queue' = queue /\ played' = played
    BY <1>5 DEF DrainPlayed
  <2>2. Delivered' /\ Marked(queue', Feeders')
    BY <1>1, <1>2, <2>1 DEF Said, Delivered
  <2> QED BY <1>3, <2>2 DEF Said
<1> QED BY <1>4, <1>5 DEF Draining

LEMMA SaidInvariant == Spec => []Said
<1>1. Init => Said
  <2> SUFFICES ASSUME Init PROVE Said
    OBVIOUS
  <2>1. queue = <<>> /\ \A c \in Calls : Handed[c] = 0 /\ feeder[c] = "idle"
    BY DEF Init, Handed
  <2>2. Delivered /\ Marked(queue, Feeders) /\ Joined
    BY <2>1 DEF Delivered, Marked, Joined
  <2> QED BY <2>2 DEF Said
<1>2. IInv /\ IInv' /\ Said /\ [Next]_vars => Said'
  <2> SUFFICES ASSUME IInv, IInv', Said, [Next]_vars PROVE Said'
    OBVIOUS
  <2>1. TypeOK /\ TypeOK' /\ Undisturbed
    BY DEF IInv
  <2>2. CASE trouble' # {}
    BY <2>2 DEF Said
  <2>3. CASE UNCHANGED vars
    BY <2>3 DEF vars, Said, Delivered, Joined, Marked, Feeders, Handed
  <2>4. CASE trouble' = {} /\ Next
    <3>1. trouble = {}
      BY <2>4 DEF Next, Start, Feed, Feeding, PutResumes, FeedEnds, MarkResumes, Join, SourceFails,
                  Draining, DrainGet, DrainPlayed, DeviceFails, Interrupt
    <3>2. \E c \in Calls : Start(c) \/ Feed(c) \/ Feeding(c) \/ Draining(c)
      BY <2>4 DEF Next, SourceFails, DeviceFails, Interrupt
    <3> QED BY <2>1, <3>1, <3>2, SaidStart, SaidFeed, SaidFeeding, SaidDraining
  <2> QED BY <2>2, <2>3, <2>4
<1> QED BY <1>1, <1>2, Inductive, PTL DEF Spec

(* While nothing goes wrong, silence means that all was said: when no call is *)
(* active the playback queue is empty and every chunk that was decoded has  *)
(* been played, for any queue size and any number of calls and chunks.      *)
THEOREM SilenceIsComplete == Spec => []AllIsSaid
<1>1. IInv /\ Said => AllIsSaid
  <2> SUFFICES ASSUME IInv, Said, trouble = {}, \A c \in Calls : ~Active(c)
               PROVE  /\ queue = <<>>
                      /\ \A c \in Calls : \A k \in 1 .. fed[c] :
                           [call |-> c, index |-> k] \in {played[i] : i \in 1 .. Len(played)}
    BY DEF AllIsSaid
  <2>1. \A c \in Calls : feeder[c] \in {"idle", "returned"}
    BY DEF Active
  <2>2. \A c \in Calls : drain[c] \in {"none", "ended"}
    BY <2>1 DEF IInv, Undisturbed, Said, Joined
  <2>3. Drains = {} /\ Feeders = {}
    BY <2>1, <2>2 DEF Drains, Feeders
  <2>4. queue \in Seq(Item)
    BY DEF IInv, TypeOK, Item
  <2>5. MarksOf(queue) = {}
    <3>1. IsFiniteSet(MarksOf(queue)) /\ Cardinality(MarksOf(queue)) \in Nat
      BY <2>4, MarksFinite
    <3>2. Cardinality({}) = 0
      BY FS_EmptySet
    <3>3. Cardinality({}) = Cardinality({}) + Cardinality(MarksOf(queue))
      BY <2>3 DEF IInv, MarksMatchDrains
    <3>4. Cardinality(MarksOf(queue)) = 0
      BY <3>1, <3>2, <3>3
    <3> QED BY <3>1, <3>4, FS_EmptySet
  <2>6. queue = <<>>
    <3>1. SUFFICES ASSUME queue # <<>> PROVE FALSE
      OBVIOUS
    <3>2. Len(queue) \in Nat \ {0}
      BY <2>4, <3>1, Dequeued
    <3>3. 1 \in 1 .. Len(queue) /\ \A m \in 1 .. Len(queue) : queue[m].index # 0
      BY <2>5, <3>2 DEF MarksOf
    <3> QED BY <2>3, <3>3 DEF Said, Marked
  <2>7. ASSUME NEW c \in Calls, NEW k \in 1 .. fed[c]
        PROVE  [call |-> c, index |-> k] \in {played[i] : i \in 1 .. Len(played)}
    <3>1. Handed[c] = fed[c]
      BY <2>1 DEF Handed
    <3>2. There(c, k, played, queue)
      BY <2>7, <3>1 DEF Said, Delivered
    <3>3. Len(queue) = 0
      BY <2>6
    <3> QED BY <3>2, <3>3 DEF There
  <2> QED BY <2>6, <2>7
<1> QED BY <1>1, Inductive, SaidInvariant, PTL
=============================================================================
